-------------------------------- MODULE V8Cache -------------------------------
(***************************************************************************)
(* JSFunctionResultCache as the runtime uses it (runtime.cc): a small      *)
(* array of keys and values with a finger on the entry used last.  A value *)
(* that is not there is made by calling a function, in the course of which *)
(* the cache may be used again, and be cleared by the garbage collector.   *)
(***************************************************************************)
EXTENDS Naturals, Sequences, FiniteSets, FiniteSetsExt, SequencesExt

CONSTANTS Keys,
          Capacity,   \* entries there is room for
          MaxNested,  \* bound on calls of the function within each other
          MaxAnswers  \* bound on the values made

\* GetFromCache reads the entry at the finger without asking whether there is one.
ASSUME CapacityAssumption == Capacity \in Nat \ {0}

\* A key is a value of the program.
ASSUME KeysAssumption == "hole" \notin Keys

VARIABLES entries,  \* at 1..Capacity, a key and its value, or the hole
          size,     \* the entries in use
          finger,   \* the entry used last
          asking,   \* the keys whose values are being made, with the cache as it was read
          answer,   \* the last answer
          values    \* the values made so far

cacheVars == <<entries, size, finger, asking, answer, values>>

Hole == [key |-> "hole", value |-> 0]

CacheInit ==
  /\ entries = [i \in 1..Capacity |-> Hole]
  /\ size = 0 /\ finger = 1
  /\ asking = <<>> /\ answer = Hole /\ values = <<>>

\* The entry with the key: the one at the finger, then down from it to the first, then
\* from the last in use down to the finger.
Find(key) ==
  LET found == {i \in 1..Capacity : entries[i].key = key /\ (i <= finger \/ i <= size)}
      below == {i \in found : i <= finger}
  IN IF found = {} THEN 0 ELSE IF below # {} THEN Max(below) ELSE Max(found)

\* A hit moves the finger; a miss calls the function.
GetFromCache(key) ==
  LET i == Find(key)
  IN IF i # 0
     THEN /\ finger' = i
          /\ answer' = entries[i]
          /\ UNCHANGED <<entries, size, asking, values>>
     ELSE /\ Len(asking) < MaxNested /\ Len(values) < MaxAnswers
          /\ asking' = Append(asking, [key |-> key, size |-> size, finger |-> finger])
          /\ UNCHANGED <<entries, size, finger, answer, values>>

\* Mutant: what was read of the cache before the call is used after it.
RereadNot(ask) == [size |-> ask.size, finger |-> ask.finger]

\* The function may have cleared the cache: its size and finger are read again.
Reread(ask) == [size |-> size, finger |-> finger]

\* The function returns: an entry is added, or the one behind the finger replaced.
CacheResult ==
  /\ asking # <<>>
  /\ LET ask   == Last(asking)
         now   == Reread(ask)
         index == IF now.size < Capacity THEN now.size + 1
                  ELSE IF now.finger = Capacity THEN 1 ELSE now.finger + 1
         entry == [key |-> ask.key, value |-> Len(values) + 1]
     IN /\ values' = Append(values, ask.key)
        /\ entries' = [entries EXCEPT ![index] = entry]
        /\ size' = IF now.size < Capacity THEN now.size + 1 ELSE size
        /\ finger' = index
        /\ answer' = entry
  /\ asking' = Front(asking)

\* It throws: nothing is cached.
CacheException ==
  /\ asking # <<>>
  /\ asking' = Front(asking)
  /\ UNCHANGED <<entries, size, finger, answer, values>>

\* JSFunctionResultCache::Clear, by the garbage collector.
ClearCache ==
  /\ entries' = [i \in 1..Capacity |-> Hole]
  /\ size' = 0 /\ finger' = 1
  /\ UNCHANGED <<asking, answer, values>>

CacheNext ==
  \/ \E key \in Keys : GetFromCache(key)
  \/ CacheResult \/ CacheException \/ ClearCache

CacheSpec == CacheInit /\ [][CacheNext]_cacheVars
-----------------------------------------------------------------------------
\* The entries in use are the first ones, each with a value made for its key, and the
\* finger is on one of them, the one that was answered last unless it has been cleared;
\* no call of the function, whatever it does to the cache, leaves it otherwise.
CacheIsConsistent ==
  /\ \A i \in 1..Capacity : (entries[i] = Hole) = (i > size)
  /\ \A i \in 1..size : values[entries[i].value] = entries[i].key
  /\ answer # Hole => values[answer.value] = answer.key
  /\ finger \in 1..Max({1, size})
  /\ size > 0 => entries[finger] = answer
=============================================================================
