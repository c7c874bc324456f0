------------------------- MODULE ReplayedValuesProofs -------------------------
(***************************************************************************)
(* What is proved of the values that a replay gives to the page: of        *)
(* ReplayData for every set of calls, whatever their policies and pages,   *)
(* and of ReplayClock for all stack traces, values, pages and bounds that  *)
(* satisfy ClockAssumption.                                                *)
(***************************************************************************)
EXTENDS ReplayData, ReplayClock, NumberLemmas, SequenceTheorems, TLAPS

(***************************************************************************)
(* 1. ReplayData: the answers of the wrapper.                              *)
(***************************************************************************)
\* The answers a store has for a call that left its output parameters as they were.
AnswersOf(f, c) == IF <<c, Untouched>> \in DOMAIN f THEN f[<<c, Untouched>>].vals ELSE <<>>

\* The calls that find in the store what was recorded.
Kept(c, changed) == Policy[c] \notin {"unreplayed", "locale"} /\ c \notin changed

StoresAgree ==
  \A c \in Calls :
    /\ Kept(c, filled) => AnswersOf(lists, c) = answered[c]
    /\ Kept(c, saved.filled) => AnswersOf(saved.lists, c) = saved.answered[c]

\* What call c has been told in the replay comes from its list, in order, as far as that goes.
Follows(c) ==
  LET had == AnswersOf(lists, c)
  IN /\ <<c, Untouched>> \in DOMAIN lists =>
          lists[<<c, Untouched>>].index = IF Len(told[c]) <= Len(had) THEN Len(told[c]) ELSE Len(had)
     /\ \A k \in 1..Len(told[c]) : k <= Len(had) => told[c][k] = had[k]
     /\ Policy[c] = "locale" => \A k \in 1..Len(told[c]) : told[c][k] # Aborted

RepliesFollow ==
  /\ wrapperMode = "replaying" => \A c \in Calls : Policy[c] # "unreplayed" => Follows(c)
  /\ wrapperMode # "replaying" => told = NoReplies
  /\ \A c \in Calls : Policy[c] = "unreplayed" =>
       \A k \in 1..Len(told[c]) : told[c][k] # Aborted

\* The inductive invariant.
IInv == DataTypeOK /\ StoresAgree /\ RepliesFollow

LEMMA EntryFacts ==
  ASSUME NEW f, IsStore(f), NEW s \in DOMAIN f
  PROVE  /\ f[s].vals \in Seq(Answers) /\ f[s].vals # <<>> /\ Len(f[s].vals) \in Nat \ {0}
         /\ f[s].index \in Nat /\ f[s].index <= Len(f[s].vals)
         /\ f[s] = [vals |-> f[s].vals, index |-> f[s].index]
         /\ f[s].vals[Len(f[s].vals)] \in Answers
  <1>1. f[s] \in Entry /\ f[s].index <= Len(f[s].vals)
    BY DEF IsStore
  <1>2. f[s].vals \in Seq(Answers) /\ f[s].vals # <<>> /\ f[s].index \in Nat
    BY <1>1 DEF Entry
  <1>3. Len(f[s].vals) \in Nat \ {0}
    BY <1>2, EmptySeq
  <1> QED BY <1>1, <1>2, <1>3, ElementOfSeq DEF Entry

LEMMA AnswersOfType ==
  ASSUME NEW f, IsStore(f), NEW c \in Calls
  PROVE  AnswersOf(f, c) \in Seq(Answers) /\ Len(AnswersOf(f, c)) \in Nat
  BY EntryFacts DEF AnswersOf

\* The key a recorded call has, and that of the same call replayed.
LEMMA SlotFacts ==
  ASSUME NEW c \in Calls, NEW o \in Outputs
  PROVE  /\ Slot(c, o) \in Slots
         /\ Slot(c, Untouched) = <<c, Untouched>>
         /\ \A d \in Calls : d # c => Slot(c, o) # <<d, Untouched>>
         /\ o = Untouched => Slot(c, o) = <<c, Untouched>>
  BY DataAssumption DEF Slot, Slots

\* A new list, or one answer more.
LEMMA AppendType ==
  ASSUME DataTypeOK, NEW s \in Slots, NEW v \in Answers
  PROVE  /\ IsStore(append(s, v))
         /\ \A t \in Slots \ {s} : /\ (t \in DOMAIN append(s, v)) = (t \in DOMAIN lists)
                                   /\ append(s, v)[t] = lists[t] \/ t \notin DOMAIN lists
         /\ s \in DOMAIN append(s, v)
         /\ append(s, v)[s].vals = Append(IF s \in DOMAIN lists THEN lists[s].vals ELSE <<>>, v)
  <1> DEFINE new == append(s, v)
  <1>1. DOMAIN new = DOMAIN lists \cup {s} /\ new = [t \in DOMAIN new |-> new[t]]
    BY DEF append
  <1>2. ASSUME NEW t \in DOMAIN lists, t # s PROVE new[t] = lists[t]
    BY <1>2 DEF append
  <1>3. ASSUME new[s] \in Entry, new[s].index <= Len(new[s].vals) PROVE IsStore(new)
    <2>1. DOMAIN new \subseteq Slots
      BY <1>1 DEF IsStore, DataTypeOK
    <2>2. ASSUME NEW t \in DOMAIN new PROVE new[t] \in Entry /\ new[t].index <= Len(new[t].vals)
      BY <1>1, <1>2, <1>3 DEF IsStore, DataTypeOK
    <2> QED BY <1>1, <2>1, <2>2 DEF IsStore
  <1>4. CASE s \in DOMAIN lists
    <2>1. new[s] = [lists[s] EXCEPT !.vals = Append(@, v)]
      BY <1>4 DEF append
    <2>2. /\ lists[s].vals \in Seq(Answers) /\ lists[s].index \in Nat
          /\ lists[s].index <= Len(lists[s].vals)
          /\ lists[s] = [vals |-> lists[s].vals, index |-> lists[s].index]
      BY <1>4, EntryFacts DEF DataTypeOK
    <2>3. /\ new[s] = [vals |-> Append(lists[s].vals, v), index |-> lists[s].index]
      BY <2>1, <2>2
    <2>4. /\ Append(lists[s].vals, v) \in Seq(Answers) \ {<<>>}
          /\ Len(Append(lists[s].vals, v)) = Len(lists[s].vals) + 1
      BY <2>2
    <2>5. new[s] \in Entry /\ new[s].index <= Len(new[s].vals)
      BY <2>2, <2>3, <2>4 DEF Entry
    <2>6. IsStore(new)
      BY <2>5, <1>3
    <2> QED BY <1>1, <1>2, <1>4, <2>3, <2>6
  <1>5. CASE s \notin DOMAIN lists
    <2>1. new[s] = [vals |-> <<v>>, index |-> 0]
      BY <1>5 DEF append
    <2>2. <<v>> \in Seq(Answers) \ {<<>>} /\ Len(<<v>>) = 1 /\ <<v>> = Append(<<>>, v)
      OBVIOUS
    <2>3. new[s] \in Entry /\ new[s].index <= Len(new[s].vals)
      BY <2>1, <2>2 DEF Entry
    <2>4. IsStore(new)
      BY <2>3, <1>3
    <2> QED BY <1>1, <1>2, <1>5, <2>1, <2>2, <2>4
  <1> QED BY <1>4, <1>5

(***************************************************************************)
(* A recorded call.                                                        *)
(***************************************************************************)
LEMMA RecordedInv ==
  ASSUME IInv, NEW c \in Calls, NEW v \in Answers, NEW o \in Outputs, Recorded(c, v, o)
  PROVE  IInv'
  <1> DEFINE s == Slot(c, o)
  <1>1. /\ wrapperMode = "recording" /\ wrapperMode' = wrapperMode /\ told' = told
        /\ UNCHANGED <<pageCalls, saved, sessions>>
        /\ lists' = append(s, v)
        /\ answered' = [answered EXCEPT ![c] = Append(@, v)]
        /\ filled' = IF o = Untouched THEN filled ELSE filled \cup {c}
    BY DEF Recorded
  <1>2. s \in Slots /\ \A d \in Calls : <<d, Untouched>> \in Slots
    BY SlotFacts, DataAssumption DEF Slots
  <1>3. DataTypeOK'
    <2>1. IsStore(lists')
      BY <1>1, <1>2, AppendType DEF IInv
    <2>2. answered' \in [Calls -> Seq(Answers)]
      BY <1>1 DEF IInv, DataTypeOK
    <2> QED BY <1>1, <2>1, <2>2 DEF IInv, DataTypeOK
  <1>4. ASSUME NEW d \in Calls, Kept(d, filled')
        PROVE  AnswersOf(lists', d) = answered'[d]
    <2>1. Kept(d, filled) /\ AnswersOf(lists, d) = answered[d]
      BY <1>1, <1>4 DEF IInv, StoresAgree, Kept
    <2>2. CASE d # c
      <3>1. <<d, Untouched>> # s
        BY <2>2, SlotFacts
      <3>2. AnswersOf(lists', d) = AnswersOf(lists, d)
        BY <1>1, <1>2, <3>1, AppendType DEF IInv, AnswersOf
      <3> QED BY <1>1, <2>1, <2>2, <3>2 DEF IInv, DataTypeOK
    <2>3. CASE d = c
      <3>1. o = Untouched /\ s = <<c, Untouched>>
        BY <1>1, <1>4, <2>3, SlotFacts DEF Kept
      <3>2. AnswersOf(lists', d) = Append(AnswersOf(lists, d), v)
        BY <1>1, <1>2, <2>3, <3>1, AppendType DEF IInv, AnswersOf
      <3> QED BY <1>1, <2>1, <2>3, <3>2 DEF IInv, DataTypeOK
    <2> QED BY <2>2, <2>3
  <1>5. StoresAgree'
    BY <1>1, <1>4 DEF IInv, StoresAgree
  <1>6. RepliesFollow'
    BY <1>1 DEF IInv, RepliesFollow
  <1> QED BY <1>3, <1>5, <1>6 DEF IInv

(***************************************************************************)
(* A replayed call.                                                        *)
(***************************************************************************)

\* The reply is the next answer, if the list has one that is replayed.
LEMMA ReplyFacts ==
  ASSUME IInv, NEW c \in Calls, NEW real \in Answers, Follows(c), Policy[c] # "unreplayed"
  PROVE  LET had == AnswersOf(lists, c)
             n   == Len(told[c])
             r   == Reply(c, <<c, Untouched>>, real)
         IN /\ HasNext(<<c, Untouched>>) = (n < Len(had))
            /\ n < Len(had) => r = had[n + 1]
            /\ r \in Replies
            /\ Policy[c] = "locale" => r # Aborted
  <1> DEFINE s == <<c, Untouched>>
             had == AnswersOf(lists, c)
             n == Len(told[c])
             r == Reply(c, s, real)
  <1>1. n \in Nat /\ had \in Seq(Answers) /\ Len(had) \in Nat
    BY AnswersOfType DEF IInv, DataTypeOK
  <1>2. ASSUME s \in DOMAIN lists
        PROVE  /\ had = lists[s].vals /\ had # <<>> /\ had[Len(had)] \in Answers
               /\ lists[s].index = IF n <= Len(had) THEN n ELSE Len(had)
    BY <1>2, EntryFacts DEF AnswersOf, IInv, DataTypeOK, Follows
  <1>3. HasNext(s) = (n < Len(had))
    <2>1. CASE s \in DOMAIN lists
      BY <1>1, <1>2, <2>1 DEF HasNext
    <2>2. CASE s \notin DOMAIN lists
      BY <1>1, <2>2 DEF HasNext, AnswersOf
    <2> QED BY <2>1, <2>2
  <1>4. ASSUME n < Len(had) PROVE r = had[n + 1] /\ r \in Answers
    <2>1. s \in DOMAIN lists
      BY <1>1, <1>4 DEF AnswersOf
    <2>2. r = lists[s].vals[lists[s].index + 1]
      BY <1>3, <1>4 DEF Reply, Next_
    <2>3. n + 1 \in 1..Len(had)
      BY <1>1, <1>4
    <2> QED BY <1>1, <1>2, <1>4, <2>1, <2>2, <2>3, ElementOfSeq
  <1>5. ASSUME ~(n < Len(had))
        PROVE  r \in Replies /\ (Policy[c] = "locale" => r # Aborted)
    <2>1. r = Exhausted(c, s, real)
      BY <1>3, <1>5 DEF Reply
    <2>2. Policy[c] \in Policies
      BY DataAssumption
    <2>3. s \in DOMAIN lists => last(s) \in Answers
      BY <1>2 DEF last
    <2>4. Answers \subseteq Nat \ {0}
      BY DataAssumption
    <2>5. CASE Policy[c] \in {"asserted", "outputs"}
      BY <2>1, <2>5 DEF Exhausted, Replies
    <2>6. CASE Policy[c] = "default"
      BY <2>1, <2>3, <2>6 DEF Exhausted, Replies
    <2>7. CASE Policy[c] = "latest"
      BY <2>1, <2>3, <2>7 DEF Exhausted, Replies
    <2>8. CASE Policy[c] = "locale"
      BY <2>1, <2>3, <2>4, <2>8 DEF Exhausted, Replies, Aborted
    <2>9. CASE Policy[c] = "filled"
      BY <2>1, <2>9 DEF Exhausted, Replies
    <2> QED BY <2>2, <2>5, <2>6, <2>7, <2>8, <2>9 DEF Policies
  <1>6. Answers \subseteq Replies /\ Aborted \notin Answers
    BY DataAssumption DEF Replies, Aborted
  <1> QED BY <1>3, <1>4, <1>5, <1>6

\* Taking an answer moves the index of one list.
LEMMA TakeFacts ==
  ASSUME IInv, NEW s \in Slots
  PROVE  /\ IsStore(Take(s))
         /\ \A d \in Calls : AnswersOf(Take(s), d) = AnswersOf(lists, d)
         /\ DOMAIN Take(s) = DOMAIN lists
         /\ \A t \in DOMAIN lists :
              Take(s)[t].index = IF t = s /\ HasNext(s) THEN lists[t].index + 1 ELSE lists[t].index
  <1>1. CASE ~HasNext(s)
    BY <1>1 DEF Take, IInv, DataTypeOK
  <1>2. CASE HasNext(s)
    <2>1. s \in DOMAIN lists /\ lists[s].index < Len(lists[s].vals)
      BY <1>2 DEF HasNext
    <2>2. Take(s) = [lists EXCEPT ![s].index = @ + 1]
      BY <1>2 DEF Take
    <2>3. /\ lists[s] = [vals |-> lists[s].vals, index |-> lists[s].index]
          /\ lists[s].vals \in Seq(Answers) \ {<<>>} /\ lists[s].index \in Nat
          /\ Len(lists[s].vals) \in Nat
      BY <2>1, EntryFacts DEF IInv, DataTypeOK
    <2>4. lists = [t \in DOMAIN lists |-> lists[t]]
      BY DEF IInv, DataTypeOK, IsStore
    <2>5. /\ DOMAIN Take(s) = DOMAIN lists
          /\ Take(s) = [t \in DOMAIN Take(s) |-> Take(s)[t]]
          /\ \A t \in DOMAIN lists : t # s => Take(s)[t] = lists[t]
          /\ Take(s)[s] = [lists[s] EXCEPT !.index = @ + 1]
      BY <2>1, <2>2, <2>4
    <2>6. Take(s)[s] = [vals |-> lists[s].vals, index |-> lists[s].index + 1]
      BY <2>3, <2>5
    <2>7. Take(s)[s] \in Entry /\ Take(s)[s].index <= Len(Take(s)[s].vals)
      BY <2>1, <2>3, <2>6 DEF Entry
    <2>8. IsStore(Take(s))
      <3>1. DOMAIN Take(s) \subseteq Slots
        BY <2>5 DEF IInv, DataTypeOK, IsStore
      <3>2. ASSUME NEW t \in DOMAIN Take(s)
            PROVE  Take(s)[t] \in Entry /\ Take(s)[t].index <= Len(Take(s)[t].vals)
        BY <2>5, <2>7 DEF IInv, DataTypeOK, IsStore
      <3> QED BY <2>5, <3>1, <3>2 DEF IsStore
    <2>9. \A d \in Calls : AnswersOf(Take(s), d) = AnswersOf(lists, d)
      BY <2>5, <2>6 DEF AnswersOf
    <2> QED BY <1>2, <2>5, <2>6, <2>8, <2>9
  <1> QED BY <1>1, <1>2

LEMMA ReplayedInv ==
  ASSUME IInv, NEW c \in Calls, NEW real \in Answers, Replayed(c, real)
  PROVE  IInv'
  <1> DEFINE s == <<c, Untouched>>
             r == Reply(c, s, real)
             n == Len(told[c])
  <1>1. /\ wrapperMode = "replaying"
        /\ UNCHANGED <<wrapperMode, pageCalls, saved, sessions, answered, filled>>
        /\ told' = [told EXCEPT ![c] = Append(@, r)]
        /\ lists' = IF Policy[c] = "unreplayed" THEN lists ELSE Take(s)
    BY SlotFacts, DataAssumption DEF Replayed
  <1>2. /\ told \in [Calls -> Seq(Replies)] /\ told[c] \in Seq(Replies) /\ n \in Nat
        /\ s \in Slots /\ \A d \in Calls : d # c => <<d, Untouched>> # s
    BY DataAssumption DEF IInv, DataTypeOK, Slots
  <1>3. /\ \A d \in Calls : d # c => told'[d] = told[d]
        /\ told'[c] = Append(told[c], r) /\ Len(told'[c]) = n + 1 /\ told'[c][n + 1] = r
        /\ \A k \in 1..n : told'[c][k] = told[c][k]
    BY <1>1, <1>2
  <1>4. CASE Policy[c] = "unreplayed"
    <2>1. r = 0
      BY <1>4 DEF Reply, Exhausted
    <2>2. lists' = lists
      BY <1>1, <1>4
    <2>3. DataTypeOK'
      <3>1. Append(told[c], r) \in Seq(Replies)
        BY <1>2, <2>1 DEF Replies
      <3>2. told' \in [Calls -> Seq(Replies)]
        BY <1>1, <1>2, <3>1
      <3> QED BY <1>1, <2>2, <3>2 DEF IInv, DataTypeOK
    <2>4. StoresAgree'
      BY <1>1, <2>2 DEF IInv, StoresAgree
    <2>5. \A d \in Calls : Policy[d] # "unreplayed" => Follows(d)'
      BY <1>1, <1>3, <1>4, <2>2 DEF IInv, RepliesFollow, Follows
    <2>6. ASSUME NEW d \in Calls, Policy[d] = "unreplayed", NEW k \in 1..Len(told'[d])
          PROVE  told'[d][k] # Aborted
      <3>1. CASE d # c
        BY <1>3, <2>6, <3>1 DEF IInv, RepliesFollow
      <3>2. CASE d = c
        <4>1. \A i \in 1..n : told'[c][i] # Aborted
          BY <1>3, <1>4 DEF IInv, RepliesFollow
        <4>2. told'[c][n + 1] # Aborted
          BY <1>3, <2>1 DEF Aborted
        <4>3. k \in 1..n \/ k = n + 1
          BY <1>2, <1>3, <2>6, <3>2
        <4> QED BY <3>2, <4>1, <4>2, <4>3
      <3> QED BY <3>1, <3>2
    <2> QED BY <1>1, <2>3, <2>4, <2>5, <2>6 DEF IInv, RepliesFollow
  <1>5. CASE Policy[c] # "unreplayed"
    <2> DEFINE had == AnswersOf(lists, c)
    <2>1. Follows(c) /\ had \in Seq(Answers) /\ Len(had) \in Nat
      BY <1>1, <1>5, AnswersOfType DEF IInv, DataTypeOK, RepliesFollow
    <2>2. /\ HasNext(s) = (n < Len(had)) /\ r \in Replies
          /\ n < Len(had) => r = had[n + 1]
          /\ Policy[c] = "locale" => r # Aborted
      BY <1>5, <2>1, ReplyFacts
    <2>3. /\ lists' = Take(s)
          /\ IsStore(lists') /\ DOMAIN lists' = DOMAIN lists
          /\ \A d \in Calls : AnswersOf(lists', d) = AnswersOf(lists, d)
          /\ \A t \in DOMAIN lists :
               lists'[t].index = IF t = s /\ HasNext(s) THEN lists[t].index + 1 ELSE lists[t].index
      BY <1>1, <1>2, <1>5, TakeFacts
    <2>4. DataTypeOK'
      <3>1. Append(told[c], r) \in Seq(Replies)
        BY <1>2, <2>2
      <3>2. told' \in [Calls -> Seq(Replies)]
        BY <1>1, <1>2, <3>1
      <3> QED BY <1>1, <2>3, <3>2 DEF IInv, DataTypeOK
    <2>5. StoresAgree'
      BY <1>1, <2>3 DEF IInv, StoresAgree
    <2>6. ASSUME NEW d \in Calls, d # c, Policy[d] # "unreplayed" PROVE Follows(d)'
      <3>1. Follows(d) /\ told'[d] = told[d] /\ AnswersOf(lists', d) = AnswersOf(lists, d)
        BY <1>1, <1>3, <2>3, <2>6 DEF IInv, RepliesFollow
      <3>2. <<d, Untouched>> \in DOMAIN lists' =>
              <<d, Untouched>> \in DOMAIN lists /\ lists'[<<d, Untouched>>].index = lists[<<d, Untouched>>].index
        BY <1>2, <2>3, <2>6
      <3> QED BY <3>1, <3>2 DEF Follows
    <2>7. Follows(c)'
      <3>1. s \in DOMAIN lists' =>
              lists'[s].index = IF n + 1 <= Len(had) THEN n + 1 ELSE Len(had)
        <4>1. s \in DOMAIN lists => lists[s].index = IF n <= Len(had) THEN n ELSE Len(had)
          BY <2>1 DEF Follows
        <4>2. s \in DOMAIN lists' =>
                lists'[s].index = IF n < Len(had) THEN lists[s].index + 1 ELSE lists[s].index
          BY <2>2, <2>3
        <4>3. DOMAIN lists' = DOMAIN lists /\ n \in Nat /\ Len(had) \in Nat
          BY <1>2, <2>1, <2>3
        <4> HIDE DEF had, n
        <4> QED BY <4>1, <4>2, <4>3
      <3>2. ASSUME NEW k \in 1..(n + 1) PROVE k <= Len(had) => told'[c][k] = had[k]
        BY <1>2, <1>3, <2>1, <2>2 DEF Follows
      <3>3. ASSUME Policy[c] = "locale", NEW k \in 1..(n + 1) PROVE told'[c][k] # Aborted
        BY <1>2, <1>3, <2>1, <2>2, <3>3 DEF Follows
      <3> QED BY <1>3, <2>3, <3>1, <3>2, <3>3 DEF Follows
    <2>8. ASSUME NEW d \in Calls, Policy[d] = "unreplayed", NEW k \in 1..Len(told'[d])
          PROVE  told'[d][k] # Aborted
      BY <1>3, <1>5, <2>8 DEF IInv, RepliesFollow
    <2> QED BY <1>1, <2>4, <2>5, <2>6, <2>7, <2>8 DEF IInv, RepliesFollow
  <1> QED BY <1>4, <1>5

(***************************************************************************)
(* Changes of the mode and of the whole store.                             *)
(***************************************************************************)
LEMMA NothingTold ==
  /\ NoReplies \in [Calls -> Seq(Answers)] /\ NoReplies \in [Calls -> Seq(Replies)]
  /\ \A c \in Calls : NoReplies[c] = <<>> /\ Len(NoReplies[c]) = 0
  BY DEF NoReplies

\* Reset and Copy: the answers from the first one on.
LEMMA FromTheFirst ==
  ASSUME IInv, NEW f, f = [s \in DOMAIN lists |-> [lists[s] EXCEPT !.index = 0]]
  PROVE  /\ IsStore(f) /\ DOMAIN f = DOMAIN lists
         /\ \A c \in Calls : AnswersOf(f, c) = AnswersOf(lists, c)
         /\ \A s \in DOMAIN f : f[s].index = 0
  <1>1. DOMAIN f = DOMAIN lists /\ f = [s \in DOMAIN f |-> f[s]] /\ DOMAIN f \subseteq Slots
    BY DEF IInv, DataTypeOK, IsStore
  <1>2. ASSUME NEW s \in DOMAIN f
        PROVE  /\ f[s].vals = lists[s].vals /\ f[s].index = 0
               /\ f[s] \in Entry /\ f[s].index <= Len(f[s].vals)
    <2>1. /\ lists[s] = [vals |-> lists[s].vals, index |-> lists[s].index]
          /\ lists[s].vals \in Seq(Answers) \ {<<>>} /\ Len(lists[s].vals) \in Nat
      BY <1>1, EntryFacts DEF IInv, DataTypeOK
    <2>2. f[s] = [vals |-> lists[s].vals, index |-> 0]
      BY <1>1, <2>1
    <2> QED BY <2>1, <2>2 DEF Entry
  <1>3. IsStore(f)
    BY <1>1, <1>2 DEF IsStore
  <1>4. \A c \in Calls : AnswersOf(f, c) = AnswersOf(lists, c)
    BY <1>1, <1>2 DEF AnswersOf
  <1> QED BY <1>1, <1>2, <1>3, <1>4

LEMMA StartRecordingInv ==
  ASSUME IInv, StartRecordingAnswers
  PROVE  IInv'
  <1>1. /\ wrapperMode # "replaying" /\ wrapperMode' = "recording" /\ lists' = Clear
        /\ answered' = NoReplies /\ filled' = {} /\ UNCHANGED <<pageCalls, saved, told>>
    BY DEF StartRecordingAnswers
  <1>2. sessions' \in 0..MaxSessions
    BY DataAssumption DEF StartRecordingAnswers, IInv, DataTypeOK
  <1>3. /\ DOMAIN Clear = {t \in DOMAIN lists : Policy[t[1]] = "locale"}
        /\ Clear = [t \in DOMAIN Clear |-> Clear[t]]
        /\ \A t \in DOMAIN Clear : Clear[t] = lists[t]
    BY DEF Clear
  <1>4. IsStore(Clear)
    BY <1>3 DEF IInv, DataTypeOK, IsStore
  <1>5. DataTypeOK'
    BY <1>1, <1>2, <1>4, NothingTold DEF IInv, DataTypeOK
  <1>6. ASSUME NEW c \in Calls, Kept(c, filled') PROVE AnswersOf(lists', c) = answered'[c]
    <2>1. <<c, Untouched>> \notin DOMAIN Clear
      BY <1>3, <1>6 DEF Kept
    <2> QED BY <1>1, <2>1, NothingTold DEF AnswersOf
  <1>7. StoresAgree'
    BY <1>1, <1>6 DEF IInv, StoresAgree
  <1>8. RepliesFollow'
    BY <1>1 DEF IInv, RepliesFollow
  <1> QED BY <1>5, <1>7, <1>8 DEF IInv

LEMMA StartReplayInv ==
  ASSUME IInv, StartReplayingAnswers
  PROVE  IInv'
  <1>1. /\ wrapperMode' = "replaying" /\ lists' = Reset /\ told' = NoReplies
        /\ UNCHANGED <<pageCalls, saved, answered, filled>>
    BY DEF StartReplayingAnswers
  <1>2. sessions' \in 0..MaxSessions
    BY DataAssumption DEF StartReplayingAnswers, IInv, DataTypeOK
  <1>3. /\ IsStore(lists')
        /\ \A c \in Calls : AnswersOf(lists', c) = AnswersOf(lists, c)
        /\ \A s \in DOMAIN lists' : lists'[s].index = 0
    BY <1>1, FromTheFirst DEF Reset
  <1>4. DataTypeOK'
    BY <1>1, <1>2, <1>3, NothingTold DEF IInv, DataTypeOK
  <1>5. StoresAgree'
    BY <1>1, <1>3 DEF IInv, StoresAgree
  <1>6. ASSUME NEW c \in Calls PROVE Follows(c)'
    <2>1. told'[c] = <<>> /\ Len(told'[c]) = 0 /\ Len(AnswersOf(lists', c)) \in Nat
      BY <1>1, <1>3, NothingTold, AnswersOfType
    <2> QED BY <1>3, <2>1 DEF Follows
  <1>7. RepliesFollow'
    BY <1>1, <1>6, NothingTold DEF RepliesFollow
  <1> QED BY <1>4, <1>5, <1>7 DEF IInv

LEMMA StopInv ==
  ASSUME IInv, Stop
  PROVE  IInv'
  <1>1. /\ wrapperMode' = "off" /\ told' = NoReplies
        /\ UNCHANGED <<pageCalls, lists, saved, sessions, answered, filled>>
    BY DEF Stop
  <1>2. DataTypeOK' /\ StoresAgree'
    BY <1>1, NothingTold DEF IInv, DataTypeOK, StoresAgree
  <1>3. RepliesFollow'
    BY <1>1, NothingTold DEF RepliesFollow
  <1> QED BY <1>2, <1>3 DEF IInv

LEMMA DumpInv ==
  ASSUME IInv, Dump
  PROVE  IInv'
  <1>1. /\ wrapperMode = "off" /\ saved'.lists = Copy /\ saved'.answered = answered /\ saved'.filled = filled
        /\ UNCHANGED <<wrapperMode, pageCalls, lists, sessions, answered, filled, told>>
    BY DEF Dump
  <1>2. IsStore(Copy) /\ \A c \in Calls : AnswersOf(Copy, c) = AnswersOf(lists, c)
    BY FromTheFirst DEF Copy
  <1>3. DataTypeOK'
    BY <1>1, <1>2 DEF IInv, DataTypeOK
  <1>4. StoresAgree'
    BY <1>1, <1>2 DEF IInv, StoresAgree
  <1>5. RepliesFollow'
    BY <1>1 DEF IInv, RepliesFollow
  <1> QED BY <1>3, <1>4, <1>5 DEF IInv

LEMMA LoadInv ==
  ASSUME IInv, Load
  PROVE  IInv'
  <1>1. /\ wrapperMode = "off" /\ lists' = saved.lists /\ answered' = saved.answered /\ filled' = saved.filled
        /\ UNCHANGED <<wrapperMode, pageCalls, saved, sessions, told>>
    BY DEF Load
  <1>2. DataTypeOK'
    BY <1>1 DEF IInv, DataTypeOK
  <1>3. StoresAgree'
    BY <1>1 DEF IInv, StoresAgree
  <1>4. RepliesFollow'
    BY <1>1 DEF IInv, RepliesFollow
  <1> QED BY <1>2, <1>3, <1>4 DEF IInv

LEMMA InitInv == DataInit => IInv
  <1> SUFFICES ASSUME DataInit PROVE IInv
    OBVIOUS
  <1>1. IsStore(NoLists) /\ \A c \in Calls : AnswersOf(NoLists, c) = <<>>
    BY DEF NoLists, IsStore, AnswersOf
  <1>2. /\ wrapperMode = "off" /\ pageCalls \in CallSets /\ sessions = 0
        /\ lists = NoLists /\ saved.lists = NoLists
        /\ answered = NoReplies /\ saved.answered = NoReplies /\ told = NoReplies
        /\ filled = {} /\ saved.filled = {}
    BY DEF DataInit, NothingSaved
  <1>3. DataTypeOK
    BY <1>1, <1>2, NothingTold, DataAssumption DEF DataTypeOK
  <1>4. StoresAgree
    BY <1>1, <1>2, NothingTold DEF StoresAgree
  <1>5. RepliesFollow
    BY <1>2, NothingTold DEF RepliesFollow
  <1> QED BY <1>3, <1>4, <1>5 DEF IInv

LEMMA StepInv == IInv /\ [DataNext]_dataVars => IInv'
  <1> SUFFICES ASSUME IInv, [DataNext]_dataVars PROVE IInv'
    OBVIOUS
  <1>1. ASSUME NEW c \in Calls, NEW v \in Answers, NEW o \in Outputs, Recorded(c, v, o) PROVE IInv'
    BY <1>1, RecordedInv
  <1>2. ASSUME NEW c \in Calls, NEW v \in Answers, Replayed(c, v) PROVE IInv'
    BY <1>2, ReplayedInv
  <1>3. CASE StartRecordingAnswers
    BY <1>3, StartRecordingInv
  <1>4. CASE StartReplayingAnswers
    BY <1>4, StartReplayInv
  <1>5. CASE Stop
    BY <1>5, StopInv
  <1>6. CASE Dump
    BY <1>6, DumpInv
  <1>7. CASE Load
    BY <1>7, LoadInv
  <1>8. CASE UNCHANGED dataVars
    BY <1>8 DEF dataVars, IInv, DataTypeOK, StoresAgree, RepliesFollow, Follows
  <1> QED BY <1>1, <1>2, <1>3, <1>4, <1>5, <1>6, <1>7, <1>8 DEF DataNext

\* The store, the replies and the file keep their types.
THEOREM TypeCorrect == DataSpec => []DataTypeOK
  <1>1. IInv => DataTypeOK
    BY DEF IInv
  <1> QED BY InitInv, StepInv, <1>1, PTL DEF DataSpec

\* A replayed page is told what the recorded page was told.
THEOREM ReadsAlwaysFaithful == DataSpec => []ReadsAreFaithful
  <1>1. ASSUME IInv PROVE ReadsAreFaithful
    <2>1. SUFFICES ASSUME wrapperMode = "replaying", NEW c \in Calls,
                          NEW k \in DOMAIN told[c] \cap DOMAIN answered[c],
                          Policy[c] \notin {"unreplayed", "locale"}, c \notin filled
                   PROVE  told[c][k] = answered[c][k]
      BY DEF ReadsAreFaithful
    <2>2. AnswersOf(lists, c) = answered[c] /\ Follows(c)
      BY <1>1, <2>1 DEF IInv, StoresAgree, Kept, RepliesFollow
    <2>3. k \in 1..Len(told[c]) /\ k <= Len(answered[c])
      BY <1>1, <2>1 DEF IInv, DataTypeOK
    <2> QED BY <2>2, <2>3 DEF Follows
  <1> QED BY InitInv, StepInv, <1>1, PTL DEF DataSpec

\* A replay is aborted only where it asks for more than was recorded.
THEOREM AbortsAlwaysOnExcess == DataSpec => []AbortsOnlyOnExcess
  <1>1. ASSUME IInv PROVE AbortsOnlyOnExcess
    <2>1. SUFFICES ASSUME NEW c \in Calls, NEW k \in DOMAIN told[c], told[c][k] = Aborted
                   PROVE  k > Len(answered[c]) \/ c \in filled
      BY DEF AbortsOnlyOnExcess
    <2>2. k \in 1..Len(told[c]) /\ Len(answered[c]) \in Nat /\ answered[c] \in Seq(Answers)
      BY <1>1, <2>1 DEF IInv, DataTypeOK
    <2>3. wrapperMode = "replaying" /\ Policy[c] # "unreplayed" /\ Follows(c)
      <3>1. wrapperMode = "replaying"
        BY <1>1, <2>2, NothingTold DEF IInv, RepliesFollow
      <3>2. Policy[c] # "unreplayed"
        BY <1>1, <2>1, <2>2 DEF IInv, RepliesFollow
      <3> QED BY <1>1, <3>1, <3>2 DEF IInv, RepliesFollow
    <2>4. Policy[c] # "locale"
      BY <2>1, <2>2, <2>3 DEF Follows
    <2>5. CASE c \notin filled
      <3>1. AnswersOf(lists, c) = answered[c]
        BY <1>1, <2>3, <2>4, <2>5 DEF IInv, StoresAgree, Kept
      <3>2. ASSUME k <= Len(answered[c]) PROVE FALSE
        <4>1. told[c][k] = answered[c][k] /\ k \in 1..Len(answered[c])
          BY <2>2, <2>3, <3>1, <3>2 DEF Follows
        <4>2. answered[c][k] \in Answers
          BY <2>2, <4>1, ElementOfSeq
        <4> QED BY <2>1, <4>1, <4>2, DataAssumption DEF Aborted
      <3> QED BY <2>2, <3>2
    <2> QED BY <2>5
  <1> QED BY InitInv, StepInv, <1>1, PTL DEF DataSpec

-----------------------------------------------------------------------------
(***************************************************************************)
(* 2. ReplayClock: dates, random numbers and Blink's clock.                *)
(***************************************************************************)
\* A map seen from trace t: its values and how many of them were replayed.
Vals(m, t)  == IF t \in DOMAIN m THEN m[t].vals ELSE <<>>
Index(m, t) == IF t \in DOMAIN m THEN m[t].index ELSE 0

\* The values of trace t in a file.
Dumped(d, t) == IF t \in DOMAIN d THEN d[t] ELSE <<>>

IsDump(d, S) == DOMAIN d \subseteq Traces /\ \A t \in DOMAIN d : d[t] \in Seq(S)

\* What was told to a recorded page.
Originals == [dates : [Traces -> Seq(Instants)], rands : [Traces -> Seq(Randoms)]]

FileOK ==
  /\ IsDump(file.times, Instants) /\ IsDump(file.rands, Randoms)
  /\ file.readings \in Seq(Instants) /\ file.recordStart \in Instants
  /\ file.original \in Originals

\* The types of all variables, the histories and the file among them.
TypeInv ==
  /\ TypeOK
  /\ FileOK
  /\ original \in Originals
  /\ seen \in [Traces -> Seq(Int)] /\ drawn \in [Traces -> Seq(Randoms)] /\ shown \in Int
-----------------------------------------------------------------------------
(***************************************************************************)
(* The operations on lists by stack trace.                                 *)
(***************************************************************************)
LEMMA MapTypes ==
  ASSUME NEW S, NEW m, IsListMap(m, S), NEW t \in Traces
  PROVE  /\ Vals(m, t) \in Seq(S) /\ Len(Vals(m, t)) \in Nat
         /\ Index(m, t) \in Nat /\ Index(m, t) <= Len(Vals(m, t))
         /\ Left(m, t) = Len(Vals(m, t)) - Index(m, t) /\ Left(m, t) \in Nat
         /\ t \in DOMAIN m => m[t] = [vals |-> Vals(m, t), index |-> Index(m, t)]
  <1>1. CASE t \in DOMAIN m
    <2>1. m[t] \in [vals : Seq(S), index : Nat] /\ m[t].index <= Len(m[t].vals)
      BY <1>1 DEF IsListMap
    <2>2. m[t].vals \in Seq(S) /\ m[t].index \in Nat /\ m[t] = [vals |-> m[t].vals, index |-> m[t].index]
      BY <2>1
    <2>3. Len(m[t].vals) \in Nat
      BY <2>2
    <2> QED BY <1>1, <2>1, <2>2, <2>3 DEF Vals, Index, Left
  <1>2. CASE t \notin DOMAIN m
    BY <1>2 DEF Vals, Index, Left
  <1> QED BY <1>1, <1>2

\* The lists v, replayed up to n, of the traces in D; a map of them; what it is then.
AreLists(D, v, n, S) ==
  /\ D \subseteq Traces
  /\ \A t \in D : v[t] \in Seq(S) /\ n[t] \in Nat /\ n[t] <= Len(v[t])

MapsTo(m, D, v, n) == m = [t \in D |-> [vals |-> v[t], index |-> n[t]]]

IsMapOf(m, D, v, n, S) ==
  /\ IsListMap(m, S)
  /\ \A t \in Traces : /\ Vals(m, t) = IF t \in D THEN v[t] ELSE <<>>
                       /\ Index(m, t) = IF t \in D THEN n[t] ELSE 0

LEMMA IsMap ==
  ASSUME NEW S, NEW D, NEW v, NEW n, AreLists(D, v, n, S), NEW m, MapsTo(m, D, v, n)
  PROVE  IsMapOf(m, D, v, n, S)
  <1>1. DOMAIN m = D /\ m = [t \in DOMAIN m |-> m[t]]
    BY DEF MapsTo
  <1>2. ASSUME NEW t \in D
        PROVE  /\ m[t] \in [vals : Seq(S), index : Nat] /\ m[t].index <= Len(m[t].vals)
               /\ m[t].vals = v[t] /\ m[t].index = n[t]
    <2>1. m[t] = [vals |-> v[t], index |-> n[t]]
      BY DEF MapsTo
    <2> QED BY <2>1 DEF AreLists
  <1>3. ASSUME NEW t \in Traces
        PROVE  /\ Vals(m, t) = IF t \in D THEN v[t] ELSE <<>>
               /\ Index(m, t) = IF t \in D THEN n[t] ELSE 0
    <2>1. CASE t \in D
      BY <1>1, <1>2, <2>1 DEF Vals, Index
    <2>2. CASE t \notin D
      BY <1>1, <2>2 DEF Vals, Index
    <2> QED BY <2>1, <2>2
  <1>4. IsListMap(m, S)
    BY <1>1, <1>2 DEF IsListMap, AreLists
  <1> QED BY <1>3, <1>4 DEF IsMapOf

\* m after v was added to the list of t.
Added(m, t, v, S) ==
  LET n == addToMap(m, t, v)
  IN /\ IsListMap(n, S)
     /\ \A u \in Traces : /\ Vals(n, u) = IF u = t THEN Append(Vals(m, u), v) ELSE Vals(m, u)
                          /\ Index(n, u) = Index(m, u)

LEMMA AddToMap ==
  ASSUME NEW S, NEW m, IsListMap(m, S), NEW t \in Traces, NEW v \in S
  PROVE  Added(m, t, v, S)
  <1> DEFINE D  == DOMAIN m \cup {t}
             vs == [u \in Traces |-> IF u = t THEN Append(Vals(m, u), v) ELSE Vals(m, u)]
             is == [u \in Traces |-> Index(m, u)]
             n  == [u \in D |-> [vals |-> vs[u], index |-> is[u]]]
  <1>1. D \subseteq Traces
    BY DEF IsListMap
  <1>2. ASSUME NEW u \in D PROVE vs[u] \in Seq(S) /\ is[u] \in Nat /\ is[u] <= Len(vs[u])
    <2>1. /\ u \in Traces /\ Vals(m, u) \in Seq(S) /\ Len(Vals(m, u)) \in Nat
          /\ Index(m, u) \in Nat /\ Index(m, u) <= Len(Vals(m, u))
      BY <1>1, MapTypes
    <2>2. Append(Vals(m, u), v) \in Seq(S) /\ Len(Append(Vals(m, u), v)) = Len(Vals(m, u)) + 1
      BY <2>1
    <2> QED BY <2>1, <2>2
  <1>3. addToMap(m, t, v) = n
    <2>1. ASSUME NEW u \in D
          PROVE  (IF u # t THEN m[u]
                  ELSE IF t \in DOMAIN m THEN [m[t] EXCEPT !.vals = Append(@, v)]
                  ELSE [vals |-> <<v>>, index |-> 0]) = [vals |-> vs[u], index |-> is[u]]
      <3>1. u \in Traces
        BY <1>1
      <3>2. CASE u # t
        BY <3>1, <3>2, MapTypes
      <3>3. CASE u = t /\ t \in DOMAIN m
        <4>1. m[t] = [vals |-> Vals(m, t), index |-> Index(m, t)]
          BY <3>3, MapTypes
        <4>2. [m[t] EXCEPT !.vals = Append(@, v)] = [vals |-> Append(Vals(m, t), v), index |-> Index(m, t)]
          BY <4>1
        <4> QED BY <3>1, <3>3, <4>2
      <3>4. CASE u = t /\ t \notin DOMAIN m
        <4>1. Vals(m, t) = <<>> /\ Index(m, t) = 0 /\ Append(<<>>, v) = <<v>>
          BY <3>4 DEF Vals, Index
        <4> QED BY <3>1, <3>4, <4>1
      <3> QED BY <3>2, <3>3, <3>4
    <2> HIDE DEF vs, is
    <2> QED BY <2>1 DEF addToMap
  <1>4. \A u \in Traces \ D : Vals(m, u) = <<>> /\ Index(m, u) = 0 /\ u # t
    BY DEF Vals, Index
  <1>5. IsMapOf(n, D, vs, is, S)
    <2>1. AreLists(D, vs, is, S)
      BY <1>1, <1>2 DEF AreLists
    <2>2. MapsTo(n, D, vs, is)
      BY DEF MapsTo
    <2> HIDE DEF vs, is, D, n
    <2> QED BY <2>1, <2>2, IsMap
  <1> HIDE DEF n, D
  <1>6. ASSUME NEW u \in Traces
        PROVE  /\ Vals(n, u) = IF u = t THEN Append(Vals(m, u), v) ELSE Vals(m, u)
               /\ Index(n, u) = Index(m, u)
    BY <1>4, <1>5 DEF IsMapOf
  <1> QED BY <1>3, <1>5, <1>6 DEF Added, IsMapOf

\* m after its lists were rewound, and after it was dumped and loaded again.
LEMMA ResetMap ==
  ASSUME NEW S, NEW m, IsListMap(m, S)
  PROVE  /\ IsListMap(resetMap(m), S)
         /\ \A t \in Traces : Vals(resetMap(m), t) = Vals(m, t) /\ Index(resetMap(m), t) = 0
  <1> DEFINE vs == [u \in Traces |-> Vals(m, u)]
             is == [u \in Traces |-> 0]
             D  == DOMAIN m
             n  == [u \in D |-> [vals |-> vs[u], index |-> is[u]]]
  <1>1. D \subseteq Traces /\ \A u \in Traces \ D : Vals(m, u) = <<>>
    BY DEF IsListMap, Vals
  <1>2. ASSUME NEW u \in D PROVE vs[u] \in Seq(S) /\ is[u] \in Nat /\ is[u] <= Len(vs[u])
    <2>1. u \in Traces /\ Vals(m, u) \in Seq(S) /\ Len(Vals(m, u)) \in Nat
      BY <1>1, MapTypes
    <2> QED BY <2>1
  <1>3. resetMap(m) = n
    <2>1. ASSUME NEW u \in D PROVE [m[u] EXCEPT !.index = 0] = [vals |-> vs[u], index |-> is[u]]
      <3>1. u \in Traces /\ m[u] = [vals |-> Vals(m, u), index |-> Index(m, u)]
        BY <1>1, MapTypes
      <3> QED BY <3>1
    <2> HIDE DEF vs, is
    <2> QED BY <2>1 DEF resetMap
  <1>4. IsMapOf(n, D, vs, is, S)
    <2>1. AreLists(D, vs, is, S)
      BY <1>1, <1>2 DEF AreLists
    <2>2. MapsTo(n, D, vs, is)
      BY DEF MapsTo
    <2> HIDE DEF vs, is, D, n
    <2> QED BY <2>1, <2>2, IsMap
  <1> HIDE DEF n, D
  <1> QED BY <1>1, <1>3, <1>4 DEF IsMapOf

LEMMA CopyOut ==
  ASSUME NEW S, NEW m, IsListMap(m, S)
  PROVE  IsDump(copyOut(m), S) /\ \A t \in Traces : Dumped(copyOut(m), t) = Vals(m, t)
  BY MapTypes DEF copyOut, Dumped, Vals, IsDump, IsListMap

LEMMA CopyIn ==
  ASSUME NEW S, NEW d, IsDump(d, S)
  PROVE  /\ IsListMap(copyIn(d), S)
         /\ \A t \in Traces : Vals(copyIn(d), t) = Dumped(d, t) /\ Index(copyIn(d), t) = 0
  <1> DEFINE D  == DOMAIN d
             is == [u \in Traces |-> 0]
             n  == [u \in D |-> [vals |-> d[u], index |-> is[u]]]
  <1>1. D \subseteq Traces /\ \A u \in D : d[u] \in Seq(S) /\ is[u] \in Nat /\ is[u] <= Len(d[u])
    BY DEF IsDump
  <1>2. copyIn(d) = n
    <2>1. \A u \in D : is[u] = 0
      BY <1>1
    <2> QED BY <2>1 DEF copyIn
  <1>3. IsMapOf(n, D, d, is, S)
    <2>1. AreLists(D, d, is, S)
      BY <1>1 DEF AreLists
    <2>2. MapsTo(n, D, d, is)
      BY DEF MapsTo
    <2> HIDE DEF is, D, n
    <2> QED BY <2>1, <2>2, IsMap
  <1> HIDE DEF n
  <1> QED BY <1>1, <1>2, <1>3 DEF Dumped, IsMapOf, D

\* m after k values of t were taken.
LEMMA AdvanceMap ==
  ASSUME NEW S, NEW m, IsListMap(m, S), NEW t \in Traces, NEW k \in Nat, k <= Left(m, t)
  PROVE  /\ IsListMap(Advance(m, t, k), S)
         /\ \A u \in Traces : /\ Vals(Advance(m, t, k), u) = Vals(m, u)
                              /\ Index(Advance(m, t, k), u) =
                                   IF u = t THEN Index(m, u) + k ELSE Index(m, u)
  <1>1. CASE t \notin DOMAIN m
    <2>1. Left(m, t) = 0 /\ Advance(m, t, k) = m
      BY <1>1 DEF Left, Advance
    <2> QED BY <1>1, <2>1 DEF Index
  <1>2. CASE t \in DOMAIN m
    <2> DEFINE vs == [u \in Traces |-> Vals(m, u)]
               is == [u \in Traces |-> IF u = t THEN Index(m, u) + k ELSE Index(m, u)]
               D  == DOMAIN m
               n  == [u \in D |-> [vals |-> vs[u], index |-> is[u]]]
    <2>1. D \subseteq Traces /\ \A u \in Traces \ D : Vals(m, u) = <<>> /\ Index(m, u) = 0
      BY DEF IsListMap, Vals, Index
    <2>2. ASSUME NEW u \in D PROVE vs[u] \in Seq(S) /\ is[u] \in Nat /\ is[u] <= Len(vs[u])
      <3>1. /\ u \in Traces /\ Vals(m, u) \in Seq(S) /\ Len(Vals(m, u)) \in Nat
            /\ Index(m, u) \in Nat /\ Index(m, u) <= Len(Vals(m, u))
        BY <2>1, MapTypes
      <3>2. Left(m, u) = Len(Vals(m, u)) - Index(m, u)
        BY <3>1, MapTypes
      <3> QED BY <3>1, <3>2
    <2>3. Advance(m, t, k) = n
      <3>1. ASSUME NEW u \in D
            PROVE  [m EXCEPT ![t].index = @ + k][u] = [vals |-> vs[u], index |-> is[u]]
        <4>1. /\ u \in Traces /\ m[u] = [vals |-> Vals(m, u), index |-> Index(m, u)]
              /\ m[t] = [vals |-> Vals(m, t), index |-> Index(m, t)]
          BY <1>2, <2>1, MapTypes
        <4>2. CASE u # t
          BY <4>1, <4>2
        <4>3. CASE u = t
          <5>1. [m EXCEPT ![t].index = @ + k][t] = [m[t] EXCEPT !.index = @ + k]
            BY <1>2
          <5>2. [m[t] EXCEPT !.index = @ + k] = [vals |-> Vals(m, t), index |-> Index(m, t) + k]
            BY <4>1
          <5> QED BY <4>1, <4>3, <5>1, <5>2
        <4> QED BY <4>2, <4>3
      <3>2. DOMAIN [m EXCEPT ![t].index = @ + k] = D
        OBVIOUS
      <3> HIDE DEF vs, is
      <3> DEFINE e == [m EXCEPT ![t].index = @ + k]
      <3>3. e = [u \in D |-> e[u]]
        BY <3>2
      <3>4. e = n
        <4> HIDE DEF e
        <4> QED BY <3>1, <3>3 DEF e
      <3> QED BY <1>2, <3>4 DEF Advance
    <2>4. IsMapOf(n, D, vs, is, S)
      <3>1. AreLists(D, vs, is, S)
        BY <2>1, <2>2 DEF AreLists
      <3>2. MapsTo(n, D, vs, is)
        BY DEF MapsTo
      <3> HIDE DEF vs, is, D, n
      <3> QED BY <3>1, <3>2, IsMap
    <2> HIDE DEF n, D
    <2>5. t \in D
      BY <1>2 DEF D
    <2> QED BY <2>1, <2>3, <2>4, <2>5 DEF IsMapOf
  <1> QED BY <1>1, <1>2
-----------------------------------------------------------------------------
(***************************************************************************)
(* The date a replayed script is told.                                     *)
(***************************************************************************)

\* Is r the place of the first of t's remaining values that is recent enough, or 0?
IsFirstRecent(m, t, time, r) ==
  \/ r = 0
  \/ /\ r \in 1..Left(m, t) /\ Vals(m, t)[Index(m, t) + r] >= time - Tolerance
     /\ \A k \in 1..(r - 1) : ~ (Vals(m, t)[Index(m, t) + k] >= time - Tolerance)

LEMMA FirstRecentValue ==
  ASSUME NEW S, NEW m, IsListMap(m, S), NEW t \in Traces, NEW time
  PROVE  /\ IsFirstRecent(m, t, time, FirstRecent(m, t, time))
         /\ FirstRecent(m, t, time) = 0 =>
              \A k \in 1..Left(m, t) : ~ (Vals(m, t)[Index(m, t) + k] >= time - Tolerance)
  <1> DEFINE Recent(n) == m[t].vals[m[t].index + n] >= time - Tolerance
             s == [n \in 1..Left(m, t) |-> Recent(n)]
             I == {i \in 1..Len(s) : s[i]}
             r == FirstRecent(m, t, time)
  <1>1. Left(m, t) \in Nat
    BY MapTypes
  <1>2. Len(s) = Left(m, t) /\ \A i \in 1..Left(m, t) : s[i] = Recent(i)
    <2> HIDE DEF Recent
    <2> QED BY <1>1
  <1>3. r = IF I # {} THEN Min(I) ELSE 0
    BY DEF FirstRecent, SelectInSeq
  <1>4. I = {i \in 1..Left(m, t) : Recent(i)}
    <2> HIDE DEF Recent, s
    <2> QED BY <1>2
  <1>5. \A k \in 1..Left(m, t) :
          Recent(k) <=> Vals(m, t)[Index(m, t) + k] >= time - Tolerance
    <2>1. ASSUME NEW k \in 1..Left(m, t) PROVE t \in DOMAIN m
      BY DEF Left
    <2> QED BY <2>1 DEF Vals, Index
  <1> HIDE DEF s, Recent, I, r
  <1>6. ASSUME I # {} PROVE r \in I /\ \A k \in I : r <= k
    <2>1. I \subseteq Nat
      BY <1>1, <1>4
    <2>2. \E n \in I : \A k \in I : n <= k
      BY <1>6, <2>1, LeastNumber
    <2> QED BY <1>3, <1>6, <2>2 DEF Min
  <1>7. CASE I = {}
    <2>1. r = 0
      BY <1>3, <1>7
    <2>2. \A k \in 1..Left(m, t) : ~ Recent(k)
      BY <1>4, <1>7
    <2> QED BY <1>5, <2>1, <2>2 DEF IsFirstRecent, r
  <1>8. CASE I # {}
    <2>1. r \in 1..Left(m, t) /\ Recent(r) /\ r # 0
      BY <1>1, <1>4, <1>6, <1>8
    <2>2. ASSUME NEW k \in 1..(r - 1) PROVE k \in 1..Left(m, t) /\ ~ Recent(k)
      <3>1. k \in 1..Left(m, t) /\ ~ (r <= k)
        BY <1>1, <2>1
      <3> QED BY <1>4, <1>6, <1>8, <3>1
    <2>3. Vals(m, t)[Index(m, t) + r] >= time - Tolerance
      BY <1>5, <2>1
    <2>4. \A k \in 1..(r - 1) : ~ (Vals(m, t)[Index(m, t) + k] >= time - Tolerance)
      BY <1>5, <2>2
    <2> QED BY <2>1, <2>3, <2>4 DEF IsFirstRecent, r
  <1> QED BY <1>7, <1>8

\* The step of a replayed date: k values of t are taken, and date is told.
Old(t, j) == ~ (Vals(times, t)[Index(times, t) + j] >= NowRecTime - Tolerance)

DateStep(t, k, date) ==
  /\ k \in 0..Left(times, t) /\ times' = Advance(times, t, k)
  /\ date \in Int /\ date >= NowRecTime - Tolerance
  /\ seen' = [seen EXCEPT ![t] = Append(@, Floor(date))]
  /\ \/ \A j \in 1..Left(times, t) : Old(t, j)
     \/ /\ k \in 1..Left(times, t) /\ date = Vals(times, t)[Index(times, t) + k]
        /\ \A j \in 1..(k - 1) : Old(t, j)

LEMMA NowIsInt ==
  ASSUME TypeInv
  PROVE  /\ NowRecTime \in Int /\ now \in Nat /\ now <= MaxTime /\ recordStart \in Nat
         /\ replayStart \in Nat
  BY ClockAssumption DEF TypeInv, TypeOK, Instants, NowRecTime

LEMMA DateTold ==
  ASSUME TypeInv, NEW t \in Traces, DateReplayed(t)
  PROVE  \E k \in Nat, date \in Int : DateStep(t, k, date)
  <1> DEFINE n    == FirstRecent(times, t, NowRecTime)
             k    == IF n = 0 THEN Left(times, t) ELSE n
             date == IF n = 0 THEN NowRecTime ELSE times[t].vals[times[t].index + n]
  <1>1. IsListMap(times, Instants)
    BY DEF TypeInv, TypeOK
  <1>2. /\ times' = Advance(times, t, k) /\ seen' = [seen EXCEPT ![t] = Append(@, Floor(date))]
    BY DEF DateReplayed
  <1>3. /\ IsFirstRecent(times, t, NowRecTime, n)
        /\ n = 0 => \A j \in 1..Left(times, t) : Old(t, j)
    BY <1>1, FirstRecentValue DEF Old
  <1>4. Left(times, t) \in Nat /\ NowRecTime \in Int /\ Tolerance \in Nat
    BY <1>1, MapTypes, NowIsInt, ClockAssumption
  <1>5. CASE n = 0
    <2>1. k = Left(times, t) /\ date = NowRecTime /\ \A j \in 1..Left(times, t) : Old(t, j)
      BY <1>3, <1>5
    <2> HIDE DEF n, k, date
    <2>2. DateStep(t, k, date)
      BY <1>2, <1>4, <2>1 DEF DateStep
    <2> QED BY <1>4, <2>1, <2>2
  <1>6. CASE n # 0
    <2>1. /\ n \in 1..Left(times, t) /\ Vals(times, t)[Index(times, t) + n] >= NowRecTime - Tolerance
          /\ \A j \in 1..(n - 1) : Old(t, j)
      BY <1>3, <1>6 DEF IsFirstRecent, Old
    <2>2. t \in DOMAIN times
      BY <2>1 DEF Left
    <2>3. k = n /\ date = Vals(times, t)[Index(times, t) + n]
      BY <1>6, <2>2 DEF Vals, Index
    <2> HIDE DEF n, k, date
    <2>4. date \in Int
      <3>1. /\ Vals(times, t) \in Seq(Instants) /\ Index(times, t) \in Nat
            /\ Len(Vals(times, t)) \in Nat
            /\ Left(times, t) = Len(Vals(times, t)) - Index(times, t)
        BY <1>1, MapTypes
      <3>2. Index(times, t) + n \in 1..Len(Vals(times, t))
        BY <2>1, <3>1
      <3>3. Vals(times, t)[Index(times, t) + n] \in Instants
        BY <3>1, <3>2
      <3> QED BY <2>3, <3>3, ClockAssumption DEF Instants
    <2>5. k \in 0..Left(times, t) /\ k \in 1..Left(times, t)
      BY <1>4, <2>1, <2>3
    <2>6. date >= NowRecTime - Tolerance
      BY <2>1, <2>3
    <2>7. date = Vals(times, t)[Index(times, t) + k] /\ \A j \in 1..(k - 1) : Old(t, j)
      BY <2>1, <2>3
    <2>8. DateStep(t, k, date)
      BY <1>2, <2>4, <2>5, <2>6, <2>7 DEF DateStep
    <2> QED BY <1>4, <2>4, <2>5, <2>8
  <1> QED BY <1>5, <1>6

\* Flooring takes less than a millisecond off.
LEMMA FloorBound ==
  ASSUME NEW x \in Int
  PROVE  Floor(x) \in Int /\ Floor(x) > x - PerMilli
  <1>1. x % PerMilli \in 0..(PerMilli - 1)
    BY ClockAssumption
  <1> QED BY <1>1, ClockAssumption DEF Floor

\* One more date or random number is told to a recorded page.
LEMMA OriginalAppend ==
  ASSUME original \in Originals, NEW t \in Traces, NEW v
  PROVE  /\ [original EXCEPT !.dates[t] = Append(@, v)] =
              [dates |-> [original.dates EXCEPT ![t] = Append(@, v)], rands |-> original.rands]
         /\ [original EXCEPT !.rands[t] = Append(@, v)] =
              [dates |-> original.dates, rands |-> [original.rands EXCEPT ![t] = Append(@, v)]]
         /\ v \in Instants => [original EXCEPT !.dates[t] = Append(@, v)] \in Originals
         /\ v \in Randoms => [original EXCEPT !.rands[t] = Append(@, v)] \in Originals
  <1>1. /\ original = [dates |-> original.dates, rands |-> original.rands]
        /\ original.dates \in [Traces -> Seq(Instants)] /\ original.rands \in [Traces -> Seq(Randoms)]
    BY DEF Originals
  <1>2. /\ [original EXCEPT !.dates[t] = Append(@, v)] =
              [dates |-> [original.dates EXCEPT ![t] = Append(@, v)], rands |-> original.rands]
        /\ [original EXCEPT !.rands[t] = Append(@, v)] =
              [dates |-> original.dates, rands |-> [original.rands EXCEPT ![t] = Append(@, v)]]
    <2> DEFINE o == [dates |-> original.dates, rands |-> original.rands]
           x == [o.dates EXCEPT ![t] = Append(@, v)]
           y == [o.rands EXCEPT ![t] = Append(@, v)]
    <2>1. /\ [o EXCEPT !.dates = x] = [dates |-> x, rands |-> o.rands]
          /\ [o EXCEPT !.rands = y] = [dates |-> o.dates, rands |-> y]
      <3> HIDE DEF x, y
      <3> QED OBVIOUS
    <2>2. /\ [o EXCEPT !.dates[t] = Append(@, v)] = [o EXCEPT !.dates = x]
          /\ [o EXCEPT !.rands[t] = Append(@, v)] = [o EXCEPT !.rands = y]
      <3> HIDE DEF o
      <3> QED OBVIOUS
    <2>3. original = o
      BY <1>1
    <2> HIDE DEF o
    <2> QED BY <2>1, <2>2, <2>3
  <1>3. /\ v \in Instants => [original.dates EXCEPT ![t] = Append(@, v)] \in [Traces -> Seq(Instants)]
        /\ v \in Randoms => [original.rands EXCEPT ![t] = Append(@, v)] \in [Traces -> Seq(Randoms)]
    BY <1>1
  <1> QED BY <1>1, <1>2, <1>3 DEF Originals

\* Blink's clock advances to the reading before the first one that is not of the past.
AdvancedTo(end) ==
  /\ end \in position + 1..Len(readings)
  /\ \A j \in position + 1..end : readings[j] < NowRecTime
  /\ position' = end
  /\ shown' = IF end = Len(readings) THEN NowRecTime ELSE readings[end]

LEMMA ClockAdvances ==
  ASSUME readings \in Seq(Instants), position \in 0..Len(readings), CurrentTimeAdvanced
  PROVE  \E end \in position + 1..Len(readings) : AdvancedTo(end)
  <1> DEFINE L == Len(readings)
             due(j) == readings[j] < NowRecTime
             Past == {i \in position + 1..L : \A j \in position + 1..i : due(j)}
             Rest == {i \in position + 1..L : ~ due(i)}
  <1>1. /\ Past # {} /\ position' = position + Cardinality(Past)
        /\ shown' = IF position' = L THEN NowRecTime ELSE readings[position']
    BY DEF CurrentTimeAdvanced
  <1>2. L \in Nat /\ position \in Nat /\ position <= L
    OBVIOUS
  <1> HIDE DEF L, due
  <1>3. PICK end \in position..L : Past = position + 1..end
    <2>1. CASE Rest = {}
      <3>1. Past = position + 1..L
        BY <1>2, <2>1
      <3> QED BY <1>2, <3>1
    <2>2. CASE Rest # {}
      <3>1. Rest \subseteq Nat
        BY <1>2
      <3>2. PICK n \in Rest : \A m \in Rest : n <= m
        BY <2>2, <3>1, LeastNumber
      <3>3. n \in position + 1..L /\ ~ due(n) /\ n - 1 \in position..L
        BY <1>2, <3>2
      <3>4. ASSUME NEW i \in position + 1..L PROVE i \in Past <=> i < n
        <4>1. CASE i < n
          <5>1. ASSUME NEW j \in position + 1..i PROVE due(j)
            <6>1. j \in position + 1..L /\ ~ (n <= j)
              BY <1>2, <3>3, <4>1
            <6> QED BY <3>2, <6>1
          <5> QED BY <4>1, <5>1
        <4>2. CASE ~ (i < n)
          <5>1. n \in position + 1..i
            BY <1>2, <3>3, <4>2
          <5> QED BY <3>3, <4>2, <5>1
        <4> QED BY <4>1, <4>2
      <3>5. Past \subseteq position + 1..L
        OBVIOUS
      <3> HIDE DEF Past
      <3>6. Past = position + 1..(n - 1)
        <4>1. \A i \in position + 1..(n - 1) : i \in position + 1..L /\ i < n
          BY <1>2, <3>3
        <4>2. \A i \in position + 1..L : i < n => i \in position + 1..(n - 1)
          BY <1>2, <3>3
        <4> QED BY <3>4, <3>5, <4>1, <4>2
      <3> QED BY <3>3, <3>6
    <2> QED BY <2>1, <2>2
  <1> HIDE DEF Past
  <1>4. end \in position + 1..L
    <2>1. ~ (position + 1 > end)
      BY <1>1, <1>2, <1>3
    <2> QED BY <1>2, <1>3, <2>1
  <1>5. position' = end
    <2>1. position + 1 \in Int /\ end \in Int /\ ~ (position + 1 > end)
      BY <1>2, <1>4
    <2>2. Cardinality(Past) = end - (position + 1) + 1
      BY <1>3, <2>1, FS_Interval
    <2> QED BY <1>1, <1>2, <2>1, <2>2
  <1>6. ASSUME NEW j \in position + 1..end PROVE readings[j] < NowRecTime
    <2>1. end \in Past /\ end \in position + 1..end
      BY <1>2, <1>3, <1>4
    <2> QED BY <1>6, <2>1 DEF Past, due
  <1> QED BY <1>1, <1>4, <1>5, <1>6 DEF AdvancedTo, L
-----------------------------------------------------------------------------
(***************************************************************************)
(* Types.                                                                  *)
(***************************************************************************)
\* Types of the lists, of the clocks and of the rest.
ListTypes ==
  /\ IsListMap(times, Instants) /\ IsListMap(rands, Randoms)
  /\ readings \in Seq(Instants) /\ position \in 0..Len(readings)
  /\ original \in Originals
  /\ seen \in [Traces -> Seq(Int)] /\ drawn \in [Traces -> Seq(Randoms)]

ScalarTypes ==
  /\ inst \in {"null", "live", "deleted"}
  /\ state \in {"OFF", "RECORDING", "REPLAYING"}
  /\ recordStart \in Instants /\ replayStart \in Instants
  /\ page \in Pages
  /\ now \in Instants /\ starts \in 0..MaxStarts
  /\ onTime \in BOOLEAN /\ shown \in Int

LEMMA TypeParts == TypeInv <=> ListTypes /\ ScalarTypes /\ FileOK
  BY DEF TypeInv, TypeOK, ListTypes, ScalarTypes

LEMMA InitTypes ==
  ASSUME Init PROVE TypeInv
  <1>1. IsListMap(NoValues, Instants) /\ IsListMap(NoValues, Randoms)
    BY DEF NoValues, IsListMap
  <1>2. Nothing \in [Traces -> Seq(Instants)] /\ Nothing \in [Traces -> Seq(Randoms)]
        /\ Nothing \in [Traces -> Seq(Int)]
    BY DEF Nothing
  <1>3. NoFile.original \in Originals
    BY <1>2 DEF Originals, NoFile
  <1>4. 0 \in Instants /\ 1 \in Instants
    BY ClockAssumption DEF Instants
  <1>5. ListTypes
    BY <1>1, <1>2, <1>3 DEF Init, ListTypes
  <1>6. ScalarTypes
    BY <1>4, ClockAssumption DEF Init, ScalarTypes
  <1>7. FileOK
    <2>1. /\ file.times = NoValues /\ file.rands = NoValues /\ file.readings = <<>>
          /\ file.recordStart = 0 /\ file.original = NoFile.original
      BY DEF Init, NoFile
    <2>2. IsDump(NoValues, Instants) /\ IsDump(NoValues, Randoms)
      BY DEF NoValues, IsDump
    <2> QED BY <1>3, <1>4, <2>1, <2>2 DEF FileOK
  <1> QED BY <1>5, <1>6, <1>7, TypeParts

LEMMA StepTypes ==
  ASSUME TypeInv, [Next]_vars PROVE TypeInv'
  <1>0. ListTypes /\ ScalarTypes /\ FileOK
    BY TypeParts
  <1> SUFFICES ListTypes' /\ ScalarTypes' /\ FileOK'
    BY TypeParts DEF TypeInv, TypeOK, ListTypes, ScalarTypes
  <1>1. ASSUME NEW t \in Traces, DateRecorded(t) PROVE ListTypes' /\ ScalarTypes' /\ FileOK'
    <2>1. now \in Instants /\ IsListMap(times, Instants)
      BY <1>0 DEF ScalarTypes, ListTypes
    <2>2. IsListMap(times', Instants)
      BY <1>1, <2>1, AddToMap DEF DateRecorded, Added
    <2>3. original' \in Originals
      BY <1>0, <1>1, <2>1, OriginalAppend DEF DateRecorded, ListTypes
    <2> QED BY <1>0, <1>1, <2>2, <2>3
            DEF DateRecorded, ListTypes, ScalarTypes, FileOK, blinkVars, startVars
  <1>2. ASSUME NEW t \in Traces, DateReplayed(t) PROVE ListTypes' /\ ScalarTypes' /\ FileOK'
    <2>1. PICK k \in Nat, date \in Int : DateStep(t, k, date)
      BY <1>2, DateTold
    <2>2. IsListMap(times', Instants)
      BY <1>0, <2>1, AdvanceMap DEF DateStep, ListTypes
    <2>3. seen' \in [Traces -> Seq(Int)]
      BY <1>0, <2>1, FloorBound DEF DateStep, ListTypes
    <2>4. onTime' \in BOOLEAN
      BY <1>2 DEF DateReplayed, InTime
    <2> QED BY <1>0, <1>2, <2>2, <2>3, <2>4
            DEF DateReplayed, ListTypes, ScalarTypes, FileOK, blinkVars, startVars
  <1>3. ASSUME NEW t \in Traces, RandomReplayed(t) PROVE ListTypes' /\ ScalarTypes' /\ FileOK'
    <2>1. IsListMap(rands, Randoms) /\ Left(rands, t) > 0
      BY <1>0, <1>3 DEF ListTypes, RandomReplayed
    <2>2. IsListMap(rands', Randoms)
      <3>0. Left(rands, t) \in Nat
        BY <2>1, MapTypes
      <3>1. 1 \in Nat /\ 1 <= Left(rands, t)
        BY <2>1, <3>0
      <3> QED BY <1>3, <2>1, <3>1, AdvanceMap DEF RandomReplayed
    <2>3. rands[t].vals[rands[t].index + 1] \in Randoms
      <3>1. t \in DOMAIN rands
        BY <2>1 DEF Left
      <3>2. rands[t].vals \in Seq(Randoms) /\ rands[t].index \in Nat
        BY <2>1, <3>1 DEF IsListMap
      <3>3. rands[t].index + 1 \in 1..Len(rands[t].vals)
        BY <2>1, <3>1, <3>2 DEF Left
      <3> QED BY <3>2, <3>3
    <2>4. drawn' \in [Traces -> Seq(Randoms)]
      BY <1>0, <1>3, <2>3 DEF RandomReplayed, ListTypes
    <2> QED BY <1>0, <1>3, <2>2, <2>4
            DEF RandomReplayed, ListTypes, ScalarTypes, FileOK, blinkVars, startVars
  <1>4. ASSUME NEW t \in Traces, NEW r \in Randoms, RandomGenerated(t, r)
        PROVE  ListTypes' /\ ScalarTypes' /\ FileOK'
    <2>1. IsListMap(rands', Randoms)
      BY <1>0, <1>4, AddToMap DEF RandomGenerated, HandleMathRandomVals, ListTypes, Added
    <2>2. original' \in Originals
      BY <1>0, <1>4, OriginalAppend DEF RandomGenerated, ListTypes
    <2>3. drawn' \in [Traces -> Seq(Randoms)]
      BY <1>0, <1>4 DEF RandomGenerated, ListTypes
    <2> QED BY <1>0, <1>4, <2>1, <2>2, <2>3
            DEF RandomGenerated, ListTypes, ScalarTypes, FileOK, blinkVars, startVars
  <1>5. ASSUME CurrentTimeRecorded PROVE ListTypes' /\ ScalarTypes' /\ FileOK'
    <2>1. readings' \in Seq(Instants) /\ position' \in 0..Len(readings')
      BY <1>0, <1>5 DEF CurrentTimeRecorded, ListTypes, ScalarTypes
    <2> QED BY <1>0, <1>5, <2>1
            DEF CurrentTimeRecorded, ListTypes, ScalarTypes, FileOK, v8Vars, startVars, historyVars
  <1>6. ASSUME CurrentTimeEstimated PROVE ListTypes' /\ ScalarTypes' /\ FileOK'
    BY <1>0, <1>6, NowIsInt
       DEF CurrentTimeEstimated, ListTypes, ScalarTypes, FileOK, v8Vars, blinkVars, startVars
  <1>7. ASSUME CurrentTimeAdvanced PROVE ListTypes' /\ ScalarTypes' /\ FileOK'
    <2>1. readings \in Seq(Instants) /\ position \in 0..Len(readings)
      BY <1>0 DEF ListTypes
    <2>2. PICK end \in position + 1..Len(readings) : AdvancedTo(end)
      BY <1>7, <2>1, ClockAdvances
    <2>3. end \in 1..Len(readings) /\ readings[end] \in Instants
      BY <2>1
    <2>4. shown' \in Int
      BY <2>2, <2>3, NowIsInt, ClockAssumption DEF AdvancedTo, Instants
    <2>5. position' \in 0..Len(readings')
      BY <1>7, <2>2, <2>3 DEF AdvancedTo, CurrentTimeAdvanced
    <2> QED BY <1>0, <1>7, <2>4, <2>5
            DEF CurrentTimeAdvanced, ListTypes, ScalarTypes, FileOK, v8Vars, startVars
  <1>8. ASSUME CurrentTimeSlowed PROVE ListTypes' /\ ScalarTypes' /\ FileOK'
    <2>1. shown' \in Int
      <3>1. position + 1 \in 1..Len(readings) /\ readings \in Seq(Instants)
        BY <1>0, <1>8 DEF CurrentTimeSlowed, ListTypes
      <3>2. readings[position + 1] \in Instants
        BY <3>1
      <3> QED BY <1>8, <3>2, ClockAssumption DEF CurrentTimeSlowed, Instants
    <2> QED BY <1>0, <1>8, <2>1
            DEF CurrentTimeSlowed, ListTypes, ScalarTypes, FileOK, v8Vars, blinkVars, startVars
  <1>9. ASSUME InitPlatformInstrumentation PROVE ListTypes' /\ ScalarTypes' /\ FileOK'
    BY <1>0, <1>9 DEF InitPlatformInstrumentation, ListTypes, ScalarTypes, FileOK,
                      blinkVars, startVars, historyVars
  <1>10. IsListMap(NoValues, Instants) /\ IsListMap(NoValues, Randoms)
    BY DEF NoValues, IsListMap
  <1>11. /\ Nothing \in [Traces -> Seq(Int)] /\ Nothing \in [Traces -> Seq(Randoms)]
         /\ [dates |-> Nothing, rands |-> Nothing] \in Originals
         /\ NoFile.original = [dates |-> Nothing, rands |-> Nothing]
    BY DEF Nothing, Originals, NoFile
  <1>12. 0 \in Instants /\ <<>> \in Seq(Instants) /\ 0 \in 0..Len(<<>>)
    BY ClockAssumption DEF Instants
  <1>13. ASSUME TearDown PROVE ListTypes' /\ ScalarTypes' /\ FileOK'
    BY <1>0, <1>10, <1>11, <1>12, <1>13 DEF TearDown, ListTypes, ScalarTypes, FileOK
  <1>14. ASSUME StartPlatformInstRecording PROVE ListTypes' /\ ScalarTypes' /\ FileOK'
    BY <1>0, <1>10, <1>11, <1>12, <1>14, ClockAssumption
       DEF StartPlatformInstRecording, ClearReadings, ListTypes, ScalarTypes, FileOK
  <1>15. ASSUME StartPlatformInstReplaying PROVE ListTypes' /\ ScalarTypes' /\ FileOK'
    <2>1. IsListMap(times', Instants) /\ IsListMap(rands', Randoms)
      BY <1>0, <1>15, ResetMap DEF StartPlatformInstReplaying, ListTypes
    <2>2. 0 \in 0..Len(readings)
      BY <1>0 DEF ListTypes
    <2> QED BY <1>0, <1>15, <2>1, <2>2, ClockAssumption
            DEF StartPlatformInstReplaying, ListTypes, ScalarTypes, FileOK, historyVars
  <1>16. ASSUME StopPlatformInst PROVE ListTypes' /\ ScalarTypes' /\ FileOK'
    BY <1>0, <1>11, <1>16
       DEF StopPlatformInst, ListTypes, ScalarTypes, FileOK, blinkVars, startVars
  <1>17. ASSUME DumpPlatformInstRecording PROVE ListTypes' /\ ScalarTypes' /\ FileOK'
    <2>1. /\ file'.times = copyOut(times) /\ file'.rands = copyOut(rands)
          /\ file'.readings = readings /\ file'.recordStart = recordStart
          /\ file'.original = original
      BY <1>17 DEF DumpPlatformInstRecording
    <2>2. IsDump(copyOut(times), Instants) /\ IsDump(copyOut(rands), Randoms)
      BY <1>0, CopyOut DEF ListTypes
    <2>3. FileOK'
      BY <1>0, <2>1, <2>2 DEF FileOK, ListTypes, ScalarTypes
    <2> QED BY <1>0, <1>17, <2>3 DEF DumpPlatformInstRecording, ListTypes, ScalarTypes,
                                     v8Vars, blinkVars, startVars, historyVars
  <1>18. ASSUME LoadPlatformInstRecording PROVE ListTypes' /\ ScalarTypes' /\ FileOK'
    <2>1. IsListMap(times', Instants) /\ IsListMap(rands', Randoms)
      BY <1>0, <1>18, CopyIn DEF LoadPlatformInstRecording, FileOK
    <2>2. 0 \in 0..Len(file.readings)
      BY <1>0 DEF FileOK
    <2>3. ListTypes'
      BY <1>0, <1>18, <2>1, <2>2 DEF LoadPlatformInstRecording, ListTypes, FileOK
    <2> QED BY <1>0, <1>18, <2>3 DEF LoadPlatformInstRecording, ScalarTypes, FileOK
  <1>19. ASSUME NEW d \in 1..MaxTime, Tick(d) PROVE ListTypes' /\ ScalarTypes' /\ FileOK'
    <2>1. now' \in Instants
      BY <1>0, <1>19, ClockAssumption DEF Tick, ScalarTypes, Instants
    <2> QED BY <1>0, <1>19, <2>1 DEF Tick, ListTypes, ScalarTypes, FileOK,
                                     v8Vars, blinkVars, startVars, historyVars
  <1>20. ASSUME UNCHANGED vars PROVE ListTypes' /\ ScalarTypes' /\ FileOK'
    BY <1>0, <1>20 DEF vars, v8Vars, blinkVars, startVars, historyVars,
                       ListTypes, ScalarTypes, FileOK
  <1> QED BY <1>1, <1>2, <1>3, <1>4, <1>5, <1>6, <1>7, <1>8, <1>9, <1>13, <1>14, <1>15,
             <1>16, <1>17, <1>18, <1>19, <1>20 DEF Next, DateOff

\* The types stay as they are.
THEOREM TypesAlwaysOK == Spec => []TypeOK
  <1>1. Init => TypeInv
    BY InitTypes
  <1>2. TypeInv /\ [Next]_vars => TypeInv'
    BY StepTypes
  <1>3. TypeInv => TypeOK
    BY DEF TypeInv
  <1> QED BY <1>1, <1>2, <1>3, PTL DEF Spec

LEMMA Typed == Spec => []TypeInv
  <1>1. Init => TypeInv
    BY InitTypes
  <1>2. TypeInv /\ [Next]_vars => TypeInv'
    BY StepTypes
  <1> QED BY <1>1, <1>2, PTL DEF Spec
-----------------------------------------------------------------------------
(***************************************************************************)
(* Modes: there is nothing of a replay outside of one.                     *)
(***************************************************************************)
ModeInv ==
  /\ state # "OFF" => inst = "live"
  /\ state # "REPLAYING" => seen = Nothing /\ drawn = Nothing /\ onTime = TRUE /\ shown = 0
  /\ replayStart <= now

LEMMA StepModes ==
  ASSUME TypeInv, ModeInv, [Next]_vars PROVE ModeInv'
  <1>0. /\ now \in Nat /\ replayStart \in Nat /\ inst \in {"null", "live", "deleted"}
        /\ state \in {"OFF", "RECORDING", "REPLAYING"}
    BY NowIsInt DEF TypeInv, TypeOK
  <1>1. ASSUME NEW t \in Traces, DateRecorded(t) PROVE ModeInv'
    BY <1>1 DEF ModeInv, DateRecorded, startVars
  <1>2. ASSUME NEW t \in Traces, DateReplayed(t) PROVE ModeInv'
    BY <1>2 DEF ModeInv, DateReplayed, startVars
  <1>3. ASSUME NEW t \in Traces, RandomReplayed(t) PROVE ModeInv'
    BY <1>3 DEF ModeInv, RandomReplayed, startVars
  <1>4. ASSUME NEW t \in Traces, NEW r \in Randoms, RandomGenerated(t, r) PROVE ModeInv'
    BY <1>4 DEF ModeInv, RandomGenerated, startVars
  <1>5. ASSUME CurrentTimeRecorded PROVE ModeInv'
    BY <1>5 DEF ModeInv, CurrentTimeRecorded, v8Vars, startVars, historyVars
  <1>6. ASSUME CurrentTimeEstimated \/ CurrentTimeAdvanced \/ CurrentTimeSlowed PROVE ModeInv'
    BY <1>6 DEF ModeInv, CurrentTimeEstimated, CurrentTimeAdvanced, CurrentTimeSlowed,
                v8Vars, startVars
  <1>7. ASSUME InitPlatformInstrumentation \/ DumpPlatformInstRecording \/ LoadPlatformInstRecording
        PROVE  ModeInv'
    BY <1>7 DEF ModeInv, InitPlatformInstrumentation, DumpPlatformInstRecording,
                LoadPlatformInstRecording, v8Vars, startVars, historyVars
  <1>8. ASSUME TearDown PROVE ModeInv'
    BY <1>0, <1>8 DEF ModeInv, TearDown
  <1>9. ASSUME StartPlatformInstRecording PROVE ModeInv'
    BY <1>9 DEF ModeInv, StartPlatformInstRecording
  <1>10. ASSUME StartPlatformInstReplaying PROVE ModeInv'
    BY <1>0, <1>10 DEF ModeInv, StartPlatformInstReplaying
  <1>11. ASSUME StopPlatformInst PROVE ModeInv'
    BY <1>11 DEF ModeInv, StopPlatformInst, startVars
  <1>12. ASSUME NEW d \in 1..MaxTime, Tick(d) PROVE ModeInv'
    BY <1>0, <1>12, ClockAssumption DEF ModeInv, Tick, v8Vars, startVars, historyVars
  <1>13. ASSUME UNCHANGED vars PROVE ModeInv'
    BY <1>13 DEF ModeInv, vars, v8Vars, startVars, historyVars
  <1> QED BY <1>1, <1>2, <1>3, <1>4, <1>5, <1>6, <1>7, <1>8, <1>9, <1>10, <1>11, <1>12,
             <1>13 DEF Next, DateOff

LEMMA Modes == Spec => [](TypeInv /\ ModeInv)
  <1>1. Init => TypeInv /\ ModeInv
    <2>1. Init => ModeInv
      BY DEF Init, ModeInv
    <2> QED BY <2>1, InitTypes
  <1>2. TypeInv /\ ModeInv /\ [Next]_vars => ModeInv'
    BY StepModes
  <1> QED BY <1>1, <1>2, Typed, PTL DEF Spec
-----------------------------------------------------------------------------
(***************************************************************************)
(* The recording.                                                          *)
(***************************************************************************)
\* What the maps hold is what the recorded page was told; so is what the file holds.
FileIsARecording ==
  \A t \in Traces : /\ file.original.dates[t] = Dumped(file.times, t)
                    /\ file.original.rands[t] = Dumped(file.rands, t)

RecordInv == DumpIsTheRecording /\ FileIsARecording

\* DumpIsTheRecording in terms of Vals.
Recording ==
  \A t \in Traces : original.dates[t] = Vals(times, t) /\ original.rands[t] = Vals(rands, t)

LEMMA RecordingIs == DumpIsTheRecording <=> Recording
  BY DEF DumpIsTheRecording, Recording, Vals

LEMMA StepRecording ==
  ASSUME TypeInv, ModeInv, RecordInv, [Next]_vars PROVE RecordInv'
  <1>0. /\ Recording /\ FileIsARecording
        /\ IsListMap(times, Instants) /\ IsListMap(rands, Randoms) /\ original \in Originals
        /\ now \in Instants /\ FileOK
    BY RecordingIs DEF RecordInv, TypeInv, TypeOK
  <1> SUFFICES Recording' /\ FileIsARecording'
    BY DEF RecordInv, DumpIsTheRecording, Recording, Vals
  <1>1. ASSUME NEW t \in Traces, DateRecorded(t) PROVE Recording' /\ FileIsARecording'
    <2>1. /\ original'.dates = [original.dates EXCEPT ![t] = Append(@, now)]
          /\ original'.rands = original.rands /\ rands' = rands
      BY <1>0, <1>1, OriginalAppend DEF DateRecorded
    <2>2. \A u \in Traces : Vals(times', u) = IF u = t THEN Append(Vals(times, u), now)
                                             ELSE Vals(times, u)
      BY <1>0, <1>1, AddToMap DEF DateRecorded, Added
    <2>3. original.dates \in [Traces -> Seq(Instants)]
      BY <1>0 DEF Originals
    <2>4. Recording'
      BY <1>0, <2>1, <2>2, <2>3 DEF Recording, Vals
    <2> QED BY <1>0, <1>1, <2>4 DEF DateRecorded, FileIsARecording
  <1>2. ASSUME NEW t \in Traces, DateReplayed(t) PROVE Recording' /\ FileIsARecording'
    <2>1. PICK k \in Nat, date \in Int : DateStep(t, k, date)
      BY <1>2, DateTold
    <2>2. \A u \in Traces : Vals(times', u) = Vals(times, u)
      BY <1>0, <2>1, AdvanceMap DEF DateStep
    <2> QED BY <1>0, <1>2, <2>2 DEF DateReplayed, Recording, FileIsARecording, Vals
  <1>3. ASSUME NEW t \in Traces, RandomReplayed(t) PROVE Recording' /\ FileIsARecording'
    <2>1. 1 \in Nat /\ 1 <= Left(rands, t)
      <3>1. Left(rands, t) \in Nat
        BY <1>0, MapTypes
      <3> QED BY <1>3, <3>1 DEF RandomReplayed
    <2>2. \A u \in Traces : Vals(rands', u) = Vals(rands, u)
      BY <1>0, <1>3, <2>1, AdvanceMap DEF RandomReplayed
    <2> QED BY <1>0, <1>3, <2>2 DEF RandomReplayed, Recording, FileIsARecording, Vals
  <1>4. ASSUME NEW t \in Traces, NEW r \in Randoms, RandomGenerated(t, r)
        PROVE  Recording' /\ FileIsARecording'
    <2>1. CASE state = "RECORDING"
      <3>1. /\ original'.rands = [original.rands EXCEPT ![t] = Append(@, r)]
            /\ original'.dates = original.dates /\ times' = times
        BY <1>0, <1>4, <2>1, OriginalAppend DEF RandomGenerated
      <3>2. rands' = addToMap(rands, t, r)
        BY <1>4, <2>1 DEF RandomGenerated, HandleMathRandomVals, ModeInv
      <3>3. \A u \in Traces : Vals(rands', u) = IF u = t THEN Append(Vals(rands, u), r)
                                               ELSE Vals(rands, u)
        BY <1>0, <3>2, AddToMap DEF Added
      <3>4. original.rands \in [Traces -> Seq(Randoms)]
        BY <1>0 DEF Originals
      <3>5. Recording'
        BY <1>0, <3>1, <3>3, <3>4 DEF Recording, Vals
      <3> QED BY <1>0, <1>4, <3>5 DEF RandomGenerated, FileIsARecording
    <2>2. CASE state # "RECORDING"
      BY <1>0, <1>4, <2>2 DEF RandomGenerated, HandleMathRandomVals, Recording, FileIsARecording
    <2> QED BY <2>1, <2>2
  <1>5. ASSUME \/ CurrentTimeRecorded \/ CurrentTimeEstimated
               \/ CurrentTimeAdvanced \/ CurrentTimeSlowed
               \/ InitPlatformInstrumentation \/ StopPlatformInst
               \/ \E d \in 1..MaxTime : Tick(d)
               \/ UNCHANGED vars
        PROVE  Recording' /\ FileIsARecording'
    <2>1. UNCHANGED <<times, rands, original, file>>
      BY <1>5 DEF CurrentTimeRecorded, CurrentTimeEstimated, CurrentTimeAdvanced,
                  CurrentTimeSlowed, InitPlatformInstrumentation, StopPlatformInst, Tick,
                  vars, v8Vars, historyVars
    <2> QED BY <1>0, <2>1 DEF Recording, FileIsARecording
  <1>6. \A t \in Traces : Vals(NoValues, t) = <<>> /\ Nothing[t] = <<>>
    BY DEF Vals, NoValues, Nothing
  <1>7. ASSUME TearDown \/ StartPlatformInstRecording PROVE Recording' /\ FileIsARecording'
    <2>1. /\ times' = NoValues /\ rands' = NoValues /\ UNCHANGED file
          /\ original'.dates = Nothing /\ original'.rands = Nothing
      BY <1>7 DEF TearDown, StartPlatformInstRecording, NoFile
    <2> QED BY <1>0, <1>6, <2>1 DEF Recording, FileIsARecording, Vals
  <1>8. ASSUME StartPlatformInstReplaying PROVE Recording' /\ FileIsARecording'
    <2>1. \A t \in Traces : Vals(times', t) = Vals(times, t) /\ Vals(rands', t) = Vals(rands, t)
      BY <1>0, <1>8, ResetMap DEF StartPlatformInstReplaying
    <2> QED BY <1>0, <1>8, <2>1
            DEF StartPlatformInstReplaying, Recording, FileIsARecording, Vals, historyVars
  <1>9. ASSUME DumpPlatformInstRecording PROVE Recording' /\ FileIsARecording'
    <2>1. /\ file'.times = copyOut(times) /\ file'.rands = copyOut(rands)
          /\ file'.original = original /\ UNCHANGED <<times, rands, original>>
      BY <1>9 DEF DumpPlatformInstRecording, v8Vars, historyVars
    <2>2. \A t \in Traces : /\ Dumped(copyOut(times), t) = Vals(times, t)
                            /\ Dumped(copyOut(rands), t) = Vals(rands, t)
      BY <1>0, CopyOut
    <2> QED BY <1>0, <2>1, <2>2 DEF Recording, FileIsARecording, Dumped
  <1>10. ASSUME LoadPlatformInstRecording PROVE Recording' /\ FileIsARecording'
    <2>1. /\ times' = copyIn(file.times) /\ rands' = copyIn(file.rands)
          /\ original' = file.original /\ UNCHANGED file
      BY <1>10 DEF LoadPlatformInstRecording
    <2>2. \A t \in Traces : /\ Vals(copyIn(file.times), t) = Dumped(file.times, t)
                            /\ Vals(copyIn(file.rands), t) = Dumped(file.rands, t)
      BY <1>0, CopyIn DEF FileOK
    <2> QED BY <1>0, <2>1, <2>2 DEF Recording, FileIsARecording, Vals
  <1> QED BY <1>1, <1>2, <1>3, <1>4, <1>5, <1>7, <1>8, <1>9, <1>10 DEF Next, DateOff

LEMMA RecordedWell == Spec => [](TypeInv /\ ModeInv /\ RecordInv)
  <1>1. Init => RecordInv
    <2> SUFFICES ASSUME Init PROVE RecordInv
      OBVIOUS
    <2>1. /\ times = NoValues /\ rands = NoValues /\ file.times = NoValues /\ file.rands = NoValues
          /\ original.dates = Nothing /\ original.rands = Nothing
          /\ file.original.dates = Nothing /\ file.original.rands = Nothing
      BY DEF Init, NoFile
    <2>2. \A t \in Traces : t \notin DOMAIN NoValues /\ Nothing[t] = <<>>
      BY DEF NoValues, Nothing
    <2> QED BY <2>1, <2>2 DEF RecordInv, DumpIsTheRecording, FileIsARecording, Dumped
  <1>2. TypeInv /\ ModeInv /\ RecordInv /\ [Next]_vars => RecordInv'
    BY StepRecording
  <1> QED BY <1>1, <1>2, Modes, PTL DEF Spec

\* What a dump made now would hold is what the recorded page was told: replays,
\* numbers generated in one, and loads leave the recording as it is.
THEOREM DumpIsAlwaysTheRecording == Spec => []DumpIsTheRecording
  <1>1. RecordInv => DumpIsTheRecording
    BY DEF RecordInv
  <1> QED BY <1>1, RecordedWell, PTL
-----------------------------------------------------------------------------
(***************************************************************************)
(* A replay follows the recording.                                         *)
(***************************************************************************)
\* The numbers drawn are those of the list, in order, as far as it goes.
DrawnFollow(t) ==
  LET had == Vals(rands, t)
  IN /\ Index(rands, t) <= Len(drawn[t])
     /\ Index(rands, t) < Len(had) => Index(rands, t) = Len(drawn[t])
     /\ \A k \in 1..Len(drawn[t]) : k <= Len(had) => drawn[t][k] = had[k]

\* The dates told are those of the list, one for one, as long as they are asked for in time.
SeenFollow(t) ==
  onTime => /\ Index(times, t) = Len(seen[t])
            /\ \A k \in 1..Len(seen[t]) : seen[t][k] = Floor(Vals(times, t)[k])

FollowInv == state = "REPLAYING" => \A t \in Traces : DrawnFollow(t) /\ SeenFollow(t)

\* When the next date of t is asked for in time, it is the one that is told.
LEMMA NextDateIsTold ==
  ASSUME TypeInv, Recording, NEW t \in Traces, Index(times, t) = Len(seen[t]), InTime(t),
         NEW k \in Nat, NEW date \in Int, DateStep(t, k, date)
  PROVE  k = 1 /\ date = Vals(times, t)[Len(seen[t]) + 1]
  <1> DEFINE n == Len(seen[t]) + 1
             had == Vals(times, t)
  <1>1. /\ Len(had) \in Nat /\ Index(times, t) \in Nat /\ had \in Seq(Instants)
        /\ Left(times, t) = Len(had) - Index(times, t) /\ Left(times, t) \in Nat
    BY MapTypes DEF TypeInv, TypeOK
  <1>2. n <= Len(had) /\ NowRecTime <= had[n] + Tolerance
    BY DEF InTime, Recording
  <1>3. n \in 1..Len(had) /\ n = Index(times, t) + 1 /\ 1 \in 1..Left(times, t)
    BY <1>1, <1>2
  <1>4. had[n] \in Int
    <2>1. had[n] \in Instants
      BY <1>1, <1>3
    <2> QED BY <2>1, ClockAssumption DEF Instants
  <1>5. NowRecTime \in Int /\ Tolerance \in Int
    BY NowIsInt, ClockAssumption
  <1>6. had[Index(times, t) + 1] >= NowRecTime - Tolerance
    <2> HIDE DEF n, had
    <2>1. had[n] >= NowRecTime - Tolerance
      BY <1>2, <1>4, <1>5
    <2> QED BY <2>1, <1>3
  <1>7. ~ Old(t, 1)
    BY <1>6 DEF Old
  <1>8. /\ k \in 1..Left(times, t) /\ date = had[Index(times, t) + k]
        /\ \A j \in 1..(k - 1) : Old(t, j)
    BY <1>3, <1>7 DEF DateStep
  <1>9. k = 1
    BY <1>1, <1>7, <1>8
  <1> QED BY <1>3, <1>8, <1>9

\* One more element.
LEMMA OneMore ==
  ASSUME NEW S, NEW s \in Seq(S), NEW x
  PROVE  /\ Len(Append(s, x)) = Len(s) + 1 /\ Append(s, x)[Len(s) + 1] = x
         /\ \A k \in 1..Len(s) : Append(s, x)[k] = s[k]
         /\ Len(s) \in Nat
  OBVIOUS

LEMMA DateFollows ==
  ASSUME TypeInv, Recording, NEW t \in Traces, DateReplayed(t),
         \A u \in Traces : SeenFollow(u)
  PROVE  \A u \in Traces : SeenFollow(u)'
  <1>1. PICK k \in Nat, date \in Int : DateStep(t, k, date)
    BY DateTold
  <1>2. /\ seen \in [Traces -> Seq(Int)] /\ IsListMap(times, Instants)
        /\ k <= Left(times, t)
    <2>1. Left(times, t) \in Nat
      BY MapTypes DEF TypeInv, TypeOK
    <2> QED BY <1>1, <2>1 DEF TypeInv, TypeOK, DateStep
  <1>3. \A u \in Traces : /\ Vals(times', u) = Vals(times, u)
                          /\ Index(times', u) = IF u = t THEN Index(times, u) + k ELSE Index(times, u)
    BY <1>1, <1>2, AdvanceMap DEF DateStep
  <1>4. seen' = [seen EXCEPT ![t] = Append(@, Floor(date))] /\ onTime' = (onTime /\ InTime(t))
    BY <1>1 DEF DateStep, DateReplayed
  <1> SUFFICES ASSUME NEW u \in Traces, onTime'
               PROVE  /\ Index(times', u) = Len(seen'[u])
                      /\ \A j \in 1..Len(seen'[u]) : seen'[u][j] = Floor(Vals(times', u)[j])
    BY DEF SeenFollow, Vals, Index, Floor
  <1>5. onTime /\ InTime(t)
    BY <1>4
  <1>6. CASE u # t
    BY <1>2, <1>3, <1>4, <1>5, <1>6 DEF SeenFollow
  <1>7. CASE u = t
    <2>1. /\ Index(times, t) = Len(seen[t])
          /\ \A j \in 1..Len(seen[t]) : seen[t][j] = Floor(Vals(times, t)[j])
      BY <1>5 DEF SeenFollow
    <2>2. k = 1 /\ date = Vals(times, t)[Len(seen[t]) + 1]
      BY <1>1, <1>5, <2>1, NextDateIsTold
    <2>3. seen'[t] = Append(seen[t], Floor(date)) /\ seen[t] \in Seq(Int)
      BY <1>2, <1>4
    <2>4. /\ Len(seen'[t]) = Len(seen[t]) + 1 /\ seen'[t][Len(seen[t]) + 1] = Floor(date)
          /\ \A j \in 1..Len(seen[t]) : seen'[t][j] = seen[t][j]
          /\ Len(seen[t]) \in Nat
      BY <2>3, OneMore
    <2>5. Index(times', t) = Len(seen'[t])
      BY <1>3, <2>1, <2>2, <2>4
    <2>6. ASSUME NEW j \in 1..Len(seen'[t]) PROVE seen'[t][j] = Floor(Vals(times, t)[j])
      <3>1. j \in 1..Len(seen[t]) \/ j = Len(seen[t]) + 1
        BY <2>4
      <3> QED BY <2>1, <2>2, <2>4, <3>1
    <2> QED BY <1>3, <1>7, <2>5, <2>6
  <1> QED BY <1>6, <1>7

\* A number is drawn: the next of the list, or one generated when there is none.
Draws(t, r, k) ==
  /\ k \in {0, 1} /\ k <= Left(rands, t)
  /\ k = 1 => r = Vals(rands, t)[Index(rands, t) + 1]
  /\ k = 0 => Left(rands, t) = 0
  /\ rands' = Advance(rands, t, k)
  /\ drawn' = [drawn EXCEPT ![t] = Append(@, r)]

AllDrawnFollow == \A t \in Traces : DrawnFollow(t)

LEMMA DrawFollows ==
  ASSUME TypeInv, NEW t \in Traces, NEW r \in Randoms, NEW k, Draws(t, r, k), AllDrawnFollow
  PROVE  AllDrawnFollow'
  <1>1. /\ IsListMap(rands, Randoms) /\ drawn \in [Traces -> Seq(Randoms)] /\ k \in Nat
        /\ k <= Left(rands, t) /\ rands' = Advance(rands, t, k)
        /\ drawn' = [drawn EXCEPT ![t] = Append(@, r)]
    BY DEF TypeInv, TypeOK, Draws
  <1>2. \A u \in Traces : /\ Vals(rands', u) = Vals(rands, u)
                          /\ Index(rands', u) = IF u = t THEN Index(rands, u) + k ELSE Index(rands, u)
    BY <1>1, AdvanceMap
  <1> SUFFICES ASSUME NEW u \in Traces
               PROVE  /\ Index(rands', u) <= Len(drawn'[u])
                      /\ Index(rands', u) < Len(Vals(rands', u)) => Index(rands', u) = Len(drawn'[u])
                      /\ \A j \in 1..Len(drawn'[u]) :
                           j <= Len(Vals(rands', u)) => drawn'[u][j] = Vals(rands', u)[j]
    BY DEF AllDrawnFollow, DrawnFollow, Vals, Index
  <1>3. CASE u # t
    BY <1>1, <1>2, <1>3 DEF AllDrawnFollow, DrawnFollow
  <1>4. CASE u = t
    <2> DEFINE had == Vals(rands, t)
               i   == Index(rands, t)
    <2>1. /\ Len(had) \in Nat /\ i \in Nat /\ i <= Len(had) /\ Left(rands, t) = Len(had) - i
      BY <1>1, MapTypes
    <2>2. drawn'[t] = Append(drawn[t], r) /\ drawn[t] \in Seq(Randoms)
      BY <1>1
    <2>3. /\ Len(drawn'[t]) = Len(drawn[t]) + 1 /\ drawn'[t][Len(drawn[t]) + 1] = r
          /\ \A j \in 1..Len(drawn[t]) : drawn'[t][j] = drawn[t][j]
          /\ Len(drawn[t]) \in Nat
      BY <2>2, OneMore
    <2>4. /\ i <= Len(drawn[t])
          /\ i < Len(had) => i = Len(drawn[t])
          /\ \A j \in 1..Len(drawn[t]) : j <= Len(had) => drawn[t][j] = had[j]
      BY DEF AllDrawnFollow, DrawnFollow
    <2> HIDE DEF had, i
    <2>5. Vals(rands', t) = had /\ Index(rands', t) = i + k
      BY <1>2 DEF had, i
    <2>6. /\ k = 1 => i < Len(had) /\ r = had[i + 1]
          /\ k = 0 => i = Len(had)
          /\ k \in {0, 1}
      BY <2>1 DEF had, i, Draws
    <2>7. i + k <= Len(drawn'[t]) /\ (i + k < Len(had) => i + k = Len(drawn'[t]))
      BY <2>1, <2>3, <2>4, <2>6
    <2>8. ASSUME NEW j \in 1..Len(drawn'[t]), j <= Len(had) PROVE drawn'[t][j] = had[j]
      <3>1. j \in 1..Len(drawn[t]) \/ j = Len(drawn[t]) + 1
        BY <2>3
      <3>2. CASE j \in 1..Len(drawn[t])
        BY <2>3, <2>4, <2>8, <3>2
      <3>3. CASE j = Len(drawn[t]) + 1
        <4>1. i < Len(had)
          BY <2>1, <2>3, <2>4, <2>8, <3>3
        <4>2. k = 1 /\ i = Len(drawn[t])
          BY <2>1, <2>4, <2>6, <4>1
        <4> QED BY <2>3, <2>6, <3>3, <4>2
      <3> QED BY <3>1, <3>2, <3>3
    <2> QED BY <1>4, <2>5, <2>7, <2>8
  <1> QED BY <1>3, <1>4

LEMMA StepFollow ==
  ASSUME TypeInv, ModeInv, RecordInv, FollowInv, [Next]_vars PROVE FollowInv'
  <1>0. /\ Recording /\ IsListMap(times, Instants) /\ IsListMap(rands, Randoms)
    BY RecordingIs DEF RecordInv, TypeInv, TypeOK
  <1>1. ASSUME NEW t \in Traces, DateReplayed(t) PROVE FollowInv'
    <2>1. state = "REPLAYING" /\ UNCHANGED <<rands, drawn>>
      BY <1>1 DEF DateReplayed
    <2>2. \A u \in Traces : SeenFollow(u)'
      BY <1>0, <1>1, <2>1, DateFollows DEF FollowInv
    <2>3. \A u \in Traces : DrawnFollow(u)'
      BY <2>1 DEF FollowInv, DrawnFollow
    <2> QED BY <2>2, <2>3 DEF FollowInv
  <1>2. ASSUME NEW t \in Traces, RandomReplayed(t) PROVE FollowInv'
    <2>1. /\ state = "REPLAYING" /\ UNCHANGED <<times, seen, onTime>>
          /\ rands' = Advance(rands, t, 1)
      BY <1>2 DEF RandomReplayed
    <2> DEFINE r == rands[t].vals[rands[t].index + 1]
    <2>2. /\ Left(rands, t) > 0 /\ Left(rands, t) \in Nat /\ t \in DOMAIN rands
      <3>1. Left(rands, t) \in Nat
        BY <1>0, MapTypes
      <3>2. Left(rands, t) > 0
        BY <1>2 DEF RandomReplayed
      <3> QED BY <3>1, <3>2 DEF Left
    <2>3. r = Vals(rands, t)[Index(rands, t) + 1]
      BY <2>2 DEF Vals, Index
    <2>4. drawn' = [drawn EXCEPT ![t] = Append(@, r)]
      BY <1>2 DEF RandomReplayed
    <2>5. r \in Randoms
      <3>1. rands[t].vals \in Seq(Randoms) /\ rands[t].index \in Nat
        BY <1>0, <2>2 DEF IsListMap
      <3>2. rands[t].index + 1 \in 1..Len(rands[t].vals)
        BY <2>2, <3>1 DEF Left
      <3> QED BY <3>1, <3>2
    <2>6. 1 <= Left(rands, t)
      BY <2>2
    <2> HIDE DEF r
    <2>7. \A u \in Traces : DrawnFollow(u)'
      <3>1. Draws(t, r, 1)
        BY <2>1, <2>3, <2>4, <2>6 DEF Draws
      <3>2. AllDrawnFollow
        BY <2>1 DEF FollowInv, AllDrawnFollow
      <3>3. AllDrawnFollow'
        BY <2>5, <3>1, <3>2, DrawFollows
      <3> QED BY <3>3 DEF AllDrawnFollow
    <2>8. \A u \in Traces : SeenFollow(u)'
      BY <2>1 DEF FollowInv, SeenFollow
    <2> QED BY <2>7, <2>8 DEF FollowInv
  <1>3. ASSUME NEW t \in Traces, NEW r \in Randoms, RandomGenerated(t, r) PROVE FollowInv'
    <2>1. CASE state = "REPLAYING"
      <3>1. /\ UNCHANGED <<times, seen, onTime>>
            /\ inst = "live" /\ Left(rands, t) = 0 /\ rands' = rands
            /\ drawn' = [drawn EXCEPT ![t] = Append(@, r)]
        BY <1>3, <2>1 DEF RandomGenerated, HandleMathRandomVals, ModeInv
      <3>2. Advance(rands, t, 0) = rands
        <4>1. CASE t \in DOMAIN rands
          <5>1. /\ rands[t] \in [vals : Seq(Randoms), index : Nat]
                /\ rands = [u \in DOMAIN rands |-> rands[u]]
            BY <1>0, <4>1 DEF IsListMap
          <5>2. [rands[t] EXCEPT !.index = @ + 0] = rands[t]
            BY <5>1
          <5>3. [rands EXCEPT ![t] = rands[t]] = rands
            BY <5>1
          <5> QED BY <4>1, <5>2, <5>3 DEF Advance
        <4> QED BY <4>1 DEF Advance
      <3>3. \A u \in Traces : DrawnFollow(u)'
        <4>1. Draws(t, r, 0)
          BY <3>1, <3>2 DEF Draws
        <4>2. AllDrawnFollow
          BY <2>1 DEF FollowInv, AllDrawnFollow
        <4>3. AllDrawnFollow'
          BY <4>1, <4>2, DrawFollows
        <4> QED BY <4>3 DEF AllDrawnFollow
      <3>4. \A u \in Traces : SeenFollow(u)'
        BY <2>1, <3>1 DEF FollowInv, SeenFollow
      <3> QED BY <3>3, <3>4 DEF FollowInv
    <2>2. CASE state # "REPLAYING"
      BY <1>3, <2>2 DEF RandomGenerated, FollowInv
    <2> QED BY <2>1, <2>2
  <1>4. ASSUME StartPlatformInstReplaying PROVE FollowInv'
    <2>1. /\ times' = resetMap(times) /\ rands' = resetMap(rands)
          /\ seen' = Nothing /\ drawn' = Nothing
      BY <1>4 DEF StartPlatformInstReplaying, ModeInv, historyVars
    <2>2. \A t \in Traces : /\ Index(times', t) = 0 /\ Index(rands', t) = 0
                            /\ Len(seen'[t]) = 0 /\ Len(drawn'[t]) = 0
      BY <1>0, <2>1, ResetMap DEF Nothing
    <2>3. ASSUME NEW t \in Traces PROVE DrawnFollow(t)' /\ SeenFollow(t)'
      BY <2>2 DEF DrawnFollow, SeenFollow, Index, Vals
    <2> QED BY <2>3 DEF FollowInv
  <1>5. ASSUME \/ \E t \in Traces : DateRecorded(t)
               \/ TearDown \/ StartPlatformInstRecording \/ StopPlatformInst
               \/ InitPlatformInstrumentation
               \/ DumpPlatformInstRecording \/ LoadPlatformInstRecording
        PROVE  FollowInv'
    <2>1. state' # "REPLAYING"
      BY <1>5 DEF DateRecorded, TearDown, StartPlatformInstRecording, StopPlatformInst,
                  InitPlatformInstrumentation, DumpPlatformInstRecording,
                  LoadPlatformInstRecording, v8Vars, ModeInv
    <2> QED BY <2>1 DEF FollowInv
  <1>6. ASSUME \/ CurrentTimeRecorded \/ CurrentTimeEstimated
               \/ CurrentTimeAdvanced \/ CurrentTimeSlowed
               \/ \E d \in 1..MaxTime : Tick(d)
               \/ UNCHANGED vars
        PROVE  FollowInv'
    <2>1. UNCHANGED <<state, times, rands, seen, drawn, onTime>>
      BY <1>6 DEF CurrentTimeRecorded, CurrentTimeEstimated, CurrentTimeAdvanced,
                  CurrentTimeSlowed, Tick, vars, v8Vars, historyVars
    <2> QED BY <2>1 DEF FollowInv, DrawnFollow, SeenFollow
  <1> QED BY <1>1, <1>2, <1>3, <1>4, <1>5, <1>6 DEF Next, DateOff

\* The invariant makes a replay exact.
LEMMA FollowedIsExact ==
  ASSUME TypeInv, RecordInv, FollowInv PROVE ReplayIsExact
  <1> SUFFICES ASSUME state = "REPLAYING", NEW t \in Traces
               PROVE  /\ \A k \in DOMAIN drawn[t] \cap DOMAIN original.rands[t] :
                           drawn[t][k] = original.rands[t][k]
                      /\ onTime => \A k \in DOMAIN seen[t] :
                                     seen[t][k] = Floor(original.dates[t][k])
    BY DEF ReplayIsExact
  <1>1. original.dates[t] = Vals(times, t) /\ original.rands[t] = Vals(rands, t)
    BY RecordingIs DEF RecordInv, Recording
  <1>2. DrawnFollow(t) /\ SeenFollow(t)
    BY DEF FollowInv
  <1>3. seen[t] \in Seq(Int) /\ drawn[t] \in Seq(Randoms) /\ Vals(rands, t) \in Seq(Randoms)
    BY MapTypes DEF TypeInv, TypeOK
  <1>4. /\ DOMAIN seen[t] = 1..Len(seen[t]) /\ DOMAIN drawn[t] = 1..Len(drawn[t])
        /\ DOMAIN Vals(rands, t) = 1..Len(Vals(rands, t)) /\ Len(Vals(rands, t)) \in Nat
    BY <1>3
  <1> QED BY <1>1, <1>2, <1>4 DEF DrawnFollow, SeenFollow

\* Over start, stop, dump and load, a replay draws the recorded random numbers in their
\* order, as many as there are; and as long as it asks for each date no later than the
\* tolerance after the recorded page did, its scripts are told the very dates that page was
\* told: NextTimeCurrentMills, NextMathRandomVals and MathRandom.
THEOREM ReplaysAlwaysExact == Spec => []ReplayIsExact
  <1>1. Init => FollowInv
    BY DEF Init, FollowInv
  <1>2. TypeInv /\ ModeInv /\ RecordInv /\ FollowInv /\ [Next]_vars => FollowInv'
    BY StepFollow
  <1>3. TypeInv /\ RecordInv /\ FollowInv => ReplayIsExact
    BY FollowedIsExact
  <1> QED BY <1>1, <1>2, <1>3, RecordedWell, PTL DEF Spec
-----------------------------------------------------------------------------
(***************************************************************************)
(* No date is stale.                                                       *)
(***************************************************************************)
NewDatesRecent ==
  \A t \in Traces : Len(seen'[t]) > Len(seen[t]) =>
    Last(seen'[t]) > NowRecTime - Tolerance - PerMilli

LEMMA StepDates ==
  ASSUME TypeInv, [Next]_vars PROVE NewDatesRecent
  <1>1. seen \in [Traces -> Seq(Int)] /\ \A t \in Traces : Len(seen[t]) \in Nat
    BY DEF TypeInv
  <1>2. ASSUME NEW t \in Traces, DateReplayed(t) PROVE NewDatesRecent
    <2>1. PICK k \in Nat, date \in Int : DateStep(t, k, date)
      BY <1>2, DateTold
    <2>2. Floor(date) > NowRecTime - Tolerance - PerMilli
      <3>1. Floor(date) \in Int /\ Floor(date) > date - PerMilli
        BY FloorBound
      <3>2. date >= NowRecTime - Tolerance /\ NowRecTime \in Int
        BY <2>1, NowIsInt DEF DateStep
      <3> QED BY <3>1, <3>2, ClockAssumption
    <2>3. seen' = [seen EXCEPT ![t] = Append(@, Floor(date))]
      BY <2>1 DEF DateStep
    <2>4. Last(seen'[t]) = Floor(date)
      <3>1. seen'[t] = Append(seen[t], Floor(date)) /\ seen[t] \in Seq(Int)
        BY <1>1, <2>3
      <3>2. seen'[t][Len(seen'[t])] = Floor(date)
        BY <3>1, OneMore
      <3> QED BY <3>2 DEF Last
    <2>5. \A u \in Traces \ {t} : seen'[u] = seen[u]
      BY <1>1, <2>3
    <2> HIDE DEF NewDatesRecent
    <2>6. ASSUME NEW u \in Traces, Len(seen'[u]) > Len(seen[u]) PROVE u = t
      BY <1>1, <2>5, <2>6
    <2> QED BY <2>2, <2>4, <2>6 DEF NewDatesRecent
  <1>3. ASSUME seen' = seen \/ seen' = Nothing PROVE NewDatesRecent
    <2>1. \A t \in Traces : ~ (Len(seen'[t]) > Len(seen[t]))
      BY <1>1, <1>3 DEF Nothing
    <2> QED BY <2>1 DEF NewDatesRecent
  <1>4. (\E t \in Traces : DateReplayed(t)) \/ seen' = seen \/ seen' = Nothing
    BY DEF Next, DateOff, DateRecorded, RandomReplayed, RandomGenerated,
           CurrentTimeRecorded, CurrentTimeEstimated, CurrentTimeAdvanced, CurrentTimeSlowed,
           InitPlatformInstrumentation, TearDown, StartPlatformInstRecording,
           StartPlatformInstReplaying, StopPlatformInst, DumpPlatformInstRecording,
           LoadPlatformInstRecording, Tick, vars, historyVars
  <1> QED BY <1>2, <1>3, <1>4

\* A replayed script is never told a date further behind the time its replay has reached
\* than the tolerance (and the flooring) allows, however many recorded dates it has missed.
THEOREM DatesAreNeverStale == Spec => DatesNeverStale
  <1>1. TypeInv /\ [Next]_vars => NewDatesRecent
    BY StepDates
  <1>2. NewDatesRecent =>
          [\A t \in Traces : Len(seen'[t]) > Len(seen[t]) =>
             Last(seen'[t]) > NowRecTime - Tolerance - PerMilli]_vars
    BY DEF NewDatesRecent
  <1> QED BY <1>1, <1>2, Typed, PTL DEF Spec, DatesNeverStale
-----------------------------------------------------------------------------
(***************************************************************************)
(* Blink's clock.                                                          *)
(***************************************************************************)
Sorted(s) == \A i, j \in 1..Len(s) : i <= j => s[i] <= s[j]

\* What the clock shows now or later is not before what it has shown.
Ahead == IF position < Len(readings) THEN readings[position + 1] ELSE NowRecTime

ClockInv ==
  /\ Sorted(readings) /\ Sorted(file.readings)
  /\ state = "RECORDING" => \A i \in 1..Len(readings) : readings[i] <= now
  /\ state = "REPLAYING" => shown <= Ahead

ClockForward == state = "REPLAYING" /\ state' = "REPLAYING" => shown' >= shown

\* Time goes on, and with it the estimates.
LEMMA AheadTypes ==
  ASSUME TypeInv
  PROVE  /\ Ahead \in Int /\ Len(readings) \in Nat /\ position \in Nat /\ position <= Len(readings)
         /\ \A i \in 1..Len(readings) : readings[i] \in Nat
  <1>1. readings \in Seq(Instants) /\ position \in 0..Len(readings) /\ Len(readings) \in Nat
    BY DEF TypeInv, TypeOK
  <1>2. \A i \in 1..Len(readings) : readings[i] \in Nat
    BY <1>1, ClockAssumption DEF Instants
  <1>3. position \in Nat /\ position <= Len(readings)
    BY <1>1
  <1>4. position < Len(readings) => position + 1 \in 1..Len(readings)
    BY <1>1
  <1> QED BY <1>1, <1>2, <1>3, <1>4, NowIsInt DEF Ahead

LEMMA StepClock ==
  ASSUME TypeInv, ModeInv, ClockInv, [Next]_vars PROVE ClockInv' /\ ClockForward
  <1>0. /\ NowRecTime \in Int /\ now \in Nat /\ recordStart \in Nat /\ replayStart \in Nat
        /\ Len(readings) \in Nat /\ position \in Nat /\ position <= Len(readings)
        /\ shown \in Int /\ \A i \in 1..Len(readings) : readings[i] \in Nat
        /\ readings \in Seq(Instants)
    BY NowIsInt, AheadTypes DEF TypeInv, TypeOK
  <1>1. ASSUME CurrentTimeRecorded PROVE ClockInv' /\ ClockForward
    <2>1. readings' = Append(readings, now) /\ state = "RECORDING" /\ UNCHANGED <<state, now, file>>
      BY <1>1 DEF CurrentTimeRecorded, v8Vars
    <2>2. /\ Len(readings') = Len(readings) + 1 /\ readings'[Len(readings) + 1] = now
          /\ \A i \in 1..Len(readings) : readings'[i] = readings[i]
      BY <1>0, <2>1, OneMore
    <2>3. \A i \in 1..Len(readings) : readings[i] <= now
      BY <2>1 DEF ClockInv
    <2>4. ASSUME NEW i \in 1..Len(readings') PROVE readings'[i] <= now
      <3>1. i \in 1..Len(readings) \/ i = Len(readings) + 1
        BY <1>0, <2>2
      <3> QED BY <1>0, <2>2, <2>3, <3>1
    <2>5. ASSUME NEW i \in 1..Len(readings'), NEW j \in 1..Len(readings'), i <= j
          PROVE  readings'[i] <= readings'[j]
      <3>1. CASE j = Len(readings) + 1
        BY <2>2, <2>4, <3>1
      <3>2. CASE j # Len(readings) + 1
        <4>1. i \in 1..Len(readings) /\ j \in 1..Len(readings)
          BY <1>0, <2>2, <2>5, <3>2
        <4> QED BY <2>2, <2>5, <4>1 DEF ClockInv, Sorted
      <3> QED BY <3>1, <3>2
    <2> QED BY <2>1, <2>4, <2>5 DEF ClockInv, Sorted, ClockForward
  <1>2. ASSUME CurrentTimeEstimated PROVE ClockInv' /\ ClockForward
    <2>1. /\ state = "REPLAYING" /\ position = Len(readings) /\ shown' = NowRecTime
          /\ UNCHANGED <<state, readings, position, file, now, recordStart, replayStart>>
      BY <1>2 DEF CurrentTimeEstimated, v8Vars, blinkVars, startVars
    <2>2. shown <= NowRecTime
      BY <1>0, <2>1 DEF ClockInv, Ahead
    <2>3. Ahead' = NowRecTime
      BY <1>0, <2>1 DEF Ahead, NowRecTime
    <2> QED BY <1>0, <2>1, <2>2, <2>3 DEF ClockInv, Sorted, ClockForward
  <1>3. ASSUME CurrentTimeAdvanced PROVE ClockInv' /\ ClockForward
    <2>1. PICK end \in position + 1..Len(readings) : AdvancedTo(end)
      BY <1>0, <1>3, ClockAdvances DEF TypeInv, TypeOK
    <2>2. /\ state = "REPLAYING" /\ position' = end
          /\ shown' = IF end = Len(readings) THEN NowRecTime ELSE readings[end]
          /\ UNCHANGED <<state, readings, file, now, recordStart, replayStart>>
      BY <1>3, <2>1 DEF CurrentTimeAdvanced, AdvancedTo, v8Vars, startVars
    <2>3. /\ position + 1 \in 1..Len(readings) /\ end \in 1..Len(readings)
          /\ position + 1 \in position + 1..end /\ position < Len(readings)
          /\ position + 1 <= end
      BY <1>0, <2>1
    <2>4. shown <= readings[position + 1] /\ readings[position + 1] < NowRecTime
      BY <2>1, <2>2, <2>3 DEF ClockInv, Ahead, AdvancedTo
    <2>5. readings[position + 1] <= readings[end]
      BY <2>3 DEF ClockInv, Sorted
    <2>6. NowRecTime' = NowRecTime
      BY <2>2 DEF NowRecTime
    <2>7. shown' >= shown
      BY <1>0, <2>2, <2>3, <2>4, <2>5
    <2>8. shown' <= Ahead'
      <3>1. CASE end = Len(readings)
        <4>1. Ahead' = NowRecTime
          BY <1>0, <2>2, <2>6, <3>1 DEF Ahead
        <4> QED BY <1>0, <2>2, <3>1, <4>1
      <3>2. CASE end # Len(readings)
        <4>1. end < Len(readings) /\ end + 1 \in 1..Len(readings) /\ end <= end + 1
          BY <1>0, <2>3, <3>2
        <4>2. Ahead' = readings[end + 1]
          BY <2>2, <4>1 DEF Ahead
        <4>3. readings[end] <= readings[end + 1]
          BY <2>3, <4>1 DEF ClockInv, Sorted
        <4> QED BY <2>2, <3>2, <4>2, <4>3
      <3> QED BY <3>1, <3>2
    <2> QED BY <2>2, <2>7, <2>8 DEF ClockInv, Sorted, ClockForward
  <1>4. ASSUME CurrentTimeSlowed PROVE ClockInv' /\ ClockForward
    <2>1. /\ state = "REPLAYING" /\ position < Len(readings) /\ shown' = readings[position + 1]
          /\ UNCHANGED <<state, readings, position, file, now, recordStart, replayStart>>
      BY <1>4 DEF CurrentTimeSlowed, v8Vars, blinkVars, startVars
    <2>2. position + 1 \in 1..Len(readings)
      BY <1>0, <2>1
    <2>3. shown <= readings[position + 1] /\ Ahead' = readings[position + 1]
      BY <2>1 DEF ClockInv, Ahead
    <2>4. shown' <= Ahead' /\ shown' >= shown
      BY <1>0, <2>1, <2>2, <2>3
    <2> QED BY <2>1, <2>4 DEF ClockInv, Sorted, ClockForward
  <1>5. Sorted(<<>>)
    BY DEF Sorted
  <1>6. ASSUME TearDown \/ StartPlatformInstRecording PROVE ClockInv' /\ ClockForward
    <2>1. readings' = <<>> /\ state' # "REPLAYING" /\ UNCHANGED file
      BY <1>6 DEF TearDown, StartPlatformInstRecording, ClearReadings
    <2> QED BY <1>5, <2>1 DEF ClockInv, ClockForward
  <1>7. ASSUME StartPlatformInstReplaying PROVE ClockInv' /\ ClockForward
    <2>1. /\ state = "OFF" /\ state' = "REPLAYING" /\ position' = 0 /\ shown' = 0 /\ replayStart' = now
          /\ UNCHANGED <<readings, file, recordStart, now>>
      BY <1>7 DEF StartPlatformInstReplaying, ModeInv, historyVars
    <2>2. NowRecTime' = recordStart
      BY <1>0, <2>1 DEF NowRecTime
    <2>3. 0 < Len(readings) => readings[1] \in Nat
      <3>1. 0 < Len(readings) => 1 \in 1..Len(readings)
        BY <1>0
      <3> QED BY <1>0, <3>1
    <2>4. shown' <= Ahead'
      BY <1>0, <2>1, <2>2, <2>3 DEF Ahead
    <2> QED BY <2>1, <2>4 DEF ClockInv, Sorted, ClockForward
  <1>8. ASSUME DumpPlatformInstRecording PROVE ClockInv' /\ ClockForward
    <2>1. /\ state = "OFF" /\ file'.readings = readings
          /\ UNCHANGED <<state, readings>>
      BY <1>8 DEF DumpPlatformInstRecording, v8Vars, blinkVars
    <2> QED BY <2>1 DEF ClockInv, Sorted, ClockForward
  <1>9. ASSUME LoadPlatformInstRecording PROVE ClockInv' /\ ClockForward
    <2>1. state = "OFF" /\ readings' = file.readings /\ UNCHANGED <<state, file>>
      BY <1>9 DEF LoadPlatformInstRecording
    <2> QED BY <2>1 DEF ClockInv, Sorted, ClockForward
  <1>10. ASSUME StopPlatformInst PROVE ClockInv' /\ ClockForward
    <2>1. state' = "OFF" /\ UNCHANGED <<readings, file>>
      BY <1>10 DEF StopPlatformInst, blinkVars
    <2> QED BY <2>1 DEF ClockInv, Sorted, ClockForward
  <1>11. ASSUME NEW d \in 1..MaxTime, Tick(d) PROVE ClockInv' /\ ClockForward
    <2>1. /\ now' = now + d /\ d \in Nat
          /\ UNCHANGED <<state, readings, position, shown, file, recordStart, replayStart>>
      BY <1>11, ClockAssumption DEF Tick, v8Vars, blinkVars, startVars, historyVars
    <2>2. NowRecTime' >= NowRecTime /\ NowRecTime' \in Int
      BY <1>0, <2>1 DEF NowRecTime
    <2>3. Ahead' >= Ahead /\ Ahead \in Int /\ Ahead' \in Int
      BY <1>0, <2>1, <2>2, AheadTypes DEF Ahead
    <2>4. state = "REPLAYING" => shown' <= Ahead'
      BY <1>0, <2>1, <2>3 DEF ClockInv
    <2>5. state = "RECORDING" => \A i \in 1..Len(readings) : readings[i] <= now'
      BY <1>0, <2>1 DEF ClockInv
    <2>6. shown' >= shown
      BY <1>0, <2>1
    <2> QED BY <2>1, <2>4, <2>5, <2>6 DEF ClockInv, Sorted, ClockForward
  <1>12. ASSUME UNCHANGED <<state, readings, position, shown, file, now, recordStart, replayStart>>
         PROVE  ClockInv' /\ ClockForward
    <2>1. Ahead' = Ahead /\ shown' >= shown
      BY <1>0, <1>12 DEF Ahead, NowRecTime
    <2> QED BY <1>12, <2>1 DEF ClockInv, Sorted, ClockForward
  <1>13. ASSUME \/ \E t \in Traces : \/ DateRecorded(t) \/ DateReplayed(t) \/ RandomReplayed(t)
                                     \/ \E r \in Randoms : RandomGenerated(t, r)
                \/ InitPlatformInstrumentation \/ UNCHANGED vars
         PROVE  UNCHANGED <<state, readings, position, shown, file, now, recordStart, replayStart>>
    BY <1>13 DEF DateRecorded, DateReplayed, RandomReplayed, RandomGenerated,
                 InitPlatformInstrumentation, vars, v8Vars, blinkVars, startVars, historyVars
  <1> QED BY <1>1, <1>2, <1>3, <1>4, <1>6, <1>7, <1>8, <1>9, <1>10, <1>11, <1>12, <1>13
          DEF Next, DateOff

\* Within one replay Blink's clock never goes back: whether it shows a reading of
\* the past, one ahead of time or an estimate.
THEOREM BlinkClockNeverGoesBack == Spec => BlinkClockMonotone
  <1>1. Init => ClockInv
    BY DEF Init, ClockInv, Sorted, NoFile
  <1>2. TypeInv /\ ModeInv /\ ClockInv /\ [Next]_vars => ClockInv' /\ ClockForward
    BY StepClock
  <1>3. ClockForward => [state = "REPLAYING" /\ state' = "REPLAYING" => shown' >= shown]_vars
    BY DEF ClockForward
  <1> QED BY <1>1, <1>2, <1>3, Modes, PTL DEF Spec, BlinkClockMonotone
===============================================================================
