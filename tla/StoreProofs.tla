----------------------------- MODULE StoreProofs ----------------------------
(***************************************************************************)
(* Proofs about Store, for any clients, volumes, collections and depth.    *)
(***************************************************************************)
EXTENDS Store, SequenceTheorems, TLAPS

\* The handlers that are between Subscribe and unsubscribe.
Listening == {"waiting", "woken", "writing"}

(***************************************************************************)
(* How the channels follow the handlers: a channel is registered exactly   *)
(* while its handler listens, and closed only when its handler is done.    *)
(***************************************************************************)
Registered ==
    \A c \in Clients : /\ c \in subscribers <=> pc[c] \in Listening
                       /\ closed[c] => pc[c] = "done"

-----------------------------------------------------------------------------
(***************************************************************************)
(* Trim returns the end of its argument, of bounded length.                *)
(***************************************************************************)
LEMMA TrimKeepsTheEnd ==
  ASSUME NEW S, NEW s \in Seq(S), Len(s) <= HistoryDepth + 1
  PROVE  /\ Trim(s) \in Seq(S)
         /\ Len(Trim(s)) <= HistoryDepth
         /\ s # <<>> => Trim(s) # <<>>
         /\ \E d \in 0 .. 1 :
              /\ Len(Trim(s)) + d = Len(s)
              /\ d = 1 => Len(Trim(s)) = HistoryDepth
              /\ \A i \in 1 .. Len(Trim(s)) : Trim(s)[i] = s[i + d]
<1>1. CASE Len(s) > HistoryDepth
  <2>1. Len(s) = HistoryDepth + 1
    BY <1>1, StoreAssumption
  <2>2. Trim(s) = SubSeq(s, 2, Len(s))
    BY <1>1, <2>1, StoreAssumption DEF Trim
  <2>3. /\ Trim(s) \in Seq(S)
        /\ Len(Trim(s)) = HistoryDepth
        /\ \A i \in 1 .. HistoryDepth : Trim(s)[i] = s[i + 1]
    BY <2>1, <2>2, StoreAssumption
  <2>4. Trim(s) # <<>>
    BY <2>3, StoreAssumption
  <2>5. QED
    BY <2>1, <2>3, <2>4, StoreAssumption
<1>2. CASE ~(Len(s) > HistoryDepth)
  BY <1>2, StoreAssumption DEF Trim
<1>3. QED
  BY <1>1, <1>2

-----------------------------------------------------------------------------
(***************************************************************************)
(* Type correctness.                                                       *)
(***************************************************************************)
LEMMA RetainType ==
  ASSUME TypeOK, NEW k \in Keys, NEW found \in Scrapes, generatedAt < MaxPuts
  PROVE  Retain(history[k], found[k], generatedAt + 1) \in Seq(1 .. MaxPuts)
<1>1. /\ history[k] \in Seq(1 .. MaxPuts)
      /\ generatedAt + 1 \in 1 .. MaxPuts
  BY StoreAssumption DEF TypeOK
<1>2. Append(history[k], generatedAt + 1) \in Seq(1 .. MaxPuts)
  BY <1>1
<1>3. \A s \in Seq(1 .. MaxPuts) : Trim(s) \in Seq(1 .. MaxPuts)
  <2> TAKE s \in Seq(1 .. MaxPuts)
  <2>1. CASE Len(s) > HistoryDepth
    <3>1. /\ Len(s) - HistoryDepth + 1 \in 1 .. Len(s)
          /\ Trim(s) = SubSeq(s, Len(s) - HistoryDepth + 1, Len(s))
      BY <2>1, StoreAssumption DEF Trim
    <3>2. \A i \in Len(s) - HistoryDepth + 1 .. Len(s) : s[i] \in 1 .. MaxPuts
      <4> TAKE i \in Len(s) - HistoryDepth + 1 .. Len(s)
      <4>1. i \in 1 .. Len(s)
        BY <3>1
      <4>2. QED
        BY <4>1, ElementOfSeq
    <3> DEFINE first == Len(s) - HistoryDepth + 1
    <3>3. Len(s) \in Int /\ first \in Int
      BY StoreAssumption
    <3> HIDE DEF first
    <3>4. SubSeq(s, first, Len(s)) \in Seq(1 .. MaxPuts)
      <4>1. \A i \in first .. Len(s) : s[i] \in 1 .. MaxPuts
        BY <3>2 DEF first
      <4>2. QED
        BY <3>3, <4>1, SubSeqProperties, Zenon
    <3>5. QED
      BY <3>1, <3>4 DEF first
  <2>2. CASE ~(Len(s) > HistoryDepth)
    BY <2>2 DEF Trim
  <2>3. QED
    BY <2>1, <2>2
<1>4. <<>> \in Seq(1 .. MaxPuts)
  BY EmptySeq
<1>5. found[k] \in VolumeStates
  BY StoreAssumption
<1>6. QED
  BY <1>1, <1>2, <1>3, <1>4, <1>5 DEF Retain, VolumeStates

LEMMA TypeOKStep == TypeOK /\ [Next]_vars => TypeOK'
<1> SUFFICES ASSUME TypeOK, [Next]_vars PROVE TypeOK'
  OBVIOUS
<1>1. ASSUME NEW found \in Scrapes, PutLocked(found) PROVE TypeOK'
  <2>1. generatedAt' \in 0 .. MaxPuts
    BY <1>1, StoreAssumption DEF TypeOK, PutLocked
  <2>2. volumes' \in [Keys -> VolumeStates]
    BY <1>1, StoreAssumption DEF PutLocked
  <2>3. \A k \in Keys :
          Retain(history[k], found[k], generatedAt + 1) \in Seq(1 .. MaxPuts)
    BY <1>1, RetainType DEF PutLocked
  <2>4. history' \in [Keys -> Seq(1 .. MaxPuts)]
    BY <1>1, <2>3 DEF PutLocked
  <2>5. QED
    BY <1>1, <2>1, <2>2, <2>4 DEF TypeOK, PutLocked, channels
<1>2. ASSUME NEW c \in Clients, Send(c) PROVE TypeOK'
  BY <1>2 DEF TypeOK, Send, store
<1>3. ASSUME NEW c \in Clients, HangUp(c) PROVE TypeOK'
  BY <1>3 DEF TypeOK, HangUp, store, channels
<1>4. ASSUME NEW c \in Clients, Subscribe(c) PROVE TypeOK'
  BY <1>4 DEF TypeOK, Subscribe, store
<1>5. ASSUME NEW c \in Clients, Wake(c) PROVE TypeOK'
  BY <1>5 DEF TypeOK, Wake, store
<1>6. ASSUME NEW c \in Clients, ReadSnapshot(c) PROVE TypeOK'
  BY <1>6 DEF TypeOK, ReadSnapshot, store, channels
<1>7. ASSUME NEW c \in Clients, Flush(c) PROVE TypeOK'
  BY <1>7 DEF TypeOK, Flush, store, channels
<1>8. ASSUME NEW c \in Clients, Unregister(c) PROVE TypeOK'
  BY <1>8 DEF TypeOK, Unregister, store
<1>9. ASSUME NEW c \in Clients, Close(c) PROVE TypeOK'
  BY <1>9 DEF TypeOK, Close, store
<1>10. CASE UNCHANGED vars
  BY <1>10 DEF TypeOK, vars, store, channels
<1>11. QED
  BY <1>1, <1>2, <1>3, <1>4, <1>5, <1>6, <1>7, <1>8, <1>9, <1>10
  DEF Next, Handler

LEMMA TypeOKInit == Init => TypeOK
<1> SUFFICES ASSUME Init PROVE TypeOK
  OBVIOUS
<1>1. history \in [Keys -> Seq(1 .. MaxPuts)]
  <2>1. <<>> \in Seq(1 .. MaxPuts)
    BY EmptySeq
  <2>2. QED
    BY <2>1, Zenon DEF Init
<1>2. volumes \in [Keys -> VolumeStates]
  BY DEF Init, VolumeStates
<1>3. generatedAt \in 0 .. MaxPuts /\ told \in [Clients -> 0 .. MaxPuts]
  BY StoreAssumption DEF Init
<1>4. QED
  BY <1>1, <1>2, <1>3, Zenon DEF Init, TypeOK

(***************************************************************************)
(* Every reachable state is well typed: in particular every retained point *)
(* carries the time of a collection that took place.                       *)
(***************************************************************************)
THEOREM StoreTypeOK == SafeSpec => []TypeOK
  BY TypeOKInit, TypeOKStep, PTL DEF SafeSpec

-----------------------------------------------------------------------------
(***************************************************************************)
(* No lost wakeup.                                                         *)
(***************************************************************************)
WakeupInv == TypeOK /\ Registered /\ NoLostWakeup

LEMMA RegisteredStep == TypeOK /\ Registered /\ [Next]_vars => Registered'
<1> SUFFICES ASSUME TypeOK, Registered, [Next]_vars PROVE Registered'
  OBVIOUS
<1> USE DEF TypeOK, Registered, Listening
<1>1. ASSUME NEW found \in Scrapes, PutLocked(found) PROVE Registered'
  BY <1>1 DEF PutLocked, channels
<1>2. ASSUME NEW c \in Clients, Send(c) PROVE Registered'
  BY <1>2 DEF Send
<1>3. ASSUME NEW c \in Clients, HangUp(c) PROVE Registered'
  BY <1>3 DEF HangUp, channels
<1>4. ASSUME NEW c \in Clients, Subscribe(c) PROVE Registered'
  BY <1>4 DEF Subscribe
<1>5. ASSUME NEW c \in Clients, Wake(c) PROVE Registered'
  BY <1>5 DEF Wake
<1>6. ASSUME NEW c \in Clients, ReadSnapshot(c) PROVE Registered'
  BY <1>6 DEF ReadSnapshot, channels
<1>7. ASSUME NEW c \in Clients, Flush(c) PROVE Registered'
  BY <1>7 DEF Flush, channels
<1>8. ASSUME NEW c \in Clients, Unregister(c) PROVE Registered'
  BY <1>8 DEF Unregister
<1>9. ASSUME NEW c \in Clients, Close(c) PROVE Registered'
  BY <1>9 DEF Close
<1>10. CASE UNCHANGED vars
  BY <1>10 DEF vars, channels
<1>11. QED
  BY <1>1, <1>2, <1>3, <1>4, <1>5, <1>6, <1>7, <1>8, <1>9, <1>10
  DEF Next, Handler

(***************************************************************************)
(* A wakeup leaves the list of Put only into the channel of a subscriber,  *)
(* whose channel is open by Registered, and leaves the channel only for a  *)
(* handler that is about to read the snapshot.                             *)
(***************************************************************************)
LEMMA NoLostWakeupStep == WakeupInv /\ [Next]_vars => NoLostWakeup'
<1> SUFFICES ASSUME TypeOK, Registered, NoLostWakeup, [Next]_vars
             PROVE  NoLostWakeup'
  BY DEF WakeupInv
<1> USE DEF TypeOK, NoLostWakeup
<1>1. ASSUME NEW found \in Scrapes, PutLocked(found) PROVE NoLostWakeup'
  BY <1>1 DEF PutLocked, channels
<1>2. ASSUME NEW c \in Clients, Send(c) PROVE NoLostWakeup'
  <2>1. c \in subscribers => ~closed[c]
    BY DEF Registered, Listening
  <2>2. QED
    BY <1>2, <2>1 DEF Send, store
<1>3. ASSUME NEW c \in Clients, HangUp(c) PROVE NoLostWakeup'
  BY <1>3 DEF HangUp, channels, store
<1>4. ASSUME NEW c \in Clients, Subscribe(c) PROVE NoLostWakeup'
  BY <1>4 DEF Subscribe, store
<1>5. ASSUME NEW c \in Clients, Wake(c) PROVE NoLostWakeup'
  BY <1>5 DEF Wake, store
<1>6. ASSUME NEW c \in Clients, ReadSnapshot(c) PROVE NoLostWakeup'
  BY <1>6 DEF ReadSnapshot, channels, store
<1>7. ASSUME NEW c \in Clients, Flush(c) PROVE NoLostWakeup'
  BY <1>7 DEF Flush, channels, store
<1>8. ASSUME NEW c \in Clients, Unregister(c) PROVE NoLostWakeup'
  BY <1>8 DEF Unregister, store
<1>9. ASSUME NEW c \in Clients, Close(c) PROVE NoLostWakeup'
  BY <1>9 DEF Close, store
<1>10. CASE UNCHANGED vars
  BY <1>10 DEF vars, channels, store
<1>11. QED
  BY <1>1, <1>2, <1>3, <1>4, <1>5, <1>6, <1>7, <1>8, <1>9, <1>10
  DEF Next, Handler

LEMMA WakeupInvAlways == SafeSpec => []WakeupInv
<1>1. Init => Registered /\ NoLostWakeup
  BY DEF Init, Registered, Listening, NoLostWakeup
<1>2. WakeupInv /\ [Next]_vars => WakeupInv'
  BY RegisteredStep, NoLostWakeupStep, TypeOKStep DEF WakeupInv
<1>3. Init => WakeupInv
  BY <1>1, TypeOKInit DEF WakeupInv
<1>4. QED
  BY <1>2, <1>3, PTL DEF SafeSpec

(***************************************************************************)
(* A subscriber that is behind always has a wakeup on its way to it: one   *)
(* slot per channel is enough for any number of clients and collections.   *)
(***************************************************************************)
THEOREM StoreNoLostWakeup == SafeSpec => []NoLostWakeup
<1>1. WakeupInv => NoLostWakeup
  BY DEF WakeupInv
<1>2. QED
  BY <1>1, WakeupInvAlways, PTL

-----------------------------------------------------------------------------
(***************************************************************************)
(* Implementation of the feed, the safety part.  Put publishes, Subscribe  *)
(* joins, the read of the snapshot tells, and both Unregister and a panic  *)
(* leave; the other steps are invisible.                                   *)
(***************************************************************************)
LEMMA FeedStep ==
  WakeupInv /\ [Next]_vars => [FeedOfStore!Next]_(FeedOfStore!vars)
<1> SUFFICES ASSUME TypeOK, Registered, [Next]_vars
             PROVE  [FeedOfStore!Next]_(FeedOfStore!vars)
  BY DEF WakeupInv
<1> DEFINE joined == IF crashed THEN {} ELSE subscribers
<1> USE DEF TypeOK, FeedOfStore!vars
<1>1. CASE UNCHANGED vars
  BY <1>1 DEF vars, store, channels
<1>2. ASSUME ~crashed, NEW found \in Scrapes, PutLocked(found)
      PROVE  FeedOfStore!Publish
  BY <1>2 DEF PutLocked, channels, FeedOfStore!Publish
<1>3. ASSUME ~crashed, NEW c \in Clients, Send(c)
      PROVE  FeedOfStore!Leave(Clients) \/ UNCHANGED FeedOfStore!vars
  BY <1>3 DEF Send, store, FeedOfStore!Leave
<1>4. ASSUME ~crashed, NEW c \in Clients, Subscribe(c)
      PROVE  FeedOfStore!Join(c)
  BY <1>4 DEF Subscribe, store, Registered, Listening, FeedOfStore!Join
<1>5. ASSUME ~crashed, NEW c \in Clients, ReadSnapshot(c)
      PROVE  FeedOfStore!Tell(c)
  BY <1>5 DEF ReadSnapshot, store, channels, Registered, Listening, FeedOfStore!Tell
<1>6. ASSUME ~crashed, NEW c \in Clients, Unregister(c)
      PROVE  FeedOfStore!Leave({c})
  BY <1>6 DEF Unregister, store, FeedOfStore!Leave
<1>7. ASSUME ~crashed, NEW c \in Clients, HangUp(c) \/ Wake(c) \/ Flush(c) \/ Close(c)
      PROVE  UNCHANGED FeedOfStore!vars
  BY <1>7 DEF HangUp, Wake, Flush, Close, store, channels
<1>8. QED
  BY <1>1, <1>2, <1>3, <1>4, <1>5, <1>6, <1>7
  DEF Next, Handler, FeedOfStore!Next

(***************************************************************************)
(* The store and its handlers implement the feed's safety: a client is     *)
(* only ever told of the latest snapshot, and never goes back to an older  *)
(* one.                                                                    *)
(***************************************************************************)
THEOREM StoreImplementsFeed == SafeSpec => FeedOfStore!SafeSpec
<1>1. Init => FeedOfStore!Init
  BY DEF Init, FeedOfStore!Init
<1>2. QED
  BY <1>1, FeedStep, WakeupInvAlways, PTL DEF SafeSpec, FeedOfStore!SafeSpec

-----------------------------------------------------------------------------
(***************************************************************************)
(* The history.                                                            *)
(***************************************************************************)
\* A history that is in order and does not reach beyond time t.
OrderedUpTo(points, t) ==
    /\ Len(points) <= HistoryDepth
    /\ \A i, j \in 1 .. Len(points) : i < j => points[i] < points[j]
    /\ \A i \in 1 .. Len(points) : points[i] <= t

(***************************************************************************)
(* Retaining a reading that is later than all the retained ones keeps the  *)
(* order and the bound.                                                    *)
(***************************************************************************)
LEMMA RetainOrdered ==
  ASSUME NEW t \in Nat, NEW points \in Seq(Nat), OrderedUpTo(points, t),
         NEW s \in VolumeStates
  PROVE  /\ OrderedUpTo(Retain(points, s, t + 1), t + 1)
         /\ s = "absent" => Retain(points, s, t + 1) = <<>>
         /\ s = "reporting" =>
              /\ Retain(points, s, t + 1) # <<>>
              /\ Retain(points, s, t + 1)[Len(Retain(points, s, t + 1))] = t + 1
<1>1. CASE s = "reporting"
  <2> DEFINE more == Append(points, t + 1)
  <2> DEFINE kept == Trim(more)
  <2>1. /\ more \in Seq(Nat)
        /\ Len(more) = Len(points) + 1
        /\ \A i \in 1 .. Len(points) : more[i] = points[i]
        /\ more[Len(more)] = t + 1
        /\ more # <<>>
    <3>1. t + 1 \in Nat
      OBVIOUS
    <3>2. QED
      BY <3>1, AppendProperties, EmptySeq
  <2>2. /\ \A i, j \in 1 .. Len(more) : i < j => more[i] < more[j]
        /\ \A i \in 1 .. Len(more) : more[i] <= t + 1
        /\ Len(more) <= HistoryDepth + 1
    BY <2>1, StoreAssumption DEF OrderedUpTo
  <2> HIDE DEF more
  <2>3. PICK d \in 0 .. 1 :
          /\ kept \in Seq(Nat)
          /\ Len(kept) <= HistoryDepth
          /\ kept # <<>>
          /\ Len(kept) + d = Len(more)
          /\ \A i \in 1 .. Len(kept) : kept[i] = more[i + d]
    BY <2>1, <2>2, TrimKeepsTheEnd
  <2> HIDE DEF kept
  <2>4. OrderedUpTo(kept, t + 1)
    <3>1. \A i \in 1 .. Len(kept) : i + d \in 1 .. Len(more)
      BY <2>1, <2>3
    <3>2. QED
      BY <2>2, <2>3, <3>1 DEF OrderedUpTo
  <2>5. kept[Len(kept)] = t + 1
    <3>1. Len(kept) \in 1 .. Len(kept)
      BY <2>3
    <3>2. QED
      BY <2>1, <2>3, <3>1
  <2>6. Retain(points, s, t + 1) = kept
    BY <1>1 DEF Retain, kept, more
  <2>7. QED
    BY <1>1, <2>3, <2>4, <2>5, <2>6
<1>2. CASE s = "silent"
  BY <1>2 DEF Retain, OrderedUpTo
<1>3. CASE s = "absent"
  <2>1. Retain(points, s, t + 1) = <<>>
    BY <1>3 DEF Retain
  <2>2. OrderedUpTo(<<>>, t + 1)
    BY StoreAssumption, EmptySeq DEF OrderedUpTo
  <2>3. QED
    BY <1>3, <2>1, <2>2
<1>4. QED
  BY <1>1, <1>2, <1>3 DEF VolumeStates

LEMMA HistoryOrderedStep == TypeOK /\ HistoryOrdered /\ [Next]_vars => HistoryOrdered'
<1> SUFFICES ASSUME TypeOK, HistoryOrdered, [Next]_vars PROVE HistoryOrdered'
  OBVIOUS
<1>1. ASSUME NEW found \in Scrapes, PutLocked(found) PROVE HistoryOrdered'
  <2> SUFFICES ASSUME NEW k \in Keys
      PROVE /\ OrderedUpTo(history'[k], generatedAt')
            /\ volumes'[k] = "absent" => history'[k] = <<>>
            /\ volumes'[k] = "reporting" =>
                 /\ history'[k] # <<>>
                 /\ history'[k][Len(history'[k])] = generatedAt'
    BY DEF HistoryOrdered, OrderedUpTo
  <2>1. generatedAt \in Nat /\ history[k] \in Seq(Nat)
    BY StoreAssumption, SeqMonotonic DEF TypeOK
  <2>2. OrderedUpTo(history[k], generatedAt)
    BY DEF HistoryOrdered, OrderedUpTo
  <2>3. found[k] \in VolumeStates
    BY StoreAssumption
  <2>4. /\ generatedAt' = generatedAt + 1
        /\ volumes'[k] = found[k]
        /\ history'[k] = Retain(history[k], found[k], generatedAt + 1)
    BY <1>1 DEF PutLocked
  <2>5. QED
    BY <2>1, <2>2, <2>3, <2>4, RetainOrdered
<1>2. CASE UNCHANGED store
  BY <1>2 DEF HistoryOrdered, store
<1>3. ASSUME NEW c \in Clients, Send(c) \/ HangUp(c) \/ Handler(c)
      PROVE  UNCHANGED store
  BY <1>3 DEF Send, HangUp, Handler, Subscribe, Wake, ReadSnapshot, Flush,
              Unregister, Close
<1>4. QED
  BY <1>1, <1>2, <1>3 DEF Next, vars

(***************************************************************************)
(* The history of every volume stays in order and bounded, and ends in the *)
(* reading of the stored snapshot, whatever the collections found.         *)
(***************************************************************************)
THEOREM StoreHistoryOrdered == SafeSpec => []HistoryOrdered
<1>1. Init => HistoryOrdered
  BY StoreAssumption, EmptySeq DEF Init, HistoryOrdered
<1>2. QED
  BY <1>1, HistoryOrderedStep, StoreTypeOK, PTL DEF SafeSpec

=============================================================================
