-------------------------------- MODULE Store -------------------------------
(***************************************************************************)
(* internal/store: the latest snapshot, the usage history of every volume  *)
(* and the channels that wake the SSE handlers, together with the SSE      *)
(* handlers of internal/api that wait on those channels.                   *)
(*                                                                         *)
(* One goroutine (the runner's) calls Put.  Put works under the lock, then *)
(* releases it and sends to the channels it copied, one after another; the *)
(* handlers run in between.  Every connection to /api/stream is an element *)
(* of Clients and has one channel, with room for one wakeup.               *)
(***************************************************************************)
EXTENDS Naturals, Sequences

CONSTANTS
    Clients,        \* connections to /api/stream over the life of the process
    Attentive,      \* those whose browser keeps reading the stream
    Keys,           \* volume keys
    Scrapes,        \* what a collection can find, see VolumeStates
    HistoryDepth,   \* historyDepth
    MaxPuts         \* bound: collections in a behaviour

\* How a snapshot lists a volume: not at all, without usage, or with usage.
VolumeStates == {"absent", "silent", "reporting"}

ASSUME StoreAssumption ==
    /\ Attentive \subseteq Clients
    /\ Scrapes \subseteq [Keys -> VolumeStates]
    /\ HistoryDepth \in Nat \ {0}
    /\ MaxPuts \in Nat

VARIABLES
    generatedAt,    \* the stored snapshot's time: how many Puts there were
    volumes,        \* the stored snapshot's volumes
    history,        \* history[k]: the times of the retained points, <<>> if none
    subscribers,    \* the channels registered in the store
    toNotify,       \* the rest of the channels the running Put copied
    pending,        \* pending[c]: the channel of c holds a wakeup
    closed,         \* closed[c]: the channel of c is closed
    pc,             \* pc[c]: where the handler of c is
    told,           \* told[c]: the snapshot c was told of last, or the one
                    \* that was current when it subscribed
    gone,           \* the clients that closed the connection
    crashed         \* a goroutine panicked, which ends the process

store    == <<generatedAt, volumes, history>>
channels == <<subscribers, pending, closed>>
vars     == <<store, channels, toNotify, pc, told, gone, crashed>>

Init ==
    /\ generatedAt = 0
    /\ volumes = [k \in Keys |-> "absent"]
    /\ history = [k \in Keys |-> <<>>]
    /\ subscribers = {}
    /\ toNotify = {}
    /\ pending = [c \in Clients |-> FALSE]
    /\ closed = [c \in Clients |-> FALSE]
    /\ pc = [c \in Clients |-> "new"]
    /\ told = [c \in Clients |-> 0]
    /\ gone = {}
    /\ crashed = FALSE

-----------------------------------------------------------------------------
(***************************************************************************)
(* The writer: Put.                                                        *)
(***************************************************************************)
Trim(points) ==
    IF Len(points) > HistoryDepth
    THEN SubSeq(points, Len(points) - HistoryDepth + 1, Len(points))
    ELSE points

\* Mutants of Retain: a point stamped with the previous snapshot's time, a
\* volume marked as seen only after the test of HasStats, and a trim that
\* keeps the old end.
RetainStaleTime(points, s, now) ==
    CASE s = "reporting" -> Trim(Append(points, now - 1))
      [] s = "silent"    -> points
      [] s = "absent"    -> <<>>

RetainOnlyReporting(points, s, now) ==
    IF s = "reporting" THEN Trim(Append(points, now)) ELSE <<>>

RetainOldest(points, s, now) ==
    CASE s = "reporting" /\ Len(points) < HistoryDepth -> Append(points, now)
      [] s = "absent" -> <<>>
      [] OTHER        -> points

\* What Put makes of the points of a volume that the snapshot lists as s.
Retain(points, s, now) ==
    CASE s = "reporting" -> Trim(Append(points, now))
      [] s = "silent"    -> points
      [] s = "absent"    -> <<>>

\* The part of Put that holds the lock.
PutLocked(found) ==
    /\ toNotify = {}
    /\ generatedAt < MaxPuts
    /\ generatedAt' = generatedAt + 1
    /\ volumes' = found
    /\ history' = [k \in Keys |-> Retain(history[k], found[k], generatedAt + 1)]
    /\ toNotify' = subscribers
    /\ UNCHANGED <<channels, pc, told, gone, crashed>>

\* Mutant of Send: without its one slot, a channel takes no wakeup while the
\* handler is busy.
SendUnbuffered(c) ==
    /\ c \in toNotify
    /\ toNotify' = toNotify \ {c}
    /\ pending' = [pending EXCEPT ![c] = pc[c] = "waiting"]
    /\ UNCHANGED <<store, subscribers, closed, pc, told, gone, crashed>>

\* One send of the loop at the end of Put, in any order: the channels come
\* out of a map.  A full channel is left alone, a closed one is a panic.
Send(c) ==
    /\ c \in toNotify
    /\ toNotify' = toNotify \ {c}
    /\ \/ /\ closed[c]
          /\ crashed' = TRUE
          /\ UNCHANGED pending
       \/ /\ ~closed[c]
          /\ pending' = [pending EXCEPT ![c] = TRUE]
          /\ UNCHANGED crashed
    /\ UNCHANGED <<store, subscribers, closed, pc, told, gone>>

-----------------------------------------------------------------------------
(***************************************************************************)
(* The readers: handleStream, from Subscribe to the deferred unsubscribe.  *)
(***************************************************************************)
Subscribe(c) ==
    /\ pc[c] = "new"
    /\ subscribers' = subscribers \cup {c}
    /\ pc' = [pc EXCEPT ![c] = "waiting"]
    /\ told' = [told EXCEPT ![c] = generatedAt]
    /\ UNCHANGED <<store, toNotify, pending, closed, gone, crashed>>

\* case <-updates.
Wake(c) ==
    /\ pc[c] = "waiting"
    /\ pending[c]
    /\ pending' = [pending EXCEPT ![c] = FALSE]
    /\ pc' = [pc EXCEPT ![c] = "woken"]
    /\ UNCHANGED <<store, subscribers, closed, toNotify, told, gone, crashed>>

\* s.store.Snapshot(), which takes the read lock.
ReadSnapshot(c) ==
    /\ pc[c] = "woken"
    /\ told' = [told EXCEPT ![c] = generatedAt]
    /\ pc' = [pc EXCEPT ![c] = "writing"]
    /\ UNCHANGED <<store, channels, toNotify, gone, crashed>>

\* Mutant of Flush: wakeups that came during the write are drained.
FlushAndDrain(c) ==
    /\ pc[c] = "writing"
    /\ pc' = [pc EXCEPT ![c] = "waiting"]
    /\ pending' = [pending EXCEPT ![c] = FALSE]
    /\ UNCHANGED <<store, subscribers, closed, toNotify, told, gone, crashed>>

\* Writing and flushing the event, which waits for a browser that does not
\* read and returns, with an error nobody looks at, once it is gone.
Flush(c) ==
    /\ pc[c] = "writing"
    /\ pc' = [pc EXCEPT ![c] = "waiting"]
    /\ UNCHANGED <<store, channels, toNotify, told, gone, crashed>>

\* The browser goes away, at any time.
HangUp(c) ==
    /\ c \notin gone
    /\ gone' = gone \cup {c}
    /\ UNCHANGED <<store, channels, toNotify, pc, told, crashed>>

\* Mutant of Unregister: the channel is closed but stays registered.
UnregisterNothing(c) ==
    /\ pc[c] = "waiting"
    /\ c \in gone
    /\ pc' = [pc EXCEPT ![c] = "leaving"]
    /\ UNCHANGED <<store, channels, toNotify, told, gone, crashed>>

\* case <-r.Context().Done(), and the locked half of unsubscribe.
Unregister(c) ==
    /\ pc[c] = "waiting"
    /\ c \in gone
    /\ subscribers' = subscribers \ {c}
    /\ pc' = [pc EXCEPT ![c] = "leaving"]
    /\ UNCHANGED <<store, toNotify, pending, closed, told, gone, crashed>>

\* The other half of unsubscribe, after the lock is released.
Close(c) ==
    /\ pc[c] = "leaving"
    /\ closed' = [closed EXCEPT ![c] = TRUE]
    /\ pc' = [pc EXCEPT ![c] = "done"]
    /\ UNCHANGED <<store, subscribers, toNotify, pending, told, gone, crashed>>

-----------------------------------------------------------------------------
Handler(c) ==
    Subscribe(c) \/ Wake(c) \/ ReadSnapshot(c) \/ Flush(c)
                 \/ Unregister(c) \/ Close(c)

Next ==
    /\ ~crashed
    /\ \/ \E found \in Scrapes : PutLocked(found)
       \/ \E c \in Clients : Send(c) \/ HangUp(c) \/ Handler(c)

SafeSpec == Init /\ [][Next]_vars

Step(A) == ~crashed /\ A

(***************************************************************************)
(* A goroutine that can run does.  Nothing makes a collection happen or a  *)
(* client connect or hang up.  A flush returns when the browser reads or   *)
(* is gone.  Unregister competes with Wake in a select, which chooses at   *)
(* random among the ready cases, so it is not passed over for ever.        *)
(***************************************************************************)
Fairness ==
    \A c \in Clients :
        /\ WF_vars(Step(Send(c)))
        /\ WF_vars(Step(Wake(c)))
        /\ WF_vars(Step(ReadSnapshot(c)))
        /\ WF_vars(Step(Flush(c) /\ c \in Attentive \cup gone))
        /\ SF_vars(Step(Unregister(c)))
        /\ WF_vars(Step(Close(c)))

Spec == SafeSpec /\ Fairness

-----------------------------------------------------------------------------
TypeOK ==
    /\ generatedAt \in 0 .. MaxPuts
    /\ volumes \in [Keys -> VolumeStates]
    /\ history \in [Keys -> Seq(1 .. MaxPuts)]
    /\ subscribers \subseteq Clients
    /\ toNotify \subseteq Clients
    /\ pending \in [Clients -> BOOLEAN]
    /\ closed \in [Clients -> BOOLEAN]
    /\ pc \in [Clients -> {"new", "waiting", "woken", "writing", "leaving", "done"}]
    /\ told \in [Clients -> 0 .. MaxPuts]
    /\ gone \subseteq Clients
    /\ crashed \in BOOLEAN

(***************************************************************************)
(* No lost wakeup: a subscriber that was last told of an older snapshot    *)
(* than the stored one has a wakeup in its channel, is on the list of the  *)
(* running Put, or has taken a wakeup and not yet read the snapshot.       *)
(* This is what makes a channel of one slot enough, whatever the order of  *)
(* Put's sends and the handler's reads.                                    *)
(***************************************************************************)
NoLostWakeup ==
    \A c \in subscribers :
        told[c] # generatedAt =>
            pending[c] \/ c \in toNotify \/ pc[c] = "woken"

(***************************************************************************)
(* The points of a volume are in order of time, none is later than the     *)
(* snapshot, no more than historyDepth are kept, and a volume with usage   *)
(* ends in the snapshot's own reading: what decorate relies on when it     *)
(* takes the span and the slope, and what keeps memory bounded.            *)
(***************************************************************************)
HistoryOrdered ==
    \A k \in Keys :
        /\ Len(history[k]) <= HistoryDepth
        /\ \A i, j \in 1 .. Len(history[k]) : i < j => history[k][i] < history[k][j]
        /\ \A i \in 1 .. Len(history[k]) : history[k][i] <= generatedAt
        /\ volumes[k] = "absent" => history[k] = <<>>
        /\ volumes[k] = "reporting" =>
             /\ history[k] # <<>>
             /\ history[k][Len(history[k])] = generatedAt

(***************************************************************************)
(* "updated fires on every new snapshot, so SSE clients can be woken"      *)
(* (store.go:32): no Put ends in a panic instead.  Put sends after it has  *)
(* released the lock, to channels that unsubscribe may close meanwhile.    *)
(***************************************************************************)
UpdatedFires == ~crashed

(***************************************************************************)
(* Handlers whose browser is gone give their channels back, even when they *)
(* were waiting for that browser to read: subscribers do not pile up.      *)
(***************************************************************************)
GoneClientsLeave ==
    gone \cap subscribers # {} ~> (gone \cap subscribers = {} \/ crashed)

(***************************************************************************)
(* The store and its handlers implement the feed.  A panic takes all the   *)
(* listening clients away at once.                                         *)
(***************************************************************************)
FeedOfStore ==
    INSTANCE Feed WITH latest <- generatedAt,
                       joined <- IF crashed THEN {} ELSE subscribers
ImplementsFeed == FeedOfStore!Spec
=============================================================================
