----------------------------- MODULE RemoteWrite ----------------------------
(***************************************************************************)
(* internal/remotewrite: Client.Push and what it does to the endpoint.  A  *)
(* push cuts the series into batches and starts a goroutine for each; at   *)
(* most MaxShards of them hold a shard, which they keep while they wait    *)
(* between two attempts.  When all have returned the outcome is added to   *)
(* the status that the UI shows.  The runner pushes once per cycle and     *)
(* waits for the push to end.                                              *)
(*                                                                         *)
(* The endpoint is not in the repository: it may take a request or not,    *)
(* refuse it, or take it and have its answer lost.                         *)
(***************************************************************************)
EXTENDS Integers, FiniteSets, FiniteSetsExt

CONSTANTS
    Counts,             \* how many series a push may have
    MaxSamplesPerSend,
    MaxShards,
    MaxRetries,         \* may be negative, which is taken as none
    MaxPushes           \* bound: pushes in a behaviour

ASSUME RemoteWriteAssumption ==
    /\ Counts \subseteq Nat
    /\ MaxSamplesPerSend \in Int
    /\ MaxShards \in Int
    /\ MaxRetries \in Int
    /\ MaxPushes \in Nat

BatchSize == IF MaxSamplesPerSend < 1 THEN 500 ELSE MaxSamplesPerSend
Shards    == IF MaxShards < 1 THEN 1 ELSE MaxShards
Retries   == IF MaxRetries < 0 THEN 0 ELSE MaxRetries

VARIABLES
    series,     \* the number of series of the running push, 0 between pushes
    state,      \* state[b]: how far the goroutine of batch b has got
    attempts,   \* attempts[b]: requests begun for b
    ingested,   \* ingested[b]: times the endpoint took b
    firstErr,   \* some batch of the push has failed
    sent,       \* series in the batches that succeeded
    failed,     \* series in those that failed
    expired,    \* the context of the push is done
    pushes,     \* pushes begun
    offered,    \* series of all the pushes, for the properties
    status      \* Status: SamplesSent, SamplesFailed, and whether the last
                \* push left LastError empty and set LastSuccess

batchVars == <<state, attempts, ingested>>
outcome   == <<firstErr, sent, failed>>
vars      == <<series, batchVars, outcome, expired, pushes, offered, status>>

\* Mutant of Batches: the last, smaller batch is forgotten.
BatchesFull(n) ==
    {[first |-> i, last |-> i + BatchSize - 1] :
        i \in {j \in 1 .. n : (j - 1) % BatchSize = 0 /\ j + BatchSize - 1 <= n}}

\* The batches of n series, as the indexes of their first and last series.
Batches(n) ==
    {[first |-> i, last |-> Min({i + BatchSize - 1, n})] :
        i \in {j \in 1 .. n : (j - 1) % BatchSize = 0}}

Size(b) == b.last - b.first + 1

Init ==
    /\ series = 0
    /\ state = [b \in {} |-> "queued"]
    /\ attempts = [b \in {} |-> 0]
    /\ ingested = [b \in {} |-> 0]
    /\ firstErr = FALSE
    /\ sent = 0
    /\ failed = 0
    /\ expired = FALSE
    /\ pushes = 0
    /\ offered = 0
    /\ status = [sent |-> 0, failed |-> 0, noError |-> TRUE]

-----------------------------------------------------------------------------
\* Push with at least one series; with none it returns at once.
Begin(n) ==
    /\ series = 0
    /\ n > 0
    /\ pushes < MaxPushes
    /\ pushes' = pushes + 1
    /\ series' = n
    /\ offered' = offered + n
    /\ state' = [b \in Batches(n) |-> "queued"]
    /\ attempts' = [b \in Batches(n) |-> 0]
    /\ ingested' = [b \in Batches(n) |-> 0]
    /\ firstErr' = FALSE
    /\ sent' = 0
    /\ failed' = 0
    /\ expired' = FALSE
    /\ UNCHANGED status

\* Mutant of Holding: a batch that failed does not give its shard back.
HoldingForEver == {b \in DOMAIN state : state[b] \in {"sending", "backoff", "failed"}}

\* The batches that hold a shard.
Holding == {b \in DOMAIN state : state[b] \in {"sending", "backoff"}}

\* sem <- struct{}{}, whether the context is done or not.
Acquire(b) ==
    /\ state[b] = "queued"
    /\ Cardinality(Holding) < Shards
    /\ state' = [state EXCEPT ![b] = "sending"]
    /\ attempts' = [attempts EXCEPT ![b] = 1]
    /\ UNCHANGED <<series, ingested, outcome, expired, pushes, offered, status>>

\* The goroutine of b counts its series and gives its shard back.
Succeed(b) ==
    /\ state' = [state EXCEPT ![b] = "sent"]
    /\ sent' = sent + Size(b)
    /\ UNCHANGED <<firstErr, failed>>

Fail(b) ==
    /\ state' = [state EXCEPT ![b] = "failed"]
    /\ failed' = failed + Size(b)
    /\ firstErr' = TRUE
    /\ UNCHANGED sent

\* A 2xx answer.
Accepted(b) ==
    /\ state[b] = "sending"
    /\ ~expired
    /\ ingested' = [ingested EXCEPT ![b] = @ + 1]
    /\ Succeed(b)
    /\ UNCHANGED <<series, attempts, expired, pushes, offered, status>>

\* A 4xx answer other than 429, or a request that cannot be built: the error
\* is not retryable.
Refused(b) ==
    /\ state[b] = "sending"
    /\ Fail(b)
    /\ UNCHANGED <<series, attempts, ingested, expired, pushes, offered, status>>

\* Mutant of GiveUpOrWait: the loop ends without the last error.
GiveUpSilently(b) ==
    \/ /\ attempts[b] <= Retries
       /\ state' = [state EXCEPT ![b] = "backoff"]
       /\ UNCHANGED outcome
    \/ /\ attempts[b] > Retries
       /\ Succeed(b)

\* After a retryable error: the loop of sendWithRetry goes on or ends.
GiveUpOrWait(b) ==
    \/ /\ attempts[b] <= Retries
       /\ state' = [state EXCEPT ![b] = "backoff"]
       /\ UNCHANGED outcome
    \/ /\ attempts[b] > Retries
       /\ Fail(b)

\* A 5xx or 429 answer, a transport error, or no answer before the context is
\* done.  The endpoint may have taken the batch all the same.
Unanswered(b) ==
    /\ state[b] = "sending"
    /\ \/ ingested' = [ingested EXCEPT ![b] = @ + 1]
       \/ UNCHANGED ingested
    /\ GiveUpOrWait(b)
    /\ UNCHANGED <<series, attempts, expired, pushes, offered, status>>

\* Mutant of Retry: the attempt is not counted.
RetryAnew(b) ==
    /\ state[b] = "backoff"
    /\ state' = [state EXCEPT ![b] = "sending"]
    /\ UNCHANGED <<series, attempts, ingested, outcome, expired, pushes, offered, status>>

\* case <-time.After(backoff).
Retry(b) ==
    /\ state[b] = "backoff"
    /\ state' = [state EXCEPT ![b] = "sending"]
    /\ attempts' = [attempts EXCEPT ![b] = @ + 1]
    /\ UNCHANGED <<series, ingested, outcome, expired, pushes, offered, status>>

\* case <-ctx.Done().
Cancel(b) ==
    /\ state[b] = "backoff"
    /\ expired
    /\ Fail(b)
    /\ UNCHANGED <<series, attempts, ingested, expired, pushes, offered, status>>

\* The timeout of the push, or the end of the process's context.
Expire ==
    /\ series > 0
    /\ ~expired
    /\ expired' = TRUE
    /\ UNCHANGED <<series, batchVars, outcome, pushes, offered, status>>

AllReturned == \A b \in DOMAIN state : state[b] \in {"sent", "failed"}

\* wg.Wait returns; the status is updated and Push returns the first error.
Finish ==
    /\ series > 0
    /\ AllReturned
    /\ status' = [sent    |-> status.sent + sent,
                  failed  |-> status.failed + failed,
                  noError |-> ~firstErr]
    /\ series' = 0
    /\ UNCHANGED <<batchVars, outcome, expired, pushes, offered>>

-----------------------------------------------------------------------------
Goroutine(b) ==
    Acquire(b) \/ Accepted(b) \/ Refused(b) \/ Unanswered(b) \/ Retry(b) \/ Cancel(b)

Next ==
    \/ \E n \in Counts : Begin(n)
    \/ \E b \in DOMAIN state : Goroutine(b)
    \/ Expire
    \/ Finish

SafeSpec == Init /\ [][Next]_vars

(***************************************************************************)
(* The timeout of a push comes.  A request may take for ever until then,   *)
(* and fails soon after; a backoff ends.                                   *)
(***************************************************************************)
Spec ==
    /\ SafeSpec
    /\ WF_vars(Expire)
    /\ WF_vars(Finish)
    /\ \A n \in Counts : \A b \in Batches(n) :
        /\ WF_vars(b \in DOMAIN state /\ Acquire(b))
        /\ WF_vars(b \in DOMAIN state /\ expired /\ Unanswered(b))
        /\ WF_vars(b \in DOMAIN state /\ (Retry(b) \/ Cancel(b)))

-----------------------------------------------------------------------------
TypeOK ==
    /\ series \in Counts \cup {0}
    /\ DOMAIN state = DOMAIN attempts
    /\ series > 0 => DOMAIN state = Batches(series)
    /\ \A b \in DOMAIN state :
        /\ state[b] \in {"queued", "sending", "backoff", "sent", "failed"}
        /\ attempts[b] \in 0 .. Retries + 1
        /\ ingested[b] \in 0 .. attempts[b]
    /\ {firstErr, expired, status.noError} \subseteq BOOLEAN
    /\ {sent, failed, offered, status.sent, status.failed} \subseteq Nat

(***************************************************************************)
(* "Push sends every series" (client.go:83): between pushes every series   *)
(* that was ever offered is counted once, as sent or as failed, however    *)
(* the batches ended, and a clean last push is one that sent them all.     *)
(***************************************************************************)
EverySeriesCounted ==
    series = 0 => /\ status.sent + status.failed = offered
                  /\ status.noError <=> failed = 0

(***************************************************************************)
(* What SamplesSent counts has reached the endpoint: a batch that ran out  *)
(* of attempts, or of time, is never counted as sent.                      *)
(***************************************************************************)
SentIsIngested == \A b \in DOMAIN state : state[b] = "sent" => ingested[b] > 0

(***************************************************************************)
(* A push ends, whatever the endpoint does, and its batches do not wait    *)
(* for one another's shards for ever: the loop that waits for it goes on.  *)
(***************************************************************************)
PushEnds == series > 0 ~> series = 0
=============================================================================
