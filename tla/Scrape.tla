------------------------------- MODULE Scrape -------------------------------
(***************************************************************************)
(* internal/collector, one cluster of one collection: collectCluster from  *)
(* the moment its API lists are in.  scrapeNodes walks the nodes and       *)
(* starts a goroutine for each one worth asking; at most NodeConcurrency   *)
(* of them query a kubelet at a time, all under one deadline; they merge   *)
(* what they get under a mutex.  When all have returned, buildVolume joins *)
(* every claim with its mount and its sample.                              *)
(*                                                                         *)
(* The walk records a node that is not Ready in the map of failed nodes    *)
(* without the mutex, while goroutines may record theirs with it.  That is *)
(* a data race: see BeginRecord.                                           *)
(***************************************************************************)
EXTENDS Integers, FiniteSets, Sequences

CONSTANTS
    Nodes,              \* nodes the API server lists
    NoNode,             \* a pod that is not scheduled, or a claim without one
    Claims,             \* claims
    NoProvisioner,      \* a claim whose volume has no known provisioner
    Worlds,             \* what the API lists may hold, see IsWorld
    Samples,            \* what a kubelet may report of a claim
    NodeConcurrency,    \* collector.nodeConcurrency
    IncludeUnmounted    \* collector.includeUnmounted

\* A kubelet's reading of a claim, and the absence of one.
NoSample == [used |-> -1, fresh |-> TRUE, node |-> NoNode]

ASSUME ScrapeAssumption ==
    /\ Samples \subseteq [used : Nat, fresh : BOOLEAN]
    /\ IsFiniteSet(Nodes)
    /\ NodeConcurrency \in Nat \ {0}
    /\ IncludeUnmounted \in BOOLEAN
    /\ NoNode \notin Nodes

\* The lists: which nodes are Ready, the pods with the claim each one mounts
\* in the order of the list, what sort of claim each claim is ("excluded": in
\* a namespace that is not allowed), and which provisioner made its volume.
\* A pod may be on a node that is not listed.
IsWorld(w) ==
    /\ w.ready \in [Nodes -> BOOLEAN]
    /\ \A i \in 1 .. Len(w.pods) : w.pods[i].claim \in Claims /\ w.pods[i].running \in BOOLEAN
    /\ DOMAIN w.kind = Claims
    /\ \A k \in Claims : w.kind[k] \in {"pending", "block", "filesystem", "excluded"}
    /\ DOMAIN w.provisioner = Claims

ASSUME WorldsAssumption == \A w \in Worlds : IsWorld(w)

VARIABLES
    world,      \* the lists of this collection
    state,      \* state[n]: how far the scrape has got with node n
    failed,     \* res.failed: the nodes recorded as failed
    scraped,    \* res.scraped
    samples,    \* res.samples: the sample kept for each claim
    answers,    \* answers[n]: what the kubelet of n reported, for the properties
    expired,    \* the deadline has passed
    raced,      \* two writes to res.failed overlapped
    crashed,    \* the runtime noticed and ended the process
    built,      \* collectCluster has its result
    volumes     \* that result

nodes  == <<state, failed, scraped, samples, answers>>
result == <<built, volumes>>
vars   == <<world, nodes, expired, raced, crashed, result>>

\* An assumption about kubelets, which nodeVolumeStats does not check: one
\* reports only claims that a pod listed as running there mounts.
RunningOn(k, n) ==
    \E i \in 1 .. Len(world.pods) :
        world.pods[i].claim = k /\ world.pods[i].node = n /\ world.pods[i].running

-----------------------------------------------------------------------------
(***************************************************************************)
(* indexMounts.  The node of a claim is that of the last running pod that  *)
(* mounts it and is scheduled, else that of the first scheduled one.       *)
(***************************************************************************)
Mounting(k) == {i \in 1 .. Len(world.pods) : world.pods[i].claim = k}

MountNode(k) ==
    LET placed  == {i \in Mounting(k) : world.pods[i].node # NoNode}
        running == {i \in placed : world.pods[i].running}
        last    == CHOOSE i \in running : \A j \in running : j <= i
        first   == CHOOSE i \in placed : \A j \in placed : i <= j
    IN  CASE running # {} -> world.pods[last].node
          [] running = {} /\ placed # {} -> world.pods[first].node
          [] OTHER -> NoNode

\* Only nodes that host a claim are asked; if none is known to, all are.
Wanted ==
    LET hosts == {MountNode(k) : k \in Claims} \ {NoNode}
    IN  IF hosts = {} THEN Nodes ELSE hosts \cap Nodes

Init ==
    /\ world \in Worlds
    /\ state = [n \in Nodes |-> "listed"]
    /\ failed = {}
    /\ scraped = 0
    /\ samples = [k \in Claims |-> NoSample]
    /\ answers = [n \in Nodes |-> [k \in Claims |-> NoSample]]
    /\ expired = FALSE
    /\ raced = FALSE
    /\ crashed = FALSE
    /\ built = FALSE
    /\ volumes = [k \in {} |-> NoSample]

-----------------------------------------------------------------------------
(***************************************************************************)
(* scrapeNodes.                                                            *)
(***************************************************************************)
Recording == {n \in Nodes : state[n] \in {"notReady", "refused"}}
Locked    == \E n \in Nodes : state[n] = "refused"
Querying  == {n \in Nodes : state[n] \in {"asking", "refused"}}

\* A goroutine or the walk starts to write an entry of res.failed.  If another
\* write is under way the runtime may end the process: "concurrent map writes".
BeginRecord ==
    IF Recording = {}
    THEN UNCHANGED <<raced, crashed>>
    ELSE raced' = TRUE /\ crashed' \in BOOLEAN

\* Mutant of Visit: a node that is not Ready is passed over.
VisitReadyOnly(n) ==
    /\ state[n] = "listed"
    /\ state' = [state EXCEPT ![n] =
                    IF n \in Wanted /\ world.ready[n] THEN "waiting" ELSE "skipped"]
    /\ UNCHANGED <<world, failed, scraped, samples, answers, expired, raced, crashed, result>>

\* The walk comes to node n.
Visit(n) ==
    /\ state[n] = "listed"
    /\ \A m \in Nodes : state[m] # "notReady"
    /\ \/ /\ n \notin Wanted
          /\ state' = [state EXCEPT ![n] = "skipped"]
          /\ UNCHANGED <<raced, crashed>>
       \/ /\ n \in Wanted
          /\ ~world.ready[n]
          /\ state' = [state EXCEPT ![n] = "notReady"]
          /\ BeginRecord
       \/ /\ n \in Wanted
          /\ world.ready[n]
          /\ state' = [state EXCEPT ![n] = "waiting"]
          /\ UNCHANGED <<raced, crashed>>
    /\ UNCHANGED <<world, failed, scraped, samples, answers, expired, result>>

\* The goroutine of n gets a place in the semaphore.
Acquire(n) ==
    /\ state[n] = "waiting"
    /\ Cardinality(Querying) < NodeConcurrency
    /\ state' = [state EXCEPT ![n] = "asking"]
    /\ UNCHANGED <<world, failed, scraped, samples, answers, expired, raced, crashed, result>>

\* The deadline passes first, and the goroutine returns without a word.
GiveUp(n) ==
    /\ state[n] = "waiting"
    /\ expired
    /\ state' = [state EXCEPT ![n] = "gaveUp"]
    /\ UNCHANGED <<world, failed, scraped, samples, answers, expired, raced, crashed, result>>

\* Mutants of Higher: the last reading wins, and the higher usage with the
\* time and the node of the last reading.
LastReading(old, new) == IF new.used = -1 THEN old ELSE new
MixReadings(old, new) == IF old.used >= new.used THEN [new EXCEPT !.used = old.used] ELSE new

\* Two readings of a claim: the one with the higher usage is kept.
Higher(old, new) == IF old.used >= new.used THEN old ELSE new

\* The kubelet of n answers: a sample for some of the claims mounted there.
Answer(n, answer) ==
    /\ state[n] = "asking"
    /\ ~Locked
    /\ \A k \in Claims :
        answer[k] # NoSample =>
            RunningOn(k, n) /\ world.kind[k] \in {"filesystem", "excluded"}
    /\ state' = [state EXCEPT ![n] = "scraped"]
    /\ scraped' = scraped + 1
    /\ samples' = [k \in Claims |-> Higher(samples[k], answer[k])]
    /\ answers' = [answers EXCEPT ![n] = answer]
    /\ UNCHANGED <<world, failed, expired, raced, crashed, result>>

\* The query of n fails; its goroutine takes the mutex and starts to record it.
Refuse(n) ==
    /\ state[n] = "asking"
    /\ ~Locked
    /\ state' = [state EXCEPT ![n] = "refused"]
    /\ BeginRecord
    /\ UNCHANGED <<world, failed, scraped, samples, answers, expired, result>>

\* The entry is written.  An entry written during a race may be lost.
Record(n) ==
    /\ state[n] \in {"notReady", "refused"}
    /\ state' = [state EXCEPT ![n] = IF @ = "refused" THEN "failed" ELSE "unready"]
    /\ \/ failed' = failed \cup {n}
       \/ raced /\ UNCHANGED failed
    /\ UNCHANGED <<world, scraped, samples, answers, expired, raced, crashed, result>>

\* The timeout of the cluster, or the end of the process's context.
Expire ==
    /\ ~expired
    /\ expired' = TRUE
    /\ UNCHANGED <<world, nodes, raced, crashed, result>>

-----------------------------------------------------------------------------
(***************************************************************************)
(* buildVolume, in the order of its switch.                                *)
(***************************************************************************)
\* Mutant of Status: a claim without a sample is not traced to its node.
StatusWithoutReason(k) ==
    CASE world.kind[k] = "pending" -> "pending"
      [] world.kind[k] = "block" -> "block"
      [] world.kind[k] = "filesystem" /\ samples[k] = NoSample ->
            IF Mounting(k) = {} THEN "unmounted" ELSE "unreported"
      [] OTHER -> IF samples[k].fresh THEN "ok" ELSE "stale"

Status(k) ==
    CASE world.kind[k] = "pending" -> "pending"
      [] world.kind[k] = "block" -> "block"
      [] world.kind[k] = "filesystem" /\ samples[k] = NoSample ->
            IF MountNode(k) \in failed THEN "error"
            ELSE IF Mounting(k) = {} THEN "unmounted" ELSE "unreported"
      [] OTHER -> IF samples[k].fresh THEN "ok" ELSE "stale"

HasStats(k) == Status(k) \in {"ok", "stale"}

\* The claims that are not left out by their namespace or includeUnmounted.
Listed ==
    {k \in Claims : /\ world.kind[k] # "excluded"
                    /\ IncludeUnmounted \/ Status(k) # "unmounted"}

\* annotateSilentDrivers: an unreported claim whose provisioner has no claim
\* with statistics gets the message that blames the driver.  Only claims in the
\* result are looked at, and no other driver needs to report.
Annotated(k) ==
    /\ Status(k) = "unreported"
    /\ world.provisioner[k] # NoProvisioner
    /\ \A j \in Listed : world.provisioner[j] = world.provisioner[k] => ~HasStats(j)

Volume(k) ==
    [status |-> Status(k),
     used   |-> IF HasStats(k) THEN samples[k].used ELSE -1,
     node   |-> IF HasStats(k) THEN samples[k].node ELSE MountNode(k),
     silent |-> Annotated(k)]

\* Mutant of Build: a goroutine that gave up has not signalled the group.
BuildWhenAllAsked ==
    /\ ~built
    /\ \A n \in Nodes : state[n] \in {"skipped", "unready", "scraped", "failed"}
    /\ built' = TRUE
    /\ volumes' = [k \in Listed |-> Volume(k)]
    /\ UNCHANGED <<world, nodes, expired, raced, crashed>>

\* Mutant of Build: a goroutine enters the group itself, so that wg.Wait may
\* return before the first of them has.
BuildAfterWalk ==
    /\ ~built
    /\ \A n \in Nodes : state[n] \notin {"listed", "notReady"}
    /\ built' = TRUE
    /\ volumes' = [k \in Listed |-> Volume(k)]
    /\ UNCHANGED <<world, nodes, expired, raced, crashed>>

\* wg.Wait returns, and collectCluster builds its result.
Build ==
    /\ ~built
    /\ \A n \in Nodes : state[n] \in {"skipped", "unready", "gaveUp", "scraped", "failed"}
    /\ built' = TRUE
    /\ volumes' = [k \in Listed |-> Volume(k)]
    /\ UNCHANGED <<world, nodes, expired, raced, crashed>>

Answers(n) ==
    [Claims -> {NoSample} \cup {[used |-> s.used, fresh |-> s.fresh, node |-> n] : s \in Samples}]

Next ==
    /\ ~crashed
    /\ \/ \E n \in Nodes :
            \/ Visit(n) \/ Acquire(n) \/ GiveUp(n) \/ Refuse(n) \/ Record(n)
            \/ \E answer \in Answers(n) : Answer(n, answer)
       \/ Expire
       \/ Build

SafeSpec == Init /\ [][Next]_vars

Step(A) == ~crashed /\ A

(***************************************************************************)
(* The deadline comes; goroutines and the walk make progress; a query may  *)
(* take for ever until the deadline has passed, and fails soon after.  An  *)
(* answer is never certain.                                                *)
(***************************************************************************)
Spec ==
    /\ SafeSpec
    /\ WF_vars(Step(Expire))
    /\ WF_vars(Step(Build))
    /\ \A n \in Nodes :
        /\ WF_vars(Step(Visit(n)))
        /\ WF_vars(Step(GiveUp(n)))
        /\ WF_vars(Step(Record(n)))
        /\ WF_vars(Step(expired /\ Refuse(n)))

-----------------------------------------------------------------------------
TypeOK ==
    /\ world \in Worlds
    /\ state \in [Nodes -> {"listed", "skipped", "notReady", "unready", "waiting",
                            "gaveUp", "asking", "scraped", "refused", "failed"}]
    /\ failed \subseteq Nodes
    /\ scraped \in 0 .. Cardinality(Nodes)
    /\ \A k \in Claims :
        samples[k] = NoSample \/ \E n \in Nodes : samples[k] = answers[n][k]
    /\ \A n \in Nodes : answers[n] \in Answers(n)
    /\ {expired, raced, crashed, built} \subseteq BOOLEAN
    /\ DOMAIN volumes \subseteq Claims

(***************************************************************************)
(* A ReadWriteMany claim shows the highest usage of all the nodes that     *)
(* answered, on a node that reported it, in whatever order they answered:  *)
(* "so we never under-report" (collector.go:425).                          *)
(***************************************************************************)
HighestUsageWins ==
    \A k \in Claims :
        /\ \A n \in Nodes : answers[n][k].used <= samples[k].used
        /\ \/ samples[k] = NoSample
           \/ \E n \in Nodes : samples[k] = answers[n][k]

(***************************************************************************)
(* The nodes a cluster reports to its health add up.  No node is counted   *)
(* twice; a node worth asking is left out of both counts only if its       *)
(* goroutine ran out of time, or if its entry was lost to the race.        *)
(***************************************************************************)
NodesAddUp ==
    built =>
        LET missing == {n \in Nodes : state[n] = "gaveUp"}
            counted == scraped + Cardinality(failed) + Cardinality(missing)
        IN  /\ counted <= Cardinality(Wanted)
            /\ ~raced => counted = Cardinality(Wanted)
            /\ missing # {} => expired

(***************************************************************************)
(* "A claim whose node we never managed to ask is not an orphan"           *)
(* (collector.go:279): a claim without a sample is in error only if its    *)
(* node refused or is not Ready, even when the writes of two goroutines    *)
(* overlap, and then always, unless that node's entry was lost to them.    *)
(***************************************************************************)
FailureIsTheReason ==
    built =>
        \A k \in DOMAIN volumes :
            LET nodeFailed == \E n \in Nodes :
                                MountNode(k) = n /\ state[n] \in {"failed", "unready"}
            IN  world.kind[k] = "filesystem" /\ samples[k] = NoSample =>
                    /\ volumes[k].status = "error" => nodeFailed
                    /\ nodeFailed /\ ~raced => volumes[k].status = "error"

(***************************************************************************)
(* The message that blames a driver rests on what the kubelets answered,   *)
(* of all the nodes and in whatever order: an unreported claim carries it  *)
(* exactly when no answer held a reading of any claim in the result that   *)
(* the driver made.  And the claim's own node did answer, if it is listed, *)
(* unless time ran out or entries were lost to the race.                   *)
(*                                                                         *)
(* It does not ask that another driver reports, as collector.go:185 says,  *)
(* nor does it count readings of claims in namespaces that are left out    *)
(* (collector.go:166): the code does neither.                              *)
(***************************************************************************)
SameDriver(k) ==
    {j \in DOMAIN volumes : /\ world.provisioner[j] = world.provisioner[k]
                            /\ world.kind[j] = "filesystem"}

BlameRestsOnAnswers ==
    \A k \in DOMAIN volumes :
        /\ volumes[k].silent <=>
                /\ volumes[k].status = "unreported"
                /\ world.provisioner[k] # NoProvisioner
                /\ \A j \in SameDriver(k), n \in Nodes : answers[n][j] = NoSample
        /\ volumes[k].silent /\ MountNode(k) \in Nodes /\ ~expired /\ ~raced =>
                state[MountNode(k)] = "scraped"

(***************************************************************************)
(* "unreported": "a pod does mount the claim and its node answered"        *)
(* (model.go:18).                                                          *)
(***************************************************************************)
UnreportedMeansAnswered ==
    \A k \in DOMAIN volumes :
        volumes[k].status = "unreported" =>
            \E n \in Nodes : volumes[k].node = n /\ state[n] = "scraped"

\* A collection of a cluster ends, whatever its kubelets do.
ScrapeEnds == <>(built \/ crashed)
=============================================================================
