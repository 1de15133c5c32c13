---------------------------- MODULE ScrapeProofs ----------------------------
(***************************************************************************)
(* Proofs about Scrape: what it reports of claims and of nodes does not    *)
(* depend on the order in which kubelets answer, fail or run out of time.  *)
(***************************************************************************)
EXTENDS Scrape, FiniteSetTheorems, TLAPS

-----------------------------------------------------------------------------
(***************************************************************************)
(* Readings.  A goroutine has added nothing before its kubelet answers,    *)
(* and of two readings the one with the higher usage is kept.              *)
(***************************************************************************)
Silent == [k \in Claims |-> NoSample]

NodeStates == {"listed", "skipped", "notReady", "unready", "waiting",
               "gaveUp", "asking", "scraped", "refused", "failed"}

ReadingsInv ==
    /\ state \in [Nodes -> NodeStates]
    /\ answers \in [Nodes -> UNION {Answers(n) : n \in Nodes}]
    /\ \A n \in Nodes : answers[n] \in Answers(n)
    /\ \A n \in Nodes : state[n] # "scraped" => answers[n] = Silent
    /\ DOMAIN samples = Claims
    /\ \A k \in Claims : samples[k] = NoSample \/ \E n \in Nodes : samples[k] = answers[n][k]
    /\ HighestUsageWins

LEMMA AnswersUsage ==
    ASSUME NEW n \in Nodes, NEW answer \in Answers(n), NEW k \in Claims
    PROVE  answer[k].used \in Int /\ (answer[k] # NoSample => answer[k].used >= 0)
           /\ answer[k].used >= -1
BY ScrapeAssumption DEF Answers, NoSample

LEMMA ReadingsInit == Init => ReadingsInv
<1> SUFFICES ASSUME Init PROVE ReadingsInv
  OBVIOUS
<1>1. \A n \in Nodes : Silent \in Answers(n)
  BY DEF Silent, Answers
<1>2. \A n \in Nodes : \A k \in Claims : answers[n][k] = NoSample
  BY DEF Init
<1>3. HighestUsageWins
  BY <1>2 DEF Init, HighestUsageWins, NoSample
<1>4. QED
  BY <1>1, <1>3 DEF Init, ReadingsInv, Silent, NodeStates

LEMMA AnswerReadings ==
    ASSUME ReadingsInv, NEW n \in Nodes, NEW answer \in Answers(n), Answer(n, answer)
    PROVE  ReadingsInv'
<1>1. answers' = [answers EXCEPT ![n] = answer] /\ answers[n] = Silent
  BY DEF Answer, ReadingsInv
<1>2. \A k \in Claims : samples'[k] = Higher(samples[k], answer[k])
  BY DEF Answer
<1>3. \A k \in Claims : samples[k].used \in Int /\ samples[k].used >= -1
  <2> SUFFICES ASSUME NEW k \in Claims
               PROVE  samples[k].used \in Int /\ samples[k].used >= -1
    OBVIOUS
  <2>1. CASE samples[k] = NoSample
    BY <2>1 DEF NoSample
  <2>2. ASSUME NEW m \in Nodes, samples[k] = answers[m][k]
        PROVE  samples[k].used \in Int /\ samples[k].used >= -1
    BY <2>2, AnswersUsage DEF ReadingsInv
  <2>3. QED
    BY <2>1, <2>2 DEF ReadingsInv
<1>4. \A k \in Claims : samples'[k] \in {samples[k], answer[k]}
  BY <1>2 DEF Higher
<1>5. \A k \in Claims :
        samples'[k] = NoSample \/ \E m \in Nodes : samples'[k] = answers'[m][k]
  <2> SUFFICES ASSUME NEW k \in Claims
               PROVE  samples'[k] = NoSample \/ \E m \in Nodes : samples'[k] = answers'[m][k]
    OBVIOUS
  <2>1. CASE samples'[k] = answer[k]
    BY <1>1, <2>1 DEF ReadingsInv
  <2>2. CASE samples'[k] = samples[k]
    <3>1. CASE samples[k] = NoSample
      BY <2>2, <3>1
    <3>2. ASSUME NEW m \in Nodes, samples[k] = answers[m][k], samples[k] # NoSample
          PROVE  samples'[k] = answers'[m][k]
      <4>1. m # n
        BY <1>1, <3>2 DEF Silent
      <4>2. QED
        BY <1>1, <2>2, <3>2, <4>1 DEF ReadingsInv
    <3>3. QED
      BY <3>1, <3>2 DEF ReadingsInv
  <2>3. QED
    BY <1>4, <2>1, <2>2
<1>6. \A k \in Claims : \A m \in Nodes : answers'[m][k].used <= samples'[k].used
  <2> SUFFICES ASSUME NEW k \in Claims, NEW m \in Nodes
               PROVE  answers'[m][k].used <= samples'[k].used
    OBVIOUS
  <2>1. samples[k].used <= samples'[k].used /\ answer[k].used <= samples'[k].used
    BY <1>2, <1>3, AnswersUsage DEF Higher
  <2>2. CASE m = n
    BY <1>1, <2>1, <2>2 DEF ReadingsInv
  <2>3. CASE m # n
    <3>1. answers'[m][k] = answers[m][k]
      BY <1>1, <2>3 DEF ReadingsInv
    <3>2. answers[m][k].used <= samples[k].used
      BY DEF ReadingsInv, HighestUsageWins
    <3>3. answers[m][k].used \in Int /\ samples[k].used \in Int /\ samples'[k].used \in Int
      BY <1>3, <1>4, AnswersUsage DEF ReadingsInv
    <3>4. QED
      BY <2>1, <3>1, <3>2, <3>3
  <2>4. QED
    BY <2>2, <2>3
<1>7. HighestUsageWins'
  BY <1>5, <1>6 DEF HighestUsageWins
<1>8. /\ state' \in [Nodes -> NodeStates]
      /\ state' = [state EXCEPT ![n] = "scraped"]
      /\ DOMAIN samples' = Claims
  BY DEF Answer, ReadingsInv, NodeStates
<1>9. /\ \A m \in Nodes : answers'[m] \in Answers(m)
      /\ answers' \in [Nodes -> UNION {Answers(m) : m \in Nodes}]
  BY <1>1 DEF ReadingsInv
<1>10. \A m \in Nodes : state'[m] # "scraped" => answers'[m] = Silent
  BY <1>1, <1>8 DEF ReadingsInv
<1>11. QED
  BY <1>5, <1>7, <1>8, <1>9, <1>10 DEF ReadingsInv

LEMMA ReadingsStep == ReadingsInv /\ [Next]_vars => ReadingsInv'
<1> SUFFICES ASSUME ReadingsInv, [Next]_vars PROVE ReadingsInv'
  OBVIOUS
<1>1. ASSUME NEW n \in Nodes, Visit(n) \/ Acquire(n) \/ GiveUp(n) \/ Refuse(n) \/ Record(n)
      PROVE  ReadingsInv'
  <2>1. UNCHANGED <<samples, answers>>
    BY <1>1 DEF Visit, Acquire, GiveUp, Refuse, Record
  <2>2. state[n] # "scraped" /\ \E s \in NodeStates \ {"scraped"} : state' = [state EXCEPT ![n] = s]
    BY <1>1 DEF Visit, Acquire, GiveUp, Refuse, Record, NodeStates
  <2>3. QED
    BY <2>1, <2>2 DEF ReadingsInv, HighestUsageWins, NodeStates
<1>2. ASSUME NEW n \in Nodes, NEW answer \in Answers(n), Answer(n, answer) PROVE ReadingsInv'
  BY <1>2, AnswerReadings
<1>3. CASE Expire \/ Build \/ UNCHANGED vars
  <2>1. UNCHANGED nodes
    BY <1>3 DEF Expire, Build, vars
  <2>2. QED
    BY <2>1 DEF nodes, ReadingsInv, HighestUsageWins
<1>4. QED
  BY <1>1, <1>2, <1>3 DEF Next

(***************************************************************************)
(* A claim that several nodes report shows the highest of their readings,  *)
(* in whatever order the kubelets answer.                                  *)
(***************************************************************************)
THEOREM ScrapeHighestUsageWins == SafeSpec => []HighestUsageWins
<1>1. ReadingsInv => HighestUsageWins
  BY DEF ReadingsInv
<1>2. QED
  BY <1>1, ReadingsInit, ReadingsStep, PTL DEF SafeSpec

-----------------------------------------------------------------------------
(***************************************************************************)
(* Nodes.  While the lists stay as they are, a node that is asked is one   *)
(* worth asking; a scraped node is counted; and unless two writes have     *)
(* overlapped, exactly the nodes whose entry was written are recorded.     *)
(***************************************************************************)
In(states) == {n \in Nodes : state[n] \in states}

Ended == {"skipped", "unready", "gaveUp", "scraped", "failed"}

NodesInv ==
    /\ world \in Worlds
    /\ failed \subseteq In({"failed", "unready"})
    /\ ~raced => failed = In({"failed", "unready"})
    /\ scraped = Cardinality(In({"scraped"}))
    /\ \A n \in Nodes : /\ state[n] = "gaveUp" => expired
                        /\ state[n] = "skipped" => n \notin Wanted
                        /\ state[n] \notin {"listed", "skipped"} => n \in Wanted

\* Once built the result stays, and nothing it was built from changes.
ResultInv ==
    /\ ~built => DOMAIN volumes = {}
    /\ built => /\ In(Ended) = Nodes
                /\ volumes = [k \in Listed |-> Volume(k)]

FlagsOK == /\ expired \in BOOLEAN /\ raced \in BOOLEAN
           /\ crashed \in BOOLEAN /\ built \in BOOLEAN

ScrapeInv == ReadingsInv /\ NodesInv /\ ResultInv /\ FlagsOK

LEMMA InIsFinite == ASSUME NEW states PROVE IsFiniteSet(In(states))
<1>1. In(states) \subseteq Nodes
  BY DEF In
<1>2. QED
  BY <1>1, ScrapeAssumption, FS_Subset

LEMMA ScrapeInvInit == Init => ScrapeInv
<1> SUFFICES ASSUME Init PROVE ScrapeInv
  OBVIOUS
<1>1. \A n \in Nodes : state[n] = "listed"
  BY DEF Init
<1>2. In({"failed", "unready"}) = {} /\ In({"scraped"}) = {}
  BY <1>1 DEF In
<1>3. Cardinality({}) = 0
  BY FS_EmptySet
<1>4. NodesInv
  BY <1>1, <1>2, <1>3 DEF Init, NodesInv
<1>5. ResultInv
  BY DEF Init, ResultInv
<1>6. FlagsOK
  BY DEF Init, FlagsOK
<1>7. QED
  BY <1>4, <1>5, <1>6, ReadingsInit DEF ScrapeInv

\* A step of node n that leaves its entry unwritten.
LEMMA NodeMoves ==
    ASSUME ScrapeInv, NEW n \in Nodes,
           Visit(n) \/ Acquire(n) \/ GiveUp(n) \/ Refuse(n)
    PROVE  NodesInv'
<1>1. UNCHANGED <<world, failed, scraped, expired>>
  BY DEF Visit, Acquire, GiveUp, Refuse
<1>2. PICK s \in {"skipped", "notReady", "waiting", "asking", "gaveUp", "refused"} :
        /\ state' = [state EXCEPT ![n] = s]
        /\ s = "gaveUp" => expired
        /\ s = "skipped" <=> n \notin Wanted
  <2>1. CASE Visit(n)
    BY <2>1 DEF Visit
  <2>2. CASE Acquire(n)
    BY <2>2 DEF Acquire, ScrapeInv, NodesInv
  <2>3. CASE GiveUp(n)
    BY <2>3 DEF GiveUp, ScrapeInv, NodesInv
  <2>4. CASE Refuse(n)
    BY <2>4 DEF Refuse, ScrapeInv, NodesInv
  <2>5. QED
    BY <2>1, <2>2, <2>3, <2>4
<1>3. state[n] \in {"listed", "waiting", "asking"}
  BY DEF Visit, Acquire, GiveUp, Refuse
<1>4. state \in [Nodes -> NodeStates]
  BY DEF ScrapeInv, ReadingsInv
<1>5. In({"failed", "unready"})' = In({"failed", "unready"}) /\ In({"scraped"})' = In({"scraped"})
  BY <1>2, <1>3, <1>4 DEF In
<1>6. raced => raced'
  BY DEF Visit, Acquire, GiveUp, Refuse, BeginRecord
<1>7. Wanted' = Wanted
  BY <1>1 DEF Wanted, MountNode, Mounting
<1>8. QED
  BY <1>1, <1>2, <1>4, <1>5, <1>6, <1>7 DEF ScrapeInv, NodesInv, FlagsOK

LEMMA RecordMoves ==
    ASSUME ScrapeInv, NEW n \in Nodes, Record(n)
    PROVE  NodesInv'
<1>1. UNCHANGED <<world, scraped, expired, raced>>
  BY DEF Record
<1>2. PICK s \in {"failed", "unready"} : state' = [state EXCEPT ![n] = s]
  BY DEF Record
<1>3. state \in [Nodes -> NodeStates] /\ state[n] \in {"notReady", "refused"}
  BY DEF ScrapeInv, ReadingsInv, Record
<1>4. /\ In({"failed", "unready"})' = In({"failed", "unready"}) \cup {n}
      /\ In({"scraped"})' = In({"scraped"})
  BY <1>2, <1>3 DEF In
<1>5. failed' = failed \cup {n} \/ (raced /\ failed' = failed)
  BY DEF Record
<1>6. Wanted' = Wanted
  BY <1>1 DEF Wanted, MountNode, Mounting
<1>7. QED
  BY <1>1, <1>2, <1>3, <1>4, <1>5, <1>6 DEF ScrapeInv, NodesInv

LEMMA AnswerMoves ==
    ASSUME ScrapeInv, NEW n \in Nodes, NEW answer, Answer(n, answer)
    PROVE  NodesInv'
<1>1. UNCHANGED <<world, failed, expired, raced>> /\ scraped' = scraped + 1
  BY DEF Answer
<1>2. state' = [state EXCEPT ![n] = "scraped"]
  BY DEF Answer
<1>3. state \in [Nodes -> NodeStates] /\ state[n] = "asking"
  BY DEF ScrapeInv, ReadingsInv, Answer
<1>4. /\ In({"failed", "unready"})' = In({"failed", "unready"})
      /\ In({"scraped"})' = In({"scraped"}) \cup {n}
      /\ n \notin In({"scraped"})
  BY <1>2, <1>3 DEF In
<1>5. scraped' = Cardinality(In({"scraped"})')
  BY <1>1, <1>4, InIsFinite, FS_AddElement DEF ScrapeInv, NodesInv
<1>6. Wanted' = Wanted
  BY <1>1 DEF Wanted, MountNode, Mounting
<1>7. QED
  BY <1>1, <1>2, <1>3, <1>4, <1>5, <1>6 DEF ScrapeInv, NodesInv

\* Steps that move no node.
LEMMA NodesAtRest ==
    ASSUME ScrapeInv, UNCHANGED <<world, nodes, raced>>, expired => expired'
    PROVE  NodesInv'
<1>1. Wanted' = Wanted
  BY DEF Wanted, MountNode, Mounting
<1>2. /\ In({"failed", "unready"})' = In({"failed", "unready"})
      /\ In({"scraped"})' = In({"scraped"})
  BY DEF nodes, In
<1>3. QED
  BY <1>1, <1>2 DEF nodes, ScrapeInv, NodesInv

LEMMA ResultAtRest ==
    ASSUME ScrapeInv, UNCHANGED <<world, nodes>>
    PROVE  /\ [k \in Listed |-> Volume(k)]' = [k \in Listed |-> Volume(k)]
           /\ UNCHANGED result => ResultInv'
<1>1. \A k \in Claims : MountNode(k)' = MountNode(k) /\ Mounting(k)' = Mounting(k)
  BY DEF MountNode, Mounting
<1>2. \A k \in Claims : Status(k)' = Status(k)
  BY <1>1 DEF nodes, Status
<1>3. Listed' = Listed /\ Listed \subseteq Claims
  BY <1>2 DEF Listed
<1>4. \A k \in Claims : HasStats(k)' = HasStats(k)
  BY <1>2 DEF HasStats
<1>5. \A k \in Claims : Annotated(k)' = Annotated(k)
  BY <1>2, <1>3, <1>4 DEF Annotated
<1>6. \A k \in Claims : Volume(k)' = Volume(k)
  BY <1>1, <1>2, <1>4, <1>5 DEF Volume, nodes
<1>7. [k \in Listed |-> Volume(k)]' = [k \in Listed |-> Volume(k)]
  BY <1>3, <1>6
<1>8. In(Ended)' = In(Ended)
  BY DEF nodes, In
<1>9. QED
  BY <1>7, <1>8 DEF result, ScrapeInv, ResultInv

LEMMA ScrapeInvStep == ScrapeInv /\ [Next]_vars => ScrapeInv'
<1> SUFFICES ASSUME ScrapeInv, [Next]_vars PROVE ScrapeInv'
  OBVIOUS
<1>1. ReadingsInv'
  BY ReadingsStep DEF ScrapeInv
<1>2. ASSUME NEW n \in Nodes,
             \/ Visit(n) \/ Acquire(n) \/ GiveUp(n) \/ Refuse(n) \/ Record(n)
             \/ \E answer \in Answers(n) : Answer(n, answer)
      PROVE  NodesInv' /\ ResultInv' /\ FlagsOK'
  <2>1. NodesInv'
    BY <1>2, NodeMoves, RecordMoves, AnswerMoves
  <2>2. state[n] \notin Ended /\ UNCHANGED result
    BY <1>2 DEF Visit, Acquire, GiveUp, Refuse, Record, Answer, Ended
  <2>3. ~built
    BY <2>2 DEF ScrapeInv, ResultInv, FlagsOK, In
  <2>4. ResultInv'
    BY <2>2, <2>3 DEF result, ScrapeInv, ResultInv
  <2>5. FlagsOK'
    BY <1>2, <2>2 DEF result, ScrapeInv, FlagsOK, Visit, Acquire, GiveUp, Refuse, Record, Answer,
                      BeginRecord
  <2>6. QED
    BY <2>1, <2>4, <2>5
<1>3. CASE Expire
  <2>1. UNCHANGED <<world, nodes, raced, crashed, result>> /\ expired'
    BY <1>3 DEF Expire
  <2>2. NodesInv' /\ ResultInv'
    BY <2>1, NodesAtRest, ResultAtRest
  <2>3. QED
    BY <1>1, <2>1, <2>2 DEF result, ScrapeInv, FlagsOK
<1>4. CASE Build
  <2>1. UNCHANGED <<world, nodes, expired, raced, crashed>> /\ built'
    BY <1>4 DEF Build
  <2>2. NodesInv'
    BY <2>1, NodesAtRest
  <2>3. In(Ended)' = Nodes
    BY <1>4, <2>1 DEF Build, nodes, In, Ended
  <2>4. volumes' = [k \in Listed |-> Volume(k)]'
    BY <1>4, <2>1, ResultAtRest DEF Build
  <2>5. ResultInv'
    BY <2>1, <2>3, <2>4 DEF ResultInv
  <2>6. QED
    BY <1>1, <2>1, <2>2, <2>5 DEF ScrapeInv, FlagsOK
<1>5. CASE UNCHANGED vars
  <2>1. UNCHANGED <<world, nodes, expired, raced, crashed, result>>
    BY <1>5 DEF vars
  <2>2. NodesInv' /\ ResultInv'
    BY <2>1, NodesAtRest, ResultAtRest
  <2>3. QED
    BY <1>1, <2>1, <2>2 DEF result, ScrapeInv, FlagsOK
<1>6. QED
  BY <1>1, <1>2, <1>3, <1>4, <1>5 DEF Next, ScrapeInv

LEMMA ScrapeSafe == SafeSpec => []ScrapeInv
BY ScrapeInvInit, ScrapeInvStep, PTL DEF SafeSpec

(***************************************************************************)
(* Type correctness: no more nodes are counted than there are, and a       *)
(* sample that is kept is one that a kubelet sent.                         *)
(***************************************************************************)
THEOREM ScrapeTypeOK == SafeSpec => []TypeOK
<1>1. ScrapeInv => TypeOK
  <2> SUFFICES ASSUME ScrapeInv PROVE TypeOK
    OBVIOUS
  <2>1. scraped \in 0 .. Cardinality(Nodes)
    <3>1. In({"scraped"}) \subseteq Nodes
      BY DEF In
    <3>2. QED
      BY <3>1, ScrapeAssumption, FS_Subset, FS_CardinalityType DEF ScrapeInv, NodesInv
  <2>2. DOMAIN volumes \subseteq Claims
    BY DEF ScrapeInv, ResultInv, FlagsOK, Listed
  <2>3. failed \subseteq Nodes
    BY DEF ScrapeInv, NodesInv, In
  <2>4. {expired, raced, crashed, built} \subseteq BOOLEAN
    BY DEF ScrapeInv, FlagsOK
  <2>5. QED
    BY <2>1, <2>2, <2>3, <2>4 DEF TypeOK, ScrapeInv, NodesInv, ReadingsInv, NodeStates
<1>2. QED
  BY <1>1, ScrapeSafe, PTL

\* Three sets that have nothing in common are as large together as apart.
LEMMA CardinalityOfThree ==
    ASSUME NEW A, NEW B, NEW C, IsFiniteSet(A), IsFiniteSet(B), IsFiniteSet(C),
           A \cap B = {}, (A \cup B) \cap C = {}
    PROVE  Cardinality(A \cup B \cup C) = Cardinality(A) + Cardinality(B) + Cardinality(C)
<1>1. IsFiniteSet(A \cup B) /\ Cardinality(A \cup B) = Cardinality(A) + Cardinality(B) - Cardinality(A \cap B)
  BY FS_Union
<1>2. Cardinality(A \cup B \cup C) =
        Cardinality(A \cup B) + Cardinality(C) - Cardinality((A \cup B) \cap C)
  BY <1>1, FS_Union
<1>3. Cardinality(A \cap B) = 0 /\ Cardinality((A \cup B) \cap C) = 0
  BY FS_EmptySet
<1>4. Cardinality(A) \in Nat /\ Cardinality(B) \in Nat /\ Cardinality(C) \in Nat
  BY FS_CardinalityType
<1>5. QED
  BY <1>1, <1>2, <1>3, <1>4

(***************************************************************************)
(* The nodes a cluster reports add up: no node worth asking is counted     *)
(* twice, and none is left out unless time ran out for it or its entry was *)
(* lost to the race.                                                       *)
(***************************************************************************)
THEOREM ScrapeNodesAddUp == SafeSpec => []NodesAddUp
<1>1. ScrapeInv => NodesAddUp
  <2> DEFINE missing == {n \in Nodes : state[n] = "gaveUp"}
  <2> SUFFICES ASSUME ScrapeInv, built
               PROVE  /\ scraped + Cardinality(failed) + Cardinality(missing) <= Cardinality(Wanted)
                      /\ ~raced => scraped + Cardinality(failed) + Cardinality(missing) = Cardinality(Wanted)
                      /\ missing # {} => expired
    BY DEF NodesAddUp
  <2>1. In({"scraped"}) \cup In({"failed", "unready"}) \cup missing = Wanted
    <3>1. \A n \in Nodes : state[n] \in Ended
      BY DEF ScrapeInv, ResultInv, In
    <3>2. Wanted \subseteq Nodes
      BY DEF Wanted
    <3>3. QED
      BY <3>1, <3>2 DEF ScrapeInv, NodesInv, In, Ended
  <2>2. /\ In({"scraped"}) \cap In({"failed", "unready"}) = {}
        /\ (In({"scraped"}) \cup In({"failed", "unready"})) \cap missing = {}
    BY DEF In
  <2>3. IsFiniteSet(missing)
    BY ScrapeAssumption, FS_Subset
  <2>4. Cardinality(Wanted) = Cardinality(In({"scraped"})) + Cardinality(In({"failed", "unready"}))
                              + Cardinality(missing)
    <3> HIDE DEF missing
    <3>1. QED
      BY <2>1, <2>2, <2>3, InIsFinite, CardinalityOfThree
  <2>5. /\ scraped = Cardinality(In({"scraped"}))
        /\ failed \subseteq In({"failed", "unready"})
        /\ ~raced => failed = In({"failed", "unready"})
    BY DEF ScrapeInv, NodesInv
  <2>6. Cardinality(failed) <= Cardinality(In({"failed", "unready"}))
    BY <2>5, InIsFinite, FS_Subset
  <2>7. /\ Cardinality(failed) \in Nat /\ Cardinality(missing) \in Nat
        /\ Cardinality(In({"scraped"})) \in Nat /\ Cardinality(In({"failed", "unready"})) \in Nat
    BY <2>3, <2>5, InIsFinite, FS_Subset, FS_CardinalityType
  <2>8. missing # {} => expired
    BY DEF ScrapeInv, NodesInv
  <2>9. QED
    <3> HIDE DEF missing
    <3>1. QED
      BY <2>4, <2>5, <2>6, <2>7, <2>8
<1>2. QED
  BY <1>1, ScrapeSafe, PTL

(***************************************************************************)
(* A claim without a sample is in error only if its node failed, and never *)
(* for want of having waited for that node's goroutine; when no entry was  *)
(* lost to the race it is in error whenever its node failed.               *)
(***************************************************************************)
THEOREM ScrapeFailureIsTheReason == SafeSpec => []FailureIsTheReason
<1>1. ScrapeInv => FailureIsTheReason
  <2> DEFINE NodeFailed(k) == \E n \in Nodes : MountNode(k) = n /\ state[n] \in {"failed", "unready"}
  <2> SUFFICES ASSUME ScrapeInv, built, NEW k \in DOMAIN volumes,
                      world.kind[k] = "filesystem", samples[k] = NoSample
               PROVE  /\ volumes[k].status = "error" => NodeFailed(k)
                      /\ NodeFailed(k) /\ ~raced => volumes[k].status = "error"
    BY DEF FailureIsTheReason
  <2>1. k \in Listed /\ volumes[k].status = Status(k)
    BY DEF ScrapeInv, ResultInv, Volume
  <2>2. Status(k) = "error" <=> MountNode(k) \in failed
    BY DEF Status
  <2>3. /\ failed \subseteq In({"failed", "unready"})
        /\ ~raced => failed = In({"failed", "unready"})
    BY DEF ScrapeInv, NodesInv
  <2>4. NodeFailed(k) <=> MountNode(k) \in In({"failed", "unready"})
    BY DEF In
  <2>5. QED
    BY <2>1, <2>2, <2>3, <2>4
<1>2. QED
  BY <1>1, ScrapeSafe, PTL

(***************************************************************************)
(* The sample kept for a claim is missing exactly when every answer lacks  *)
(* a reading of it, whatever the order in which they were merged.          *)
(***************************************************************************)
LEMMA NoSampleMeansNoReading ==
    ASSUME ReadingsInv, NEW k \in Claims
    PROVE  samples[k] = NoSample <=> \A n \in Nodes : answers[n][k] = NoSample
<1>1. ASSUME samples[k] = NoSample, NEW n \in Nodes PROVE answers[n][k] = NoSample
  <2>1. answers[n][k].used <= -1
    BY <1>1 DEF ReadingsInv, HighestUsageWins, NoSample
  <2>2. answers[n] \in Answers(n)
    BY DEF ReadingsInv
  <2>3. answers[n][k].used \in Int /\ (answers[n][k] # NoSample => answers[n][k].used >= 0)
    BY <2>2, AnswersUsage
  <2>4. QED
    BY <2>1, <2>3
<1>2. ASSUME \A n \in Nodes : answers[n][k] = NoSample PROVE samples[k] = NoSample
  BY <1>2 DEF ReadingsInv
<1>3. QED
  BY <1>1, <1>2

\* What a built result says of a claim.
LEMMA ResultOf ==
    ASSUME ScrapeInv, NEW k \in DOMAIN volumes
    PROVE  /\ built /\ k \in Listed /\ DOMAIN volumes = Listed /\ k \in Claims
           /\ volumes[k].status = Status(k) /\ volumes[k].silent = Annotated(k)
<1>1. built /\ volumes = [j \in Listed |-> Volume(j)]
  BY DEF ScrapeInv, ResultInv, FlagsOK
<1>2. QED
  BY <1>1 DEF Volume, Listed

\* Statistics come from the sample, for a claim with a filesystem volume and
\* for no other claim in the result.
LEMMA StatsNeedASample ==
    ASSUME ScrapeInv, NEW j \in Listed
    PROVE  HasStats(j) <=> world.kind[j] = "filesystem" /\ samples[j] # NoSample
<1>1. world.kind[j] \in {"pending", "block", "filesystem"}
  BY WorldsAssumption DEF ScrapeInv, NodesInv, IsWorld, Listed
<1>2. CASE world.kind[j] = "pending"
  BY <1>2 DEF HasStats, Status
<1>3. CASE world.kind[j] = "block"
  BY <1>3 DEF HasStats, Status
<1>4. CASE world.kind[j] = "filesystem" /\ samples[j] = NoSample
  BY <1>4 DEF HasStats, Status
<1>5. CASE world.kind[j] = "filesystem" /\ samples[j] # NoSample
  BY <1>5 DEF HasStats, Status
<1>6. QED
  BY <1>1, <1>2, <1>3, <1>4, <1>5

\* A node that is listed, hosts a claim and is recorded as failed nowhere has
\* answered by the time the result is built, unless time ran out.
LEMMA HostAnswered ==
    ASSUME ScrapeInv, built, ~expired, ~raced,
           NEW k \in Claims, MountNode(k) \in Nodes, MountNode(k) \notin failed
    PROVE  state[MountNode(k)] = "scraped"
<1> DEFINE n == MountNode(k)
<1>1. n \in Wanted
  BY ScrapeAssumption DEF Wanted
<1>2. state[n] \in Ended
  BY DEF ScrapeInv, ResultInv, In
<1>3. state[n] # "skipped" /\ state[n] # "gaveUp"
  BY <1>1 DEF ScrapeInv, NodesInv
<1>4. state[n] \notin {"failed", "unready"}
  BY DEF ScrapeInv, NodesInv, In
<1>5. QED
  BY <1>2, <1>3, <1>4 DEF Ended

(***************************************************************************)
(* The blame on a driver rests on the answers of all the nodes: it is      *)
(* there exactly when none of them held a reading of a claim in the result *)
(* that the driver made, and the claim's own node did answer.              *)
(***************************************************************************)
THEOREM ScrapeBlameRestsOnAnswers == SafeSpec => []BlameRestsOnAnswers
<1>1. ScrapeInv => BlameRestsOnAnswers
  <2> SUFFICES ASSUME ScrapeInv, NEW k \in DOMAIN volumes
               PROVE  /\ volumes[k].silent <=>
                            /\ volumes[k].status = "unreported"
                            /\ world.provisioner[k] # NoProvisioner
                            /\ \A j \in SameDriver(k), n \in Nodes : answers[n][j] = NoSample
                      /\ volumes[k].silent /\ MountNode(k) \in Nodes /\ ~expired /\ ~raced =>
                            state[MountNode(k)] = "scraped"
    BY DEF BlameRestsOnAnswers
  <2>1. /\ built /\ k \in Claims /\ DOMAIN volumes = Listed /\ Listed \subseteq Claims
        /\ volumes[k].status = Status(k) /\ volumes[k].silent = Annotated(k)
    BY ResultOf DEF Listed
  <2>2. (\A j \in Listed : world.provisioner[j] = world.provisioner[k] => ~HasStats(j)) <=>
            \A j \in SameDriver(k) : samples[j] = NoSample
    BY <2>1, StatsNeedASample DEF SameDriver
  <2>3. (\A j \in SameDriver(k) : samples[j] = NoSample) <=>
            \A j \in SameDriver(k) : \A n \in Nodes : answers[n][j] = NoSample
    BY <2>1, NoSampleMeansNoReading DEF SameDriver, ScrapeInv
  <2>4. volumes[k].silent <=>
            /\ volumes[k].status = "unreported"
            /\ world.provisioner[k] # NoProvisioner
            /\ \A j \in SameDriver(k), n \in Nodes : answers[n][j] = NoSample
    BY <2>1, <2>2, <2>3 DEF Annotated
  <2>5. ASSUME volumes[k].silent, MountNode(k) \in Nodes, ~expired, ~raced
        PROVE  state[MountNode(k)] = "scraped"
    <3>1. MountNode(k) \notin failed
      BY <2>1, <2>5 DEF Annotated, Status
    <3>2. QED
      BY <2>1, <2>5, <3>1, HostAnswered
  <2>6. QED
    BY <2>4, <2>5
<1>2. QED
  BY <1>1, ScrapeSafe, PTL
=============================================================================
