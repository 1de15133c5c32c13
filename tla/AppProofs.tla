------------------------------ MODULE AppProofs -----------------------------
(***************************************************************************)
(* Proofs about App: the loop uses the store as Store allows, so what is   *)
(* proved of the store holds in the process; and invariants of the loop.   *)
(***************************************************************************)
EXTENDS App, StoreProofs

-----------------------------------------------------------------------------
(***************************************************************************)
(* Every step of the process is a step of the store or leaves it alone.    *)
(***************************************************************************)
LEMMA AppStep == [AppNext]_allVars => [Next]_vars
<1> SUFFICES ASSUME [AppNext]_allVars PROVE [Next]_vars
  OBVIOUS
<1>1. ASSUME Alive, NEW found \in Scrapes, NEW failed \in SUBSET Clusters,
             Collected(found, failed)
      PROVE  Next
  <2>1. PutLocked(found)
    BY <1>1 DEF Collected
  <2>2. QED
    BY <1>1, <2>1 DEF Next, Alive
<1>2. CASE FirstCycle \/ Tick \/ TakeTrigger \/ StopLoop \/ NoteErrors \/ EndPush
  BY <1>2 DEF FirstCycle, Tick, TakeTrigger, StopLoop, NoteErrors, EndPush
<1>3. CASE Process
  BY <1>3 DEF Process, Trigger, ShowConfig, Signal, BeginShutdown, EndShutdown,
              ExpireShutdown
<1>4. ASSUME Alive, NEW c \in Clients, Stream(c) PROVE Next
  <2>1. Send(c) \/ HangUp(c) \/ Handler(c)
    BY <1>4 DEF Stream
  <2>2. QED
    BY <1>4, <2>1 DEF Next, Alive
<1>5. CASE UNCHANGED allVars
  BY <1>5 DEF allVars
<1>6. CASE Start
  BY <1>6 DEF Start, LoadConfig, DiscoverClusters, StartLoop, Listen, Unstarted
<1>7. QED
  BY <1>1, <1>2, <1>3, <1>4, <1>5, <1>6 DEF AppNext, Loop

(***************************************************************************)
(* The process implements the store: no order of cycles, refreshes and     *)
(* shutdown uses it in a way that Store does not describe.                 *)
(***************************************************************************)
THEOREM AppUsesStore == AppSafeSpec => SafeSpec
<1>1. AppInit => Init
  BY DEF AppInit
<1>2. QED
  BY <1>1, AppStep, PTL DEF AppSafeSpec, SafeSpec

(***************************************************************************)
(* No wakeup is lost in the process, which is what the stream relies on.   *)
(***************************************************************************)
THEOREM AppNoLostWakeup == AppSafeSpec => []NoLostWakeup
BY AppUsesStore, StoreNoLostWakeup, PTL

-----------------------------------------------------------------------------
(***************************************************************************)
(* Type correctness.  That no cycle finds the bound on Puts in its way     *)
(* takes a count: a cycle is the first one, or one that a tick began, or   *)
(* one that a request in the buffer began, and no request begins two.      *)
(* Nothing writes the configuration once the loop runs.                    *)
(***************************************************************************)
CyclesCounted ==
    /\ loop \in {"new", "starting"} => cycles = 0 /\ trigger <= clicks
    /\ cycles + trigger <= 1 + ticks + clicks

LoopTypeOK ==
    /\ loop \in {"new", "starting", "selecting", "collecting", "noting", "pushing", "stopped"}
    /\ trigger \in 0 .. 1
    /\ stopping \in BOOLEAN
    /\ errors \subseteq Clusters
    /\ lastError \subseteq Clusters
    /\ main \in Startup \cup {"serving", "shutting", "stopped", "failed",
                             "refused", "killed"}
    /\ main \in Startup => loop = "new"
    /\ listening \in BOOLEAN
    /\ ticks \in 0 .. MaxTicks
    /\ clicks \in 0 .. MaxClicks
    /\ cycles \in Nat
    /\ asked \in [cycles : Nat, ticks : Nat]
    /\ asked.cycles <= cycles /\ asked.ticks <= ticks

LoopInv == LoopTypeOK /\ CyclesCounted

LEMMA LoopInvInit == AppInit => LoopInv
<1> SUFFICES ASSUME AppInit PROVE LoopInv
  OBVIOUS
<1>1. stopping \in BOOLEAN /\ listening \in BOOLEAN
  BY DEF AppInit
<1>2. LoopTypeOK
  BY <1>1, AppAssumption DEF AppInit, LoopTypeOK, Startup
<1>3. CyclesCounted
  BY AppAssumption DEF AppInit, CyclesCounted
<1>4. QED
  BY <1>2, <1>3 DEF LoopInv

LEMMA LoopInvStep == LoopInv /\ [AppNext]_allVars => LoopInv'
<1> SUFFICES ASSUME LoopInv, [AppNext]_allVars PROVE LoopInv'
  OBVIOUS
<1> USE AppAssumption
    DEF LoopInv, LoopTypeOK, CyclesCounted, requests, report, settings, Startup
<1>1. CASE FirstCycle
  BY <1>1 DEF FirstCycle, BeginCycle
<1>2. CASE Tick
  BY <1>2 DEF Tick, BeginCycle
<1>3. CASE TakeTrigger
  <2>1. stopping' \in BOOLEAN /\ listening' \in BOOLEAN
    BY <1>3 DEF TakeTrigger
  <2>2. LoopTypeOK'
    BY <1>3, <2>1 DEF TakeTrigger, BeginCycle
  <2>3. CyclesCounted'
    BY <1>3 DEF TakeTrigger, BeginCycle
  <2>4. QED
    BY <2>2, <2>3
<1>4. CASE StopLoop
  BY <1>4 DEF StopLoop
<1>5. ASSUME NEW found \in Scrapes, NEW failed \in SUBSET Clusters,
             Collected(found, failed)
      PROVE  LoopInv'
  BY <1>5 DEF Collected
<1>6. CASE NoteErrors
  BY <1>6 DEF NoteErrors
<1>7. CASE EndPush
  BY <1>7 DEF EndPush
<1>8. CASE Trigger
  BY <1>8 DEF Trigger
<1>9. CASE Signal
  BY <1>9 DEF Signal
<1>10. CASE ShowConfig \/ BeginShutdown \/ EndShutdown \/ ExpireShutdown
  BY <1>10 DEF ShowConfig, BeginShutdown, EndShutdown, ExpireShutdown
<1>11. CASE LoadConfig
  BY <1>11 DEF LoadConfig, Unstarted
<1>12. CASE DiscoverClusters
  BY <1>12 DEF DiscoverClusters, Unstarted
<1>13. CASE StartLoop
  BY <1>13 DEF StartLoop, Unstarted
<1>14. CASE Listen
  BY <1>14 DEF Listen, Unstarted
<1>15. CASE UNCHANGED appVars
  BY <1>15 DEF appVars
<1>16. QED
  BY <1>1, <1>2, <1>3, <1>4, <1>5, <1>6, <1>7, <1>8, <1>9, <1>10, <1>11, <1>12,
     <1>13, <1>14, <1>15
     DEF AppNext, Start, Loop, Process, Stream, allVars

-----------------------------------------------------------------------------
(***************************************************************************)
(* The loop only ever runs with a configuration that was loaded and        *)
(* accepted, and nothing writes it after that: not the handlers that show  *)
(* it, and not the pushes that use its secrets.                            *)
(***************************************************************************)
ConfigAccepted ==
    loop # "new" \/ main \in {"discovering", "configuring", "serving"} =>
        Loads(setup.file, setup.env) /\ config = Loaded(setup.file, setup.env)

LEMMA ConfigAcceptedStep == LoopInv /\ ConfigAccepted /\ [AppNext]_allVars => ConfigAccepted'
<1> SUFFICES ASSUME LoopInv, ConfigAccepted, [AppNext]_allVars PROVE ConfigAccepted'
  OBVIOUS
<1>0. /\ main \in {"loading", "discovering", "configuring"} => loop = "new"
      /\ "discovering" # "loading" /\ "configuring" # "loading"
  BY DEF LoopInv, LoopTypeOK, Startup
<1> USE <1>0 DEF ConfigAccepted, settings, Startup
<1>1. CASE LoadConfig
  BY <1>1 DEF LoadConfig
<1>2. CASE DiscoverClusters
  BY <1>2 DEF DiscoverClusters
<1>3. CASE StartLoop
  BY <1>3 DEF StartLoop
<1>4. CASE Listen
  BY <1>4 DEF Listen
<1>5. CASE FirstCycle \/ Tick \/ TakeTrigger \/ StopLoop \/ NoteErrors \/ EndPush
  BY <1>5 DEF FirstCycle, Tick, TakeTrigger, StopLoop, NoteErrors, EndPush
<1>6. ASSUME NEW found \in Scrapes, NEW failed \in SUBSET Clusters,
             Collected(found, failed)
      PROVE  ConfigAccepted'
  BY <1>6 DEF Collected
<1>7. CASE Trigger \/ ShowConfig \/ Signal
  BY <1>7 DEF Trigger, ShowConfig, Signal
<1>8. CASE BeginShutdown \/ EndShutdown \/ ExpireShutdown
  BY <1>8 DEF BeginShutdown, EndShutdown, ExpireShutdown
<1>9. CASE UNCHANGED appVars
  BY <1>9 DEF appVars
<1>10. QED
  BY <1>1, <1>2, <1>3, <1>4, <1>5, <1>6, <1>7, <1>8, <1>9
     DEF AppNext, Start, Loop, Process, Stream, allVars

(***************************************************************************)
(* What Load makes of a text is what the operator gave for it.             *)
(***************************************************************************)
Texts == {"url", "tenantId", "username", "password", "passwordFile",
          "bearerTokenFile"}

LEMMA LoadedTexts ==
  ASSUME NEW s \in Setups, Loads(s.file, s.env), NEW f \in Texts
  PROVE  Loaded(s.file, s.env)[f] = Given(s, f)
<1> DEFINE file == s.file
           env  == s.env
<1>1. f \in DOMAIN Default \ Durations /\ Default[f] = ""
  <2>1. /\ Texts \subseteq DOMAIN Default
        /\ Default.url = "" /\ Default.tenantId = "" /\ Default.username = ""
        /\ Default.password = "" /\ Default.passwordFile = ""
        /\ Default.bearerTokenFile = ""
    BY DEF Texts, Default
  <2>2. QED
    BY <2>1 DEF Texts, Durations
<1>2. /\ file.kind \in {"missing", "yaml"}
      /\ file.kind # "yaml" => DOMAIN file.settings = {}
      /\ DOMAIN env \subseteq Overridable
  BY SetupAssumption DEF Loads
<1>3. CASE file.kind = "missing"
  BY <1>1, <1>2, <1>3 DEF Loaded, ApplyEnv, Given
<1>4. CASE file.kind = "yaml"
  <2>1. Decoded(file.settings)[f] =
            IF f \in DOMAIN file.settings THEN file.settings[f] ELSE ""
    BY <1>1 DEF Decoded
  <2>2. f \in DOMAIN Decoded(file.settings)
    BY <1>1 DEF Decoded
  <2>3. QED
    BY <1>2, <1>4, <2>1, <2>2 DEF Loaded, ApplyEnv, Given
<1>5. QED
  BY <1>2, <1>3, <1>4

(***************************************************************************)
(* So are the headers, which the environment cannot change.                *)
(***************************************************************************)
LEMMA LoadedHeaders ==
  ASSUME NEW s \in Setups, Loads(s.file, s.env)
  PROVE  Loaded(s.file, s.env).headers = GivenHeaders(s)
<1>1. "headers" \in DOMAIN Default \ (Durations \cup Overridable) /\ Default.headers = NoHeaders
  BY DEF Default, Durations, Overridable
<1>2. /\ s.file.kind \in {"missing", "yaml"}
      /\ s.file.kind # "yaml" => DOMAIN s.file.settings = {}
  BY SetupAssumption DEF Loads
<1>3. CASE s.file.kind = "missing"
  BY <1>1, <1>2, <1>3 DEF Loaded, ApplyEnv, GivenHeaders
<1>4. CASE s.file.kind = "yaml"
  <2>1. Decoded(s.file.settings).headers = GivenHeaders(s)
    BY <1>1 DEF Decoded, GivenHeaders
  <2>2. "headers" \in DOMAIN Decoded(s.file.settings)
    BY <1>1 DEF Decoded
  <2>3. QED
    BY <1>1, <1>4, <2>1, <2>2 DEF Loaded, ApplyEnv
<1>5. QED
  BY <1>2, <1>3, <1>4

THEOREM AppTypeCorrect == AppSafeSpec => []AppTypeOK
<1>1. TypeOK /\ LoopInv /\ ConfigAccepted => AppTypeOK
  BY AppAssumption, StoreAssumption
     DEF AppTypeOK, LoopInv, LoopTypeOK, CyclesCounted, ConfigAccepted
<1>2. AppInit => ConfigAccepted
  BY DEF AppInit, ConfigAccepted
<1>3. AppSafeSpec => [](LoopInv /\ ConfigAccepted)
  BY <1>2, LoopInvInit, LoopInvStep, ConfigAcceptedStep, PTL DEF AppSafeSpec
<1>4. QED
  BY <1>1, <1>3, AppUsesStore, StoreTypeOK, PTL

(***************************************************************************)
(* Every push is sent with what the operator gave, whatever the handlers   *)
(* have shown before it, and what they show has no secret in it.           *)
(***************************************************************************)
SetupKept == setup \in Setups

LEMMA SecretsStep ==
  LoopInv /\ ConfigAccepted /\ SetupKept /\ SecretsPushedNotShown /\ [AppNext]_allVars
    => (SetupKept /\ SecretsPushedNotShown)'
<1> SUFFICES ASSUME LoopInv, ConfigAccepted, SetupKept, SecretsPushedNotShown,
                    [AppNext]_allVars
             PROVE  (SetupKept /\ SecretsPushedNotShown)'
  OBVIOUS
<1> USE DEF SecretsPushedNotShown, SetupKept, settings
<1>1. CASE EndPush
  <2>1. loop # "new"
    BY <1>1 DEF EndPush
  <2>2. \A f \in Texts : config[f] = Given(setup, f)
    BY <2>1, LoadedTexts DEF ConfigAccepted
  <2>3. SentAsGiven(setup, SentWith(config))
    <3>1. config.headers = GivenHeaders(setup)
      BY <2>1, LoadedHeaders DEF ConfigAccepted
    <3>2. /\ config.tenantId = Given(setup, "tenantId")
          /\ Authorization(config) = SentWith(config).authorization
      BY <2>2 DEF SentWith, Texts
    <3>3. /\ \A h \in DOMAIN GivenHeaders(setup) :
                SentWith(config).headers[h] = GivenHeaders(setup)[h]
          /\ Given(setup, "tenantId") # "" /\ "X-Scope-Orgid" \notin DOMAIN GivenHeaders(setup) =>
                SentWith(config).headers["X-Scope-Orgid"] = Given(setup, "tenantId")
      BY <3>1, <3>2 DEF SentWith, Headers
    <3>4. QED
      BY <2>2, <3>3 DEF SentAsGiven, SentWith, Authorization, Texts
  <2>4. QED
    BY <1>1, <2>3 DEF EndPush
<1>2. CASE ShowConfig
  <2>1. ASSUME NEW c \in {Redacted(config)}
        PROVE  ShownAsGiven(setup, c)
    <3>1. config = Loaded(setup.file, setup.env)
      BY <1>2 DEF ShowConfig, ConfigAccepted
    <3>2. DOMAIN config = DOMAIN Default
      BY <3>1 DEF Loaded, ApplyEnv, Decoded
    <3>3. {"password", "headers"} \subseteq DOMAIN Default
      BY DEF Default
    <3>4. config.headers = GivenHeaders(setup)
      BY <1>2, LoadedHeaders DEF ShowConfig, ConfigAccepted
    <3>5. QED
      BY <3>2, <3>3, <3>4 DEF Redacted, ShownAsGiven
  <2>2. QED
    BY <1>2, <2>1 DEF ShowConfig
<1>3. CASE Start
  BY <1>3 DEF Start, LoadConfig, DiscoverClusters, StartLoop, Listen
<1>4. CASE FirstCycle \/ Tick \/ TakeTrigger \/ StopLoop \/ NoteErrors
  BY <1>4 DEF FirstCycle, Tick, TakeTrigger, StopLoop, NoteErrors
<1>5. ASSUME NEW found \in Scrapes, NEW failed \in SUBSET Clusters,
             Collected(found, failed)
      PROVE  (SetupKept /\ SecretsPushedNotShown)'
  BY <1>5 DEF Collected
<1>6. CASE Trigger \/ Signal \/ BeginShutdown \/ EndShutdown \/ ExpireShutdown
  BY <1>6 DEF Trigger, Signal, BeginShutdown, EndShutdown, ExpireShutdown
<1>7. CASE UNCHANGED appVars
  BY <1>7 DEF appVars
<1>8. QED
  BY <1>1, <1>2, <1>3, <1>4, <1>5, <1>6, <1>7
     DEF AppNext, Loop, Process, Stream, allVars

THEOREM AppSecrets == AppSafeSpec => []SecretsPushedNotShown
<1>1. AppInit => SetupKept /\ SecretsPushedNotShown /\ ConfigAccepted
  BY DEF AppInit, SetupKept, SecretsPushedNotShown, ConfigAccepted
<1>2. QED
  BY <1>1, LoopInvInit, LoopInvStep, ConfigAcceptedStep, SecretsStep, PTL
     DEF AppSafeSpec

-----------------------------------------------------------------------------
(***************************************************************************)
(* /api/config never pairs a snapshot with the errors of another one,      *)
(* except between the two writes of a cycle.                               *)
(***************************************************************************)
THEOREM AppLastErrorIsCurrent == AppSafeSpec => []LastErrorIsCurrent
<1>1. AppInit => LastErrorIsCurrent
  BY DEF AppInit, LastErrorIsCurrent
<1>2. LoopInv /\ LastErrorIsCurrent /\ [AppNext]_allVars => LastErrorIsCurrent'
  <2> SUFFICES ASSUME LoopInv, LastErrorIsCurrent, [AppNext]_allVars
               PROVE  LastErrorIsCurrent'
    OBVIOUS
  <2> USE DEF LastErrorIsCurrent
  <2>1. CASE FirstCycle \/ Tick \/ TakeTrigger \/ StopLoop \/ EndPush
    BY <2>1 DEF FirstCycle, Tick, TakeTrigger, StopLoop, EndPush, report
  <2>2. ASSUME NEW found \in Scrapes, NEW failed \in SUBSET Clusters,
               Collected(found, failed)
        PROVE  LastErrorIsCurrent'
    BY <2>2 DEF Collected
  <2>3. CASE NoteErrors
    BY <2>3 DEF NoteErrors
  <2>4. CASE Process
    BY <2>4 DEF Process, Trigger, ShowConfig, Signal, BeginShutdown, EndShutdown,
                ExpireShutdown, report
  <2>5. CASE UNCHANGED appVars
    BY <2>5 DEF appVars, report
  <2>6. CASE LoadConfig \/ DiscoverClusters \/ Listen
    BY <2>6 DEF LoadConfig, DiscoverClusters, Listen, Unstarted, report
  <2>7. CASE StartLoop
    <3>1. main \in Startup => loop = "new"
      BY DEF LoopInv, LoopTypeOK
    <3>2. QED
      BY <2>7, <3>1 DEF StartLoop, Unstarted, Startup, report
  <2>8. QED
    BY <2>1, <2>2, <2>3, <2>4, <2>5, <2>6, <2>7
       DEF AppNext, Start, Loop, Stream, allVars
<1>3. QED
  BY <1>1, <1>2, LoopInvInit, LoopInvStep, PTL DEF AppSafeSpec

-----------------------------------------------------------------------------
(***************************************************************************)
(* A burst of refresh requests begins at most one cycle more than the one  *)
(* it fell into, because the buffer holds one request at most and that one *)
(* is the cycle's.                                                         *)
(***************************************************************************)
BurstCounted ==
    asked.cycles > 0 => (cycles - ticks) + trigger <= (asked.cycles - asked.ticks) + 1

LEMMA BurstCountedStep ==
  LoopInv /\ BurstCounted /\ [AppNext]_allVars => BurstCounted'
<1> SUFFICES ASSUME LoopInv, BurstCounted, [AppNext]_allVars PROVE BurstCounted'
  OBVIOUS
<1>0. /\ cycles \in Nat /\ ticks \in Nat /\ trigger \in 0 .. 1
      /\ asked.cycles \in Nat /\ asked.ticks \in Nat /\ asked.cycles <= cycles
      /\ loop \in {"new", "starting"} => cycles = 0
  BY AppAssumption DEF LoopInv, LoopTypeOK, CyclesCounted
<1> USE <1>0 DEF BurstCounted, requests
<1>1. CASE FirstCycle
  BY <1>1 DEF FirstCycle, BeginCycle
<1>2. CASE Tick
  BY <1>2 DEF Tick, BeginCycle
<1>3. CASE TakeTrigger
  BY <1>3 DEF TakeTrigger, BeginCycle
<1>4. CASE Trigger
  BY <1>4 DEF Trigger
<1>5. CASE StopLoop \/ NoteErrors \/ EndPush
  BY <1>5 DEF StopLoop, NoteErrors, EndPush
<1>6. ASSUME NEW found \in Scrapes, NEW failed \in SUBSET Clusters,
             Collected(found, failed)
      PROVE  BurstCounted'
  BY <1>6 DEF Collected
<1>7. CASE ShowConfig \/ Signal \/ BeginShutdown \/ EndShutdown \/ ExpireShutdown
  BY <1>7 DEF ShowConfig, Signal, BeginShutdown, EndShutdown, ExpireShutdown
<1>8. CASE Start
  BY <1>8 DEF Start, LoadConfig, DiscoverClusters, StartLoop, Listen, Unstarted
<1>9. CASE UNCHANGED appVars
  BY <1>9 DEF appVars
<1>10. QED
  BY <1>1, <1>2, <1>3, <1>4, <1>5, <1>6, <1>7, <1>8, <1>9
     DEF AppNext, Loop, Process, Stream, allVars

THEOREM AppBurstCollapses == AppSafeSpec => []BurstCollapses
<1>1. AppInit => BurstCounted
  BY DEF AppInit, BurstCounted
<1>2. LoopInv /\ BurstCounted => BurstCollapses
  BY AppAssumption DEF LoopInv, LoopTypeOK, BurstCounted, BurstCollapses
<1>3. QED
  BY <1>1, <1>2, BurstCountedStep, LoopInvInit, LoopInvStep, PTL DEF AppSafeSpec

=============================================================================
