--------------------------------- MODULE App --------------------------------
(***************************************************************************)
(* internal/app and cmd/peevee: the process from the reading of its        *)
(* configuration to its exit, the collection loop that feeds the store,    *)
(* the refresh button and the page that shows the configuration.  Module   *)
(* Store supplies the store and the handlers that stream its snapshots;    *)
(* this module decides when Put is called and with what.                   *)
(*                                                                         *)
(* Every volume of Keys exists from the start to the end: a snapshot that  *)
(* does not list one could not see it.                                     *)
(***************************************************************************)
EXTENDS Store, Config

CONSTANTS
    Clusters,       \* clusters of the pool
    Home,           \* Home[k]: the cluster of volume k
    Setups,         \* configuration files and environments, see Config
    MaxTicks,       \* bound: ticks of the interval that start a cycle
    MaxClicks       \* bound: requests to /api/refresh

ASSUME AppAssumption ==
    /\ Home \in [Keys -> Clusters]
    /\ MaxTicks \in Nat
    /\ MaxClicks \in Nat
    /\ MaxPuts > MaxTicks + MaxClicks

\* Only YAML has settings, and only the variables that Load reads count.
ASSUME SetupAssumption ==
    \A s \in Setups :
        /\ s.file.kind # "yaml" => DOMAIN s.file.settings = {}
        /\ DOMAIN s.env \subseteq Overridable

VARIABLES
    loop,           \* where Run is
    trigger,        \* refresh requests in the buffered channel
    errors,         \* the clusters in the stored snapshot's Errors
    lastError,      \* the clusters that LastError names
    stopping,       \* the context is cancelled: SIGTERM
    main,           \* where main is
    setup,          \* the file and the environment it started with
    config,         \* the configuration; its copies share basicAuth and headers
    listening,      \* the HTTP server answers
    pushed,         \* what pushes were sent with
    shown,          \* the configurations that browsers were shown
    cycles,         \* cycles begun
    ticks,          \* those that a tick began
    clicks,         \* requests to /api/refresh so far
    asked           \* cycles and ticks when the latest of them came

requests == <<trigger, clicks, asked>>
report   == <<errors, lastError>>
settings == <<setup, config, listening, pushed, shown>>
appVars  == <<loop, requests, report, stopping, main, cycles, ticks, settings>>
allVars  == <<vars, appVars>>

AppInit ==
    /\ Init
    /\ loop = "new"
    /\ trigger = 0
    /\ errors = {}
    /\ lastError = {}
    /\ stopping = FALSE
    /\ main = "loading"
    /\ setup \in Setups
    /\ config = Default
    /\ listening = FALSE
    /\ pushed = {}
    /\ shown = {}
    /\ cycles = 0
    /\ ticks = 0
    /\ clicks = 0
    /\ asked = [cycles |-> 0, ticks |-> 0]

-----------------------------------------------------------------------------
(***************************************************************************)
(* run, up to its select.  A signal before NotifyContext ends the process. *)
(***************************************************************************)
Startup == {"loading", "discovering", "configuring"}

Unstarted == <<vars, requests, report, stopping, cycles, ticks>>

LoadConfig ==
    /\ main = "loading"
    /\ IF Loads(setup.file, setup.env)
       THEN /\ config' = Loaded(setup.file, setup.env)
            /\ main' = "discovering"
       ELSE /\ main' = "refused"
            /\ UNCHANGED config
    /\ UNCHANGED <<Unstarted, loop, setup, listening, pushed, shown>>

\* pool.Reload, which fails when it cannot read the kubeconfig directory.  A
\* pool without clusters is no failure.
DiscoverClusters ==
    /\ main = "discovering"
    /\ main' \in {"configuring", "refused"}
    /\ UNCHANGED <<Unstarted, loop, settings>>

\* remotewrite.New and the wiring; then Run starts, before the server listens.
StartLoop ==
    /\ main = "configuring"
    /\ \/ /\ main' = "serving"
          /\ loop' = "starting"
       \/ /\ config.caFile # ""        \* unreadable, or without a certificate
          /\ main' = "refused"
          /\ UNCHANGED loop
    /\ UNCHANGED <<Unstarted, settings>>

\* ListenAndServe, or its error in the select.
Listen ==
    /\ main = "serving"
    /\ ~listening
    /\ \/ listening' = TRUE /\ UNCHANGED main
       \/ main' = "refused" /\ UNCHANGED listening
    /\ UNCHANGED <<Unstarted, loop, setup, config, pushed, shown>>

-----------------------------------------------------------------------------
(***************************************************************************)
(* Run and cycle.                                                          *)
(***************************************************************************)
BeginCycle ==
    /\ loop' = "collecting"
    /\ cycles' = cycles + 1

\* Run collects at once, whatever the context says; NewTicker takes no interval
\* that is not positive.
FirstCycle ==
    /\ loop = "starting"
    /\ config.interval > 0
    /\ BeginCycle
    /\ UNCHANGED <<vars, requests, report, stopping, main, ticks, settings>>

\* case <-ticker.C.
Tick ==
    /\ loop = "selecting"
    /\ ticks < MaxTicks
    /\ ticks' = ticks + 1
    /\ BeginCycle
    /\ UNCHANGED <<vars, requests, report, stopping, main, settings>>

\* Mutant of TakeTrigger: the request stays in the buffer.
TakeTriggerKept ==
    /\ loop = "selecting"
    /\ trigger > 0
    /\ BeginCycle
    /\ UNCHANGED <<vars, requests, report, stopping, main, ticks, settings>>

\* case <-r.trigger.
TakeTrigger ==
    /\ loop = "selecting"
    /\ trigger > 0
    /\ trigger' = trigger - 1
    /\ BeginCycle
    /\ UNCHANGED <<vars, clicks, asked, report, stopping, main, ticks, settings>>

\* case <-ctx.Done().
StopLoop ==
    /\ loop = "selecting"
    /\ stopping
    /\ loop' = "stopped"
    /\ UNCHANGED <<vars, requests, report, stopping, main, cycles, ticks, settings>>

(***************************************************************************)
(* Collect returns and Put stores the snapshot.  A cluster that failed is  *)
(* in Errors and none of its volumes is listed; once the context is        *)
(* cancelled a cluster may also be passed over without an error.  With no  *)
(* slot for a cluster Collect waits until the context is cancelled.        *)
(***************************************************************************)
Collected(found, failed) ==
    /\ loop = "collecting"
    /\ config.clusterConcurrency > 0 \/ stopping
    /\ \A k \in Keys : Home[k] \in failed => found[k] = "absent"
    /\ stopping \/ \A k \in Keys : Home[k] \notin failed => found[k] # "absent"
    /\ PutLocked(found)
    /\ errors' = failed
    /\ loop' = "noting"
    /\ UNCHANGED <<requests, lastError, stopping, main, cycles, ticks, settings>>

\* Mutant of NoteErrors: a good collection does not clear the last error.
NoteFailures ==
    /\ loop = "noting"
    /\ toNotify = {}
    /\ lastError' = IF errors = {} THEN lastError ELSE errors
    /\ loop' = "pushing"
    /\ UNCHANGED <<vars, requests, errors, stopping, main, cycles, ticks, settings>>

\* Put has sent its wakeups; the errors of the snapshot become LastError.
NoteErrors ==
    /\ loop = "noting"
    /\ toNotify = {}
    /\ lastError' = errors
    /\ loop' = "pushing"
    /\ UNCHANGED <<vars, requests, errors, stopping, main, cycles, ticks, settings>>

\* Mutant of EndPush: the requests of the whole cycle are taken as answered.
EndPushAnswered ==
    /\ loop = "pushing"
    /\ loop' = "selecting"
    /\ trigger' = 0
    /\ UNCHANGED <<vars, clicks, asked, report, stopping, main, cycles, ticks, settings>>

SentWith(c) ==
    [url |-> c.url, headers |-> Headers(c), authorization |-> Authorization(c)]

\* The push is over, or disabled; a failure is logged and no more.  With a
\* timeout of 0 no request is sent.
EndPush ==
    /\ loop = "pushing"
    /\ loop' = "selecting"
    /\ pushed' = IF config.enabled /\ config.pushTimeout > 0
                 THEN pushed \cup {SentWith(config)}
                 ELSE pushed
    /\ UNCHANGED <<vars, requests, report, stopping, main, cycles, ticks,
                   setup, config, listening, shown>>

-----------------------------------------------------------------------------
(***************************************************************************)
(* POST /api/refresh, GET /api/config, and main.                           *)
(***************************************************************************)
\* Mutant of Trigger: every request waits its turn.
TriggerQueued ==
    /\ main = "serving" /\ listening
    /\ clicks < MaxClicks
    /\ clicks' = clicks + 1
    /\ trigger' = trigger + 1
    /\ asked' = [cycles |-> cycles, ticks |-> ticks]
    /\ UNCHANGED <<vars, loop, report, stopping, main, cycles, ticks, settings>>

\* Trigger: one that finds the buffer full is dropped.
Trigger ==
    /\ main = "serving" /\ listening
    /\ clicks < MaxClicks
    /\ clicks' = clicks + 1
    /\ trigger' = 1
    /\ asked' = [cycles |-> cycles, ticks |-> ticks]
    /\ UNCHANGED <<vars, loop, report, stopping, main, cycles, ticks, settings>>

\* Mutant of ShowConfig: the copy of the configuration shares basicAuth with
\* the client, and its password is blanked there.
ShowConfigInPlace ==
    /\ main = "serving" /\ listening
    /\ shown' = shown \cup {Redacted(config)}
    /\ config' = [config EXCEPT !.password = ""]
    /\ UNCHANGED <<vars, loop, requests, report, stopping, main, cycles, ticks,
                   setup, listening, pushed>>

\* handleConfig and handleConfigYAML.
ShowConfig ==
    /\ main = "serving" /\ listening
    /\ shown' = shown \cup {Redacted(config)}
    /\ UNCHANGED <<vars, loop, requests, report, stopping, main, cycles, ticks,
                   setup, config, listening, pushed>>

Signal ==
    /\ ~stopping
    /\ stopping' = TRUE
    /\ main' = IF main \in Startup THEN "killed" ELSE main
    /\ UNCHANGED <<vars, loop, requests, report, cycles, ticks, settings>>

\* httpServer.Shutdown: no new requests.  The context of those that are being
\* served is not cancelled.
BeginShutdown ==
    /\ main = "serving"
    /\ stopping
    /\ main' = "shutting"
    /\ UNCHANGED <<vars, loop, requests, report, stopping, cycles, ticks, settings>>

Open == {c \in Clients : pc[c] \notin {"new", "done"}}

EndShutdown ==
    /\ main = "shutting"
    /\ Open = {}
    /\ main' = "stopped"
    /\ UNCHANGED <<vars, loop, requests, report, stopping, cycles, ticks, settings>>

\* A stream that no step of the program will end.
Stuck(c) ==
    /\ c \notin gone
    /\ \/ pc[c] = "waiting" /\ ~pending[c]
       \/ pc[c] = "writing" /\ c \notin Attentive

\* Mutant of ExpireShutdown: Shutdown is called without a deadline.
ExpireNever ==
    /\ main = "shutting"
    /\ Open # Open
    /\ main' = "failed"
    /\ UNCHANGED <<vars, loop, requests, report, stopping, cycles, ticks, settings>>

\* Fifteen seconds pass, long enough for all that can end to have ended.
ExpireShutdown ==
    /\ main = "shutting"
    /\ Open # {}
    /\ \A c \in Open : Stuck(c)
    /\ main' = "failed"
    /\ UNCHANGED <<vars, loop, requests, report, stopping, cycles, ticks, settings>>

-----------------------------------------------------------------------------
Alive == ~crashed /\ main \in Startup \cup {"serving", "shutting"}

Start == LoadConfig \/ DiscoverClusters \/ StartLoop \/ Listen

Loop ==
    \/ FirstCycle \/ Tick \/ TakeTrigger \/ StopLoop \/ NoteErrors \/ EndPush
    \/ \E found \in Scrapes, failed \in SUBSET Clusters : Collected(found, failed)

Process == Trigger \/ ShowConfig \/ Signal \/ BeginShutdown \/ EndShutdown \/ ExpireShutdown

\* The steps of the store that are not the loop's choice.
Stream(c) ==
    /\ Send(c) \/ HangUp(c) \/ Handler(c)
    /\ pc[c] = "new" => main = "serving" /\ listening
    /\ UNCHANGED appVars

AppNext ==
    /\ Alive
    /\ Start \/ Loop \/ Process \/ \E c \in Clients : Stream(c)

AppSafeSpec == AppInit /\ [][AppNext]_allVars

Live(A) == Alive /\ A
Does(A) == Live(A /\ UNCHANGED appVars)

(***************************************************************************)
(* As in Store for the streams.  Run's select chooses at random among the  *)
(* ready cases, so one that keeps being ready is chosen in the end; a tick *)
(* may be as far away as the interval is long.  Collections and pushes end *)
(* because both run under a deadline.                                      *)
(***************************************************************************)
AppFairness ==
    /\ WF_allVars(Live(Start))
    /\ WF_allVars(Live(FirstCycle))
    /\ WF_allVars(\E found \in Scrapes, failed \in SUBSET Clusters :
                        Live(Collected(found, failed)))
    /\ WF_allVars(Live(NoteErrors))
    /\ WF_allVars(Live(EndPush))
    /\ SF_allVars(Live(TakeTrigger))
    /\ SF_allVars(Live(StopLoop))
    /\ WF_allVars(Live(BeginShutdown))
    /\ WF_allVars(Live(EndShutdown))
    /\ WF_allVars(Live(ExpireShutdown))
    /\ \A c \in Clients :
        /\ WF_allVars(Does(Send(c)))
        /\ WF_allVars(Does(Wake(c)))
        /\ WF_allVars(Does(ReadSnapshot(c)))
        /\ WF_allVars(Does(Flush(c) /\ c \in Attentive \cup gone))
        /\ SF_allVars(Does(Unregister(c)))
        /\ WF_allVars(Does(Close(c)))

AppSpec == AppSafeSpec /\ AppFairness

-----------------------------------------------------------------------------
AppTypeOK ==
    /\ TypeOK
    /\ loop \in {"new", "starting", "selecting", "collecting", "noting", "pushing", "stopped"}
    /\ trigger \in 0 .. 1
    /\ stopping \in BOOLEAN
    /\ errors \subseteq Clusters
    /\ lastError \subseteq Clusters
    /\ main \in Startup \cup {"serving", "shutting", "stopped", "failed",
                             "refused", "killed"}
    /\ listening \in BOOLEAN
    /\ main \in Startup => loop = "new"
    /\ loop # "new" =>
         Loads(setup.file, setup.env) /\ config = Loaded(setup.file, setup.env)
    /\ ticks \in 0 .. MaxTicks
    /\ clicks \in 0 .. MaxClicks
    /\ cycles \in 0 .. MaxPuts
    /\ asked.cycles \in 0 .. cycles
    /\ asked.ticks \in 0 .. ticks

(***************************************************************************)
(* A refresh that is asked for, during a collection or not, leads to a     *)
(* collection that begins later, without waiting for the interval: what    *)
(* the answer "collection triggered" (api.go:229) says.  It holds although *)
(* a request that finds another one waiting is dropped.                    *)
(***************************************************************************)
RefreshHonoured ==
    (clicks > 0 /\ cycles = asked.cycles) ~>
        (cycles > asked.cycles \/ stopping \/ crashed)

(***************************************************************************)
(* "a burst of clicks collapses into a single extra cycle" (runner.go:27): *)
(* after the last request of a burst at most one more cycle begins that is *)
(* not a tick's, however many requests the burst had and wherever they     *)
(* fell in the cycle that was running.                                     *)
(***************************************************************************)
BurstCollapses ==
    asked.cycles > 0 => cycles - ticks <= asked.cycles - asked.ticks + 1

(***************************************************************************)
(* The process ends once it is told to, even while a browser holds on to   *)
(* its stream, or no longer reads it.                                      *)
(***************************************************************************)
ProcessEnds == stopping ~> ~Alive

(***************************************************************************)
(* /api/config shows the errors of the snapshot that the other handlers    *)
(* show, except between Put and setLastError.                              *)
(***************************************************************************)
LastErrorIsCurrent == loop # "noting" => lastError = errors

(***************************************************************************)
(* A process whose configuration was accepted becomes ready (api.go:250):  *)
(* its first collection ends and is stored, unless it is told to stop or   *)
(* cannot listen.  No accepted configuration keeps the loop from turning.  *)
(***************************************************************************)
BecomesReady ==
    main = "serving" ~> (generatedAt > 0 \/ stopping \/ main = "refused")

\* What the operator gave for a text, the environment before the file.
Given(s, f) ==
    IF f \in DOMAIN s.env THEN s.env[f]
    ELSE IF f \in DOMAIN s.file.settings THEN s.file.settings[f]
    ELSE ""

GivenHeaders(s) ==
    IF "headers" \in DOMAIN s.file.settings THEN s.file.settings.headers ELSE NoHeaders

SentAsGiven(s, p) ==
    /\ p.url = Given(s, "url")
    /\ \A h \in DOMAIN GivenHeaders(s) : p.headers[h] = GivenHeaders(s)[h]
    /\ Given(s, "tenantId") # "" /\ "X-Scope-Orgid" \notin DOMAIN GivenHeaders(s) =>
            p.headers["X-Scope-Orgid"] = Given(s, "tenantId")
    /\ p.authorization =
        IF Given(s, "bearerTokenFile") # "" THEN <<"bearer", Given(s, "bearerTokenFile")>>
        ELSE IF Given(s, "username") # ""
        THEN <<"basic", Given(s, "username"),
               IF Given(s, "password") = "" THEN Given(s, "passwordFile")
                                            ELSE Given(s, "password")>>
        ELSE <<"none">>

\* No secret is shown, and the headers whose name does not look like one are.
ShownAsGiven(s, c) ==
    /\ c.password = ""
    /\ c.headers = [h \in DOMAIN GivenHeaders(s) |->
                        IF h \in SecretNames THEN "***redacted***" ELSE GivenHeaders(s)[h]]

(***************************************************************************)
(* "PEEVEE_REMOTE_WRITE_PASSWORD and friends override the config file"     *)
(* (values.yaml:152) for every push, whichever pages were looked at before *)
(* it, and no page shows the password or a header whose name looks secret  *)
(* (api.go:182): the handlers work on a copy of a configuration that       *)
(* shares both with the client.                                            *)
(***************************************************************************)
SecretsPushedNotShown ==
    /\ \A p \in pushed : SentAsGiven(setup, p)
    /\ \A c \in shown : ShownAsGiven(setup, c)

(***************************************************************************)
(* "Drop history for volumes that no longer exist" (store.go:61): the      *)
(* history of a volume that does exist is not dropped.                     *)
(***************************************************************************)
ExistingKeepHistory ==
    [][\A k \in Keys : history[k] # <<>> => history'[k] # <<>>]_allVars

(***************************************************************************)
(* "entry point, wiring, graceful shutdown" (README.md:388): a process     *)
(* that is told to stop ends without an error.                             *)
(***************************************************************************)
ShutdownIsGraceful == main # "failed"
=============================================================================
