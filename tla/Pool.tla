-------------------------------- MODULE Pool --------------------------------
(***************************************************************************)
(* internal/cluster with the part of internal/collector that uses it.  The *)
(* watcher goroutine rescans the kubeconfig directory, file by file and    *)
(* without a lock, and then installs what it found under the pool's lock.  *)
(* The runner goroutine collects: it takes the clusters of the pool, and a *)
(* goroutine per cluster scrapes it, sets its health in the pool and adds  *)
(* to the snapshot.  The two run concurrently, and so does whoever edits   *)
(* the directory.  What one scrape does is the subject of module Scrape.   *)
(***************************************************************************)
EXTENDS Integers, Sequences, FiniteSets

CONSTANTS
    Files,              \* kubeconfig files, in the order of the directory
    Contents,           \* what a file may hold, see ContentsAssumption
    NoFile,             \* the file does not exist
    Directories,        \* what the directory may hold: the content of each file
    Contexts,           \* context names
    NoContext,          \* no current-context
    SingleName,         \* SingleName[f]: the cluster of a file with one context
    MultiName,          \* MultiName[f][x]: the cluster of context x otherwise;
                        \* contexts may differ in nothing that sanitize keeps
    InCluster,          \* the name of the in-cluster fallback, if there is one:
                        \* a set of at most one name
    Disabled,           \* the names that clusters[].disabled turns off
    AllContexts,        \* discovery.allContexts
    ClusterConcurrency, \* collector.clusterConcurrency
    MaxEdits            \* bound: changes to the directory

FileSet == {Files[i] : i \in 1 .. Len(Files)}

\* A content may be unusable as a whole ("load"), have contexts that cannot
\* be turned into a client configuration ("rest") or into a client ("client").
ContentsAssumption ==
    \A x \in Contents :
        /\ x.contexts \subseteq Contexts
        /\ x.current \in Contexts \cup {NoContext}
        /\ x.fault \in {"none", "load", "rest", "client"}

ASSUME PoolAssumption ==
    /\ ContentsAssumption
    /\ NoFile \notin Contents
    /\ Directories \subseteq [FileSet -> Contents \cup {NoFile}]
    /\ DOMAIN SingleName = FileSet
    /\ DOMAIN MultiName = FileSet
    /\ Cardinality(InCluster) <= 1
    /\ AllContexts \in BOOLEAN
    /\ ClusterConcurrency \in Nat \ {0}
    /\ MaxEdits \in Nat

VARIABLES
    dir,        \* dir[f]: the content of the file
    dirState,   \* "present", "missing" or "unreadable"
    edits,      \* how often the directory has changed
    clusters,   \* the pool: the cluster of each name
    health,     \* the health of each name
    loadErrors, \* the files the pool reports as bad
    built,      \* the number of clients built so far
    scan,       \* the Reload under way, or where it is not
    started,    \* the first Reload is over and collections may begin
    held,       \* the clusters the running or last collection took
    phase,      \* phase[n]: where the goroutine for n is
    found,      \* the clusters whose volumes are in the snapshot
    errs,       \* Snapshot.Errors
    stopping    \* the context is cancelled

directory  == <<dir, dirState, edits>>
pool       == <<clusters, health, loadErrors, built>>
collection == <<held, phase, found, errs>>
vars       == <<directory, pool, scan, started, collection, stopping>>

Empty == [x \in {} |-> x]
Idle == [reading |-> FALSE, files |-> {}, candidates |-> Empty, bad |-> {}]

Init ==
    /\ dir \in Directories
    /\ dirState = "present"
    /\ edits = 0
    /\ clusters = Empty
    /\ health = Empty
    /\ loadErrors = {}
    /\ built = 0
    /\ scan = Idle
    /\ started = FALSE
    /\ held = Empty
    /\ phase = Empty
    /\ found = {}
    /\ errs = {}
    /\ stopping = FALSE

-----------------------------------------------------------------------------
(***************************************************************************)
(* The directory, which may change at any time.  It is usually a projected *)
(* Secret, all of whose files change at once.                              *)
(***************************************************************************)
Edit ==
    /\ edits < MaxEdits
    /\ edits' = edits + 1
    /\ \/ /\ dir' \in Directories \ {dir}
          /\ UNCHANGED dirState
       \/ /\ dirState' \in {"present", "missing", "unreadable"} \ {dirState}
          /\ UNCHANGED dir
    /\ UNCHANGED <<pool, scan, started, collection, stopping>>

-----------------------------------------------------------------------------
(***************************************************************************)
(* discover.                                                               *)
(***************************************************************************)
\* contextsFor.
Usable(x) ==
    CASE AllContexts -> x.contexts
      [] ~AllContexts /\ x.current \in x.contexts -> {x.current}
      [] OTHER -> IF Cardinality(x.contexts) = 1 THEN x.contexts ELSE {}

\* Mutant of NamesOf: a name that is turned off is not left out.
NamesOfAll(f, x) ==
    IF x.fault \in {"load", "rest"} THEN {}
    ELSE IF Cardinality(Usable(x)) > 1 THEN {MultiName[f][c] : c \in Usable(x)}
    ELSE {SingleName[f] : c \in Usable(x)}

\* clusterName: the context is part of the name when the file yields several.
NamesOf(f, x) ==
    IF x.fault \in {"load", "rest"} THEN {}
    ELSE IF Cardinality(Usable(x)) > 1 THEN {MultiName[f][c] : c \in Usable(x)} \ Disabled
    ELSE {SingleName[f] : c \in Usable(x)} \ Disabled

\* sanitize may give two contexts of one file the same name; the first of them
\* has it and the other is a clash.
ClashesWithItself(f, x) ==
    /\ x.fault \notin {"load", "rest"}
    /\ \E c, d \in Usable(x) :
        c # d /\ MultiName[f][c] = MultiName[f][d] /\ MultiName[f][c] \notin Disabled

\* Whether reading f adds it to the load errors on its own account.
IsBad(f, x) ==
    \/ x.fault = "load"
    \/ Usable(x) = {}
    \/ ClashesWithItself(f, x)
    \/ /\ x.fault = "rest"
       /\ IF Cardinality(Usable(x)) > 1
          THEN {MultiName[f][c] : c \in Usable(x)} \ Disabled # {}
          ELSE SingleName[f] \notin Disabled

\* os.ReadDir: the positions of the files that there are now.  A missing directory has none;
\* any other error ends the Reload and changes nothing.
BeginReload ==
    /\ ~scan.reading
    /\ dirState # "unreadable"
    /\ scan' = [Idle EXCEPT
                  !.reading = TRUE,
                  !.files = IF dirState = "missing" THEN {}
                            ELSE {i \in 1 .. Len(Files) : dir[Files[i]] # NoFile}]
    /\ UNCHANGED <<directory, pool, started, collection, stopping>>

\* Mutants of ReadFile: the last file to claim a name gets it, and a clash is
\* not reported.
ReadFileLastWins ==
    \E i \in scan.files :
        LET f       == Files[i]
            gone    == dirState # "present" \/ dir[f] = NoFile
            names   == IF gone THEN {} ELSE NamesOf(f, dir[f])
            all     == scan.candidates
        IN  /\ scan.reading
            /\ \A j \in scan.files : i <= j
            /\ scan' = [scan EXCEPT
                  !.files = @ \ {i},
                  !.candidates = [n \in DOMAIN all \cup names |->
                                    IF n \in names THEN [source |-> f, content |-> dir[f]]
                                    ELSE all[n]],
                  !.bad = IF gone \/ IsBad(f, dir[f]) THEN @ \cup {f} ELSE @]
            /\ UNCHANGED <<directory, pool, started, collection, stopping>>

ReadFileQuietly ==
    \E i \in scan.files :
        LET f       == Files[i]
            gone    == dirState # "present" \/ dir[f] = NoFile
            claimed == (IF gone THEN {} ELSE NamesOf(f, dir[f])) \ DOMAIN scan.candidates
            all     == scan.candidates
        IN  /\ scan.reading
            /\ \A j \in scan.files : i <= j
            /\ scan' = [scan EXCEPT
                  !.files = @ \ {i},
                  !.candidates = [n \in DOMAIN all \cup claimed |->
                                    IF n \in DOMAIN all THEN all[n]
                                    ELSE [source |-> f, content |-> dir[f]]],
                  !.bad = IF gone \/ IsBad(f, dir[f]) THEN @ \cup {f} ELSE @]
            /\ UNCHANGED <<directory, pool, started, collection, stopping>>

\* One turn of the loop over the files.  The first file to claim a name gets it.
ReadFile ==
    \E i \in scan.files :
        LET f       == Files[i]
            gone    == dirState # "present" \/ dir[f] = NoFile
            names   == IF gone THEN {} ELSE NamesOf(f, dir[f])
            claimed == names \ DOMAIN scan.candidates
            all     == scan.candidates
        IN  /\ scan.reading
            /\ \A j \in scan.files : i <= j
            /\ scan' = [scan EXCEPT
                  !.files = @ \ {i},
                  !.candidates = [n \in DOMAIN all \cup claimed |->
                                    IF n \in DOMAIN all THEN all[n]
                                    ELSE [source |-> f, content |-> dir[f]]],
                  !.bad = IF gone \/ IsBad(f, dir[f]) \/ claimed # names THEN @ \cup {f} ELSE @]
            /\ UNCHANGED <<directory, pool, started, collection, stopping>>

-----------------------------------------------------------------------------
(***************************************************************************)
(* The locked part of Reload.  A cluster whose file has not changed is     *)
(* kept with its client, the others get a new one, and the health of a     *)
(* cluster that is removed is removed.                                     *)
(***************************************************************************)
InClusterContent == [contexts |-> {}, current |-> NoContext, fault |-> "none"]

\* What discover returns: the fallback comes last and does not insist.
Candidates ==
    [n \in DOMAIN scan.candidates \cup InCluster |->
        IF n \in DOMAIN scan.candidates THEN scan.candidates[n]
        ELSE [source |-> "serviceaccount", content |-> InClusterContent]]

\* Mutant of Kept: every Reload builds every client anew.
KeptNever(n) == FALSE

Kept(n) == n \in DOMAIN clusters /\ clusters[n].content = Candidates[n].content

Unbuildable == {n \in DOMAIN Candidates : ~Kept(n) /\ Candidates[n].content.fault = "client"}

\* The clusters the pool gets; client tells which Reload built the client.
NextClusters ==
    [n \in DOMAIN Candidates \ Unbuildable |->
        IF Kept(n) THEN clusters[n]
        ELSE [source  |-> Candidates[n].source,
              content |-> Candidates[n].content,
              client  |-> built + 1]]

Install ==
    /\ scan.reading
    /\ scan.files = {}
    /\ clusters' = NextClusters
    /\ LET removed == DOMAIN clusters \ DOMAIN NextClusters
       IN  health' = [n \in DOMAIN health \ removed |-> health[n]]
    /\ loadErrors' = scan.bad \cup {Candidates[n].source : n \in Unbuildable}
    /\ built' = IF \A n \in DOMAIN NextClusters : Kept(n) THEN built ELSE built + 1
    /\ scan' = Idle
    /\ started' = TRUE
    /\ UNCHANGED <<directory, collection, stopping>>

-----------------------------------------------------------------------------
(***************************************************************************)
(* Collect.                                                                *)
(***************************************************************************)
Finished == {"merged", "skipped"}
Collected == \A n \in DOMAIN phase : phase[n] \in Finished
Scraping == {n \in DOMAIN phase : phase[n] \in {"scraping", "up", "down"}}

\* The runner starts a collection: p.Clusters(), and a goroutine for each.
\* When the context is cancelled meanwhile its select may still choose this.
StartCollect ==
    /\ started
    /\ Collected
    /\ held' = clusters
    /\ phase' = [n \in DOMAIN clusters |-> "waiting"]
    /\ found' = {}
    /\ errs' = {}
    /\ UNCHANGED <<directory, pool, scan, started, stopping>>

\* sem <- struct{}{}.
Acquire(n) ==
    /\ n \in DOMAIN phase
    /\ phase[n] = "waiting"
    /\ Cardinality(Scraping) < ClusterConcurrency
    /\ phase' = [phase EXCEPT ![n] = "scraping"]
    /\ UNCHANGED <<directory, pool, scan, started, held, found, errs, stopping>>

\* case <-ctx.Done().
Skip(n) ==
    /\ n \in DOMAIN phase
    /\ phase[n] = "waiting"
    /\ stopping
    /\ phase' = [phase EXCEPT ![n] = "skipped"]
    /\ UNCHANGED <<directory, pool, scan, started, held, found, errs, stopping>>

\* Mutant of Report: the first health that is set for a name stays.
ReportOnce(n, up) ==
    /\ n \in DOMAIN phase
    /\ phase[n] = "scraping"
    /\ phase' = [phase EXCEPT ![n] = IF up THEN "up" ELSE "down"]
    /\ health' = [m \in DOMAIN health \cup {n} |->
                    IF m \in DOMAIN health THEN health[m]
                    ELSE [client |-> held[n].client, reachable |-> up]]
    /\ UNCHANGED <<directory, clusters, loadErrors, built, scan, started, held, found, errs, stopping>>

\* collectCluster returns, with volumes or an error, and SetHealth records it.
Report(n, up) ==
    /\ n \in DOMAIN phase
    /\ phase[n] = "scraping"
    /\ phase' = [phase EXCEPT ![n] = IF up THEN "up" ELSE "down"]
    /\ health' = [m \in DOMAIN health \cup {n} |->
                    IF m = n THEN [client |-> held[n].client, reachable |-> up] ELSE health[m]]
    /\ UNCHANGED <<directory, clusters, loadErrors, built, scan, started, held, found, errs, stopping>>

\* Mutant of Merge: a cluster that failed leaves no trace.
MergeVolumesOnly(n) ==
    /\ n \in DOMAIN phase
    /\ phase[n] \in {"up", "down"}
    /\ phase' = [phase EXCEPT ![n] = "merged"]
    /\ found' = IF phase[n] = "up" THEN found \cup {n} ELSE found
    /\ UNCHANGED <<directory, pool, scan, started, held, errs, stopping>>

\* The goroutine adds its part to the snapshot and gives its place back.
Merge(n) ==
    /\ n \in DOMAIN phase
    /\ phase[n] \in {"up", "down"}
    /\ phase' = [phase EXCEPT ![n] = "merged"]
    /\ \/ phase[n] = "up" /\ found' = found \cup {n} /\ UNCHANGED errs
       \/ phase[n] = "down" /\ errs' = errs \cup {n} /\ UNCHANGED found
    /\ UNCHANGED <<directory, pool, scan, started, held, stopping>>

\* SIGTERM.
Stop ==
    /\ ~stopping
    /\ stopping' = TRUE
    /\ UNCHANGED <<directory, pool, scan, started, collection>>

-----------------------------------------------------------------------------
\* Every name a cluster can have.
Names == {SingleName[f] : f \in FileSet}
         \cup {MultiName[f][x] : f \in FileSet, x \in Contexts} \cup InCluster

Reload == BeginReload \/ ReadFile \/ Install
Collector(n) == Acquire(n) \/ Skip(n) \/ Merge(n) \/ \E up \in BOOLEAN : Report(n, up)

Next == Edit \/ Reload \/ StartCollect \/ Stop \/ \E n \in Names : Collector(n)

SafeSpec == Init /\ [][Next]_vars

(***************************************************************************)
(* Both tickers keep ticking until the context is cancelled, the steps of  *)
(* a Reload and of a collection follow one another, and a scrape ends, as  *)
(* module Scrape shows.                                                    *)
(***************************************************************************)
Spec ==
    /\ SafeSpec
    /\ WF_vars(BeginReload /\ ~stopping)
    /\ WF_vars(ReadFile)
    /\ WF_vars(Install)
    /\ WF_vars(StartCollect /\ ~stopping)
    /\ \A n \in Names :
        /\ WF_vars(Acquire(n))
        /\ WF_vars(\E up \in BOOLEAN : Report(n, up))
        /\ WF_vars(Merge(n))

-----------------------------------------------------------------------------
TypeOK ==
    /\ dir \in Directories
    /\ dirState \in {"present", "missing", "unreadable"}
    /\ edits \in 0 .. MaxEdits
    /\ DOMAIN clusters \cup DOMAIN health \cup DOMAIN held \subseteq (Names \ Disabled) \cup InCluster
    /\ \A n \in DOMAIN clusters : clusters[n].client \in 1 .. built
    /\ \A n \in DOMAIN health : health[n].client \in 1 .. built /\ health[n].reachable \in BOOLEAN
    /\ loadErrors \subseteq FileSet
    /\ scan.candidates # Empty => scan.reading
    /\ DOMAIN phase = DOMAIN held
    /\ \A n \in DOMAIN phase :
        phase[n] \in {"waiting", "scraping", "up", "down", "merged", "skipped"}
    /\ {started, stopping} \subseteq BOOLEAN

(***************************************************************************)
(* What a directory means: a name belongs to the first file that claims    *)
(* it, and is in the pool if that file's contents make a client.           *)
(***************************************************************************)
Claiming(n) ==
    {i \in 1 .. Len(Files) : dirState = "present" /\ dir[Files[i]] # NoFile
                             /\ n \in NamesOf(Files[i], dir[Files[i]])}

Owner(n) == dir[Files[CHOOSE i \in Claiming(n) : \A j \in Claiming(n) : i <= j]]

Members == {n \in Names : Claiming(n) # {} /\ Owner(n).fault # "client"}
           \cup {n \in InCluster : Claiming(n) = {}}

(***************************************************************************)
(* "clusters can be added or removed by updating the Secret, with no       *)
(* restart" (cluster.go:379): when the directory stops changing, the pool  *)
(* comes to be what the directory means, and stays so.                     *)
(* A name and a file tell which cluster it is, but not which context of    *)
(* the file: a client that is kept may be for another one.                 *)
(***************************************************************************)
FollowsDirectory ==
    <>[] \/ stopping \/ dirState = "unreadable"
         \/ /\ DOMAIN clusters = Members
            /\ \A n \in DOMAIN clusters : Claiming(n) # {} => clusters[n].content = Owner(n)

(***************************************************************************)
(* "the UI can show a bad file rather than silently ignoring it"           *)
(* (cluster.go:70): when the directory stops changing, every file is       *)
(* either reported or in use for every name it claims, and no file is      *)
(* reported that is gone.                                                  *)
(***************************************************************************)
NoFileIgnored ==
    <>[] \/ stopping \/ dirState # "present"
         \/ \A f \in FileSet :
              IF dir[f] = NoFile THEN f \notin loadErrors
              ELSE \/ f \in loadErrors
                   \/ \A n \in NamesOf(f, dir[f]) :
                        n \in DOMAIN clusters /\ clusters[n].content = dir[f]

(***************************************************************************)
(* The health of every cluster comes to be that of its current client, for *)
(* all clusters at once, although the runner works on the clusters it took *)
(* before a Reload replaced or removed them.                               *)
(***************************************************************************)
HealthCatchesUp ==
    <>[] \/ stopping
         \/ \A n \in DOMAIN clusters :
              n \in DOMAIN health /\ health[n].client = clusters[n].client

(***************************************************************************)
(* "Clients for unchanged kubeconfigs are preserved" (cluster.go:110).     *)
(***************************************************************************)
ClientsSurvive ==
    [][\A n \in DOMAIN clusters \cap DOMAIN clusters' :
          clusters'[n].content = clusters[n].content =>
              clusters'[n].client = clusters[n].client]_vars

(***************************************************************************)
(* "A cluster that fails is recorded in Snapshot.Errors; the rest still    *)
(* report" (collector.go:35): a collection that was not cancelled accounts *)
(* for every cluster it took, once, and the health of a cluster that is    *)
(* still the one it scraped agrees with the snapshot.                      *)
(***************************************************************************)
CollectionComplete ==
    Collected /\ ~stopping =>
        /\ found \cup errs = DOMAIN held
        /\ found \cap errs = {}
        /\ \A n \in DOMAIN held \cap DOMAIN health :
              health[n].client = held[n].client => (health[n].reachable <=> n \in found)

(***************************************************************************)
(* "clusters can be ... removed by updating the Secret" (cluster.go:379):  *)
(* when the directory stops changing, the pool comes to hold no health of  *)
(* a cluster it does not have.                                             *)
(***************************************************************************)
RemovedAreForgotten == <>[](stopping \/ DOMAIN health \subseteq DOMAIN clusters)
=============================================================================
