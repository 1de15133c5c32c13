----------------------------- MODULE PoolProofs -----------------------------
(***************************************************************************)
(* Proofs about Pool: type correctness, that a collection accounts for     *)
(* every cluster it took although Reload changes the pool under it, and    *)
(* that the client of an unchanged kubeconfig survives.                    *)
(***************************************************************************)
EXTENDS Pool, TLAPS

-----------------------------------------------------------------------------
(***************************************************************************)
(* Type correctness.  What TypeOK says of the pool rests on what a Reload  *)
(* carries from one file to the next.                                      *)
(***************************************************************************)
Enabled == (Names \ Disabled) \cup InCluster

CandidateMaps ==
    UNION {[D -> [source : FileSet, content : Contents]] : D \in SUBSET (Names \ Disabled)}

ScanTypeOK ==
    /\ scan \in [reading : BOOLEAN, files : SUBSET (1 .. Len(Files)),
                 candidates : CandidateMaps, bad : SUBSET FileSet]
    /\ scan.candidates # Empty => scan.reading

PoolInv ==
    /\ TypeOK
    /\ ScanTypeOK
    /\ built \in Nat
    /\ \A n \in DOMAIN held : held[n].client \in 1 .. built

LEMMA EmptyIsMap == Empty \in CandidateMaps /\ DOMAIN Empty = {}
BY DEF Empty, CandidateMaps

\* What holds of a map, and of which functions are maps.
LEMMA MapElements ==
    ASSUME NEW m \in CandidateMaps
    PROVE  /\ DOMAIN m \subseteq Names \ Disabled
           /\ \A n \in DOMAIN m : m[n] \in [source : FileSet, content : Contents]
BY DEF CandidateMaps

LEMMA MapIntro ==
    ASSUME NEW D \in SUBSET (Names \ Disabled),
           NEW m \in [D -> [source : FileSet, content : Contents]]
    PROVE  m \in CandidateMaps
BY DEF CandidateMaps

\* A file yields names that a cluster can have and that are not turned off.
LEMMA NamesAreEnabled ==
    ASSUME NEW f \in FileSet, NEW x \in Contents
    PROVE  NamesOf(f, x) \subseteq Names \ Disabled
<1>1. Usable(x) \subseteq Contexts
  BY PoolAssumption DEF ContentsAssumption, Usable
<1>2. QED
  BY <1>1 DEF NamesOf, Names

\* Only the fallback comes from no file, and it can always be built.
LEMMA UnbuildableHasFile ==
    ASSUME ScanTypeOK, NEW n \in Unbuildable
    PROVE  Candidates[n].source \in FileSet
<1>1. n \in DOMAIN scan.candidates \cup InCluster /\ Candidates[n].content.fault = "client"
  BY DEF Unbuildable, Candidates
<1>2. n \in DOMAIN scan.candidates
  BY <1>1 DEF Candidates, InClusterContent
<1>3. QED
  BY <1>2, MapElements DEF Candidates, ScanTypeOK

LEMMA PoolInvInit == Init => PoolInv
<1> SUFFICES ASSUME Init PROVE PoolInv
  OBVIOUS
<1>1. ScanTypeOK
  BY EmptyIsMap DEF Init, ScanTypeOK, Idle
<1>2. started \in BOOLEAN /\ stopping \in BOOLEAN
  BY DEF Init
<1>3. scan.candidates = Empty
  BY DEF Init, Idle
<1>4. dir \in Directories /\ dirState = "present" /\ edits \in 0 .. MaxEdits
  BY PoolAssumption DEF Init
<1>5. DOMAIN clusters = {} /\ DOMAIN health = {} /\ DOMAIN held = {} /\ DOMAIN phase = {}
  BY EmptyIsMap DEF Init
<1>6. TypeOK
  BY <1>2, <1>3, <1>4, <1>5 DEF Init, TypeOK
<1>7. QED
  BY <1>1, <1>5, <1>6 DEF Init, PoolInv

LEMMA ReadFileInv == PoolInv /\ ReadFile => PoolInv'
<1> SUFFICES ASSUME PoolInv, ReadFile PROVE PoolInv'
  OBVIOUS
<1> PICK i \in scan.files :
        LET f       == Files[i]
            gone    == dirState # "present" \/ dir[f] = NoFile
            names   == IF gone THEN {} ELSE NamesOf(f, dir[f])
            claimed == names \ DOMAIN scan.candidates
            all     == scan.candidates
        IN  scan' = [scan EXCEPT
              !.files = @ \ {i},
              !.candidates = [n \in DOMAIN all \cup claimed |->
                                IF n \in DOMAIN all THEN all[n]
                                ELSE [source |-> f, content |-> dir[f]]],
              !.bad = IF gone \/ IsBad(f, dir[f]) \/ claimed # names THEN @ \cup {f} ELSE @]
  BY DEF ReadFile
<1> DEFINE f       == Files[i]
           gone    == dirState # "present" \/ dir[f] = NoFile
           names   == IF gone THEN {} ELSE NamesOf(f, dir[f])
           claimed == names \ DOMAIN scan.candidates
           all     == scan.candidates
           more    == [n \in DOMAIN all \cup claimed |->
                         IF n \in DOMAIN all THEN all[n]
                         ELSE [source |-> f, content |-> dir[f]]]
<1>1. f \in FileSet
  BY DEF PoolInv, ScanTypeOK, FileSet
<1>2. gone \/ dir[f] \in Contents
  BY <1>1, PoolAssumption DEF PoolInv, TypeOK
<1>3. claimed \subseteq Names \ Disabled
  BY <1>1, <1>2, NamesAreEnabled
<1>4. DOMAIN all \subseteq Names \ Disabled
      /\ \A n \in DOMAIN all : all[n] \in [source : FileSet, content : Contents]
  BY MapElements DEF PoolInv, ScanTypeOK
<1>5. more \in [DOMAIN all \cup claimed -> [source : FileSet, content : Contents]]
  BY <1>1, <1>2, <1>4
<1>6. ScanTypeOK'
  <2>1. /\ scan' = [scan EXCEPT !.files = @ \ {i}, !.candidates = more, !.bad = scan'.bad]
        /\ scan'.bad \subseteq FileSet
    BY <1>1 DEF PoolInv, ScanTypeOK
  <2>2. scan.reading
    BY DEF ReadFile
  <2>3. DOMAIN all \cup claimed \in SUBSET (Names \ Disabled)
    BY <1>3, <1>4
  <2>4. more \in CandidateMaps
    BY <1>5, <2>3, MapIntro
  <2>. HIDE DEF f, gone, names, claimed, all, more
  <2>5. QED
    BY <2>1, <2>2, <2>4 DEF PoolInv, ScanTypeOK
<1>7. TypeOK'
  BY <1>6 DEF PoolInv, TypeOK, ScanTypeOK, ReadFile, directory, pool, collection
<1>8. QED
  BY <1>6, <1>7 DEF PoolInv, ReadFile, pool, collection

LEMMA InstallInv == PoolInv /\ Install => PoolInv'
<1> SUFFICES ASSUME PoolInv, Install PROVE PoolInv'
  OBVIOUS
<1>1. DOMAIN Candidates \subseteq Enabled
  BY MapElements DEF Candidates, PoolInv, ScanTypeOK, Enabled
<1>2. DOMAIN NextClusters \subseteq DOMAIN Candidates
  BY DEF NextClusters
<1>3. built' \in Nat /\ built <= built'
  BY DEF PoolInv, Install
<1>4. \A n \in DOMAIN NextClusters : NextClusters[n].client \in 1 .. built'
  <2> SUFFICES ASSUME NEW n \in DOMAIN NextClusters PROVE NextClusters[n].client \in 1 .. built'
    OBVIOUS
  <2>1. CASE Kept(n)
    <3>1. NextClusters[n] = clusters[n] /\ n \in DOMAIN clusters
      BY <2>1 DEF NextClusters, Kept
    <3>2. clusters[n].client \in 1 .. built
      BY <3>1 DEF PoolInv, TypeOK
    <3>3. QED
      BY <1>3, <3>1, <3>2 DEF PoolInv
  <2>2. CASE ~Kept(n)
    <3>1. NextClusters[n].client = built + 1
      BY <2>2 DEF NextClusters
    <3>2. built' = built + 1
      BY <2>2 DEF Install
    <3>3. QED
      BY <3>1, <3>2 DEF PoolInv
  <2>3. QED
    BY <2>1, <2>2
<1>5. loadErrors' \subseteq FileSet
  BY UnbuildableHasFile DEF Install, PoolInv, ScanTypeOK
<1>6. ScanTypeOK'
  BY EmptyIsMap DEF Install, ScanTypeOK, Idle
<1>7. TypeOK'
  <2>1. clusters' = NextClusters /\ DOMAIN health' \subseteq DOMAIN health
        /\ \A n \in DOMAIN health' : health'[n] = health[n]
    BY DEF Install
  <2>2. (DOMAIN clusters \cup DOMAIN health \cup DOMAIN held
           \subseteq (Names \ Disabled) \cup InCluster)'
    BY <1>1, <1>2, <2>1 DEF PoolInv, TypeOK, Install, collection, Enabled, Names
  <2>3. (\A n \in DOMAIN clusters : clusters[n].client \in 1 .. built)'
    BY <1>4, <2>1
  <2>4. (\A n \in DOMAIN health :
            health[n].client \in 1 .. built /\ health[n].reachable \in BOOLEAN)'
    BY <1>3, <2>1 DEF PoolInv, TypeOK
  <2>5. QED
    BY <1>5, <1>6, <2>2, <2>3, <2>4
       DEF PoolInv, TypeOK, Install, directory, collection, Idle
<1>8. (\A n \in DOMAIN held : held[n].client \in 1 .. built)'
  BY <1>3 DEF PoolInv, Install, collection
<1>9. QED
  BY <1>3, <1>6, <1>7, <1>8 DEF PoolInv

LEMMA PoolInvStep == PoolInv /\ [Next]_vars => PoolInv'
<1> SUFFICES ASSUME PoolInv, [Next]_vars PROVE PoolInv'
  OBVIOUS
<1> USE DEF PoolInv, TypeOK, directory, pool, collection
<1>1. CASE Edit
  BY <1>1, PoolAssumption DEF Edit, ScanTypeOK
<1>2. CASE BeginReload
  BY <1>2, EmptyIsMap DEF BeginReload, ScanTypeOK, Idle
<1>3. CASE ReadFile
  BY <1>3, ReadFileInv
<1>4. CASE Install
  BY <1>4, InstallInv
<1>5. CASE StartCollect
  BY <1>5 DEF StartCollect, ScanTypeOK
<1>6. CASE Stop
  BY <1>6 DEF Stop, ScanTypeOK
<1>7. ASSUME NEW n \in Names, Collector(n) PROVE PoolInv'
  <2>1. CASE Acquire(n)
    BY <2>1 DEF Acquire, ScanTypeOK
  <2>2. CASE Skip(n)
    BY <2>2 DEF Skip, ScanTypeOK
  <2>3. CASE Merge(n)
    BY <2>3 DEF Merge, ScanTypeOK
  <2>4. ASSUME NEW up \in BOOLEAN, Report(n, up) PROVE PoolInv'
    BY <2>4 DEF Report, ScanTypeOK
  <2>5. QED
    BY <1>7, <2>1, <2>2, <2>3, <2>4 DEF Collector
<1>8. CASE UNCHANGED vars
  BY <1>8 DEF vars, ScanTypeOK
<1>9. QED
  BY <1>1, <1>2, <1>3, <1>4, <1>5, <1>6, <1>7, <1>8 DEF Next, Reload

(***************************************************************************)
(* Every cluster of the pool, of a collection and of the health list has a *)
(* name that is enabled, whatever is read from the directory.              *)
(***************************************************************************)
THEOREM PoolTypeOK == SafeSpec => []TypeOK
<1>1. PoolInv => TypeOK
  BY DEF PoolInv
<1>2. QED
  BY <1>1, PoolInvInit, PoolInvStep, PTL DEF SafeSpec

-----------------------------------------------------------------------------
(***************************************************************************)
(* A collection accounts for every cluster.  CollectionComplete speaks of  *)
(* its end; before that a cluster is in the snapshot or among its errors   *)
(* once its goroutine has merged, and a cluster whose health is that of    *)
(* the client it was scraped with has the health that was just set.  What  *)
(* Reload installs meanwhile does not disturb this: it never sets health,  *)
(* and gives no new client the number of an old one.                       *)
(***************************************************************************)
Accounted ==
    /\ found \cup errs \subseteq DOMAIN phase
    /\ found \cap errs = {}
    /\ \A n \in DOMAIN phase :
        /\ phase[n] = "merged" <=> n \in found \cup errs
        /\ phase[n] = "skipped" => stopping

HealthMatches ==
    \A n \in DOMAIN phase :
        n \in DOMAIN health /\ health[n].client = held[n].client =>
            /\ phase[n] = "up" => health[n].reachable
            /\ phase[n] = "down" => ~health[n].reachable
            /\ phase[n] = "merged" => (health[n].reachable <=> n \in found)

CollectionInv == PoolInv /\ Accounted /\ HealthMatches

LEMMA CollectionInvInit == Init => CollectionInv
<1> SUFFICES ASSUME Init PROVE CollectionInv
  OBVIOUS
<1>1. DOMAIN phase = {} /\ found = {} /\ errs = {}
  BY EmptyIsMap DEF Init
<1>2. QED
  BY <1>1, PoolInvInit DEF CollectionInv, Accounted, HealthMatches

LEMMA CollectionInvStep == CollectionInv /\ [Next]_vars => CollectionInv'
<1> SUFFICES ASSUME CollectionInv, [Next]_vars PROVE CollectionInv'
  OBVIOUS
<1>1. PoolInv'
  BY PoolInvStep DEF CollectionInv
<1> USE DEF CollectionInv, Accounted, HealthMatches, directory, pool, collection
<1>2. CASE Edit
  BY <1>1, <1>2 DEF Edit
<1>3. CASE BeginReload
  BY <1>1, <1>3 DEF BeginReload
<1>4. CASE ReadFile
  BY <1>1, <1>4 DEF ReadFile
<1>5. CASE Install
  <2>1. DOMAIN health' \subseteq DOMAIN health /\ \A n \in DOMAIN health' : health'[n] = health[n]
    BY <1>5 DEF Install
  <2>2. QED
    BY <1>1, <1>5, <2>1 DEF Install
<1>6. CASE StartCollect
  <2>1. \A n \in DOMAIN phase' : phase'[n] = "waiting"
    BY <1>6 DEF StartCollect
  <2>2. QED
    BY <1>1, <1>6, <2>1 DEF StartCollect
<1>7. CASE Stop
  BY <1>1, <1>7 DEF Stop
<1>8. ASSUME NEW n \in Names, Collector(n) PROVE CollectionInv'
  <2>1. CASE Acquire(n)
    BY <1>1, <2>1 DEF Acquire
  <2>2. CASE Skip(n)
    BY <1>1, <2>2 DEF Skip
  <2>3. CASE Merge(n)
    BY <1>1, <2>3 DEF Merge
  <2>4. ASSUME NEW up \in BOOLEAN, Report(n, up) PROVE CollectionInv'
    <3>1. /\ phase' = [phase EXCEPT ![n] = IF up THEN "up" ELSE "down"]
          /\ phase[n] = "scraping" /\ n \in DOMAIN phase
          /\ UNCHANGED <<found, errs, held, stopping>>
      BY <2>4 DEF Report
    <3>2. Accounted'
      BY <3>1
    <3>3. /\ health'[n].reachable = up
          /\ \A m \in DOMAIN health' \ {n} : m \in DOMAIN health /\ health'[m] = health[m]
      BY <2>4 DEF Report
    <3>4. HealthMatches'
      BY <3>1, <3>3
    <3>5. QED
      BY <1>1, <3>2, <3>4
  <2>5. QED
    BY <1>8, <2>1, <2>2, <2>3, <2>4 DEF Collector
<1>9. CASE UNCHANGED vars
  BY <1>1, <1>9 DEF vars
<1>10. QED
  BY <1>2, <1>3, <1>4, <1>5, <1>6, <1>7, <1>8, <1>9 DEF Next, Reload

(***************************************************************************)
(* A collection that was not cancelled has every cluster it took either in *)
(* the snapshot or among its errors, and the health of each agrees with    *)
(* that, whatever the directory, the watcher and the scrapes do.           *)
(***************************************************************************)
THEOREM PoolCollectionComplete == SafeSpec => []CollectionComplete
<1>1. CollectionInv => CollectionComplete
  <2> SUFFICES ASSUME CollectionInv, Collected, ~stopping
               PROVE  /\ found \cup errs = DOMAIN held
                      /\ found \cap errs = {}
                      /\ \A n \in DOMAIN held \cap DOMAIN health :
                            health[n].client = held[n].client =>
                                (health[n].reachable <=> n \in found)
    BY DEF CollectionComplete
  <2>1. DOMAIN phase = DOMAIN held
    BY DEF CollectionInv, PoolInv, TypeOK
  <2>2. \A n \in DOMAIN phase : phase[n] = "merged"
    BY DEF CollectionInv, Accounted, Collected, Finished
  <2>3. QED
    BY <2>1, <2>2 DEF CollectionInv, Accounted, HealthMatches
<1>2. QED
  BY <1>1, CollectionInvInit, CollectionInvStep, PTL DEF SafeSpec

-----------------------------------------------------------------------------
\* Only Install writes the pool, and it keeps what has not changed.
LEMMA InstallKeepsClients ==
    ASSUME Install, NEW n \in DOMAIN clusters \cap DOMAIN clusters',
           clusters'[n].content = clusters[n].content
    PROVE  clusters'[n] = clusters[n]
<1>1. clusters' = NextClusters /\ n \in DOMAIN NextClusters
  BY DEF Install
<1>2. CASE Kept(n)
  BY <1>1, <1>2 DEF NextClusters
<1>3. CASE ~Kept(n)
  <2>1. NextClusters[n].content = Candidates[n].content
    BY <1>1, <1>3 DEF NextClusters
  <2>2. Kept(n)
    BY <1>1, <2>1 DEF Kept
  <2>3. QED
    BY <1>3, <2>2
<1>4. QED
  BY <1>2, <1>3

(***************************************************************************)
(* The client of a cluster whose kubeconfig has not changed is preserved   *)
(* by every step, however many files come and go around it.                *)
(***************************************************************************)
THEOREM PoolClientsSurvive == SafeSpec => ClientsSurvive
<1>1. [Next]_vars => [\A n \in DOMAIN clusters \cap DOMAIN clusters' :
                        clusters'[n].content = clusters[n].content =>
                            clusters'[n].client = clusters[n].client]_vars
  <2>1. CASE Install
    BY <2>1, InstallKeepsClients
  <2>2. CASE Next /\ ~Install
    <3>1. clusters' = clusters
      BY <2>2 DEF Next, Reload, Collector, Edit, BeginReload, ReadFile, StartCollect, Stop,
                  Acquire, Skip, Report, Merge, pool
    <3>2. QED
      BY <3>1
  <2>3. QED
    BY <2>1, <2>2
<1>2. QED
  BY <1>1, PTL DEF SafeSpec, ClientsSurvive
=============================================================================
