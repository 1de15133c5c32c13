--------------------------------- MODULE UI ---------------------------------
(***************************************************************************)
(* One open page of peevee (web/ui/app.js) and the server it reads from.   *)
(* The page keeps a query in its state, sends it whenever something        *)
(* changes, and shows whatever answer arrives: nothing cancels or orders   *)
(* the loads under way, so answers may overtake each other.                *)
(***************************************************************************)
EXTENDS Query

CONSTANTS
    Snapshots,      \* the fleets the page may be opened on: sequences of volumes
    Changes,        \* pairs of fleets: what a collection may find next
    PageSizes,      \* rows per page; 0 shows all
    Searches,       \* what may be typed into the search; 0 clears it
    SortColumns,    \* the columns whose header is clicked
    FetchesFail,    \* whether a fetch may end in an error
    MaxMoves,       \* bound: what the user does
    MaxCollections  \* bound: collections while the page is open

ASSUME UIAssumption ==
    /\ Snapshots \subseteq Fleets
    /\ \A change \in Changes : change[2] \in Fleets
    /\ PageSizes \subseteq Nat
    /\ Searches \subseteq Nat
    /\ SortColumns \subseteq Columns
    /\ FetchesFail \in BOOLEAN
    /\ MaxMoves \in Nat /\ MaxCollections \in Nat

VARIABLES
    volumes,        \* the fleet of the store's snapshot
    event,          \* a snapshot event is on its way to the page
    state,          \* what the user asked for
    typing,         \* the search timer runs
    loads,          \* fetches under way: the query, and the answer once there is one
    data,           \* state.data: the answer that is shown, or NoData
    pager,          \* the buttons of the pager, as last rendered
    clearable,      \* the button that clears the filters is shown
    failed,         \* the last load that ended has failed
    moves,          \* what the user will still do
    collections     \* collections so far

uivars ==
    <<volumes, event, state, typing, loads, data, pager, clearable, failed, moves, collections>>

NoData == [matched |-> -1, shown |-> 0]

\* What JavaScript computes for Infinity * 0: larger than nothing, not even itself.
NaN == -1

CeilDiv(a, b) == (a + b - 1) \div b

-----------------------------------------------------------------------------
\* What the page asks for: no filter but the search and the volumes at risk.
Asked(s, limit, offset) ==
    [clusters |-> {}, namespaces |-> {}, storageClass |-> {}, provisioner |-> {}, status |-> {},
     minUsage |-> 0, atRisk |-> s.atRisk, search |-> s.search, sort |-> s.sort, desc |-> s.desc,
     limit |-> limit, offset |-> offset]

\* queryString: what the export link asks for.
QueryString(s) == Asked(s, 0, 0)

\* pagedQueryString, and queryFromRequest on the other side.
PagedQuery(s) ==
    QueryFromRequest(IF s.pageSize > 0 THEN Asked(s, s.pageSize, s.offset) ELSE QueryString(s))

Summary(n, q) ==
    [matched |-> n, shown |-> Cardinality(q.offset + 1 .. PageEnd(n, q.offset, q.limit))]

\* The part of the answer to Query that the page's behaviour depends on: how many
\* rows match, and how many of them are sent.
Answer(q) == Summary(Len(Rows(volumes, q)), q)

\* loadVolumes: the query is that of the state at the time.
LoadNow(s, under) == loads' = Append(under, [query |-> PagedQuery(s), answer |-> NoData])

\* Mutant: the page is kept when the query changes.
ReloadInPlace(s) ==
    /\ state' = s
    /\ LoadNow(state', loads)

\* reload: page 7 of the old result has nothing to do with page 7 of the new one.
Reload(s) ==
    /\ state' = [s EXCEPT !.offset = 0]
    /\ LoadNow(state', loads)

UIInit ==
    /\ volumes \in Snapshots
    /\ event = FALSE
    /\ state \in {[search |-> 0, atRisk |-> FALSE, sort |-> "usage", desc |-> FALSE,
                   pageSize |-> n, offset |-> 0] : n \in PageSizes}
    /\ typing = FALSE
    /\ loads = <<[query |-> PagedQuery(state), answer |-> NoData]>>
    /\ data = NoData
    /\ pager = [hidden |-> TRUE, atFirst |-> TRUE, atLast |-> TRUE]
    /\ clearable = FALSE
    /\ failed = FALSE
    /\ moves \in 0 .. MaxMoves /\ collections = 0

-----------------------------------------------------------------------------
\* The server

\* A collection ends: the store has a new snapshot and wakes the stream.  A page
\* whose stream is not open yet, or is reconnecting, hears nothing of it: it
\* loads before it connects and not again when the connection opens.
Collect ==
    /\ collections < MaxCollections
    /\ \E change \in Changes : change[1] = volumes /\ volumes' = change[2]
    /\ event' \in {TRUE, event}
    /\ collections' = collections + 1
    /\ UNCHANGED <<state, typing, loads, data, pager, clearable, failed, moves>>

\* handleVolumes evaluates the query on the snapshot it finds.
Respond(i) ==
    /\ loads[i].answer = NoData
    /\ loads' = [loads EXCEPT ![i].answer = Answer(loads[i].query)]
    /\ UNCHANGED <<volumes, event, state, typing, data, pager, clearable, failed, moves, collections>>

-----------------------------------------------------------------------------
\* The page

\* The snapshot event of the stream.
Snapshot ==
    /\ event
    /\ event' = FALSE
    /\ LoadNow(state, loads)
    /\ UNCHANGED <<volumes, state, typing, data, pager, clearable, failed, moves, collections>>

\* Mutant: the first offset behind the last row is taken for a page.
PastEndBeyond(answer) ==
    state.pageSize > 0 /\ state.offset > 0 /\ state.offset > answer.matched

\* renderPager: the offset lies past the end of what was found.
PastEnd(answer) ==
    state.pageSize > 0 /\ state.offset > 0 /\ state.offset >= answer.matched

NotNegative(x) == IF x < 0 THEN 0 ELSE x

\* Mutant: the division rounds down, and the last page is the one behind it.
LastOffsetFloor(matched, size) == (matched \div size) * size

LastOffset(matched, size) == (CeilDiv(matched, size) - 1) * size

\* renderPager in that case: show nothing of the pager, load the last page instead.
StepBack(matched, rest) ==
    /\ state' = [state EXCEPT !.offset = NotNegative(LastOffset(matched, state.pageSize))]
    /\ LoadNow(state', rest)
    /\ UNCHANGED pager

Buttons(matched) ==
    LET pages == IF state.pageSize > 0 THEN CeilDiv(matched, state.pageSize) ELSE 1
        page  == IF state.pageSize > 0 THEN state.offset \div state.pageSize + 1 ELSE 1
    IN  [hidden |-> pages <= 1, atFirst |-> page <= 1, atLast |-> page >= pages]

HasActiveFilters == state.atRisk \/ state.search # 0

\* loadVolumes after the await: whichever load answers is what the page shows.
Receive(i) ==
    LET answer == loads[i].answer
        rest   == RemoveAt(loads, i)
    IN  /\ answer # NoData
        /\ data' = answer
        /\ clearable' = HasActiveFilters
        /\ failed' = FALSE
        /\ \/ /\ PastEnd(answer)
              /\ StepBack(answer.matched, rest)
           \/ /\ ~PastEnd(answer)
              /\ pager' = Buttons(answer.matched)
              /\ loads' = rest
              /\ UNCHANGED state
        /\ UNCHANGED <<volumes, event, typing, moves, collections>>

\* loadVolumes: the catch.  The table keeps what it showed.
Fail(i) ==
    /\ FetchesFail
    /\ loads' = RemoveAt(loads, i)
    /\ failed' = TRUE
    /\ UNCHANGED <<volumes, event, state, typing, data, pager, clearable, moves, collections>>

-----------------------------------------------------------------------------
\* The user

Move ==
    /\ moves > 0
    /\ moves' = moves - 1
    /\ UNCHANGED <<volumes, event, data, pager, clearable, failed, collections>>

\* Every key stroke changes the state and restarts the timer.
Type ==
    /\ Move
    /\ \E word \in Searches \ {state.search} : state' = [state EXCEPT !.search = word]
    /\ typing' = TRUE
    /\ UNCHANGED loads

\* The timer of the search box, 180 ms after the last key stroke.
Typed ==
    /\ typing
    /\ typing' = FALSE
    /\ Reload(state)
    /\ UNCHANGED <<volumes, event, data, pager, clearable, failed, moves, collections>>

ToggleAtRisk ==
    /\ Move
    /\ Reload([state EXCEPT !.atRisk = ~@])
    /\ UNCHANGED typing

\* A timer that runs when the filters are cleared still fires.
ClearFilters ==
    /\ Move
    /\ clearable
    /\ Reload([state EXCEPT !.atRisk = FALSE, !.search = 0])
    /\ UNCHANGED typing

SetPageSize ==
    /\ Move
    /\ \E n \in PageSizes \ {state.pageSize} : Reload([state EXCEPT !.pageSize = n])
    /\ UNCHANGED typing

SortBy ==
    /\ Move
    /\ \E column \in SortColumns :
          Reload(IF state.sort = column THEN [state EXCEPT !.desc = ~@]
                 ELSE [state EXCEPT !.sort = column, !.desc = FALSE])
    /\ UNCHANGED typing

\* goToOffset, from a button that the last rendering left on.
GoToOffset(offset) ==
    /\ Move
    /\ ~pager.hidden
    /\ state' = [state EXCEPT !.offset = offset]
    /\ LoadNow(state', loads)
    /\ UNCHANGED typing

Beside(d) == IF state.offset = NaN THEN NaN ELSE NotNegative(state.offset + d)

PageFirst == ~pager.atFirst /\ GoToOffset(0)

PagePrev == ~pager.atFirst /\ GoToOffset(Beside(-state.pageSize))

PageNext == ~pager.atLast /\ GoToOffset(Beside(state.pageSize))

\* Until the pager is rendered for a page size of 0 its buttons still work.
PageLast ==
    LET matched == IF data = NoData THEN 0 ELSE data.matched
    IN  /\ ~pager.atLast
        /\ GoToOffset(IF state.pageSize = 0 THEN NaN
                      ELSE NotNegative(LastOffset(matched, state.pageSize)))

-----------------------------------------------------------------------------
User ==
    \/ Type \/ ToggleAtRisk \/ ClearFilters \/ SetPageSize \/ SortBy
    \/ PageFirst \/ PagePrev \/ PageNext \/ PageLast

UINext ==
    \/ Collect \/ Snapshot \/ Typed \/ User
    \/ \E i \in DOMAIN loads : Respond(i) \/ Receive(i) \/ Fail(i)

\* The server and the browser's event loop keep running; which of the steps at
\* hand they take is left open, and so is whether a fetch ends in an error.
Progress == Snapshot \/ Typed \/ \E i \in DOMAIN loads : Receive(i) \/ Respond(i)

UIFairness == WF_uivars(Progress)

UISafeSpec == UIInit /\ [][UINext]_uivars

UISpec == UISafeSpec /\ UIFairness

-----------------------------------------------------------------------------
\* Nothing is under way: what the page shows, it shows until something happens.
AtRest == loads = <<>> /\ ~event /\ ~typing

\* Types; a page begins at a multiple of the page size, so that pages tile the list.
UITypeOK ==
    /\ moves \in 0 .. MaxMoves /\ collections \in 0 .. MaxCollections
    /\ event \in BOOLEAN /\ typing \in BOOLEAN /\ clearable \in BOOLEAN /\ failed \in BOOLEAN
    /\ state.pageSize \in PageSizes
    /\ state.search \in Searches \cup {0}
    /\ state.sort \in Columns
    /\ state.offset = NaN => state.pageSize = 0
    /\ state.pageSize > 0 => state.offset % state.pageSize = 0
    /\ \A i \in DOMAIN loads :
          LET q == loads[i].query IN q.limit > 0 => q.offset % q.limit = 0
    /\ data # NoData => data.matched \in Nat /\ data.shown \in 0 .. data.matched

(***************************************************************************)
(* A page that is at rest and did not fail to load is a page that exists   *)
(* in the list that was found (renderPager steps back from others),        *)
(* whatever order answers came in and whatever the user clicked meanwhile. *)
(***************************************************************************)
PageExists ==
    AtRest /\ ~failed /\ state.pageSize > 0 =>
        state.offset = 0 \/ state.offset < data.matched

(***************************************************************************)
(* Stepping back from a page that does not exist comes to an end: "the     *)
(* offset strictly decreases, so this cannot loop".                        *)
(***************************************************************************)
LoadsSettle == <>[](loads = <<>>)

(***************************************************************************)
(* The table at rest is not blank while volumes match.  It is: an answer   *)
(* for a page past the end that arrives after the page has stepped back    *)
(* empties the table, and nothing loads it again.                          *)
(***************************************************************************)
NeverBlank ==
    AtRest /\ ~failed /\ data.matched > 0 => data.shown > 0
=============================================================================
