------------------------------ MODULE LiveView ------------------------------
(***************************************************************************)
(* How a page of nb-ui stays current: useLiveQuery (useApi.js under        *)
(* LiveUpdatesProvider.jsx) reads the page's resource through the ETag     *)
(* cache of httpClient.js, and reads it again whenever the stream of       *)
(* changes (live-events.ts, GET /v1/events) names the resource or opens.   *)
(*                                                                         *)
(* A body stands for its ETag, an md5 of it.  The sets cache, shown, tag   *)
(* and body hold one body or none.  Only the frames that name a resource   *)
(* of the page are counted: onChanged ignores the others.                  *)
(***************************************************************************)
EXTENDS Naturals, FiniteSets

CONSTANTS
    Contents,       \* what the server may have to answer
    MaxFetches,     \* bound: requests of the page under way
    MaxFaults       \* bound: broken streams and failed requests

VARIABLES
    content,        \* what the server answers now
    conn,           \* the stream: "down", "subscribed" at the server, "open" at the browser
    frames,         \* announcements on their way
    fetches,        \* requests under way: [gen, tag, refreshing, status, body]
    generation,     \* the run of useApi's effect whose answer counts
    cache,          \* the entry of the URL
    shown,          \* data
    problem,        \* "none", "error" without data, "refresh" beside the data
    overtaken,      \* a 304 was answered with a body other than the one it was about
    faults

cacheVars == <<fetches, generation, cache>>
viewVars  == <<cacheVars, shown, problem, overtaken>>
vars      == <<content, conn, frames, viewVars, faults>>

Fetch(gen, tag) ==
    [gen |-> gen, tag |-> tag, refreshing |-> shown # {}, status |-> 0, body |-> {}]

\* The effect of useApi runs again; the request under way no longer counts.
Reload(tag) ==
    /\ Cardinality(fetches) < MaxFetches
    /\ generation' = generation + 1
    /\ fetches' = fetches \cup {Fetch(generation + 1, tag)}
    /\ problem' = "none"
    /\ UNCHANGED <<shown, overtaken>>

\* successResponse: 304 when the tag is that of the body it would send
Answer(f) ==
    /\ f \in fetches /\ f.status = 0
    /\ fetches' = (fetches \ {f}) \cup
         {IF f.tag = {content} THEN [f EXCEPT !.status = 304]
                               ELSE [f EXCEPT !.status = 200, !.body = {content}]}
    /\ UNCHANGED <<conn, frames, generation, cache, shown, problem, overtaken, faults>>

\* A 304 stands for what the cache holds by now; if that is nothing the read is repeated.
Body(f) == IF f.status = 304 THEN cache ELSE f.body

\* Mutant of Current: the answer of a cancelled request shown like any other
AnyAnswer(f) == f.gen <= generation
Current(f)   == f.gen = generation

\* request() after its fetch: a superseded answer still fills the cache.
Receive(f) ==
    /\ f \in fetches /\ f.status # 0
    /\ IF Body(f) = {}
         THEN /\ fetches' = (fetches \ {f}) \cup {[f EXCEPT !.tag = {}, !.status = 0]}
              /\ UNCHANGED <<cache, shown, problem, overtaken>>
         ELSE /\ fetches' = fetches \ {f}
              /\ cache' = Body(f)
              /\ IF Current(f)
                   THEN /\ shown' = Body(f)
                        /\ problem' = "none"
                        /\ overtaken' = (f.status = 304 /\ cache # f.tag)
                   ELSE UNCHANGED <<shown, problem, overtaken>>
    /\ UNCHANGED <<conn, frames, generation, faults>>

\* Mutant of FailFetch: data that are there taken for data that never came
FailFetchAtFirst(f) ==
    /\ f \in fetches /\ faults < MaxFaults
    /\ faults' = faults + 1
    /\ fetches' = fetches \ {f}
    /\ problem' = IF Current(f) THEN "error" ELSE problem
    /\ UNCHANGED <<conn, frames, generation, cache, shown, overtaken>>

\* A request that fails leaves the data and is not repeated.
FailFetch(f) ==
    /\ f \in fetches /\ faults < MaxFaults
    /\ faults' = faults + 1
    /\ fetches' = fetches \ {f}
    /\ problem' = IF ~Current(f) THEN problem ELSE IF f.refreshing THEN "refresh" ELSE "error"
    /\ UNCHANGED <<conn, frames, generation, cache, shown, overtaken>>

-----------------------------------------------------------------------------
(* The stream                                                               *)

\* streamLiveEvents reaches the server, which subscribes the response.
Connect ==
    /\ conn = "down"
    /\ conn' = "subscribed"
    /\ UNCHANGED <<frames, viewVars, faults>>

\* Mutant of Open: reconciliation left to the announcements
OpenSilently ==
    /\ conn = "subscribed"
    /\ conn' = "open"
    /\ UNCHANGED <<frames, viewVars, faults>>

\* onOpen: the global generation moves, so every query reads again.
Open ==
    /\ conn = "subscribed"
    /\ conn' = "open"
    /\ Reload(cache)
    /\ UNCHANGED <<frames, cache, faults>>

\* onChanged
Notice ==
    /\ conn = "open" /\ frames > 0
    /\ frames' = frames - 1
    /\ Reload(cache)
    /\ UNCHANGED <<conn, cache, faults>>

\* The stream ends, at either side; what it had under way is lost.
Drop ==
    /\ conn # "down" /\ faults < MaxFaults
    /\ faults' = faults + 1
    /\ conn' = "down" /\ frames' = 0
    /\ UNCHANGED <<viewVars>>

\* publishLiveChange: there is no buffer, a page that is not connected hears nothing.
Announce(named) == frames' = IF named /\ conn # "down" THEN frames + 1 ELSE frames

\* The content changes and is announced.
Change ==
    /\ \E new \in Contents \ {content} : content' = new
    /\ Announce(TRUE)
    /\ UNCHANGED <<conn, viewVars, faults>>

\* The page's own write succeeds: request() empties the cache, the page reads again.
WriteDone ==
    /\ cache' = {}
    /\ Reload({})
    /\ UNCHANGED <<conn, frames, faults>>

-----------------------------------------------------------------------------

\* A page is mounted: the first read, nothing shown.
Init ==
    /\ content \in Contents
    /\ conn = "down" /\ frames = 0
    /\ generation = 1
    /\ fetches = {[gen |-> 1, tag |-> {}, refreshing |-> FALSE, status |-> 0, body |-> {}]}
    /\ cache = {} /\ shown = {} /\ problem = "none" /\ overtaken = FALSE /\ faults = 0

Transfer == \E f \in fetches : Answer(f) \/ Receive(f) \/ FailFetch(f)
Stream   == Connect \/ Open \/ Notice \/ Drop

Next == Change \/ (UNCHANGED content /\ (Transfer \/ Stream \/ WriteDone))
Spec == Init /\ [][Next]_vars

\* When the stream is open and nothing is under way, the page shows what the server would
\* answer, unless it says that the last read failed, or a 304 came back after another
\* answer had replaced the cache entry it was about (LiveUpdatesProvider.jsx:53-56,
\* useApi.js:22-66, httpClient.js:122-152).
Quiet == conn = "open" /\ frames = 0 /\ fetches = {}
ShowsTheTruth == Quiet /\ problem = "none" /\ ~overtaken => shown = {content}
=============================================================================
