------------------------------- MODULE Metrics -------------------------------
(***************************************************************************)
(* MetricsRegistry (src/src/metrics.cc) under the threads of RunEngine      *)
(* (src/src/run_command.cc) that use it: the run thread, which admits       *)
(* sessions and takes the final snapshot; XrdCl's threads, which report     *)
(* finished sessions; the timer, which takes the periodic snapshots; the    *)
(* site thread, which resolves data servers to CMS sites.                   *)
(*                                                                          *)
(* The counters are relaxed atomics: a session's updates of them, and a     *)
(* snapshot's loads, happen in any order.  endpoint_mu_ is the only         *)
(* ordering: what precedes an unlock stays before it, what follows a lock   *)
(* stays after it, and nothing else is promised.  So a session's updates    *)
(* may still happen while it holds the mutex, and its decrement of `live`   *)
(* may already happen then.                                                 *)
(***************************************************************************)
EXTENDS Integers, FiniteSets, Sums

CONSTANTS
    Sessions,      \* the sessions the run starts; bounds the run
    Hosts,         \* the data servers XrdCl may report
    Unknown,       \* kUnknownDataServer: the session reported none
    Volumes,       \* the bytes a session may have read
    Outcomes,      \* how sessions may end, TRUE for ok
    SitenameQuery, \* cfg.sitename_query
    Names,         \* the sitenames a query may return
    NoSite,        \* the empty sitename
    Mapped,        \* the hosts --site-map names, with MapSite
    MapSite,
    MaxSnapshots   \* bounds the timer

Readers == {"timer", "main"}
Fillers == {"sites", "main"}
Nobody == "nobody"   \* endpoint_mu_ is free

ASSUME MetricsOptions ==
    /\ IsFiniteSet(Sessions) /\ IsFiniteSet(Hosts)
    /\ Sessions \cap (Readers \cup {Nobody}) = {}
    /\ Unknown \notin Hosts
    /\ Volumes \subseteq Nat
    /\ Outcomes \subseteq BOOLEAN
    /\ SitenameQuery \in BOOLEAN
    /\ NoSite \notin Names \cup {MapSite}
    /\ Mapped \subseteq Hosts
    /\ MaxSnapshots \in Nat

\* The site thread is started only if it has something to ask.
HasSiteThread == SitenameQuery \/ Mapped # {}

Servers == Hosts \cup {Unknown}
\* samples: how many values the latency histograms hold.
Counters == {"bytes", "ok", "fail", "samples"}

Result == [ok : Outcomes, bytes : Volumes, server : Servers]
Endpoint == [known : BOOLEAN, site : Names \cup {MapSite, NoSite},
             bytes : Nat, ok : Nat, fail : Nat]
Unseen == [known |-> FALSE, site |-> NoSite, bytes |-> 0, ok |-> 0, fail |-> 0]
Zero == [c \in Counters |-> 0]

VARIABLES
    stage,       \* where a session's callback is
    result,      \* what the session reports
    todo,        \* the counters its callback has still to add to
    link,        \* the link's counters
    endpoints,   \* by_data_server_
    owner,       \* endpoint_mu_: the callback that holds it, or none
    live, gauge, \* the engine's live counter; inflight_reads_
    seen,        \* a thread's value of live between its load and its store
    toRead,      \* what a snapshot in progress has still to read
    snap,        \* what it has read
    published,   \* the snapshot last handed to the sinks
    taken,       \* how many the timer has handed over
    cache,       \* SitenameResolver's cache_
    work, found, \* the servers a fill_cms_sites has still to look up, and
                 \* the answer it is about to record
    mpc, tpc, spc,  \* the run thread, the timer, the site thread
    drained      \* the run thread saw live = 0

sessionVars == <<stage, result, todo>>
registryVars == <<link, endpoints, owner>>
gaugeVars == <<live, gauge, seen>>
snapVars == <<toRead, snap, published, taken>>
siteVars == <<cache, work, found>>
threadVars == <<mpc, tpc, spc, drained>>
vars == <<sessionVars, registryVars, gaugeVars, snapVars, siteVars, threadVars>>

NotLoaded == -1

\* new: not started; live: started; observing: in Observe...; locked: holds
\* endpoint_mu_; unlocked: has released it.  left: has decremented live (in
\* the last two only).
Stages == [at : {"new", "live", "observing", "locked", "unlocked"},
           left : BOOLEAN, gauged : BOOLEAN]
Fresh == [at |-> "new", left |-> FALSE, gauged |-> FALSE]
Snapshots == [counters : [Counters -> Nat], gauge : Nat,
              endpoints : [Servers -> Endpoint]]
Empty == [counters |-> Zero, gauge |-> 0, endpoints |-> [d \in Servers |-> Unseen]]
Parts == Counters \cup {"gauge", "endpoints"}

\* The registry and the snapshots keep their types: live, unsigned in the
\* code, never goes below zero.
TypeOK ==
    /\ stage \in [Sessions -> Stages]
    /\ result \in [Sessions -> Result]
    /\ todo \in [Sessions -> SUBSET Counters]
    /\ link \in [Counters -> Nat]
    /\ endpoints \in [Servers -> Endpoint]
    /\ owner \in Sessions \cup {Nobody}
    /\ live \in 0 .. Cardinality(Sessions) /\ gauge \in 0 .. Cardinality(Sessions)
    /\ seen \in [Sessions \cup Readers -> Nat \cup {NotLoaded}]
    /\ toRead \in [Readers -> SUBSET Parts]
    /\ snap \in [Readers -> Snapshots]
    /\ published \in Snapshots /\ taken \in 0 .. MaxSnapshots
    /\ DOMAIN cache \subseteq Hosts
    /\ \A d \in DOMAIN cache : cache[d] \in Names
    /\ work \in [Fillers -> SUBSET Hosts]
    /\ found \in [Fillers -> [server : Servers, site : Names \cup {MapSite, NoSite}]]
    /\ mpc \in {"admit", "gauge", "drain", "joinTimer", "joinSites", "finalGauge",
                "fill", "filling", "snapshot", "done"}
    /\ tpc \in {"sleep", "gauge", "snapshot", "stopped"}
    /\ spc \in {"sleep", "filling", "stopped"}
    /\ drained \in BOOLEAN

NothingFound == [server |-> Unknown, site |-> NoSite]

Init ==
    /\ stage = [x \in Sessions |-> Fresh]
    /\ result \in [Sessions -> Result]
    /\ todo = [x \in Sessions |-> {}]
    /\ link = Zero
    /\ endpoints = [d \in Servers |-> Unseen]
    /\ owner = Nobody
    /\ live = 0 /\ gauge = 0
    /\ seen = [t \in Sessions \cup Readers |-> NotLoaded]
    /\ toRead = [r \in Readers |-> {}]
    /\ snap = [r \in Readers |-> Empty]
    /\ published = Empty /\ taken = 0
    /\ cache = <<>>
    /\ work = [f \in Fillers |-> {}]
    /\ found = [f \in Fillers |-> NothingFound]
    /\ mpc = "admit" /\ tpc = "sleep" 
    /\ spc = IF HasSiteThread THEN "sleep" ELSE "stopped"
    /\ drained = FALSE

-----------------------------------------------------------------------------
(* A session's callback: session_done. *)

\* What Observe... adds to one counter.
Increment(r, c) == IF c = "bytes" THEN r.bytes ELSE 1

\* The counters ObserveSessionOk and ObserveSessionFail touch.
CountersOf(r) ==
    IF r.ok THEN {"bytes", "ok", "samples"} ELSE {"fail"}

SessionEnds(x) ==
    /\ stage[x].at = "live"
    /\ stage' = [stage EXCEPT ![x].at = "observing"]
    /\ todo' = [todo EXCEPT ![x] = CountersOf(result[x])]
    /\ UNCHANGED <<result, registryVars, gaugeVars, snapVars, siteVars, threadVars>>

Count(x) == \E c \in todo[x] :
    /\ link' = [link EXCEPT ![c] = @ + Increment(result[x], c)]
    /\ todo' = [todo EXCEPT ![x] = @ \ {c}]
    /\ UNCHANGED <<stage, result, endpoints, owner, gaugeVars, snapVars, siteVars,
                   threadVars>>

AttributeLocked(e, r) ==
    [e EXCEPT !.known = TRUE,
              !.bytes = IF r.ok THEN @ + r.bytes ELSE @,
              !.ok = IF r.ok THEN @ + 1 ELSE @,
              !.fail = IF r.ok THEN @ ELSE @ + 1]

Attribute(x) ==
    /\ stage[x].at = "observing" /\ owner = Nobody
    /\ owner' = x
    /\ endpoints' = [endpoints EXCEPT ![result[x].server] =
                        AttributeLocked(@, result[x])]
    /\ stage' = [stage EXCEPT ![x].at = "locked"]
    /\ UNCHANGED <<result, todo, link, gaugeVars, snapVars, siteVars, threadVars>>

Unlock(x) ==
    /\ owner = x /\ todo[x] = {}
    /\ owner' = Nobody
    /\ stage' = [stage EXCEPT ![x].at = "unlocked"]
    /\ UNCHANGED <<result, todo, link, endpoints, gaugeVars, snapVars, siteVars,
                   threadVars>>

\* live.fetch_sub.
Leave(x) ==
    /\ stage[x].at \in {"locked", "unlocked"} /\ ~stage[x].left
    /\ live' = live - 1
    /\ stage' = [stage EXCEPT ![x].left = TRUE]
    /\ UNCHANGED <<result, todo, registryVars, gauge, seen, snapVars, siteVars,
                   threadVars>>

\* The argument of SetInflight.
Load(t) == seen' = [seen EXCEPT ![t] = live]
\* SetInflight.
SetInflight(t) ==
    /\ seen[t] # NotLoaded
    /\ gauge' = seen[t]
    /\ seen' = [seen EXCEPT ![t] = NotLoaded]

CallbackLoads(x) ==
    /\ stage[x].left /\ ~stage[x].gauged /\ seen[x] = NotLoaded
    /\ Load(x)
    /\ UNCHANGED <<sessionVars, registryVars, live, gauge, snapVars, siteVars,
                   threadVars>>

CallbackGauges(x) ==
    /\ SetInflight(x)
    /\ stage' = [stage EXCEPT ![x].gauged = TRUE]
    /\ UNCHANGED <<result, todo, registryVars, live, snapVars, siteVars, threadVars>>

-----------------------------------------------------------------------------
(* Snapshots. *)

\* Snapshot(): one load of it, or its copy of by_data_server_ under the mutex.
\* Nothing is read after the mutex is released: the copy comes last, or a
\* counter's load is delayed into it.
Read(r) == \E c \in toRead[r] :
    /\ c = "endpoints" => owner = Nobody
    /\ snap' = [snap EXCEPT ![r] =
                    CASE c \in Counters -> [@ EXCEPT !.counters[c] = link[c]]
                      [] c = "gauge"     -> [@ EXCEPT !.gauge = gauge]
                      [] c = "endpoints" -> [@ EXCEPT !.endpoints = endpoints]]
    /\ toRead' = [toRead EXCEPT ![r] = @ \ {c}]
    /\ UNCHANGED <<sessionVars, registryVars, gaugeVars, published, taken, siteVars,
                   threadVars>>

\* The timer's take_snapshot.
TimerLoads ==
    /\ tpc = "sleep" /\ taken < MaxSnapshots
    /\ Load("timer")
    /\ tpc' = "gauge"
    /\ UNCHANGED <<sessionVars, registryVars, live, gauge, snapVars, siteVars, mpc, spc,
                   drained>>

TimerGauges ==
    /\ tpc = "gauge"
    /\ SetInflight("timer")
    /\ toRead' = [toRead EXCEPT !["timer"] = Parts]
    /\ tpc' = "snapshot"
    /\ UNCHANGED <<sessionVars, registryVars, live, snap, published, taken, siteVars,
                   mpc, spc, drained>>

TimerPublishes ==
    /\ tpc = "snapshot" /\ toRead["timer"] = {}
    /\ published' = snap["timer"] /\ taken' = taken + 1
    /\ tpc' = "sleep"
    /\ UNCHANGED <<sessionVars, registryVars, gaugeVars, toRead, snap, siteVars, mpc,
                   spc, drained>>

-----------------------------------------------------------------------------
(* fill_cms_sites, in the site thread and, once that has ended, in the run    *)
(* thread.                                                                    *)

DataServersMissingSite ==
    {d \in Hosts : endpoints[d].known /\ endpoints[d].site = NoSite}

StartPass(f) ==
    /\ owner = Nobody
    /\ work' = [work EXCEPT ![f] = DataServersMissingSite]
    /\ UNCHANGED <<cache, found>>

\* cache_[host] = sitename.
Cached(d, answer) ==
    [h \in DOMAIN cache \cup {d} |-> IF h = d THEN answer ELSE cache[h]]

\* Mutant: the first answer is remembered, a failure too.
ResolveCachesFailure(d, answer) ==
    IF d \in DOMAIN cache THEN [site |-> cache[d], cache |-> cache]
    ELSE [site |-> answer, cache |-> Cached(d, answer)]

\* A cached answer, or the query's; failures are not cached.
Resolve(d, answer) ==
    IF d \in DOMAIN cache THEN [site |-> cache[d], cache |-> cache]
    ELSE [site |-> answer,
          cache |-> IF answer = NoSite THEN cache ELSE Cached(d, answer)]

\* One round of the loop up to SetCmsSite.  The query takes time: it is a step
\* of its own.
Query(f, answer) == \E d \in work[f] :
    LET r == IF SitenameQuery THEN Resolve(d, answer)
             ELSE [site |-> NoSite, cache |-> cache]
        site == IF r.site = NoSite /\ d \in Mapped THEN MapSite ELSE r.site
    IN  /\ found[f] = NothingFound
        /\ cache' = r.cache
        /\ work' = [work EXCEPT ![f] = @ \ {d}]
        /\ found' = [found EXCEPT ![f] =
                        IF site = NoSite THEN NothingFound
                        ELSE [server |-> d, site |-> site]]
        /\ UNCHANGED <<sessionVars, registryVars, gaugeVars, snapVars, threadVars>>

SetCmsSite(f) ==
    /\ found[f] # NothingFound /\ owner = Nobody
    /\ endpoints' = [endpoints EXCEPT ![found[f].server].site = found[f].site]
    /\ found' = [found EXCEPT ![f] = NothingFound]
    /\ UNCHANGED <<sessionVars, link, owner, gaugeVars, snapVars, cache, work,
                   threadVars>>

PassDone(f) == work[f] = {} /\ found[f] = NothingFound

SitesPass ==
    /\ spc = "sleep" /\ StartPass("sites")
    /\ spc' = "filling"
    /\ UNCHANGED <<sessionVars, registryVars, gaugeVars, snapVars, mpc, tpc, drained>>

SitesSleep ==
    /\ spc = "filling" /\ PassDone("sites")
    /\ spc' = "sleep"
    /\ UNCHANGED <<sessionVars, registryVars, gaugeVars, snapVars, siteVars, mpc, tpc,
                   drained>>

-----------------------------------------------------------------------------
(* The run thread. *)

Admit == \E x \in Sessions :
    /\ mpc = "admit" /\ stage[x].at = "new"
    /\ live' = live + 1
    /\ stage' = [stage EXCEPT ![x].at = "live"]
    /\ mpc' = "gauge"
    /\ UNCHANGED <<result, todo, registryVars, gauge, seen, snapVars, siteVars, tpc,
                   spc, drained>>

MainLoads ==
    /\ mpc \in {"gauge", "finalGauge"} /\ seen["main"] = NotLoaded
    /\ Load("main")
    /\ UNCHANGED <<sessionVars, registryVars, live, gauge, snapVars, siteVars, threadVars>>

MainGauges ==
    /\ SetInflight("main")
    /\ mpc' = IF mpc = "gauge" THEN "admit" ELSE "fill"
    /\ UNCHANGED <<sessionVars, registryVars, live, snapVars, siteVars, tpc, spc, drained>>

\* The deadline, and the wait for live = 0, which may time out.
Stop ==
    /\ mpc = "admit"
    /\ mpc' = "drain"
    /\ UNCHANGED <<sessionVars, registryVars, gaugeVars, snapVars, siteVars, tpc, spc,
                   drained>>

Drain ==
    /\ mpc = "drain"
    /\ mpc' = "joinTimer"
    /\ drained' = (live = 0)
    /\ UNCHANGED <<sessionVars, registryVars, gaugeVars, snapVars, siteVars, tpc, spc>>

JoinTimer ==
    /\ mpc = "joinTimer" /\ tpc = "sleep"
    /\ tpc' = "stopped" /\ mpc' = "joinSites"
    /\ UNCHANGED <<sessionVars, registryVars, gaugeVars, snapVars, siteVars, spc, drained>>

\* Mutant: the run thread does not wait for the site thread.
JoinSitesDetaches ==
    /\ mpc = "joinSites"
    /\ mpc' = "finalGauge"
    /\ UNCHANGED <<sessionVars, registryVars, gaugeVars, snapVars, siteVars, tpc, spc,
                   drained>>

JoinSites ==
    /\ mpc = "joinSites" /\ spc # "filling"
    /\ spc' = "stopped" /\ mpc' = "finalGauge"
    /\ UNCHANGED <<sessionVars, registryVars, gaugeVars, snapVars, siteVars, tpc, drained>>

\* Mutant: the final snapshot comes without the fill, and its lock, before it.
FinalPassSkipped ==
    /\ mpc = "fill"
    /\ toRead' = [toRead EXCEPT !["main"] = Parts]
    /\ mpc' = "snapshot"
    /\ UNCHANGED <<sessionVars, registryVars, gaugeVars, snap, published, taken, siteVars,
                   tpc, spc, drained>>

FinalPass ==
    /\ mpc = "fill" /\ StartPass("main")
    /\ mpc' = "filling"
    /\ UNCHANGED <<sessionVars, registryVars, gaugeVars, snapVars, tpc, spc, drained>>

FinalSnapshot ==
    /\ mpc = "filling" /\ PassDone("main")
    /\ toRead' = [toRead EXCEPT !["main"] = Parts]
    /\ mpc' = "snapshot"
    /\ UNCHANGED <<sessionVars, registryVars, gaugeVars, snap, published, taken, siteVars,
                   tpc, spc, drained>>

FinalPublish ==
    /\ mpc = "snapshot" /\ toRead["main"] = {}
    /\ published' = snap["main"]
    /\ mpc' = "done"
    /\ UNCHANGED <<sessionVars, registryVars, gaugeVars, toRead, snap, taken, siteVars,
                   tpc, spc, drained>>

-----------------------------------------------------------------------------
Callback(x) ==
    \/ SessionEnds(x) \/ Count(x) \/ Attribute(x) \/ Unlock(x) \/ Leave(x)
    \/ CallbackLoads(x) \/ CallbackGauges(x)
Timer == TimerLoads \/ TimerGauges \/ TimerPublishes \/ Read("timer")
Answers == IF SitenameQuery THEN Names \cup {NoSite} ELSE {NoSite}
Fill(f) == (\E a \in Answers : Query(f, a)) \/ SetCmsSite(f)
SiteThread == SitesPass \/ SitesSleep \/ Fill("sites")
Main ==
    \/ Admit \/ MainLoads \/ MainGauges \/ Stop \/ Drain \/ JoinTimer \/ JoinSites
    \/ FinalPass \/ FinalSnapshot \/ FinalPublish \/ Read("main") \/ Fill("main")

Next == (\E x \in Sessions : Callback(x)) \/ Timer \/ SiteThread \/ Main

Spec == Init /\ [][Next]_vars

\* Threads take their next step; a callback, once called, runs to its end.
\* Sessions need not end and the run need not stop, but a server that is asked
\* again and again answers in the end.  Nothing is asked of the threads once the
\* run has stopped.
Running == mpc \in {"admit", "gauge"}
FairSpec ==
    /\ Spec
    /\ WF_vars(Running /\ SiteThread)
    /\ \A x \in Sessions : WF_vars(Running /\ stage[x].at # "live" /\ Callback(x))
    /\ SF_vars(Running /\ \E a \in Names : Query("sites", a))

-----------------------------------------------------------------------------
(* Properties. *)

Finished == {x \in Sessions : stage[x].at # "new"}

\* What a snapshot shows for the link, and the sum of what it shows per server.
LinkTotals(s) == [bytes |-> s.counters["bytes"], ok |-> s.counters["ok"],
                  fail |-> s.counters["fail"]]
ServerTotals(s) ==
    LET of == s.endpoints
    IN  [bytes |-> Total([d \in Servers |-> of[d].bytes], Servers),
         ok |-> Total([d \in Servers |-> of[d].ok], Servers),
         fail |-> Total([d \in Servers |-> of[d].fail], Servers)]

\* After a complete drain the final snapshot is exact although every counter
\* is relaxed: it counts each session once, per link and per server alike, and
\* its histograms hold one sample per session that succeeded (metrics.cc Snapshot,
\* run_command.cc's drain and final snapshot).
FinalSums ==
    mpc = "done" /\ drained =>
        LET passed == {x \in Finished : result[x].ok}
        IN  /\ LinkTotals(published) =
                 [bytes |-> Total([x \in passed |-> result[x].bytes], passed),
                  ok |-> Cardinality(passed), fail |-> Cardinality(Finished \ passed)]
            /\ ServerTotals(published) = LinkTotals(published)
            /\ published.counters["samples"] = published.counters["ok"]

\* Once a server is attributed to a site it stays there, though SetCmsSite
\* overwrites and both the site thread and the run thread call it with answers
\* that may differ: bytes never move from one site's series to another's.
SiteKept ==
    [][\A d \in Hosts : endpoints[d].site # NoSite =>
           endpoints'[d].site = endpoints[d].site]_vars

\* A query that fails is tried again on the next pass
\* (sitename_resolver.cc's "must be retried next pass"): while the run lasts a
\* server that sessions used gets the name it answers with.
Resolved ==
    \A d \in Hosts \ Mapped :
        endpoints[d].known ~> (endpoints[d].site \in Names \/ mpc # "admit")

\* metrics.hh: the site series are such that mapped + unmapped sum to the link
\* totals.  A snapshot taken while sessions finish does not.
SiteSeriesSumToLink == ServerTotals(published) = LinkTotals(published)

\* prom_encode.cc: xrdhover_inflight_reads is "Currently in-flight file
\* sessions".  A callback that was overtaken between its load of live and its
\* store leaves an old value in the final snapshot.
FinalGauge == mpc = "done" /\ drained => published.gauge = 0

\* prom_encode.cc declares xrdhover_site_bytes_total a counter.  The unmapped
\* series falls when a server's site becomes known.
UnmappedBytes(s) ==
    Total([d \in Servers |-> s.endpoints[d].bytes],
          {d \in Servers : s.endpoints[d].site = NoSite})
UnmappedIsCounter == [][UnmappedBytes(published') >= UnmappedBytes(published)]_vars

\* prom_encode.cc: xrdhover_bytes_read_total is "Total bytes read".  The bytes
\* a failed session read before it failed are not in it.
AllBytesCounted ==
    mpc = "done" /\ drained =>
        published.counters["bytes"] =
            Total([x \in Finished |-> result[x].bytes], Finished)

=============================================================================
