------------------------------ MODULE MCLaunch -------------------------------
(***************************************************************************)
(* Launches in three sweeps around one that works: over the sizes of its    *)
(* target, over the checks before the engine, and over durations and        *)
(* timeouts.                                                                *)
(***************************************************************************)
EXTENDS Launch

Good(name) ==
    [name |-> name, endpoint |-> "root", files |-> 2, bits |-> 40, inflight |-> 2,
     chunk |-> 3, vectors |-> 2, pattern |-> "mixed", auto |-> TRUE, maxBytes |-> 0]

Plain ==
    [workload |-> TRUE, legacy |-> FALSE, required |-> FALSE, select |-> "",
     skipAuth |-> TRUE, dryRun |-> FALSE, targets |-> <<Good("a")>>,
     duration |-> 1, timeout |-> 1, siteMap |-> {}, results |-> FALSE, push |-> FALSE]

Flags == [Plain EXCEPT !.workload = FALSE, !.required = TRUE, !.skipAuth = FALSE]

Sizes ==
    {[Good("a") EXCEPT !.bits = b, !.inflight = n, !.chunk = c, !.vectors = v,
                       !.pattern = p, !.auto = a, !.maxBytes = IF a THEN 0 ELSE m] :
        b \in {0, 3, 8, 40, 96, 240}, n \in {1, 2, 5}, c \in {0, 1, 3, 7, 15, 16, 17},
        v \in {0, 1, 2, 8}, p \in Patterns, a \in BOOLEAN, m \in {0, 5}}

SizeSweep == {[k EXCEPT !.targets = <<t>>] : k \in {Plain, Flags}, t \in Sizes}

Lists ==
    {<<>>, <<Good("a")>>, <<Good("a"), Good("b")>>, <<Good("a"), Good("a")>>,
     <<[Good("a") EXCEPT !.files = 0]>>, <<[Good("a") EXCEPT !.endpoint = ""]>>,
     <<Good("a"), [Good("b") EXCEPT !.endpoint = "other"]>>,
     <<Good("a"), [Good("b") EXCEPT !.bits = 0]>>,
     <<Good("a"), [Good("") EXCEPT !.files = 1]>>}

GateSweep ==
    {[Plain EXCEPT !.targets = l, !.select = s, !.legacy = f, !.dryRun = d,
                   !.siteMap = m, !.results = r, !.push = p] :
        l \in Lists, s \in {"", "a", "b"}, f, d, r, p \in BOOLEAN,
        m \in SUBSET {"workload", "flag"}}
    \cup
    {[Flags EXCEPT !.targets = l, !.select = s, !.skipAuth = k, !.required = q,
                   !.dryRun = d, !.siteMap = m, !.results = r, !.push = p] :
        l \in {<<t[1]>> : t \in Lists \ {<<>>}}, s \in {"", "a"}, k, q, d, r, p \in BOOLEAN,
        m \in {{}, {"flag"}}}

TimeSweep ==
    {[Plain EXCEPT !.skipAuth = FALSE, !.duration = d, !.timeout = t] :
        d \in {0, 1, 3}, t \in {0, 4, 9}}

MCCommands == SizeSweep \cup GateSweep \cup TimeSweep

=============================================================================
