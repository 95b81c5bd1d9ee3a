---------------------------- MODULE MetricsProofs ----------------------------
(***************************************************************************)
(* The registry for any number of sessions, data servers and sites,         *)
(* whatever a sitename query returns and in whatever order the relaxed      *)
(* counters are updated and read: its types, a site once given, and what    *)
(* the final snapshot of a drained run has seen.                            *)
(*                                                                          *)
(* Counting says how far each callback is, Levels counts live against the   *)
(* callbacks, Apart keeps the passes of fill_cms_sites from each other,     *)
(* Asked is what a pass under way still relies on, and Drains what no       *)
(* callback can change any more once the run thread saw live = 0 and took   *)
(* endpoint_mu_ after it.                                                   *)
(*                                                                          *)
(* Then one histogram, for any threads, values and bounds, its increments   *)
(* and loads in any order: Balanced says what a cell holds while            *)
(* observations are under way, Copied and Scraped what has been read.       *)
(***************************************************************************)
EXTENDS Metrics, Histogram, FiniteSetTheorems, WellFoundedInduction, TLAPS

-----------------------------------------------------------------------------
(* Sums. *)

\* Of the subsets of a finite set that have something in common, one has no
\* smaller one below it: what follows is proved by its not existing.
LEMMA Smallest ==
    ASSUME NEW S, IsFiniteSet(S), NEW X, X \subseteq SUBSET S, X # {}
    PROVE  \E T \in X : \A U \in X : U \subseteq T => U = T
  <1>1. IsWellFoundedOn(StrictSubsetOrdering(S), SUBSET S)
    BY FS_StrictSubsetOrderingWellFounded, FS_FiniteSubsetsOfFinite
  <1>2. PICK T \in X : \A U \in X : ~ (<<U, T>> \in StrictSubsetOrdering(S))
    BY <1>1, WFMin
  <1> SUFFICES ASSUME NEW U \in X, U \subseteq T, U # T PROVE FALSE
    BY <1>2
  <1>3. U \in SUBSET S /\ T \in SUBSET S
    BY <1>2
  <1>4. <<U, T>> \in StrictSubsetOrdering(S)
    BY <1>3 DEF StrictSubsetOrdering
  <1> QED
    BY <1>2, <1>4

\* The equation that a table of the sums of f over the subsets of S solves.
Some(s) == CHOOSE x \in s : TRUE
Solves(g, f, S) ==
    g = [s \in SUBSET S |-> IF s = {} THEN 0 ELSE f[Some(s)] + g[s \ {Some(s)}]]

LEMMA SomeOf == \A s : s # {} => Some(s) \in s
  BY DEF Some

LEMMA TotalSolves == ASSUME NEW f, NEW S PROVE Total(f, S) = (CHOOSE g : Solves(g, f, S))[S]
  BY DEF Total, MapThenSumSet, MapThenFoldSet, Solves, Some

\* What a solution is, point by point.
LEMMA SolvesAt ==
    ASSUME NEW f, NEW S, NEW g, Solves(g, f, S), NEW s \in SUBSET S
    PROVE  g[s] = IF s = {} THEN 0 ELSE f[Some(s)] + g[s \ {Some(s)}]
  <1>1. g = [t \in SUBSET S |-> IF t = {} THEN 0 ELSE f[Some(t)] + g[t \ {Some(t)}]]
    BY DEF Solves
  <1> QED
    BY ONLY <1>1, s \in SUBSET S

\* Tables for two sets agree on what is a subset of both.
LEMMA SolutionsAgree ==
    ASSUME NEW f, NEW S, IsFiniteSet(S), NEW T, NEW g, NEW h,
           Solves(g, f, S), Solves(h, f, T), NEW s \in SUBSET S, s \in SUBSET T
    PROVE  g[s] = h[s]
  <1> DEFINE X == {u \in SUBSET S : u \in SUBSET T /\ g[u] # h[u]}
  <1> SUFFICES ASSUME X # {} PROVE FALSE
    OBVIOUS
  <1>0. X \subseteq SUBSET S
    OBVIOUS
  <1>1. PICK u \in X : \A w \in X : w \subseteq u => w = u
    <2> HIDE DEF X
    <2> QED
      BY <1>0, Smallest
  <1>2. u # {}
    BY SolvesAt
  <1>3. Some(u) \in u
    BY <1>2, SomeOf
  <1>4. g[u \ {Some(u)}] = h[u \ {Some(u)}]
    BY <1>1, <1>3
  <1> QED
    BY <1>2, <1>4, SolvesAt

\* There is a table for every finite set.
LEMMA SolutionExists ==
    ASSUME NEW f, NEW S, IsFiniteSet(S)
    PROVE  \E g : Solves(g, f, S)
  <1> DEFINE X == {u \in SUBSET S : ~ \E g : Solves(g, f, u)}
  <1> SUFFICES ASSUME X # {} PROVE FALSE
    OBVIOUS
  <1>0. X \subseteq SUBSET S
    OBVIOUS
  <1>1. PICK T \in X : \A w \in X : w \subseteq T => w = T
    <2> HIDE DEF X
    <2> QED
      BY <1>0, Smallest
  <1> DEFINE G(u) == CHOOSE g : Solves(g, f, u)
             h == [u \in (SUBSET T) \ {T} |-> G(u)[u]]
             k == [u \in SUBSET T |-> IF u = {} THEN 0 ELSE f[Some(u)] + h[u \ {Some(u)}]]
  <1>2. \A u \in (SUBSET T) \ {T} : Solves(G(u), f, u)
    <2>1. ASSUME NEW u \in (SUBSET T) \ {T}
          PROVE  \E g : Solves(g, f, u)
      <3>1. u \subseteq T /\ u # T /\ u \in SUBSET S
        BY <1>1
      <3>2. u \notin X
        BY <1>1, <3>1
      <3> QED
        BY <3>1, <3>2
    <2> QED
      BY <2>1
  <1>3. \A u \in (SUBSET T) \ {T} : k[u] = h[u]
    <2> TAKE u \in (SUBSET T) \ {T}
    <2>1. Solves(G(u), f, u)
      BY <1>2
    <2>2. CASE u = {}
      BY <2>1, <2>2, SolvesAt
    <2>3. CASE u # {}
      <3> DEFINE w == u \ {Some(u)}
      <3>1. w \in (SUBSET T) \ {T} /\ w \in SUBSET u /\ IsFiniteSet(u)
        BY <2>3, SomeOf, FS_Subset
      <3>2. G(w)[w] = G(u)[w]
        <4>1. Solves(G(w), f, w) /\ IsFiniteSet(w) /\ w \in SUBSET w
          BY <1>2, <3>1, FS_Subset
        <4> HIDE DEF G, w
        <4> QED
          BY <2>1, <3>1, <4>1, SolutionsAgree
      <3>3. G(u)[u] = f[Some(u)] + G(u)[w]
        <4> HIDE DEF G
        <4> QED
          BY <2>1, <2>3, SolvesAt
      <3>4. k[u] = f[Some(u)] + h[w]
        BY <2>3
      <3>5. h[w] = G(w)[w] /\ h[u] = G(u)[u]
        BY <3>1
      <3> QED
        BY <3>2, <3>3, <3>4, <3>5
    <2> QED
      BY <2>2, <2>3
  <1>4. Solves(k, f, T)
    <2>1. ASSUME NEW u \in SUBSET T, u # {}
          PROVE  u \ {Some(u)} \in (SUBSET T) \ {T}
      <3>1. Some(u) \in T /\ Some(u) \notin u \ {Some(u)}
        BY <2>1, SomeOf
      <3> QED
        BY <3>1
    <2>2. \A u \in SUBSET T :
             k[u] = IF u = {} THEN 0 ELSE f[Some(u)] + h[u \ {Some(u)}]
      OBVIOUS
    <2> HIDE DEF h, k
    <2>3. \A u \in SUBSET T :
             k[u] = IF u = {} THEN 0 ELSE f[Some(u)] + k[u \ {Some(u)}]
      BY <1>3, <2>1, <2>2
    <2> USE DEF k
    <2>4. k = [u \in SUBSET T |-> k[u]]
      OBVIOUS
    <2> HIDE DEF k
    <2> QED
      BY <2>3, <2>4 DEF Solves
  <1> QED
    BY <1>1, <1>4

\* The recursion of a sum.
LEMMA TotalStep ==
    ASSUME NEW f, NEW S, IsFiniteSet(S)
    PROVE  Total(f, S) = IF S = {} THEN 0 ELSE f[Some(S)] + Total(f, S \ {Some(S)})
  <1> DEFINE G(T) == CHOOSE g : Solves(g, f, T)
             W == S \ {Some(S)}
  <1>1. \A T \in SUBSET S : Solves(G(T), f, T) /\ IsFiniteSet(T) /\ Total(f, T) = G(T)[T]
    BY SolutionExists, TotalSolves, FS_Subset
  <1> HIDE DEF G
  <1>2. G(S)[S] = IF S = {} THEN 0 ELSE f[Some(S)] + G(S)[W]
    BY <1>1, SolvesAt
  <1>3. G(W)[W] = G(S)[W]
    BY <1>1, SolutionsAgree
  <1> QED
    BY <1>1, <1>2, <1>3

LEMMA TotalEmpty == \A f : Total(f, {}) = 0
  BY TotalStep, FS_EmptySet

\* Sums of natural numbers are natural numbers.
LEMMA TotalNat ==
    ASSUME NEW f, NEW S, IsFiniteSet(S), \A x \in S : f[x] \in Nat
    PROVE  Total(f, S) \in Nat
  <1> DEFINE X == {u \in SUBSET S : Total(f, u) \notin Nat}
  <1> SUFFICES ASSUME X # {} PROVE FALSE
    OBVIOUS
  <1>0. X \subseteq SUBSET S
    OBVIOUS
  <1>1. PICK u \in X : \A w \in X : w \subseteq u => w = u
    <2> HIDE DEF X
    <2> QED
      BY <1>0, Smallest
  <1>2. Total(f, u) = IF u = {} THEN 0 ELSE f[Some(u)] + Total(f, u \ {Some(u)})
    BY TotalStep, FS_Subset
  <1>3. u # {} => Some(u) \in u /\ Total(f, u \ {Some(u)}) \in Nat
    BY <1>1, SomeOf
  <1> QED
    BY <1>2, <1>3

\* Any element may be counted first.
LEMMA TotalRemove ==
    ASSUME NEW f, NEW S, IsFiniteSet(S), \A y \in S : f[y] \in Nat, NEW x \in S
    PROVE  Total(f, S) = f[x] + Total(f, S \ {x})
  <1> DEFINE X == {u \in SUBSET S : \E y \in u : Total(f, u) # f[y] + Total(f, u \ {y})}
  <1> SUFFICES ASSUME X # {} PROVE FALSE
    OBVIOUS
  <1>0. X \subseteq SUBSET S
    OBVIOUS
  <1>1. PICK u \in X : \A w \in X : w \subseteq u => w = u
    <2> HIDE DEF X
    <2> QED
      BY <1>0, Smallest
  <1>2. PICK y \in u : Total(f, u) # f[y] + Total(f, u \ {y})
    BY <1>1
  <1> DEFINE p == Some(u)
             r == (u \ {y}) \ {p}
  <1>3. p \in u /\ Total(f, u) = f[p] + Total(f, u \ {p})
    BY TotalStep, SomeOf, FS_Subset
  <1> HIDE DEF p
  <1>4. p # y
    BY <1>2, <1>3
  <1>5. Total(f, u \ {p}) = f[y] + Total(f, (u \ {p}) \ {y})
    BY <1>1, <1>3, <1>4
  <1>6. Total(f, u \ {y}) = f[p] + Total(f, r)
    BY <1>1, <1>3, <1>4
  <1>7. (u \ {p}) \ {y} = r
    OBVIOUS
  <1>8. f[p] \in Nat /\ f[y] \in Nat /\ Total(f, r) \in Nat
    <2>1. IsFiniteSet(r) /\ r \in SUBSET S
      BY FS_Subset
    <2> QED
      BY <1>3, <2>1, TotalNat
  <1> QED
    BY <1>2, <1>3, <1>5, <1>6, <1>7, <1>8

\* What is equal on S has the same sum.
LEMMA TotalSame ==
    ASSUME NEW f, NEW g, NEW S, IsFiniteSet(S), \A x \in S : f[x] = g[x]
    PROVE  Total(f, S) = Total(g, S)
  <1> DEFINE X == {u \in SUBSET S : Total(f, u) # Total(g, u)}
  <1> SUFFICES ASSUME X # {} PROVE FALSE
    OBVIOUS
  <1>0. X \subseteq SUBSET S
    OBVIOUS
  <1>1. PICK u \in X : \A w \in X : w \subseteq u => w = u
    <2> HIDE DEF X
    <2> QED
      BY <1>0, Smallest
  <1>2. \A h : Total(h, u) = IF u = {} THEN 0 ELSE h[Some(u)] + Total(h, u \ {Some(u)})
    BY TotalStep, FS_Subset
  <1>3. u # {} => Some(u) \in u /\ Total(f, u \ {Some(u)}) = Total(g, u \ {Some(u)})
    BY <1>1, SomeOf
  <1> QED
    BY <1>1, <1>2, <1>3

\* Sums add, element by element.
LEMMA TotalPlus ==
    ASSUME NEW f, NEW g, NEW h, NEW S, IsFiniteSet(S),
           \A x \in S : f[x] \in Nat /\ g[x] \in Nat /\ h[x] = f[x] + g[x]
    PROVE  Total(h, S) = Total(f, S) + Total(g, S)
  <1> DEFINE X == {u \in SUBSET S : Total(h, u) # Total(f, u) + Total(g, u)}
  <1> SUFFICES ASSUME X # {} PROVE FALSE
    OBVIOUS
  <1>0. X \subseteq SUBSET S
    OBVIOUS
  <1>1. PICK u \in X : \A w \in X : w \subseteq u => w = u
    <2> HIDE DEF X
    <2> QED
      BY <1>0, Smallest
  <1> DEFINE r == u \ {Some(u)}
  <1>2. \A k : Total(k, u) = IF u = {} THEN 0 ELSE k[Some(u)] + Total(k, r)
    BY TotalStep, FS_Subset
  <1>3. u # {} => Some(u) \in u /\ Total(h, r) = Total(f, r) + Total(g, r)
    BY <1>1, SomeOf
  <1>4. Total(f, r) \in Nat /\ Total(g, r) \in Nat
    <2>1. IsFiniteSet(r) /\ r \subseteq S
      BY FS_Subset
    <2> QED
      BY <2>1, TotalNat
  <1> QED
    BY <1>1, <1>2, <1>3, <1>4

\* What is at most as great everywhere has at most as great a sum.
LEMMA TotalAtMost ==
    ASSUME NEW f, NEW g, NEW S, IsFiniteSet(S),
           \A x \in S : f[x] \in Nat /\ g[x] \in Nat /\ f[x] <= g[x]
    PROVE  Total(f, S) <= Total(g, S)
  <1> DEFINE d == [x \in S |-> g[x] - f[x]]
  <1>1. \A x \in S : d[x] \in Nat /\ g[x] = f[x] + d[x]
    OBVIOUS
  <1> HIDE DEF d
  <1>2. Total(g, S) = Total(f, S) + Total(d, S)
    BY <1>1, TotalPlus
  <1>3. Total(f, S) \in Nat /\ Total(d, S) \in Nat
    BY <1>1, TotalNat
  <1> QED
    BY <1>2, <1>3

\* The sum of noughts.
LEMMA TotalZero ==
    ASSUME NEW f, NEW S, IsFiniteSet(S), \A x \in S : f[x] = 0
    PROVE  Total(f, S) = 0
  <1>0. \A x \in S : f[x] \in Nat /\ f[x] = f[x] + f[x]
    OBVIOUS
  <1>1. Total(f, S) = Total(f, S) + Total(f, S)
    BY ONLY <1>0, IsFiniteSet(S), TotalPlus
  <1>2. \A n \in Nat : n = n + n => n = 0
    OBVIOUS
  <1> QED
    BY <1>0, <1>1, <1>2, TotalNat

\* Two sets without a common element.
LEMMA TotalUnion ==
    ASSUME NEW f, NEW S, NEW T, IsFiniteSet(S), IsFiniteSet(T), S \cap T = {},
           \A x \in S \cup T : f[x] \in Nat
    PROVE  Total(f, S \cup T) = Total(f, S) + Total(f, T)
  <1> DEFINE X == {u \in SUBSET T : Total(f, S \cup u) # Total(f, S) + Total(f, u)}
  <1> SUFFICES ASSUME X # {} PROVE FALSE
    OBVIOUS
  <1>0. X \subseteq SUBSET T
    OBVIOUS
  <1>1. PICK u \in X : \A w \in X : w \subseteq u => w = u
    <2> HIDE DEF X
    <2> QED
      BY <1>0, Smallest
  <1>2. Total(f, S) \in Nat
    BY TotalNat
  <1>3. u # {}
    <2> SUFFICES ASSUME u = {} PROVE FALSE
      OBVIOUS
    <2>1. Total(f, u) = 0 /\ S \cup u = S
      BY TotalEmpty
    <2> QED
      BY <1>1, <1>2, <2>1
  <1>4. PICK x : x \in u
    BY <1>3
  <1> DEFINE r == u \ {x}
  <1>5. Total(f, S \cup r) = Total(f, S) + Total(f, r)
    BY <1>1, <1>4
  <1>6. IsFiniteSet(u) /\ IsFiniteSet(r) /\ IsFiniteSet(S \cup u)
    BY FS_Subset, FS_Union
  <1>7. Total(f, u) = f[x] + Total(f, r)
    BY <1>4, <1>6, TotalRemove
  <1>8. (S \cup u) \ {x} = S \cup r
    BY <1>4
  <1>9. Total(f, S \cup u) = f[x] + Total(f, S \cup r)
    BY <1>4, <1>6, <1>8, TotalRemove
  <1>10. Total(f, r) \in Nat /\ f[x] \in Nat
    BY <1>4, <1>6, TotalNat
  <1> QED
    BY <1>1, <1>2, <1>5, <1>7, <1>9, <1>10

\* Only what is not nought counts.
LEMMA TotalWithin ==
    ASSUME NEW f, NEW S, IsFiniteSet(S), NEW T \in SUBSET S, \A x \in T : f[x] \in Nat,
           \A x \in S \ T : f[x] = 0
    PROVE  Total(f, S) = Total(f, T)
  <1>1. IsFiniteSet(T) /\ IsFiniteSet(S \ T)
    BY FS_Subset
  <1>2. Total(f, T \cup (S \ T)) = Total(f, T) + Total(f, S \ T)
    BY <1>1, TotalUnion
  <1>3. Total(f, S \ T) = 0 /\ Total(f, T) \in Nat
    BY <1>1, TotalZero, TotalNat
  <1>4. T \cup (S \ T) = S
    OBVIOUS
  <1> QED
    BY <1>2, <1>3, <1>4

\* What differs in one element.
LEMMA TotalChange ==
    ASSUME NEW f, NEW g, NEW S, IsFiniteSet(S), NEW x \in S,
           \A y \in S : f[y] \in Nat /\ g[y] \in Nat,
           \A y \in S \ {x} : g[y] = f[y]
    PROVE  Total(g, S) = Total(f, S) - f[x] + g[x]
  <1>1. IsFiniteSet(S \ {x})
    BY FS_Subset
  <1>2. Total(f, S) = f[x] + Total(f, S \ {x}) /\ Total(g, S) = g[x] + Total(g, S \ {x})
    BY TotalRemove
  <1>3. Total(f, S \ {x}) = Total(g, S \ {x}) /\ Total(f, S \ {x}) \in Nat
    BY <1>1, TotalSame, TotalNat
  <1> QED
    BY <1>2, <1>3

\* Counting is adding ones.
LEMMA TotalCount ==
    ASSUME NEW f, NEW S, IsFiniteSet(S), \A x \in S : f[x] \in {0, 1}
    PROVE  Total(f, S) = Cardinality({x \in S : f[x] = 1})
  <1> DEFINE X == {u \in SUBSET S : Total(f, u) # Cardinality({x \in u : f[x] = 1})}
  <1> SUFFICES ASSUME X # {} PROVE FALSE
    OBVIOUS
  <1>0. X \subseteq SUBSET S
    OBVIOUS
  <1>1. PICK u \in X : \A w \in X : w \subseteq u => w = u
    <2> HIDE DEF X
    <2> QED
      BY <1>0, Smallest
  <1> DEFINE p == Some(u)
             r == u \ {p}
             one == {x \in r : f[x] = 1}
  <1>2. Total(f, u) = IF u = {} THEN 0 ELSE f[p] + Total(f, r)
    BY TotalStep, FS_Subset
  <1>3. u # {}
    BY <1>1, <1>2, FS_EmptySet
  <1>4. p \in u /\ Total(f, r) = Cardinality(one)
    BY <1>1, <1>3, SomeOf
  <1>5. IsFiniteSet(one) /\ Cardinality(one) \in Nat
    BY FS_Subset, FS_CardinalityType
  <1>6. CASE f[p] = 0
    <2>1. {x \in u : f[x] = 1} = one
      BY <1>6
    <2> QED
      BY <1>1, <1>2, <1>3, <1>4, <1>5, <1>6, <2>1
  <1>7. CASE f[p] = 1
    <2>1. {x \in u : f[x] = 1} = one \cup {p} /\ p \notin one
      BY <1>4, <1>7
    <2>2. Cardinality(one \cup {p}) = Cardinality(one) + 1
      BY <1>5, <2>1, FS_AddElement
    <2>3. Total(f, u) = Cardinality(one) + 1
      BY <1>2, <1>3, <1>4, <1>5, <1>7
    <2> QED
      BY <1>1, <2>1, <2>2, <2>3
  <1> QED
    BY <1>4, <1>6, <1>7

-----------------------------------------------------------------------------
(* The registry's invariant. *)


\* TypeOK but for live and the gauge, in three parts.
SessionTypes ==
    /\ stage \in [Sessions -> Stages]
    /\ result \in [Sessions -> Result]
    /\ todo \in [Sessions -> SUBSET Counters]
    /\ link \in [Counters -> Nat]
    /\ owner \in Sessions \cup {Nobody}

SiteTypes ==
    /\ endpoints \in [Servers -> Endpoint]
    /\ DOMAIN cache \subseteq Hosts
    /\ \A d \in DOMAIN cache : cache[d] \in Names
    /\ work \in [Fillers -> SUBSET Hosts]
    /\ found \in [Fillers -> [server : Servers, site : Names \cup {MapSite, NoSite}]]
    /\ mpc \in {"admit", "gauge", "drain", "joinTimer", "joinSites", "finalGauge",
                "fill", "filling", "snapshot", "done"}
    /\ spc \in {"sleep", "filling", "stopped"}

SnapTypes ==
    /\ toRead \in [Readers -> SUBSET Parts]
    /\ snap \in [Readers -> Snapshots]
    /\ published \in Snapshots /\ taken \in 0 .. MaxSnapshots
    /\ tpc \in {"sleep", "gauge", "snapshot", "stopped"}
    /\ tpc \in {"gauge", "snapshot"} => taken < MaxSnapshots
    /\ drained \in BOOLEAN

\* The mutex has one owner, who gives it up when all is counted.
Counting ==
    \A x \in Sessions :
        /\ owner = x <=> stage[x].at = "locked"
        /\ stage[x].at \in {"new", "unlocked"} => todo[x] = {}
        /\ stage[x].left => stage[x].at \in {"locked", "unlocked"}

\* live is the number of sessions admitted that have not decremented it.
Alive == {x \in Sessions : stage[x].at # "new" /\ ~stage[x].left}
Numbers == 0 .. Cardinality(Sessions)
Levels ==
    /\ live = Cardinality(Alive)
    /\ gauge \in Numbers
    /\ seen \in [Sessions \cup Readers -> Numbers \cup {NotLoaded}]

\* The run thread fills sites when the site thread has ended, and each only
\* within its pass.
AfterJoin == {"finalGauge", "fill", "filling", "snapshot", "done"}
Apart ==
    /\ mpc \in AfterJoin => spc = "stopped"
    /\ spc # "filling" => PassDone("sites")
    /\ mpc # "filling" => PassDone("main")

\* Only to set the gauge does the run thread load live.
Loaded == seen["main"] # NotLoaded => mpc \in {"gauge", "finalGauge"}

\* What a pass has still to look up or to record has no site yet.
Asked ==
    \A f \in Fillers :
        /\ \A d \in work[f] : endpoints[d].site = NoSite
        /\ found[f] # NothingFound =>
               /\ found[f].server \in Hosts \ work[f]
               /\ endpoints[found[f].server].site = NoSite

\* After a complete drain every callback has let go of live; after the lock of
\* the final pass, of the mutex too, and the final snapshot reads what stays.
Drains ==
    /\ mpc \in {"joinSites"} \cup AfterJoin => tpc = "stopped"
    /\ mpc = "done" => toRead["main"] = {}
    /\ drained =>
        /\ Alive = {}
        /\ mpc \notin {"admit", "gauge", "drain"}
        /\ mpc \in {"filling", "snapshot", "done"} =>
               \A x \in Sessions : stage[x].at \in {"new", "unlocked"}
        /\ mpc \in {"snapshot", "done"} =>
               /\ \A c \in Counters \ toRead["main"] : snap["main"].counters[c] = link[c]
               /\ "endpoints" \notin toRead["main"] => snap["main"].endpoints = endpoints
        /\ mpc = "done" => published = snap["main"]

Inv ==
    SessionTypes /\ SiteTypes /\ SnapTypes /\ Counting /\ Levels /\ Loaded
    /\ Apart /\ Asked /\ Drains

-----------------------------------------------------------------------------
(* The beginning. *)

\* Alive is finite, and counted within Numbers.
LEMMA Finite ==
    /\ IsFiniteSet(Alive) /\ Cardinality(Alive) \in Numbers
    /\ Cardinality(Sessions) \in Nat
  <1>1. IsFiniteSet(Sessions) /\ Alive \in SUBSET Sessions
    BY MetricsOptions DEF Alive
  <1> QED
    BY <1>1, FS_Subset, FS_CardinalityType DEF Numbers

LEMMA InitInv == Init => Inv
  <1> SUFFICES ASSUME Init PROVE Inv
    OBVIOUS
  <1>1. SessionTypes
    BY DEF Init, SessionTypes, Fresh, Stages, Zero
  <1>2. Unseen \in Endpoint /\ Empty \in Snapshots
    <2>1. Unseen \in Endpoint
      BY DEF Unseen, Endpoint
    <2> QED
      BY <2>1 DEF Empty, Snapshots, Zero
  <1>3. SiteTypes
    <2>1. endpoints \in [Servers -> Endpoint]
      BY <1>2 DEF Init
    <2>2. found \in [Fillers -> [server : Servers, site : Names \cup {MapSite, NoSite}]]
      BY DEF Init, NothingFound, Servers
    <2>3. DOMAIN cache = {}
      BY DEF Init
    <2> QED
      BY <2>1, <2>2, <2>3 DEF Init, SiteTypes
  <1>4. SnapTypes
    <2>1. toRead \in [Readers -> SUBSET Parts] /\ snap \in [Readers -> Snapshots]
      BY <1>2 DEF Init
    <2>2. taken \in 0 .. MaxSnapshots
      BY MetricsOptions DEF Init
    <2> QED
      BY <1>2, <2>1, <2>2 DEF Init, SnapTypes
  <1>5. \A x \in Sessions : stage[x] = Fresh /\ todo[x] = {}
    BY DEF Init
  <1>6. Counting
    BY <1>5, MetricsOptions DEF Init, Counting, Fresh
  <1>7. Levels
    <2>1. Alive = {}
      BY <1>5 DEF Alive, Fresh
    <2> QED
      BY <2>1, Finite, FS_EmptySet DEF Init, Levels, Numbers
  <1>8. Loaded /\ Apart /\ Asked /\ Drains
    BY DEF Init, Loaded, Readers, Apart, AfterJoin, PassDone, Asked, Drains, Fillers
  <1> QED
    BY <1>1, <1>3, <1>4, <1>6, <1>7, <1>8 DEF Inv
-----------------------------------------------------------------------------
(* Which steps touch what. *)

LEMMA SessionFootprint ==
    ASSUME [Next]_vars
    PROVE  \/ UNCHANGED <<stage, result, todo, link, owner, live>>
           \/ Admit
           \/ \E x \in Sessions : \/ SessionEnds(x) \/ Count(x) \/ Attribute(x)
                                  \/ Unlock(x) \/ Leave(x) \/ CallbackGauges(x)
  <1>1. CASE UNCHANGED vars
    BY <1>1 DEF vars, sessionVars, registryVars, gaugeVars
  <1>2. ASSUME NEW x \in Sessions, Callback(x)
        PROVE  \/ UNCHANGED <<stage, result, todo, link, owner, live>>
               \/ \/ SessionEnds(x) \/ Count(x) \/ Attribute(x)
                  \/ Unlock(x) \/ Leave(x) \/ CallbackGauges(x)
    BY <1>2 DEF Callback, CallbackLoads, sessionVars, registryVars
  <1>3. CASE Timer \/ SiteThread
    BY <1>3 DEF Timer, TimerLoads, TimerGauges, TimerPublishes, Read, SiteThread, SitesPass,
                SitesSleep, Fill, Query, SetCmsSite, sessionVars, registryVars, gaugeVars
  <1>4. CASE Main
    BY <1>4 DEF Main, MainLoads, MainGauges, Stop, Drain, JoinTimer, JoinSites, FinalPass,
                FinalSnapshot, FinalPublish, Read, Fill, Query, SetCmsSite, sessionVars,
                registryVars, gaugeVars
  <1> QED
    BY <1>1, <1>2, <1>3, <1>4 DEF Next

LEMMA LevelFootprint ==
    ASSUME [Next]_vars
    PROVE  \/ UNCHANGED <<seen, gauge>>
           \/ \E t \in Sessions \cup Readers :
                 \/ Load(t) /\ UNCHANGED <<gauge, live, stage>>
                 \/ SetInflight(t) /\ UNCHANGED live
  <1>1. CASE UNCHANGED vars
    BY <1>1 DEF vars, gaugeVars
  <1>2. ASSUME NEW x \in Sessions, Callback(x)
        PROVE  \/ UNCHANGED <<seen, gauge>>
               \/ Load(x) /\ UNCHANGED <<gauge, live, stage>>
               \/ SetInflight(x) /\ UNCHANGED live
    BY <1>2 DEF Callback, SessionEnds, Count, Attribute, Unlock, Leave, CallbackLoads,
                CallbackGauges, sessionVars, gaugeVars
  <1>3. CASE Timer \/ SiteThread
    BY <1>3 DEF Timer, TimerLoads, TimerGauges, TimerPublishes, Read, SiteThread, SitesPass,
                SitesSleep, Fill, Query, SetCmsSite, sessionVars, gaugeVars, Readers
  <1>4. CASE Main
    BY <1>4 DEF Main, Admit, MainLoads, MainGauges, Stop, Drain, JoinTimer, JoinSites,
                FinalPass, FinalSnapshot, FinalPublish, Read, Fill, Query, SetCmsSite,
                sessionVars, gaugeVars, Readers
  <1> QED
    BY <1>1, <1>2, <1>3, <1>4 DEF Next

LEMMA SiteFootprint ==
    ASSUME [Next]_vars
    PROVE  \/ UNCHANGED <<endpoints, cache, work, found, spc, mpc>>
           \/ UNCHANGED <<cache, work, found, spc, mpc>> /\ \E x \in Sessions : Attribute(x)
           \/ /\ UNCHANGED <<endpoints, cache, work, found, spc>>
              /\ Admit \/ MainGauges \/ Stop \/ Drain \/ JoinTimer \/ FinalSnapshot
                 \/ FinalPublish
           \/ SitesPass \/ SitesSleep \/ JoinSites \/ FinalPass
           \/ \E f \in Fillers : (\E a \in Answers : Query(f, a)) \/ SetCmsSite(f)
  <1>1. CASE UNCHANGED vars
    BY <1>1 DEF vars, registryVars, siteVars, threadVars
  <1>2. ASSUME NEW x \in Sessions, Callback(x)
        PROVE  \/ UNCHANGED <<endpoints, cache, work, found, spc, mpc>>
               \/ UNCHANGED <<cache, work, found, spc, mpc>> /\ Attribute(x)
    BY <1>2 DEF Callback, SessionEnds, Count, Attribute, Unlock, Leave, CallbackLoads,
                CallbackGauges, registryVars, siteVars, threadVars
  <1>3. CASE Timer
    BY <1>3 DEF Timer, TimerLoads, TimerGauges, TimerPublishes, Read, registryVars, siteVars,
                threadVars
  <1>4. CASE SiteThread
    BY <1>4 DEF SiteThread, Fill, Fillers
  <1>5. CASE Main
    <2>1. CASE Admit \/ MainGauges \/ Stop \/ Drain \/ JoinTimer \/ FinalSnapshot
               \/ FinalPublish
      BY <2>1 DEF Admit, MainGauges, Stop, Drain, JoinTimer, FinalSnapshot, FinalPublish,
                  registryVars, siteVars
    <2>2. CASE MainLoads \/ Read("main")
      BY <2>2 DEF MainLoads, Read, registryVars, siteVars, threadVars
    <2>3. CASE JoinSites \/ FinalPass \/ Fill("main")
      BY <2>3 DEF Fill, Fillers
    <2> QED
      BY <1>5, <2>1, <2>2, <2>3 DEF Main
  <1> QED
    BY <1>1, <1>2, <1>3, <1>4, <1>5 DEF Next

LEMMA SnapFootprint ==
    ASSUME [Next]_vars
    PROVE  \/ UNCHANGED <<toRead, snap, published, taken, tpc, drained>>
           \/ TimerLoads \/ TimerGauges \/ TimerPublishes
           \/ \E r \in Readers : Read(r)
           \/ Drain \/ JoinTimer \/ FinalSnapshot \/ FinalPublish
  <1>1. CASE UNCHANGED vars
    BY <1>1 DEF vars, snapVars, threadVars
  <1>2. ASSUME NEW x \in Sessions, Callback(x)
        PROVE  UNCHANGED <<toRead, snap, published, taken, tpc, drained>>
    BY <1>2 DEF Callback, SessionEnds, Count, Attribute, Unlock, Leave, CallbackLoads,
                CallbackGauges, snapVars, threadVars
  <1>3. CASE Timer
    BY <1>3 DEF Timer, Readers
  <1>4. CASE SiteThread
    BY <1>4 DEF SiteThread, SitesPass, SitesSleep, Fill, Query, SetCmsSite, snapVars,
                threadVars
  <1>5. CASE Main
    BY <1>5 DEF Main, Admit, MainLoads, MainGauges, Stop, JoinSites, FinalPass, Fill, Query,
                SetCmsSite, snapVars, threadVars, Readers
  <1> QED
    BY <1>1, <1>2, <1>3, <1>4, <1>5 DEF Next
-----------------------------------------------------------------------------
(* The callbacks. *)

\* Moving one callback counts one session more, one fewer or as many.
LEMMA AliveMoves ==
    ASSUME NEW x \in Sessions, \A y \in Sessions \ {x} : stage'[y] = stage[y]
    PROVE  /\ (x \in Alive' <=> x \in Alive) => Cardinality(Alive') = Cardinality(Alive)
           /\ x \in Alive' /\ x \notin Alive => Cardinality(Alive') = Cardinality(Alive) + 1
           /\ x \notin Alive' /\ x \in Alive => Cardinality(Alive') = Cardinality(Alive) - 1
  <1>1. \A y \in Sessions \ {x} : y \in Alive' <=> y \in Alive
    BY DEF Alive
  <1>2. Alive \in SUBSET Sessions /\ Alive' \in SUBSET Sessions
    BY DEF Alive
  <1>3. IsFiniteSet(Alive)
    BY Finite
  <1>4. CASE x \in Alive' <=> x \in Alive
    <2>1. Alive' = Alive
      BY <1>1, <1>2, <1>4
    <2> QED
      BY <1>4, <2>1
  <1>5. CASE x \in Alive' /\ x \notin Alive
    <2>1. Alive' = Alive \cup {x}
      BY <1>1, <1>2, <1>5
    <2> QED
      BY <1>3, <1>5, <2>1, FS_AddElement
  <1>6. CASE x \notin Alive' /\ x \in Alive
    <2>1. Alive' = Alive \ {x}
      BY <1>1, <1>2, <1>6
    <2> QED
      BY <1>3, <1>6, <2>1, FS_RemoveElement
  <1> QED
    BY <1>4, <1>5, <1>6

\* Each step of a callback, and an admission.
LEMMA SessionStep ==
    ASSUME Inv, [Next]_vars
    PROVE  SessionTypes' /\ Counting' /\ live' = Cardinality(Alive')
  <1> SessionTypes /\ Counting /\ live = Cardinality(Alive) /\ Nobody \notin Sessions
    BY MetricsOptions DEF Inv, Levels
  <1>1. CASE UNCHANGED <<stage, result, todo, link, owner, live>>
    BY <1>1 DEF SessionTypes, Counting, Alive
  <1>2. ASSUME NEW x \in Sessions, stage[x].at = "new", live' = live + 1,
               stage' = [stage EXCEPT ![x].at = "live"],
               UNCHANGED <<result, todo, link, owner>>
        PROVE  SessionTypes' /\ Counting' /\ live' = Cardinality(Alive')
    <2>1. /\ stage' \in [Sessions -> Stages] /\ stage'[x].at = "live"
          /\ stage'[x].left = stage[x].left
          /\ \A y \in Sessions \ {x} : stage'[y] = stage[y]
      BY <1>2 DEF SessionTypes, Stages
    <2>2. x \notin Alive /\ x \in Alive'
      BY <1>2, <2>1 DEF Counting, Alive
    <2>3. live' = Cardinality(Alive')
      BY <1>2, <2>1, <2>2, AliveMoves
    <2>4. Counting'
      BY <1>2, <2>1 DEF Counting
    <2> QED
      BY <1>2, <2>1, <2>3, <2>4 DEF SessionTypes
  <1>3. ASSUME NEW x \in Sessions, SessionEnds(x)
        PROVE  SessionTypes' /\ Counting' /\ live' = Cardinality(Alive')
    <2>1. /\ stage[x].at = "live" /\ todo' = [todo EXCEPT ![x] = CountersOf(result[x])]
          /\ stage' = [stage EXCEPT ![x].at = "observing"]
          /\ UNCHANGED <<result, link, owner, live>>
      BY <1>3 DEF SessionEnds, registryVars, gaugeVars
    <2>2. /\ stage' \in [Sessions -> Stages] /\ stage'[x].at = "observing"
          /\ stage'[x].left = stage[x].left
          /\ \A y \in Sessions \ {x} : stage'[y] = stage[y]
      BY <2>1 DEF SessionTypes, Stages
    <2>3. x \in Alive /\ x \in Alive'
      BY <2>1, <2>2 DEF Counting, Alive
    <2>4. live' = Cardinality(Alive')
      BY <2>1, <2>2, <2>3, AliveMoves
    <2>5. /\ todo' \in [Sessions -> SUBSET Counters]
          /\ \A y \in Sessions \ {x} : todo'[y] = todo[y]
      BY <2>1 DEF SessionTypes, CountersOf, Counters
    <2>6. Counting'
      BY <2>1, <2>2, <2>5 DEF Counting
    <2> QED
      BY <2>1, <2>2, <2>4, <2>5, <2>6 DEF SessionTypes
  <1>4. ASSUME NEW x \in Sessions, Count(x)
        PROVE  SessionTypes' /\ Counting' /\ live' = Cardinality(Alive')
    <2>1. PICK c \in todo[x] :
            /\ link' = [link EXCEPT ![c] = link[c] + Increment(result[x], c)]
            /\ todo' = [todo EXCEPT ![x] = todo[x] \ {c}]
            /\ UNCHANGED <<stage, result, owner, live>>
      BY <1>4 DEF Count, gaugeVars
    <2>2. result[x].bytes \in Nat
      BY MetricsOptions DEF SessionTypes, Result
    <2>3. Increment(result[x], c) \in Nat
      BY <2>2 DEF Increment
    <2>4. link' \in [Counters -> Nat]
      BY <2>1, <2>3 DEF SessionTypes
    <2>5. /\ todo' \in [Sessions -> SUBSET Counters]
          /\ \A y \in Sessions : todo'[y] \subseteq todo[y]
      BY <2>1 DEF SessionTypes
    <2>6. Counting'
      BY <2>1, <2>5 DEF Counting
    <2>7. live' = Cardinality(Alive')
      BY <2>1 DEF Alive
    <2> QED
      BY <2>1, <2>4, <2>5, <2>6, <2>7 DEF SessionTypes
  <1>5. ASSUME NEW x \in Sessions, Attribute(x)
        PROVE  SessionTypes' /\ Counting' /\ live' = Cardinality(Alive')
    <2>1. /\ stage[x].at = "observing" /\ owner = Nobody /\ owner' = x
          /\ stage' = [stage EXCEPT ![x].at = "locked"]
          /\ UNCHANGED <<result, todo, link, live>>
      BY <1>5 DEF Attribute, gaugeVars
    <2>2. /\ stage' \in [Sessions -> Stages] /\ stage'[x].at = "locked"
          /\ stage'[x].left = stage[x].left
          /\ \A y \in Sessions \ {x} : stage'[y] = stage[y]
      BY <2>1 DEF SessionTypes, Stages
    <2>3. x \in Alive /\ x \in Alive'
      BY <2>1, <2>2 DEF Counting, Alive
    <2>4. live' = Cardinality(Alive')
      BY <2>1, <2>2, <2>3, AliveMoves
    <2>5. Counting'
      BY <2>1, <2>2 DEF Counting
    <2> QED
      BY <2>1, <2>2, <2>4, <2>5 DEF SessionTypes
  <1>6. ASSUME NEW x \in Sessions, Unlock(x)
        PROVE  SessionTypes' /\ Counting' /\ live' = Cardinality(Alive')
    <2>1. /\ owner = x /\ todo[x] = {} /\ owner' = Nobody
          /\ stage' = [stage EXCEPT ![x].at = "unlocked"]
          /\ UNCHANGED <<result, todo, link, live>>
      BY <1>6 DEF Unlock, gaugeVars
    <2>2. /\ stage' \in [Sessions -> Stages] /\ stage'[x].at = "unlocked"
          /\ stage'[x].left = stage[x].left
          /\ \A y \in Sessions \ {x} : stage'[y] = stage[y]
      BY <2>1 DEF SessionTypes, Stages
    <2>3. stage[x].at = "locked"
      BY <2>1 DEF Counting
    <2>4. x \in Alive' <=> x \in Alive
      BY <2>2, <2>3 DEF Alive
    <2>5. live' = Cardinality(Alive')
      BY <2>1, <2>2, <2>4, AliveMoves
    <2>6. Counting'
      BY <2>1, <2>2, <2>3 DEF Counting
    <2> QED
      BY <2>1, <2>2, <2>5, <2>6 DEF SessionTypes
  <1>7. ASSUME NEW x \in Sessions, Leave(x)
        PROVE  SessionTypes' /\ Counting' /\ live' = Cardinality(Alive')
    <2>1. /\ stage[x].at \in {"locked", "unlocked"} /\ ~stage[x].left /\ live' = live - 1
          /\ stage' = [stage EXCEPT ![x].left = TRUE]
          /\ UNCHANGED <<result, todo, link, owner>>
      BY <1>7 DEF Leave, registryVars
    <2>2. /\ stage' \in [Sessions -> Stages] /\ stage'[x].at = stage[x].at
          /\ stage'[x].left
          /\ \A y \in Sessions \ {x} : stage'[y] = stage[y]
      BY <2>1 DEF SessionTypes, Stages
    <2>3. x \in Alive /\ x \notin Alive'
      BY <2>1, <2>2 DEF Alive
    <2>4. live' = Cardinality(Alive')
      BY <2>1, <2>2, <2>3, AliveMoves
    <2>5. Counting'
      BY <2>1, <2>2 DEF Counting
    <2> QED
      BY <2>1, <2>2, <2>4, <2>5 DEF SessionTypes
  <1>8. ASSUME NEW x \in Sessions, CallbackGauges(x)
        PROVE  SessionTypes' /\ Counting' /\ live' = Cardinality(Alive')
    <2>1. /\ stage' = [stage EXCEPT ![x].gauged = TRUE]
          /\ UNCHANGED <<result, todo, link, owner, live>>
      BY <1>8 DEF CallbackGauges, registryVars
    <2>2. /\ stage' \in [Sessions -> Stages] /\ stage'[x].at = stage[x].at
          /\ stage'[x].left = stage[x].left
          /\ \A y \in Sessions \ {x} : stage'[y] = stage[y]
      <3>1. stage \in [Sessions -> Stages] /\ stage[x] \in Stages
        BY DEF SessionTypes
      <3>2. [stage[x] EXCEPT !.gauged = TRUE] \in Stages
            /\ [stage[x] EXCEPT !.gauged = TRUE].at = stage[x].at
            /\ [stage[x] EXCEPT !.gauged = TRUE].left = stage[x].left
        BY <3>1 DEF Stages
      <3>3. stage' = [stage EXCEPT ![x] = [stage[x] EXCEPT !.gauged = TRUE]]
        BY <2>1
      <3> QED
        BY ONLY <3>1, <3>2, <3>3
    <2>3. x \in Alive' <=> x \in Alive
      BY <2>2 DEF Alive
    <2>4. live' = Cardinality(Alive')
      BY <2>1, <2>2, <2>3, AliveMoves
    <2>5. Counting'
      BY <2>1, <2>2 DEF Counting
    <2> QED
      BY <2>1, <2>2, <2>4, <2>5 DEF SessionTypes
  <1>9. CASE Admit
    BY <1>2, <1>9 DEF Admit, registryVars
  <1> QED
    BY <1>1, <1>3, <1>4, <1>5, <1>6, <1>7, <1>8, <1>9, SessionFootprint

-----------------------------------------------------------------------------
(* live and the gauge. *)

LEMMA LevelStep ==
    ASSUME Inv, [Next]_vars
    PROVE  Levels'
  <1>1. Levels /\ live \in Numbers
    BY Finite DEF Inv, Levels
  <1>2. live' = Cardinality(Alive')
    BY SessionStep
  <1>3. CASE UNCHANGED <<seen, gauge>>
    BY <1>1, <1>2, <1>3 DEF Levels
  <1>4. ASSUME NEW t \in Sessions \cup Readers, Load(t), gauge' = gauge PROVE Levels'
    BY <1>1, <1>2, <1>4 DEF Levels, Load
  <1>5. ASSUME NEW t \in Sessions \cup Readers, SetInflight(t) PROVE Levels'
    <2>1. seen[t] \in Numbers
      BY <1>1, <1>5 DEF Levels, SetInflight
    <2> QED
      BY <1>1, <1>2, <1>5, <2>1 DEF Levels, SetInflight
  <1> QED
    BY <1>3, <1>4, <1>5, LevelFootprint

LEMMA LoadedStep ==
    ASSUME Inv, [Next]_vars
    PROVE  Loaded'
  <1>1. /\ Loaded /\ seen \in [Sessions \cup Readers -> Numbers \cup {NotLoaded}]
        /\ "main" \in Readers /\ "timer" # "main" /\ "main" \notin Sessions
    BY MetricsOptions DEF Inv, Levels, Readers
  <1>2. CASE mpc' = mpc /\ seen'["main"] = seen["main"]
    BY <1>1, <1>2 DEF Loaded
  <1>3. ASSUME NEW x \in Sessions, Callback(x)
        PROVE  mpc' = mpc /\ seen'["main"] = seen["main"]
    BY <1>1, <1>3 DEF Callback, SessionEnds, Count, Attribute, Unlock, Leave, CallbackLoads,
                      CallbackGauges, Load, SetInflight, gaugeVars, threadVars
  <1>4. CASE Timer \/ SiteThread \/ UNCHANGED vars
    <2>1. mpc' = mpc /\ seen'["main"] = seen["main"]
      BY <1>1, <1>4 DEF Timer, TimerLoads, TimerGauges, TimerPublishes, Read, SiteThread,
                SitesPass, SitesSleep, Fill, Query, SetCmsSite, Load, SetInflight, gaugeVars,
                threadVars, vars
    <2> QED
      BY <1>2, <2>1
  <1>5. CASE Main
    <2>1. CASE MainLoads
      BY <2>1 DEF MainLoads, Loaded, threadVars
    <2>2. CASE MainGauges
      BY <1>1, <2>2 DEF MainGauges, SetInflight, Loaded
    <2>3. CASE Read("main") \/ Fill("main")
      BY <1>1, <2>3 DEF Read, Fill, Query, SetCmsSite, Loaded, gaugeVars, threadVars
    <2>4. CASE \/ Admit \/ Stop \/ Drain \/ JoinTimer \/ JoinSites \/ FinalPass
               \/ FinalSnapshot \/ FinalPublish
      <3>1. seen' = seen /\ mpc \notin {"gauge", "finalGauge"}
        BY <2>4 DEF Admit, Stop, Drain, JoinTimer, JoinSites, FinalPass, FinalSnapshot,
                    FinalPublish, gaugeVars
      <3> QED
        BY <1>1, <3>1 DEF Loaded
    <2> QED
      BY <1>5, <2>1, <2>2, <2>3, <2>4 DEF Main
  <1> QED
    BY <1>2, <1>3, <1>4, <1>5 DEF Next

-----------------------------------------------------------------------------
(* The sites. *)

\* What every step makes sure of.
Sited ==
    /\ SiteTypes' /\ Apart' /\ Asked'
    /\ \A d \in Hosts : endpoints[d].site # NoSite => endpoints'[d].site = endpoints[d].site

\* A pass begins with what has no site.
LEMMA PassBegins ==
    ASSUME SiteTypes, Apart, Asked, NEW f \in Fillers, PassDone(f), StartPass(f),
           UNCHANGED endpoints
    PROVE  /\ work' \in [Fillers -> SUBSET Hosts] /\ Asked'
           /\ \A g \in Fillers \ {f} : PassDone(g) => PassDone(g)'
           /\ UNCHANGED <<cache, found>>
  <1>1. /\ work' = [work EXCEPT ![f] = DataServersMissingSite]
        /\ UNCHANGED <<cache, found>>
    BY DEF StartPass
  <1>2. DataServersMissingSite \in SUBSET Hosts
    BY DEF DataServersMissingSite
  <1>3. /\ work' \in [Fillers -> SUBSET Hosts] /\ work'[f] = DataServersMissingSite
        /\ \A g \in Fillers \ {f} : work'[g] = work[g]
    BY <1>1, <1>2 DEF SiteTypes
  <1>4. \A d \in work'[f] : endpoints[d].site = NoSite
    BY <1>3 DEF DataServersMissingSite
  <1>5. found[f] = NothingFound
    BY DEF PassDone
  <1>6. Asked'
    BY <1>1, <1>3, <1>4, <1>5 DEF Asked
  <1>7. \A g \in Fillers \ {f} : PassDone(g) => PassDone(g)'
    BY <1>1, <1>3 DEF PassDone
  <1> QED
    BY <1>1, <1>3, <1>6, <1>7

\* A query takes a server from its pass and finds it a site, or none.
LEMMA QueryFacts ==
    ASSUME SiteTypes, Asked, NEW f \in Fillers, NEW a \in Answers, Query(f, a)
    PROVE  \E d \in work[f], site \in Names \cup {MapSite, NoSite} :
              /\ found[f] = NothingFound
              /\ work' = [work EXCEPT ![f] = work[f] \ {d}]
              /\ found' = [found EXCEPT ![f] = IF site = NoSite THEN NothingFound
                                               ELSE [server |-> d, site |-> site]]
              /\ DOMAIN cache' \subseteq Hosts /\ \A e \in DOMAIN cache' : cache'[e] \in Names
              /\ UNCHANGED <<endpoints, spc, mpc>>
  <1> DEFINE R(d) == IF SitenameQuery THEN Resolve(d, a)
                     ELSE [site |-> NoSite, cache |-> cache]
             S(d) == IF R(d).site = NoSite /\ d \in Mapped THEN MapSite ELSE R(d).site
  <1>1. PICK d \in work[f] :
            /\ found[f] = NothingFound /\ cache' = R(d).cache
            /\ work' = [work EXCEPT ![f] = work[f] \ {d}]
            /\ found' = [found EXCEPT ![f] = IF S(d) = NoSite THEN NothingFound
                                             ELSE [server |-> d, site |-> S(d)]]
            /\ UNCHANGED <<endpoints, spc, mpc>>
    BY DEF Query, registryVars, threadVars
  <1>2. d \in Hosts /\ a \in Names \cup {NoSite}
    BY DEF SiteTypes, Answers
  <1>3. CASE SitenameQuery /\ d \notin DOMAIN cache /\ a # NoSite
    <2>1. R(d).site = a /\ cache' = Cached(d, a)
      BY <1>1, <1>3 DEF Resolve
    <2>2. /\ DOMAIN cache' = DOMAIN cache \cup {d}
          /\ \A e \in DOMAIN cache' : cache'[e] = IF e = d THEN a ELSE cache[e]
      BY <2>1 DEF Cached
    <2>3. S(d) \in Names \cup {MapSite, NoSite}
      BY <1>2, <2>1
    <2> HIDE DEF S
    <2> QED
      BY <1>1, <1>2, <1>3, <2>2, <2>3 DEF SiteTypes
  <1>4. CASE ~(SitenameQuery /\ d \notin DOMAIN cache /\ a # NoSite)
    <2>1. R(d).site \in Names \cup {NoSite} /\ cache' = cache
      BY <1>1, <1>2, <1>4 DEF Resolve, SiteTypes
    <2>2. S(d) \in Names \cup {MapSite, NoSite}
      BY <2>1
    <2> HIDE DEF S
    <2> QED
      BY <1>1, <2>1, <2>2 DEF SiteTypes
  <1> QED
    BY <1>3, <1>4

LEMMA SiteStep ==
    ASSUME Inv, [Next]_vars
    PROVE  Sited
  <1> SiteTypes /\ Apart /\ Asked
    BY DEF Inv
  <1> Fillers = {"sites", "main"}
    BY DEF Fillers
  <1>1. CASE UNCHANGED <<endpoints, cache, work, found, spc, mpc>>
    BY <1>1 DEF Sited, SiteTypes, Apart, Asked, PassDone
  <1>2. ASSUME NEW x \in Sessions, Attribute(x), UNCHANGED <<cache, work, found, spc, mpc>>
        PROVE  Sited
    <2>1. PICK r \in Result : r = result[x]
      BY DEF Inv, SessionTypes
    <2>2. endpoints' = [endpoints EXCEPT ![r.server] = AttributeLocked(endpoints[r.server], r)]
      BY <1>2, <2>1 DEF Attribute
    <2>3. r.server \in Servers /\ r.bytes \in Nat
      BY MetricsOptions DEF Result
    <2>4. ASSUME NEW e \in Endpoint
          PROVE  AttributeLocked(e, r) \in Endpoint /\ AttributeLocked(e, r).site = e.site
      <3> DEFINE b == IF r.ok THEN e.bytes + r.bytes ELSE e.bytes
                 k == IF r.ok THEN e.ok + 1 ELSE e.ok
                 l == IF r.ok THEN e.fail ELSE e.fail + 1
      <3>1. b \in Nat /\ k \in Nat /\ l \in Nat
        BY <2>3 DEF Endpoint
      <3>2. AttributeLocked(e, r)
              = [e EXCEPT !.known = TRUE, !.bytes = b, !.ok = k, !.fail = l]
        BY DEF AttributeLocked, Endpoint
      <3> HIDE DEF b, k, l
      <3> QED
        BY <3>1, <3>2 DEF Endpoint
    <2>5. endpoints[r.server] \in Endpoint
      BY <2>3 DEF SiteTypes
    <2>6. /\ endpoints' \in [Servers -> Endpoint]
          /\ \A d \in Servers : endpoints'[d].site = endpoints[d].site
      <3> DEFINE e == AttributeLocked(endpoints[r.server], r)
      <3>1. e \in Endpoint /\ e.site = endpoints[r.server].site
        BY <2>4, <2>5
      <3>2. endpoints' = [endpoints EXCEPT ![r.server] = e]
        BY <2>2
      <3> HIDE DEF e
      <3> QED
        BY <2>3, <3>1, <3>2 DEF SiteTypes
    <2>7. \A f \in Fillers : work[f] \subseteq Servers /\ found[f].server \in Servers
      BY DEF SiteTypes, Servers
    <2>8. SiteTypes'
      BY <1>2, <2>6 DEF SiteTypes
    <2>9. Apart'
      BY <1>2 DEF Apart, PassDone
    <2>10. Asked'
      BY <1>2, <2>6, <2>7 DEF Asked
    <2> QED
      BY <2>6, <2>8, <2>9, <2>10 DEF Sited, Servers
  <1>3. ASSUME Admit \/ MainGauges \/ Stop \/ Drain \/ JoinTimer \/ FinalSnapshot
                  \/ FinalPublish,
               UNCHANGED <<endpoints, cache, work, found, spc>>
        PROVE  Sited
    <2>1. /\ mpc' \in {"admit", "gauge", "drain", "joinTimer", "joinSites", "fill", "snapshot",
                       "done"}
          /\ mpc' \in AfterJoin => mpc \in AfterJoin
          /\ PassDone("main") \/ mpc' = "filling"
      BY <1>3 DEF Inv, Loaded, Apart, AfterJoin, Admit, MainGauges, SetInflight, Stop, Drain,
                  JoinTimer, FinalSnapshot, FinalPublish
    <2>2. SiteTypes' /\ Asked'
      BY <1>3, <2>1 DEF SiteTypes, Asked
    <2>3. Apart'
      BY <1>3, <2>1 DEF Apart, PassDone
    <2> QED
      BY <1>3, <2>2, <2>3 DEF Sited
  <1>4. CASE SitesPass
    <2>1. /\ spc = "sleep" /\ spc' = "filling" /\ mpc' = mpc /\ StartPass("sites")
          /\ UNCHANGED endpoints
      BY <1>4 DEF SitesPass, registryVars
    <2>2. PassDone("sites") /\ mpc \notin AfterJoin
      BY <2>1 DEF Apart
    <2>3. /\ work' \in [Fillers -> SUBSET Hosts] /\ Asked'
          /\ PassDone("main") => PassDone("main")'
          /\ UNCHANGED <<cache, found>>
      BY <2>1, <2>2, PassBegins
    <2>4. SiteTypes'
      BY <2>1, <2>3 DEF SiteTypes
    <2>5. Apart'
      BY <2>1, <2>2, <2>3 DEF Apart
    <2> QED
      BY <2>1, <2>3, <2>4, <2>5 DEF Sited
  <1>5. CASE SitesSleep
    <2>1. /\ spc = "filling" /\ PassDone("sites") /\ spc' = "sleep"
          /\ UNCHANGED <<endpoints, cache, work, found, mpc>>
      BY <1>5 DEF SitesSleep, registryVars, siteVars
    <2>2. SiteTypes' /\ Asked' /\ Apart'
      BY <2>1 DEF SiteTypes, Asked, Apart, PassDone
    <2> QED
      BY <2>1, <2>2 DEF Sited
  <1>6. CASE JoinSites
    <2>1. /\ mpc = "joinSites" /\ spc # "filling" /\ spc' = "stopped" /\ mpc' = "finalGauge"
          /\ UNCHANGED <<endpoints, cache, work, found>>
      BY <1>6 DEF JoinSites, registryVars, siteVars
    <2>2. SiteTypes' /\ Asked' /\ Apart'
      BY <2>1 DEF SiteTypes, Asked, Apart, PassDone
    <2> QED
      BY <2>1, <2>2 DEF Sited
  <1>7. CASE FinalPass
    <2>1. /\ mpc = "fill" /\ mpc' = "filling" /\ spc' = spc /\ StartPass("main")
          /\ UNCHANGED endpoints
      BY <1>7 DEF FinalPass, registryVars
    <2>2. PassDone("main") /\ PassDone("sites") /\ spc = "stopped"
      BY <2>1 DEF Apart, AfterJoin
    <2>3. /\ work' \in [Fillers -> SUBSET Hosts] /\ Asked'
          /\ PassDone("sites") => PassDone("sites")'
          /\ UNCHANGED <<cache, found>>
      BY <2>1, <2>2, PassBegins
    <2>4. SiteTypes'
      BY <2>1, <2>3 DEF SiteTypes
    <2>5. Apart'
      BY <2>1, <2>2, <2>3 DEF Apart
    <2> QED
      BY <2>1, <2>3, <2>4, <2>5 DEF Sited
  <1>8. ASSUME NEW f \in Fillers, NEW a \in Answers, Query(f, a)
        PROVE  Sited
    <2>1. PICK d \in work[f], site \in Names \cup {MapSite, NoSite} :
              /\ found[f] = NothingFound
              /\ work' = [work EXCEPT ![f] = work[f] \ {d}]
              /\ found' = [found EXCEPT ![f] = IF site = NoSite THEN NothingFound
                                               ELSE [server |-> d, site |-> site]]
              /\ DOMAIN cache' \subseteq Hosts /\ \A e \in DOMAIN cache' : cache'[e] \in Names
              /\ UNCHANGED <<endpoints, spc, mpc>>
      BY <1>8, QueryFacts
    <2>2. d \in Hosts /\ d # Unknown /\ d \in Servers
      BY MetricsOptions DEF SiteTypes, Servers
    <2>3. /\ work' \in [Fillers -> SUBSET Hosts]
          /\ work'[f] = work[f] \ {d} /\ \A g \in Fillers \ {f} : work'[g] = work[g]
      BY <2>1 DEF SiteTypes
    <2>4. PICK n \in [server : Servers, site : Names \cup {MapSite, NoSite}] :
              /\ n = NothingFound \/ n.server = d
              /\ found' = [found EXCEPT ![f] = n]
      BY <2>1, <2>2 DEF NothingFound, Servers
    <2>5. /\ found' \in [Fillers -> [server : Servers, site : Names \cup {MapSite, NoSite}]]
          /\ found'[f] = n /\ \A g \in Fillers \ {f} : found'[g] = found[g]
      BY <2>4 DEF SiteTypes
    <2>6. SiteTypes'
      BY <2>1, <2>3, <2>5 DEF SiteTypes
    <2>7. endpoints[d].site = NoSite
      BY DEF Asked
    <2>8. Asked'
      BY <2>1, <2>2, <2>3, <2>4, <2>5, <2>7 DEF Asked
    <2>9. ~PassDone(f) /\ \A g \in Fillers \ {f} : PassDone(g) => PassDone(g)'
      BY <2>3, <2>5 DEF PassDone
    <2>10. Apart'
      BY <2>1, <2>9 DEF Apart
    <2> QED
      BY <2>1, <2>6, <2>8, <2>10 DEF Sited
  <1>9. ASSUME NEW f \in Fillers, SetCmsSite(f)
        PROVE  Sited
    <2>1. PICK n \in [server : Servers, site : Names \cup {MapSite, NoSite}] : n = found[f]
      BY DEF SiteTypes
    <2>2. /\ n # NothingFound /\ n.server \in Hosts \ work[f]
          /\ endpoints[n.server].site = NoSite
      BY <1>9, <2>1 DEF SetCmsSite, Asked
    <2>3. /\ endpoints' = [endpoints EXCEPT ![n.server].site = n.site]
          /\ found' = [found EXCEPT ![f] = NothingFound]
          /\ UNCHANGED <<cache, work, spc, mpc>>
      BY <1>9, <2>1 DEF SetCmsSite, threadVars
    <2>4. /\ endpoints' \in [Servers -> Endpoint]
          /\ \A d \in Servers \ {n.server} : endpoints'[d] = endpoints[d]
      <3>1. [endpoints[n.server] EXCEPT !.site = n.site] \in Endpoint
        BY DEF SiteTypes, Endpoint
      <3> QED
        BY <2>3, <3>1 DEF SiteTypes
    <2>5. /\ found' \in [Fillers -> [server : Servers, site : Names \cup {MapSite, NoSite}]]
          /\ found'[f] = NothingFound /\ \A g \in Fillers \ {f} : found'[g] = found[g]
      BY <2>3 DEF SiteTypes, NothingFound, Servers
    <2>6. SiteTypes'
      BY <2>3, <2>4, <2>5 DEF SiteTypes
    <2>7. \A g \in Fillers \ {f} : PassDone(g) /\ PassDone(g)'
      <3>1. ~PassDone(f)
        BY <2>1, <2>2 DEF PassDone
      <3>2. \A g \in Fillers \ {f} : PassDone(g)
        BY <3>1 DEF Apart, AfterJoin
      <3> QED
        BY <2>3, <2>5, <3>2 DEF PassDone
    <2>8. Asked'
      <3>1. \A d \in work[f] : endpoints'[d].site = NoSite
        BY <2>2, <2>4 DEF Asked, SiteTypes, Servers
      <3> QED
        BY <2>3, <2>5, <2>7, <3>1 DEF Asked, PassDone
    <2>9. Apart'
      <3>1. ~PassDone(f)
        BY <2>1, <2>2 DEF PassDone
      <3> QED
        BY <2>3, <2>7, <3>1 DEF Apart
    <2> QED
      BY <2>2, <2>4, <2>6, <2>8, <2>9 DEF Sited, Servers
  <1> QED
    BY <1>1, <1>2, <1>3, <1>4, <1>5, <1>6, <1>7, <1>8, <1>9, SiteFootprint

-----------------------------------------------------------------------------
(* The snapshots. *)

LEMMA SnapStep ==
    ASSUME Inv, [Next]_vars
    PROVE  SnapTypes'
  <1> SnapTypes /\ link \in [Counters -> Nat] /\ endpoints \in [Servers -> Endpoint]
      /\ gauge \in Nat
    BY Finite DEF Inv, SessionTypes, SiteTypes, Levels, Numbers
  <1>1. CASE UNCHANGED <<toRead, snap, published, taken, tpc, drained>>
    BY <1>1 DEF SnapTypes
  <1>2. CASE TimerLoads \/ JoinTimer
    BY <1>2 DEF SnapTypes, TimerLoads, JoinTimer, snapVars
  <1>3. CASE TimerGauges \/ FinalSnapshot
    BY <1>3 DEF SnapTypes, TimerGauges, FinalSnapshot, Readers
  <1>4. CASE TimerPublishes \/ FinalPublish
    <2>1. published' \in Snapshots
      BY <1>4 DEF SnapTypes, TimerPublishes, FinalPublish, Readers
    <2>2. taken' \in 0 .. MaxSnapshots
      <3>1. CASE TimerPublishes
        <4>1. taken < MaxSnapshots /\ taken' = taken + 1
          BY <3>1 DEF SnapTypes, TimerPublishes
        <4> QED
          BY <4>1, MetricsOptions DEF SnapTypes
      <3>2. CASE FinalPublish
        BY <3>2 DEF SnapTypes, FinalPublish
      <3> QED
        BY <1>4, <3>1, <3>2
    <2> QED
      BY <1>4, <2>1, <2>2 DEF SnapTypes, TimerPublishes, FinalPublish
  <1>5. ASSUME NEW r \in Readers, Read(r) PROVE SnapTypes'
    <2>1. PICK c \in toRead[r] :
            /\ snap' = [snap EXCEPT ![r] =
                    CASE c \in Counters -> [snap[r] EXCEPT !.counters[c] = link[c]]
                      [] c = "gauge"     -> [snap[r] EXCEPT !.gauge = gauge]
                      [] c = "endpoints" -> [snap[r] EXCEPT !.endpoints = endpoints]]
            /\ toRead' = [toRead EXCEPT ![r] = toRead[r] \ {c}]
            /\ UNCHANGED <<published, taken, tpc, drained>>
      BY <1>5 DEF Read, threadVars
    <2>2. c \in Parts /\ snap[r] \in Snapshots
      BY DEF SnapTypes
    <2>3. CASE c \in Counters
      BY <2>1, <2>2, <2>3 DEF SnapTypes, Snapshots
    <2>4. CASE c = "gauge"
      BY <2>1, <2>2, <2>4 DEF SnapTypes, Snapshots, Counters
    <2>5. CASE c = "endpoints"
      BY <2>1, <2>2, <2>5 DEF SnapTypes, Snapshots, Counters
    <2> QED
      BY <2>2, <2>3, <2>4, <2>5 DEF Parts
  <1>6. CASE Drain
    BY <1>6 DEF SnapTypes, Drain, snapVars
  <1> QED
    BY <1>1, <1>2, <1>3, <1>4, <1>5, <1>6, SnapFootprint

-----------------------------------------------------------------------------
(* The drain and the final snapshot. *)

LEMMA MainFootprint ==
    ASSUME [Next]_vars
    PROVE  \/ UNCHANGED <<mpc, drained>>
           \/ /\ drained' = drained
              /\ \/ Admit \/ MainGauges \/ Stop \/ JoinTimer \/ JoinSites \/ FinalPass
                 \/ FinalSnapshot \/ FinalPublish
           \/ Drain
  <1>1. CASE UNCHANGED vars
    BY <1>1 DEF vars, threadVars
  <1>2. ASSUME NEW x \in Sessions, Callback(x)
        PROVE  UNCHANGED <<mpc, drained>>
    BY <1>2 DEF Callback, SessionEnds, Count, Attribute, Unlock, Leave, CallbackLoads,
                CallbackGauges, threadVars
  <1>3. CASE Timer \/ SiteThread
    BY <1>3 DEF Timer, TimerLoads, TimerGauges, TimerPublishes, Read, SiteThread, SitesPass,
                SitesSleep, Fill, Query, SetCmsSite, threadVars
  <1>4. CASE Main
    BY <1>4 DEF Main, Admit, MainLoads, MainGauges, Stop, Drain, JoinTimer, JoinSites,
                FinalPass, FinalSnapshot, FinalPublish, Read, Fill, Query, SetCmsSite,
                threadVars
  <1> QED
    BY <1>1, <1>2, <1>3, <1>4 DEF Next

\* With live at zero no callback is but between its lock and its end; with the
\* mutex taken after that, none counts any more.
LEMMA Calm ==
    ASSUME Inv, drained, [Next]_vars
    PROVE  /\ Alive' = {} /\ \A x \in Sessions : ~Attribute(x)
           /\ mpc \in {"filling", "snapshot", "done"} =>
                  link' = link /\ \A x \in Sessions : stage'[x].at = stage[x].at
  <1> SessionTypes /\ Counting /\ Alive = {} /\ mpc # "admit"
    BY DEF Inv, Drains
  <1>1. ASSUME NEW x \in Sessions
        PROVE  stage[x].at \in {"new", "locked", "unlocked"}
               /\ (stage[x].at # "new" => stage[x].left)
    BY DEF Alive, Counting
  <1>2. \A x \in Sessions : ~SessionEnds(x) /\ ~Attribute(x) /\ ~Leave(x)
    BY <1>1 DEF SessionEnds, Attribute, Leave
  <1>3. ~Admit
    BY DEF Admit
  <1>4. mpc \in {"filling", "snapshot", "done"} =>
            \A x \in Sessions : ~Count(x) /\ ~Unlock(x)
    <2>1. mpc \in {"filling", "snapshot", "done"} =>
              \A x \in Sessions : stage[x].at \in {"new", "unlocked"} /\ todo[x] = {}
      BY DEF Inv, Drains, Counting
    <2> QED
      BY <2>1 DEF Count, Unlock, Counting
  <1>5. CASE UNCHANGED <<stage, result, todo, link, owner, live>>
    BY <1>2, <1>5 DEF Alive
  <1>6. ASSUME NEW x \in Sessions, Count(x)
        PROVE  stage' = stage
    BY <1>6 DEF Count
  <1>7. ASSUME NEW x \in Sessions, Unlock(x) \/ CallbackGauges(x)
        PROVE  /\ Alive' = {}
               /\ CallbackGauges(x) =>
                      link' = link /\ \A y \in Sessions : stage'[y].at = stage[y].at
    <2>1. /\ \A y \in Sessions \ {x} : stage'[y] = stage[y]
          /\ stage'[x].left = stage[x].left
          /\ CallbackGauges(x) => stage'[x].at = stage[x].at /\ link' = link
      BY <1>7 DEF Unlock, CallbackGauges, SessionTypes, Stages, registryVars
    <2>2. stage[x].at = "new" => stage'[x].at = "new"
      BY <1>7, <2>1 DEF Unlock, Counting
    <2> QED
      BY <1>1, <2>1, <2>2 DEF Alive
  <1>8. ASSUME NEW x \in Sessions,
               \/ SessionEnds(x) \/ Count(x) \/ Attribute(x) \/ Unlock(x) \/ Leave(x)
               \/ CallbackGauges(x)
        PROVE  /\ Alive' = {}
               /\ mpc \in {"filling", "snapshot", "done"} =>
                      link' = link /\ \A y \in Sessions : stage'[y].at = stage[y].at
    <2>1. CASE Count(x)
      BY <1>4, <1>6, <2>1 DEF Alive
    <2>2. CASE Unlock(x) \/ CallbackGauges(x)
      BY <1>4, <1>7, <2>2
    <2> QED
      BY <1>2, <1>8, <2>1, <2>2
  <1> QED
    BY <1>2, <1>3, <1>5, <1>8, SessionFootprint

\* No site is given any more when both passes are over.
LEMMA EndpointsStay ==
    ASSUME Inv, drained, mpc \in {"snapshot", "done"}, [Next]_vars
    PROVE  endpoints' = endpoints
  <1>1. \A f \in Fillers : PassDone(f)
    BY DEF Inv, Apart, AfterJoin, Fillers
  <1>2. \A f \in Fillers : ~SetCmsSite(f)
    BY <1>1 DEF PassDone, SetCmsSite
  <1>3. ASSUME NEW f \in Fillers, NEW a \in Answers, Query(f, a)
        PROVE  endpoints' = endpoints
    BY <1>3 DEF Query, registryVars
  <1>4. CASE SitesPass \/ SitesSleep \/ JoinSites \/ FinalPass
    BY <1>4 DEF SitesPass, SitesSleep, JoinSites, FinalPass, registryVars
  <1> QED
    BY <1>2, <1>3, <1>4, Calm, SiteFootprint

LEMMA DrainStep ==
    ASSUME Inv, [Next]_vars
    PROVE  Drains'
  <1> DEFINE Late == {"filling", "snapshot", "done"}
             Read1 == \A c \in Counters \ toRead["main"] : snap["main"].counters[c] = link[c]
             Read2 == "endpoints" \notin toRead["main"] => snap["main"].endpoints = endpoints
  <1> SnapTypes /\ Drains /\ "main" \in Readers /\ "timer" \in Readers
    BY DEF Inv, Readers
  <1>1. \/ UNCHANGED <<toRead, snap, published, tpc>>
        \/ TimerLoads \/ TimerGauges \/ TimerPublishes \/ Read("timer")
        \/ Read("main") \/ JoinTimer \/ FinalSnapshot \/ FinalPublish
    BY SnapFootprint DEF Drain, Readers, snapVars
  <1>2. mpc' \in {"joinSites"} \cup AfterJoin => tpc' = "stopped"
    <2>1. CASE mpc \in {"joinSites"} \cup AfterJoin
      BY <1>1, <2>1 DEF Drains, TimerLoads, TimerGauges, TimerPublishes, Read, JoinTimer,
                        FinalSnapshot, FinalPublish, AfterJoin, threadVars
    <2>2. CASE mpc \notin {"joinSites"} \cup AfterJoin
      <3>1. mpc' \in {"joinSites"} \cup AfterJoin => JoinTimer
        BY <2>2, MainFootprint
           DEF Inv, Loaded, Admit, MainGauges, SetInflight, Stop, Drain, JoinSites, FinalPass,
               FinalSnapshot, FinalPublish, AfterJoin
      <3> QED
        BY <3>1 DEF JoinTimer
    <2> QED
      BY <2>1, <2>2
  <1>3. mpc' = "done" => toRead'["main"] = {} /\ (mpc = "done" \/ FinalPublish)
    <2>1. mpc' = "done" => mpc = "done" \/ FinalPublish
      BY MainFootprint DEF Admit, MainGauges, Stop, Drain, JoinTimer, JoinSites, FinalPass,
                           FinalSnapshot
    <2>2. CASE FinalPublish
      BY <2>2 DEF FinalPublish
    <2>3. CASE mpc = "done"
      <3>1. toRead["main"] = {} /\ ~FinalSnapshot
        BY <2>3 DEF Drains, FinalSnapshot
      <3>2. ~Read("main")
        BY <3>1 DEF Read
      <3>3. toRead \in [Readers -> SUBSET Parts] /\ "main" \in Readers /\ "main" # "timer"
        BY DEF SnapTypes
      <3>4. CASE TimerGauges
        <4>1. toRead' = [toRead EXCEPT !["timer"] = Parts]
          BY <3>4 DEF TimerGauges
        <4> QED
          BY ONLY <2>1, <2>3, <3>1, <3>3, <4>1
      <3>5. CASE Read("timer")
        <4>1. \E S : toRead' = [toRead EXCEPT !["timer"] = S]
          BY <3>5 DEF Read
        <4> QED
          BY ONLY <2>1, <2>3, <3>1, <3>3, <4>1
      <3>6. CASE UNCHANGED toRead
        BY <2>3, <3>1, <3>6
      <3> QED
        BY <1>1, <3>1, <3>2, <3>4, <3>5, <3>6
           DEF TimerLoads, TimerPublishes, JoinTimer, FinalPublish, snapVars
    <2> QED
      BY <2>1, <2>2, <2>3
  <1>4. CASE ~drained'
    BY <1>2, <1>3, <1>4 DEF Drains
  <1>5. CASE drained' /\ ~drained
    <2>1. Drain
      BY <1>5, MainFootprint
    <2>2. live = 0 /\ mpc' = "joinTimer" /\ stage' = stage
      BY <1>5, <2>1 DEF Drain, sessionVars
    <2>3. Alive = {}
      BY <2>2, Finite, FS_EmptySet DEF Inv, Levels
    <2>4. Alive' = {}
      BY <2>2, <2>3 DEF Alive
    <2> QED
      BY <1>2, <2>2, <2>4 DEF Drains, AfterJoin
  <1>6. CASE drained' /\ drained
    <2>1. Alive' = {} /\ Alive = {} /\ mpc \notin {"admit", "gauge", "drain"}
      BY <1>6, Calm DEF Drains
    <2>2. /\ mpc' \notin {"admit", "gauge", "drain"}
          /\ mpc' \in Late => mpc \in Late \/ FinalPass
          /\ mpc' \in {"snapshot", "done"} => mpc \in {"snapshot", "done"} \/ FinalSnapshot
      BY <2>1, MainFootprint
         DEF Inv, Loaded, Admit, MainGauges, SetInflight, Stop, Drain, JoinTimer, JoinSites,
             FinalPass, FinalSnapshot, FinalPublish
    <2>3. mpc' \in Late => \A x \in Sessions : stage'[x].at \in {"new", "unlocked"}
      <3>1. CASE mpc \in Late
        BY <1>6, <3>1, Calm DEF Drains
      <3>2. CASE FinalPass
        <4>1. owner = Nobody /\ stage' = stage
          BY <3>2 DEF FinalPass, StartPass, sessionVars
        <4>2. \A x \in Sessions : stage[x].at # "locked"
          BY <4>1, MetricsOptions DEF Inv, Counting
        <4> QED
          BY <2>1, <4>1, <4>2 DEF Inv, Counting, Alive
      <3> QED
        BY <2>2, <3>1, <3>2
    <2>4. mpc' \in {"snapshot", "done"} => Read1' /\ Read2'
      <3>1. CASE FinalSnapshot
        <4>1. toRead'["main"] = Parts
          BY <3>1 DEF FinalSnapshot, SnapTypes
        <4> QED
          BY <4>1 DEF Parts
      <3>2. CASE mpc \in {"snapshot", "done"}
        <4>1. link' = link /\ endpoints' = endpoints /\ Read1 /\ Read2
          BY <1>6, <3>2, Calm, EndpointsStay DEF Drains
        <4>2. CASE Read("main")
          <5>1. PICK c \in toRead["main"] :
                  /\ snap' = [snap EXCEPT !["main"] =
                        CASE c \in Counters -> [snap["main"] EXCEPT !.counters[c] = link[c]]
                          [] c = "gauge"     -> [snap["main"] EXCEPT !.gauge = gauge]
                          [] c = "endpoints" -> [snap["main"] EXCEPT !.endpoints = endpoints]]
                  /\ toRead' = [toRead EXCEPT !["main"] = toRead["main"] \ {c}]
            BY <4>2 DEF Read
          <5>2. c \in Parts /\ snap["main"] \in Snapshots
            BY DEF SnapTypes
          <5>3. toRead'["main"] = toRead["main"] \ {c}
            <6>1. toRead \in [Readers -> SUBSET Parts] /\ "main" \in Readers
              BY DEF SnapTypes
            <6>2. toRead' = [toRead EXCEPT !["main"] = toRead["main"] \ {c}]
              BY <5>1
            <6> QED
              BY ONLY <6>1, <6>2
          <5>4. CASE c \in Counters
            <6>1. snap'["main"] = [snap["main"] EXCEPT !.counters[c] = link[c]]
              <7>1. c # "gauge" /\ c # "endpoints"
                BY <5>4 DEF Counters
              <7>2. snap' = [snap EXCEPT !["main"] =
                                 [snap["main"] EXCEPT !.counters[c] = link[c]]]
                BY <5>1, <5>4, <7>1
              <7>3. snap \in [Readers -> Snapshots] /\ "main" \in Readers
                BY DEF SnapTypes
              <7> QED
                BY ONLY <7>2, <7>3
            <6>2. /\ snap'["main"].endpoints = snap["main"].endpoints
                  /\ snap'["main"].counters = [snap["main"].counters EXCEPT ![c] = link[c]]
              BY <5>2, <6>1 DEF Snapshots
            <6>3. c # "endpoints" /\ snap["main"].counters \in [Counters -> Nat]
              BY <5>2, <5>4 DEF Counters, Snapshots
            <6> QED
              BY <4>1, <5>3, <5>4, <6>2, <6>3
          <5>5. CASE c = "gauge"
            <6>1. snap'["main"] = [snap["main"] EXCEPT !.gauge = gauge]
              BY <5>1, <5>5 DEF SnapTypes, Counters
            <6>2. /\ snap'["main"].endpoints = snap["main"].endpoints
                  /\ snap'["main"].counters = snap["main"].counters
              BY <5>2, <6>1 DEF Snapshots
            <6>3. c # "endpoints" /\ c \notin Counters
              BY <5>5 DEF Counters
            <6> QED
              BY <4>1, <5>3, <6>2, <6>3
          <5>6. CASE c = "endpoints"
            <6>1. snap'["main"] = [snap["main"] EXCEPT !.endpoints = endpoints]
              BY <5>1, <5>6 DEF SnapTypes, Counters
            <6>2. /\ snap'["main"].endpoints = endpoints
                  /\ snap'["main"].counters = snap["main"].counters
              BY <5>2, <6>1 DEF Snapshots
            <6>3. c \notin Counters
              BY <5>6 DEF Counters
            <6> QED
              BY <4>1, <5>3, <6>2, <6>3
          <5> QED
            BY <5>2, <5>4, <5>5, <5>6 DEF Parts
        <4>3. CASE ~Read("main")
          <5>1. ~FinalSnapshot
            BY <3>2 DEF FinalSnapshot
          <5>2. snap'["main"] = snap["main"] /\ toRead'["main"] = toRead["main"]
            BY <1>1, <4>3, <5>1 DEF SnapTypes, TimerLoads, TimerGauges, TimerPublishes, Read,
                                    JoinTimer, FinalPublish, snapVars, Readers
          <5> QED
            BY <4>1, <5>2
        <4> QED
          BY <4>2, <4>3
      <3> QED
        BY <2>2, <3>1, <3>2
    <2>5. mpc' = "done" => published' = snap'["main"]
      <3>1. CASE FinalPublish
        BY <3>1 DEF FinalPublish
      <3>2. CASE mpc = "done"
        <4>1. tpc = "stopped" /\ toRead["main"] = {} /\ published = snap["main"]
          BY <1>6, <3>2 DEF Drains, AfterJoin
        <4>2. snap'["main"] = snap["main"] /\ published' = published
          BY <1>1, <3>2, <4>1 DEF SnapTypes, TimerLoads, TimerGauges, TimerPublishes, Read,
                                  JoinTimer, FinalSnapshot, FinalPublish, snapVars, Readers
        <4> QED
          BY <4>1, <4>2
      <3> QED
        BY <1>3, <3>1, <3>2
    <2> QED
      BY <1>2, <1>3, <2>1, <2>2, <2>3, <2>4, <2>5 DEF Drains
  <1> QED
    BY <1>4, <1>5, <1>6

-----------------------------------------------------------------------------
(* The theorems. *)

\* The inductive invariant holds in every reachable state.
THEOREM MetricsInvariance == Spec => []Inv
  <1>1. Inv /\ [Next]_vars => Inv'
    BY SessionStep, LevelStep, LoadedStep, SiteStep, SnapStep, DrainStep DEF Inv, Sited, Levels
  <1> QED
    BY <1>1, InitInv, PTL DEF Spec

\* The registry keeps its types: live, unsigned in the code, is never
\* decremented below zero (run_command.cc), nor does the gauge show more than
\* the sessions there are.
THEOREM MetricsTypes == Spec => []TypeOK
  <1>1. Inv => TypeOK
    <2>1. ASSUME Inv PROVE TypeOK
      <3>1. live \in 0 .. Cardinality(Sessions) /\ gauge \in 0 .. Cardinality(Sessions)
            /\ seen \in [Sessions \cup Readers -> Nat \cup {NotLoaded}]
        BY <2>1, Finite DEF Inv, Levels, Numbers
      <3> QED
        BY <2>1, <3>1 DEF Inv, SessionTypes, SiteTypes, SnapTypes, TypeOK
    <2> QED
      BY <2>1
  <1> QED
    BY <1>1, MetricsInvariance, PTL

\* SiteKept: whatever sites the map and the queries name for a server, and
\* whichever thread asks, the first that SetCmsSite records stays (metrics.cc
\* SetCmsSite, run_command.cc fill_cms_sites).
THEOREM SitesStay == Spec => SiteKept
  <1>1. Inv /\ [Next]_vars =>
            [\A d \in Hosts : endpoints[d].site # NoSite =>
                 endpoints'[d].site = endpoints[d].site]_vars
    BY SiteStep DEF Sited
  <1> QED
    BY <1>1, MetricsInvariance, PTL DEF Spec, SiteKept

\* After a complete drain every callback has counted what it had to, and the
\* final snapshot has the registry's last values, for the link and for every
\* server: what FinalSums sums up (metrics.cc Snapshot, run_command.cc's drain and
\* final snapshot).
Current ==
    mpc = "done" /\ drained =>
        /\ \A x \in Finished : stage[x].at = "unlocked" /\ todo[x] = {}
        /\ published.counters = link /\ published.endpoints = endpoints

THEOREM FinalIsCurrent == Spec => []Current
  <1>1. Inv => Current
    <2>1. ASSUME Inv, mpc = "done", drained
          PROVE  /\ \A x \in Finished : stage[x].at = "unlocked" /\ todo[x] = {}
                 /\ published.counters = link /\ published.endpoints = endpoints
      <3>1. \A x \in Finished : stage[x].at = "unlocked" /\ todo[x] = {}
        BY <2>1 DEF Inv, Drains, Counting, Finished
      <3>2. /\ toRead["main"] = {} /\ published = snap["main"]
            /\ \A c \in Counters \ toRead["main"] : snap["main"].counters[c] = link[c]
            /\ "endpoints" \notin toRead["main"] => snap["main"].endpoints = endpoints
        BY <2>1 DEF Inv, Drains
      <3>3. link \in [Counters -> Nat] /\ published.counters \in [Counters -> Nat]
        BY <2>1 DEF Inv, SessionTypes, SnapTypes, Snapshots
      <3> QED
        BY <3>1, <3>2, <3>3
    <2> QED
      BY <2>1 DEF Current
  <1> QED
    BY <1>1, MetricsInvariance, PTL

-----------------------------------------------------------------------------
(* What the counters sum up. *)

Reporting(x) == stage[x].at \in {"observing", "locked", "unlocked"}
Attributed(x) == stage[x].at \in {"locked", "unlocked"}

\* What each session has added to a counter of the link,
Counted(c) == [x \in Sessions |->
    IF Reporting(x) /\ c \in CountersOf(result[x]) \ todo[x]
    THEN Increment(result[x], c) ELSE 0]
LinkSums ==
    /\ \A x \in Sessions :
          /\ todo[x] \subseteq CountersOf(result[x])
          /\ stage[x].at = "live" => todo[x] = {}
    /\ \A c \in Counters : link[c] = Total(Counted(c), Sessions)

\* and to the counters of its server.
BytesGiven == [x \in Sessions |-> IF Attributed(x) /\ result[x].ok THEN result[x].bytes ELSE 0]
OksGiven == [x \in Sessions |-> IF Attributed(x) /\ result[x].ok THEN 1 ELSE 0]
FailsGiven == [x \in Sessions |-> IF Attributed(x) /\ ~result[x].ok THEN 1 ELSE 0]
BytesHeld == [d \in Servers |-> endpoints[d].bytes]
OksHeld == [d \in Servers |-> endpoints[d].ok]
FailsHeld == [d \in Servers |-> endpoints[d].fail]
ServerSums ==
    /\ Total(BytesHeld, Servers) = Total(BytesGiven, Sessions)
    /\ Total(OksHeld, Servers) = Total(OksGiven, Sessions)
    /\ Total(FailsHeld, Servers) = Total(FailsGiven, Sessions)

LEMMA FiniteServers == IsFiniteSet(Sessions) /\ IsFiniteSet(Servers)
  <1>1. IsFiniteSet(Sessions) /\ IsFiniteSet(Hosts)
    BY MetricsOptions
  <1> QED
    BY <1>1, FS_AddElement DEF Servers

LEMMA InitSums == Init => LinkSums /\ ServerSums
  <1> SUFFICES ASSUME Init PROVE LinkSums /\ ServerSums
    OBVIOUS
  <1>1. \A x \in Sessions : stage[x].at = "new" /\ todo[x] = {}
    BY DEF Init, Fresh
  <1>2. \A c \in Counters : link[c] = 0 /\ Total(Counted(c), Sessions) = 0
    <2> TAKE c \in Counters
    <2>1. \A x \in Sessions : Counted(c)[x] = 0
      BY <1>1 DEF Counted, Reporting
    <2> QED
      BY <2>1, FiniteServers, TotalZero DEF Init, Zero
  <1>3. \A x \in Sessions : BytesGiven[x] = 0 /\ OksGiven[x] = 0 /\ FailsGiven[x] = 0
    BY <1>1 DEF BytesGiven, OksGiven, FailsGiven, Attributed
  <1>4. \A d \in Servers : BytesHeld[d] = 0 /\ OksHeld[d] = 0 /\ FailsHeld[d] = 0
    BY DEF Init, Unseen, BytesHeld, OksHeld, FailsHeld
  <1>5. ServerSums
    BY <1>3, <1>4, FiniteServers, TotalZero DEF ServerSums
  <1> QED
    BY <1>1, <1>2, <1>5 DEF LinkSums

\* What a session adds are natural numbers.
LEMMA SummandTypes ==
    ASSUME SessionTypes, SiteTypes
    PROVE  /\ \A x \in Sessions : result[x].ok \in BOOLEAN /\ result[x].bytes \in Nat
                                  /\ result[x].server \in Servers
           /\ \A x \in Sessions, c \in Counters :
                 Increment(result[x], c) \in Nat /\ Counted(c)[x] \in Nat
           /\ \A x \in Sessions :
                 BytesGiven[x] \in Nat /\ OksGiven[x] \in {0, 1} /\ FailsGiven[x] \in {0, 1}
           /\ \A d \in Servers :
                 BytesHeld[d] \in Nat /\ OksHeld[d] \in Nat /\ FailsHeld[d] \in Nat
  <1>1. \A x \in Sessions : result[x].ok \in BOOLEAN /\ result[x].bytes \in Nat
                            /\ result[x].server \in Servers
    BY MetricsOptions DEF SessionTypes, Result
  <1>2. \A x \in Sessions, c \in Counters :
           Increment(result[x], c) \in Nat /\ Counted(c)[x] \in Nat
    BY <1>1 DEF Increment, Counted
  <1>3. \A x \in Sessions :
           BytesGiven[x] \in Nat /\ OksGiven[x] \in {0, 1} /\ FailsGiven[x] \in {0, 1}
    BY <1>1 DEF BytesGiven, OksGiven, FailsGiven
  <1>4. \A d \in Servers : endpoints[d] \in Endpoint
    BY DEF SiteTypes
  <1>5. \A d \in Servers :
           BytesHeld[d] \in Nat /\ OksHeld[d] \in Nat /\ FailsHeld[d] \in Nat
    BY <1>4 DEF BytesHeld, OksHeld, FailsHeld, Endpoint
  <1> QED
    BY <1>1, <1>2, <1>3, <1>5

\* and stay so.
LEMMA SummandTypesNext ==
    ASSUME SessionTypes', SiteTypes'
    PROVE  /\ \A x \in Sessions :
                 BytesGiven'[x] \in Nat /\ OksGiven'[x] \in {0, 1} /\ FailsGiven'[x] \in {0, 1}
           /\ \A d \in Servers :
                 BytesHeld'[d] \in Nat /\ OksHeld'[d] \in Nat /\ FailsHeld'[d] \in Nat
  <1>1. \A x \in Sessions : result'[x].ok \in BOOLEAN /\ result'[x].bytes \in Nat
    BY MetricsOptions DEF SessionTypes, Result
  <1>2. \A d \in Servers : endpoints'[d] \in Endpoint
    BY DEF SiteTypes
  <1> QED
    BY <1>1, <1>2 DEF BytesGiven, OksGiven, FailsGiven, BytesHeld, OksHeld, FailsHeld, Endpoint

\* The link's counters: only Count adds to one, and for what it takes off todo.
LEMMA LinkStep ==
    ASSUME Inv, LinkSums, [Next]_vars
    PROVE  LinkSums'
  <1> SessionTypes /\ SiteTypes /\ Counting
    BY DEF Inv
  <1>1. ASSUME \A y \in Sessions : Reporting(y)' <=> Reporting(y),
               \A y \in Sessions : stage'[y].at = "live" => todo[y] = {},
               UNCHANGED <<result, todo, link>>
        PROVE  LinkSums'
    <2>1. \A c \in Counters : Counted(c)' = Counted(c)
      BY <1>1 DEF Counted
    <2> QED
      BY <1>1, <2>1 DEF LinkSums
  <1>2. CASE UNCHANGED <<stage, result, todo, link, owner, live>>
    BY <1>1, <1>2 DEF LinkSums, Reporting
  <1>3. CASE Admit
    <2>1. PICK x \in Sessions : /\ stage[x].at = "new"
                                /\ stage' = [stage EXCEPT ![x].at = "live"]
                                /\ UNCHANGED <<result, todo, link>>
      BY <1>3 DEF Admit, registryVars
    <2>2. stage'[x].at = "live" /\ \A y \in Sessions \ {x} : stage'[y] = stage[y]
      BY <2>1 DEF SessionTypes, Stages
    <2>3. todo[x] = {}
      BY <2>1 DEF Counting
    <2> QED
      BY <1>1, <2>1, <2>2, <2>3 DEF LinkSums, Reporting
  <1>4. ASSUME NEW x \in Sessions, SessionEnds(x)
        PROVE  LinkSums'
    <2>1. /\ stage[x].at = "live" /\ todo' = [todo EXCEPT ![x] = CountersOf(result[x])]
          /\ stage' = [stage EXCEPT ![x].at = "observing"]
          /\ UNCHANGED <<result, link>>
      BY <1>4 DEF SessionEnds, registryVars
    <2>2. /\ stage'[x].at = "observing" /\ todo'[x] = CountersOf(result[x])
          /\ \A y \in Sessions \ {x} : stage'[y] = stage[y] /\ todo'[y] = todo[y]
      BY <2>1 DEF SessionTypes, Stages
    <2>3. \A c \in Counters, y \in Sessions : Counted(c)'[y] = Counted(c)[y]
      BY <2>1, <2>2 DEF Counted, Reporting
    <2>4. \A c \in Counters : Counted(c)' = Counted(c)
      BY <2>3 DEF Counted
    <2> QED
      BY <2>1, <2>2, <2>4 DEF LinkSums
  <1>5. ASSUME NEW x \in Sessions, Count(x)
        PROVE  LinkSums'
    <2>1. PICK c \in todo[x] :
            /\ link' = [link EXCEPT ![c] = link[c] + Increment(result[x], c)]
            /\ todo' = [todo EXCEPT ![x] = todo[x] \ {c}]
            /\ UNCHANGED <<stage, result>>
      BY <1>5 DEF Count
    <2>2. c \in Counters /\ c \in CountersOf(result[x]) /\ Reporting(x)
      BY <2>1 DEF SessionTypes, Stages, LinkSums, Counting, Reporting
    <2>3. /\ todo'[x] = todo[x] \ {c} /\ \A y \in Sessions \ {x} : todo'[y] = todo[y]
          /\ link'[c] = link[c] + Increment(result[x], c)
          /\ \A d \in Counters \ {c} : link'[d] = link[d]
      BY <2>1, <2>2 DEF SessionTypes
    <2>4. ASSUME NEW d \in Counters \ {c} PROVE link'[d] = Total(Counted(d), Sessions)'
      <3>1. \A y \in Sessions : Counted(d)'[y] = Counted(d)[y]
        BY <2>1, <2>3 DEF Counted, Reporting
      <3>2. Counted(d)' = Counted(d)
        BY <3>1 DEF Counted
      <3> QED
        BY <2>3, <3>2 DEF LinkSums
    <2>5. link'[c] = Total(Counted(c), Sessions)'
      <3>1. /\ Counted(c)[x] = 0 /\ Counted(c)'[x] = Increment(result[x], c)
            /\ \A y \in Sessions \ {x} : Counted(c)'[y] = Counted(c)[y]
        BY <2>1, <2>2, <2>3 DEF Counted, Reporting
      <3>2. \A y \in Sessions : Counted(c)[y] \in Nat /\ Counted(c)'[y] \in Nat
        BY <2>2, <3>1, SummandTypes
      <3>3. Total(Counted(c)', Sessions)
              = Total(Counted(c), Sessions) - Counted(c)[x] + Counted(c)'[x]
        BY <3>1, <3>2, FiniteServers, TotalChange
      <3>4. Total(Counted(c), Sessions) \in Nat /\ Increment(result[x], c) \in Nat
        BY <2>2, <3>2, FiniteServers, TotalNat, SummandTypes
      <3> QED
        BY <2>2, <2>3, <3>1, <3>3, <3>4 DEF LinkSums
    <2>6. \A y \in Sessions : todo'[y] \subseteq todo[y]
      BY <2>3
    <2> QED
      BY <2>1, <2>4, <2>5, <2>6 DEF LinkSums
  <1>6. ASSUME NEW x \in Sessions, Attribute(x) \/ Unlock(x) \/ Leave(x) \/ CallbackGauges(x)
        PROVE  LinkSums'
    <2>1. UNCHANGED <<result, todo, link>>
      BY <1>6 DEF Attribute, Unlock, Leave, CallbackGauges, registryVars
    <2>2. /\ stage[x].at = stage'[x].at \/ (Reporting(x) /\ Reporting(x)')
          /\ \A y \in Sessions \ {x} : stage'[y] = stage[y]
      <3>1. CASE Attribute(x)
        BY <3>1 DEF Attribute, Reporting, SessionTypes, Stages
      <3>2. CASE Unlock(x)
        <4>1. owner = x /\ stage' = [stage EXCEPT ![x].at = "unlocked"]
          BY <3>2 DEF Unlock
        <4>2. stage[x].at = "locked" /\ stage \in [Sessions -> Stages]
          BY <4>1 DEF Counting, SessionTypes
        <4>3. /\ stage'[x].at = "unlocked"
              /\ \A y \in Sessions \ {x} : stage'[y] = stage[y]
          BY ONLY <4>1, <4>2 DEF Stages
        <4> QED
          BY ONLY <4>2, <4>3 DEF Reporting
      <3>3. CASE Leave(x)
        <4>1. stage' = [stage EXCEPT ![x].left = TRUE] /\ stage \in [Sessions -> Stages]
          BY <3>3 DEF Leave, SessionTypes
        <4>2. /\ stage'[x] = [stage[x] EXCEPT !.left = TRUE]
              /\ \A y \in Sessions \ {x} : stage'[y] = stage[y]
          BY ONLY <4>1
        <4>3. stage[x] \in Stages
          BY ONLY <4>1
        <4>4. [stage[x] EXCEPT !.left = TRUE].at = stage[x].at
          BY ONLY <4>3 DEF Stages
        <4> QED
          BY ONLY <4>2, <4>4
      <3>4. CASE CallbackGauges(x)
        BY <3>4 DEF CallbackGauges, SessionTypes, Stages
      <3> QED
        BY <1>6, <3>1, <3>2, <3>3, <3>4
    <2> QED
      BY <1>1, <2>1, <2>2 DEF Reporting, LinkSums
  <1> QED
    BY <1>2, <1>3, <1>4, <1>5, <1>6, SessionFootprint

\* The servers' counters: only Attribute adds to them, once for a session.
LEMMA ServerStep ==
    ASSUME Inv, ServerSums, [Next]_vars
    PROVE  ServerSums'
  <1> SessionTypes /\ SiteTypes /\ Counting
    BY DEF Inv
  <1>1. CASE \E x \in Sessions : Attribute(x)
    <2>1. PICK x \in Sessions : Attribute(x)
      BY <1>1
    <2> DEFINE r == result[x]
               e == endpoints[r.server]
    <2>2. /\ stage[x].at = "observing" /\ UNCHANGED result
          /\ stage' = [stage EXCEPT ![x].at = "locked"]
          /\ endpoints' = [endpoints EXCEPT ![r.server] = AttributeLocked(e, r)]
      BY <2>1 DEF Attribute
    <2>3. ~Attributed(x) /\ Attributed(x)'
          /\ \A y \in Sessions \ {x} : Attributed(y)' <=> Attributed(y)
      BY <2>2 DEF Attributed, SessionTypes, Stages
    <2>4. r.server \in Servers /\ r.ok \in BOOLEAN /\ r.bytes \in Nat /\ e \in Endpoint
      BY SummandTypes DEF SiteTypes
    <2>5. /\ AttributeLocked(e, r).bytes = IF r.ok THEN e.bytes + r.bytes ELSE e.bytes
          /\ AttributeLocked(e, r).ok = IF r.ok THEN e.ok + 1 ELSE e.ok
          /\ AttributeLocked(e, r).fail = IF r.ok THEN e.fail ELSE e.fail + 1
      BY <2>4 DEF AttributeLocked, Endpoint
    <2>6. /\ endpoints'[r.server] = AttributeLocked(e, r)
          /\ \A d \in Servers \ {r.server} : endpoints'[d] = endpoints[d]
      BY <2>2, <2>4 DEF SiteTypes
    <2>7. /\ SessionTypes' /\ SiteTypes'
      BY SessionStep, SiteStep DEF Sited
    <2> HIDE DEF r, e
    <2>8. Total(BytesHeld, Servers)' = Total(BytesGiven, Sessions)'
      <3>1. /\ BytesGiven[x] = 0 /\ BytesGiven'[x] = IF r.ok THEN r.bytes ELSE 0
            /\ \A y \in Sessions \ {x} : BytesGiven'[y] = BytesGiven[y]
        BY <2>2, <2>3 DEF BytesGiven, r
      <3>2. /\ BytesHeld[r.server] = e.bytes
            /\ BytesHeld'[r.server] = IF r.ok THEN e.bytes + r.bytes ELSE e.bytes
            /\ \A d \in Servers \ {r.server} : BytesHeld'[d] = BytesHeld[d]
        BY <2>4, <2>5, <2>6 DEF BytesHeld, e
      <3>3. /\ \A y \in Sessions : BytesGiven[y] \in Nat /\ BytesGiven'[y] \in Nat
            /\ \A d \in Servers : BytesHeld[d] \in Nat /\ BytesHeld'[d] \in Nat
        BY <2>7, SummandTypes, SummandTypesNext
      <3>4. Total(BytesGiven', Sessions)
              = Total(BytesGiven, Sessions) - BytesGiven[x] + BytesGiven'[x]
        BY <3>1, <3>3, FiniteServers, TotalChange
      <3>5. Total(BytesHeld', Servers)
              = Total(BytesHeld, Servers) - BytesHeld[r.server] + BytesHeld'[r.server]
        BY <2>4, <3>2, <3>3, FiniteServers, TotalChange
      <3>6. Total(BytesGiven, Sessions) \in Nat /\ e.bytes \in Nat
        BY <2>4, <3>3, FiniteServers, TotalNat DEF Endpoint
      <3> QED
        BY <2>4, <3>1, <3>2, <3>4, <3>5, <3>6 DEF ServerSums
    <2>9. Total(OksHeld, Servers)' = Total(OksGiven, Sessions)'
      <3>1. /\ OksGiven[x] = 0 /\ OksGiven'[x] = IF r.ok THEN 1 ELSE 0
            /\ \A y \in Sessions \ {x} : OksGiven'[y] = OksGiven[y]
        BY <2>2, <2>3 DEF OksGiven, r
      <3>2. /\ OksHeld[r.server] = e.ok
            /\ OksHeld'[r.server] = IF r.ok THEN e.ok + 1 ELSE e.ok
            /\ \A d \in Servers \ {r.server} : OksHeld'[d] = OksHeld[d]
        BY <2>4, <2>5, <2>6 DEF OksHeld, e
      <3>3. /\ \A y \in Sessions : OksGiven[y] \in Nat /\ OksGiven'[y] \in Nat
            /\ \A d \in Servers : OksHeld[d] \in Nat /\ OksHeld'[d] \in Nat
        BY <2>7, SummandTypes, SummandTypesNext
      <3>4. Total(OksGiven', Sessions) = Total(OksGiven, Sessions) - OksGiven[x] + OksGiven'[x]
        BY <3>1, <3>3, FiniteServers, TotalChange
      <3>5. Total(OksHeld', Servers)
              = Total(OksHeld, Servers) - OksHeld[r.server] + OksHeld'[r.server]
        BY <2>4, <3>2, <3>3, FiniteServers, TotalChange
      <3>6. Total(OksGiven, Sessions) \in Nat /\ e.ok \in Nat
        BY <2>4, <3>3, FiniteServers, TotalNat DEF Endpoint
      <3> QED
        BY <2>4, <3>1, <3>2, <3>4, <3>5, <3>6 DEF ServerSums
    <2>10. Total(FailsHeld, Servers)' = Total(FailsGiven, Sessions)'
      <3>1. /\ FailsGiven[x] = 0 /\ FailsGiven'[x] = IF r.ok THEN 0 ELSE 1
            /\ \A y \in Sessions \ {x} : FailsGiven'[y] = FailsGiven[y]
        BY <2>2, <2>3 DEF FailsGiven, r
      <3>2. /\ FailsHeld[r.server] = e.fail
            /\ FailsHeld'[r.server] = IF r.ok THEN e.fail ELSE e.fail + 1
            /\ \A d \in Servers \ {r.server} : FailsHeld'[d] = FailsHeld[d]
        BY <2>4, <2>5, <2>6 DEF FailsHeld, e
      <3>3. /\ \A y \in Sessions : FailsGiven[y] \in Nat /\ FailsGiven'[y] \in Nat
            /\ \A d \in Servers : FailsHeld[d] \in Nat /\ FailsHeld'[d] \in Nat
        BY <2>7, SummandTypes, SummandTypesNext
      <3>4. Total(FailsGiven', Sessions)
              = Total(FailsGiven, Sessions) - FailsGiven[x] + FailsGiven'[x]
        BY <3>1, <3>3, FiniteServers, TotalChange
      <3>5. Total(FailsHeld', Servers)
              = Total(FailsHeld, Servers) - FailsHeld[r.server] + FailsHeld'[r.server]
        BY <2>4, <3>2, <3>3, FiniteServers, TotalChange
      <3>6. Total(FailsGiven, Sessions) \in Nat /\ e.fail \in Nat
        BY <2>4, <3>3, FiniteServers, TotalNat DEF Endpoint
      <3> QED
        BY <2>4, <3>1, <3>2, <3>4, <3>5, <3>6 DEF ServerSums
    <2> QED
      BY <2>8, <2>9, <2>10 DEF ServerSums
  <1>2. CASE \A x \in Sessions : ~Attribute(x)
    <2>1. \A y \in Sessions : (Attributed(y)' <=> Attributed(y)) /\ result' = result
      <3>1. CASE UNCHANGED <<stage, result, todo, link, owner, live>>
        BY <3>1 DEF Attributed
      <3>2. CASE Admit
        BY <3>2 DEF Admit, Attributed, SessionTypes, Stages
      <3>3. ASSUME NEW x \in Sessions, SessionEnds(x)
            PROVE  \A y \in Sessions : (Attributed(y)' <=> Attributed(y)) /\ result' = result
        BY <3>3 DEF SessionEnds, Attributed, SessionTypes, Stages
      <3>4. ASSUME NEW x \in Sessions, Count(x)
            PROVE  \A y \in Sessions : (Attributed(y)' <=> Attributed(y)) /\ result' = result
        BY <3>4 DEF Count, Attributed
      <3>5. ASSUME NEW x \in Sessions, Unlock(x)
            PROVE  \A y \in Sessions : (Attributed(y)' <=> Attributed(y)) /\ result' = result
        BY <3>5 DEF Unlock, Attributed, SessionTypes, Stages, Counting
      <3>6. ASSUME NEW x \in Sessions, Leave(x) \/ CallbackGauges(x)
            PROVE  \A y \in Sessions : (Attributed(y)' <=> Attributed(y)) /\ result' = result
        BY <3>6 DEF Leave, CallbackGauges, Attributed, SessionTypes, Stages
      <3> QED
        BY <1>2, <3>1, <3>2, <3>3, <3>4, <3>5, <3>6, SessionFootprint
    <2>2. \A d \in Servers : /\ endpoints'[d].bytes = endpoints[d].bytes
                             /\ endpoints'[d].ok = endpoints[d].ok
                             /\ endpoints'[d].fail = endpoints[d].fail
      <3>1. CASE \E f \in Fillers : SetCmsSite(f)
        BY <3>1 DEF SetCmsSite, SiteTypes, Endpoint
      <3>2. CASE ~ \E f \in Fillers : SetCmsSite(f)
        <4>1. endpoints' = endpoints
          BY <1>2, <3>2, SiteFootprint
             DEF SitesPass, SitesSleep, JoinSites, FinalPass, Query, registryVars
        <4> QED
          BY <4>1
      <3> QED
        BY <3>1, <3>2
    <2>3. UNCHANGED <<BytesGiven, OksGiven, FailsGiven>>
      BY <2>1 DEF BytesGiven, OksGiven, FailsGiven
    <2>4. UNCHANGED <<BytesHeld, OksHeld, FailsHeld>>
      BY <2>2 DEF BytesHeld, OksHeld, FailsHeld
    <2> QED
      BY <2>3, <2>4 DEF ServerSums
  <1> QED
    BY <1>1, <1>2

\* FinalSums: whatever order the relaxed counters are updated and read in, the
\* final snapshot of a drained run counts each session once, for the link and
\* for its server alike (metrics.cc Snapshot, run_command.cc's drain).
THEOREM SumsAreExact == Spec => []FinalSums
  <1>1. Inv /\ LinkSums /\ ServerSums /\ Current => FinalSums
    <2> SUFFICES ASSUME Inv, LinkSums, ServerSums, Current, mpc = "done", drained
                 PROVE  FinalSums
      BY DEF FinalSums
    <2> DEFINE passed == {x \in Finished : result[x].ok}
               failed == Finished \ passed
               bytes == [x \in passed |-> result[x].bytes]
    <2>1. SessionTypes /\ SiteTypes
      BY DEF Inv
    <2>2. /\ \A x \in Finished : stage[x].at = "unlocked" /\ todo[x] = {}
          /\ published.counters = link /\ published.endpoints = endpoints
      BY DEF Current
    <2>3. \A x \in Sessions : /\ result[x].ok \in BOOLEAN /\ result[x].bytes \in Nat
                              /\ x \notin Finished => stage[x].at = "new"
      BY <2>1, SummandTypes DEF Finished
    <2>4. /\ passed \in SUBSET Sessions /\ failed \in SUBSET Sessions
          /\ IsFiniteSet(passed) /\ IsFiniteSet(failed)
      <3>1. passed \in SUBSET Sessions /\ failed \in SUBSET Sessions
        BY DEF Finished
      <3> QED
        BY <3>1, FiniteServers, FS_Subset
    <2>5. \A x \in Sessions :
             /\ Counted("bytes")[x] = IF x \in passed THEN result[x].bytes ELSE 0
             /\ Counted("ok")[x] = IF x \in passed THEN 1 ELSE 0
             /\ Counted("samples")[x] = Counted("ok")[x]
             /\ Counted("fail")[x] = IF x \in failed THEN 1 ELSE 0
      BY <2>2, <2>3 DEF Counted, Reporting, CountersOf, Increment
    <2>6. \A x \in Sessions :
             /\ BytesGiven[x] = Counted("bytes")[x]
             /\ OksGiven[x] = Counted("ok")[x]
             /\ FailsGiven[x] = Counted("fail")[x]
      BY <2>2, <2>3, <2>5 DEF BytesGiven, OksGiven, FailsGiven, Attributed
    <2> HIDE DEF passed, failed
    <2>7. link["bytes"] = Total(bytes, passed)
      <3>1. Total(Counted("bytes"), Sessions) = Total(Counted("bytes"), passed)
        BY <2>3, <2>4, <2>5, FiniteServers, TotalWithin
      <3>2. \A x \in passed : Counted("bytes")[x] = bytes[x]
        BY <2>4, <2>5
      <3>3. Total(Counted("bytes"), passed) = Total(bytes, passed)
        <4> HIDE DEF bytes
        <4> QED
          BY <2>4, <3>2, TotalSame
      <3> QED
        BY <3>1, <3>3 DEF LinkSums, Counters
    <2>8. link["ok"] = Cardinality(passed)
      <3>1. {x \in Sessions : Counted("ok")[x] = 1} = passed
        BY <2>4, <2>5
      <3>2. Total(Counted("ok"), Sessions) = Cardinality({x \in Sessions : Counted("ok")[x] = 1})
        BY <2>5, FiniteServers, TotalCount
      <3> QED
        BY <3>1, <3>2 DEF LinkSums, Counters
    <2>9. link["fail"] = Cardinality(failed)
      <3>1. {x \in Sessions : Counted("fail")[x] = 1} = failed
        BY <2>4, <2>5
      <3>2. Total(Counted("fail"), Sessions)
              = Cardinality({x \in Sessions : Counted("fail")[x] = 1})
        BY <2>5, FiniteServers, TotalCount
      <3> QED
        BY <3>1, <3>2 DEF LinkSums, Counters
    <2>10. link["samples"] = link["ok"]
      <3>1. Total(Counted("samples"), Sessions) = Total(Counted("ok"), Sessions)
        BY <2>5, FiniteServers, TotalSame
      <3> QED
        BY <3>1 DEF LinkSums, Counters
    <2>11. /\ Total(BytesHeld, Servers) = link["bytes"]
           /\ Total(OksHeld, Servers) = link["ok"]
           /\ Total(FailsHeld, Servers) = link["fail"]
      <3>1. /\ Total(BytesGiven, Sessions) = Total(Counted("bytes"), Sessions)
            /\ Total(OksGiven, Sessions) = Total(Counted("ok"), Sessions)
            /\ Total(FailsGiven, Sessions) = Total(Counted("fail"), Sessions)
        BY <2>6, FiniteServers, TotalSame
      <3> QED
        BY <3>1 DEF LinkSums, ServerSums, Counters
    <2>12. ServerTotals(published) = LinkTotals(published)
      BY <2>2, <2>11 DEF ServerTotals, LinkTotals, BytesHeld, OksHeld, FailsHeld
    <2>13. LinkTotals(published) = [bytes |-> Total(bytes, passed),
                                    ok |-> Cardinality(passed), fail |-> Cardinality(failed)]
      BY <2>2, <2>7, <2>8, <2>9 DEF LinkTotals
    <2> QED
      BY <2>2, <2>10, <2>12, <2>13 DEF FinalSums, passed, failed
  <1>2. Inv /\ LinkSums /\ ServerSums /\ [Next]_vars => LinkSums' /\ ServerSums'
    <2>1. CASE [Next]_vars
      BY <2>1, LinkStep, ServerStep
    <2> QED
      BY <2>1
  <1> QED
    BY <1>1, <1>2, InitSums, MetricsInvariance, FinalIsCurrent, PTL DEF Spec

-----------------------------------------------------------------------------
(* Numbers. *)

\* A set of numbers has a least one.
LEMMA LeastNumber ==
    ASSUME NEW T \in SUBSET Nat, T # {}
    PROVE  \E m \in T : \A k \in T : m <= k
  <1>1. PICK n \in T : TRUE
    OBVIOUS
  <1> DEFINE S == 0 .. n
             X == {0 .. k : k \in {j \in T : j <= n}}
  <1>2. IsFiniteSet(S)
    BY <1>1, FS_Interval
  <1>3. X \subseteq SUBSET S /\ 0 .. n \in X
    BY <1>1
  <1>4. PICK U \in X : \A V \in X : V \subseteq U => V = U
    <2> HIDE DEF X, S
    <2> QED
      BY <1>2, <1>3, Smallest
  <1>5. PICK m \in T : m <= n /\ U = 0 .. m
    BY <1>4
  <1>6. ASSUME NEW k \in T, k < m PROVE FALSE
    <2>1. k <= n /\ k \in Nat /\ m \in Nat
      BY <1>1, <1>5, <1>6
    <2>2. 0 .. k \in X
      BY <2>1
    <2>3. 0 .. k \subseteq U /\ m \in U /\ m \notin 0 .. k
      BY <1>5, <1>6, <2>1
    <2> QED
      BY <1>4, <2>2, <2>3
  <1> QED
    BY <1>5, <1>6

LEMMA MinOf ==
    ASSUME NEW T \in SUBSET Nat, T # {}
    PROVE  Min(T) \in T /\ \A k \in T : Min(T) <= k
  BY LeastNumber DEF Min

-----------------------------------------------------------------------------
(* The buckets of a histogram. *)

LEMMA BoundsRise ==
    /\ Len(Bounds) \in Nat \ {0}
    /\ \A i \in 1 .. Len(Bounds) : Bounds[i] \in Nat \ {0}
    /\ \A i, j \in 1 .. Len(Bounds) : i <= j => Bounds[i] <= Bounds[j]
  <1>1. Len(Bounds) \in Nat /\ \A i \in 1 .. Len(Bounds) : Bounds[i] \in Nat \ {0}
    BY HistogramShape
  <1>2. Len(Bounds) # 0
    BY HistogramShape
  <1>3. ASSUME NEW i \in 1 .. Len(Bounds), NEW j \in 1 .. Len(Bounds), i <= j
        PROVE  Bounds[i] <= Bounds[j]
    <2>1. CASE i = j
      BY <1>1, <2>1
    <2>2. CASE i < j
      <3>1. Bounds[i] < Bounds[j]
        BY <2>2, HistogramShape
      <3> QED
        BY <1>1, <3>1
    <2> QED
      BY <1>1, <1>3, <2>1, <2>2
  <1> QED
    BY <1>1, <1>2, <1>3

\* A value is counted from the first bound that is not below it.
LEMMA IndexOf ==
    ASSUME NEW v \in Values
    PROVE  /\ BucketIndex(v) \in Buckets
           /\ \A i \in 1 .. Len(Bounds) : BucketIndex(v) <= i <=> v <= Bounds[i]
  <1> DEFINE L == Len(Bounds)
             S == {L + 1} \cup {i \in 1 .. L : v <= Bounds[i]}
             m == BucketIndex(v)
  <1>1. L \in Nat /\ v \in Nat
    BY BoundsRise, HistogramShape
  <1>2. S \in SUBSET Nat /\ S # {}
    BY <1>1
  <1>3. m \in S /\ \A k \in S : m <= k
    BY <1>2, MinOf DEF BucketIndex
  <1> HIDE DEF m
  <1>4. m \in Buckets
    BY <1>1, <1>3 DEF Buckets
  <1>5. ASSUME NEW i \in 1 .. L, v <= Bounds[i] PROVE m <= i
    BY <1>3, <1>5
  <1>6. ASSUME NEW i \in 1 .. L, m <= i PROVE v <= Bounds[i]
    <2>1. m \in 1 .. L /\ v <= Bounds[m]
      BY <1>1, <1>3, <1>6
    <2>2. Bounds[m] <= Bounds[i] /\ Bounds[m] \in Nat /\ Bounds[i] \in Nat
      BY <1>6, <2>1, BoundsRise
    <2> QED
      BY <1>1, <2>1, <2>2
  <1> QED
    BY <1>4, <1>5, <1>6 DEF m

\* The cells that count, and the values a cell counts.
Tally == Cells \ {SumCell}
In(c) == {v \in Values : c \in CellsOf(v)}
UpTo(i) == {v \in Values : BucketIndex(v) <= i}

LEMMA CellFacts ==
    /\ SumCell \in Cells /\ CountCell \in Tally
    /\ \A j \in Buckets : <<"bucket", j>> \in Tally
    /\ \A v \in Values : CellsOf(v) \subseteq Cells
    /\ In(CountCell) = Values
    /\ \A j \in Buckets : In(<<"bucket", j>>) = {v \in Values : BucketIndex(v) = j}
    /\ \A c : In(c) \subseteq Values /\ IsFiniteSet(In(c))
  <1>1. SumCell \in Cells /\ CountCell \in Tally /\ \A j \in Buckets : <<"bucket", j>> \in Tally
    BY DEF Cells, Tally, SumCell, CountCell
  <1>2. \A v \in Values : CellsOf(v) \subseteq Cells
    BY IndexOf DEF CellsOf, Cells, SumCell, CountCell
  <1>3. In(CountCell) = Values
    BY DEF In, CellsOf
  <1>4. ASSUME NEW j \in Buckets PROVE In(<<"bucket", j>>) = {v \in Values : BucketIndex(v) = j}
    <2>1. ASSUME NEW v \in Values PROVE <<"bucket", j>> \in CellsOf(v) <=> BucketIndex(v) = j
      BY DEF CellsOf, SumCell, CountCell
    <2> QED
      BY <2>1 DEF In
  <1>5. \A c : In(c) \subseteq Values /\ IsFiniteSet(In(c))
    <2>1. \A c : In(c) \subseteq Values
      BY DEF In
    <2> QED
      BY <2>1, HistogramShape, FS_Subset
  <1> QED
    BY <1>1, <1>2, <1>3, <1>4, <1>5

\* The sum over the buckets up to one is the sum over the values up to its bound.
LEMMA Column ==
    ASSUME NEW f \in [Values -> Nat], NEW g, \A j \in Buckets : g[j] = Total(f, In(<<"bucket", j>>)),
           NEW i \in 0 .. Len(Bounds) + 1
    PROVE  Total(g, 1 .. i) = Total(f, UpTo(i))
  <1> DEFINE L == Len(Bounds)
             X == {k \in 0 .. L + 1 : Total(g, 1 .. k) # Total(f, UpTo(k))}
  <1>0. L \in Nat
    BY BoundsRise
  <1> SUFFICES ASSUME X # {} PROVE FALSE
    OBVIOUS
  <1>1. PICK k \in X : \A l \in X : k <= l
    <2>1. X \in SUBSET Nat
      BY <1>0
    <2> HIDE DEF X
    <2> QED
      BY <2>1, LeastNumber
  <1>2. k \in 0 .. L + 1 /\ Total(g, 1 .. k) # Total(f, UpTo(k))
    BY <1>1
  <1>3. \A v \in Values : BucketIndex(v) \in 1 .. L + 1
    BY IndexOf DEF Buckets
  <1>4. k # 0
    <2>1. 1 .. 0 = {} /\ UpTo(0) = {}
      BY <1>0, <1>3 DEF UpTo
    <2> QED
      BY <1>2, <2>1, TotalEmpty
  <1>5. k - 1 \in 0 .. L + 1 /\ k \in Buckets /\ k \in Nat
    BY <1>0, <1>2, <1>4 DEF Buckets
  <1>6. Total(g, 1 .. k - 1) = Total(f, UpTo(k - 1))
    BY <1>1, <1>5
  <1> HIDE DEF X
  <1>7. \A j \in 1 .. k : j \in Buckets /\ g[j] \in Nat
    <2>1. \A j \in 1 .. k : j \in Buckets
      BY <1>0, <1>5 DEF Buckets
    <2>2. \A j \in Buckets : Total(f, In(<<"bucket", j>>)) \in Nat
      BY CellFacts, TotalNat
    <2> QED
      BY <2>1, <2>2
  <1>8. Total(g, 1 .. k) = g[k] + Total(g, 1 .. k - 1)
    <2>1. k \in 1 .. k /\ (1 .. k) \ {k} = 1 .. k - 1
      BY <1>5, <1>4
    <2>2. IsFiniteSet(1 .. k)
      BY <1>5, FS_Interval
    <2> QED
      BY <1>7, <2>1, <2>2, TotalRemove
  <1>9. Total(f, UpTo(k)) = Total(f, UpTo(k - 1)) + Total(f, In(<<"bucket", k>>))
    <2> DEFINE A == UpTo(k - 1)
               B == In(<<"bucket", k>>)
    <2>1. B = {v \in Values : BucketIndex(v) = k}
      BY <1>5, CellFacts
    <2>2. A \subseteq Values /\ A \cap B = {} /\ UpTo(k) = A \cup B
      BY <1>3, <1>5, <2>1 DEF UpTo
    <2>3. IsFiniteSet(A) /\ IsFiniteSet(B) /\ B \subseteq Values
      BY <2>2, CellFacts, HistogramShape, FS_Subset
    <2>4. \A v \in A \cup B : f[v] \in Nat
      BY <2>2, <2>3
    <2> HIDE DEF A, B
    <2> QED
      BY <2>2, <2>3, <2>4, TotalUnion DEF A, B
  <1>10. g[k] = Total(f, In(<<"bucket", k>>))
    BY <1>5
  <1>11. Total(f, UpTo(k - 1)) \in Nat /\ g[k] \in Nat
    <2>1. UpTo(k - 1) \subseteq Values
      BY DEF UpTo
    <2>2. IsFiniteSet(UpTo(k - 1)) /\ \A v \in UpTo(k - 1) : f[v] \in Nat
      BY <2>1, HistogramShape, FS_Subset
    <2>3. k \in 1 .. k
      BY <1>5, <1>4
    <2> QED
      BY <1>7, <2>2, <2>3, TotalNat
  <1> QED
    BY <1>2, <1>6, <1>8, <1>9, <1>10, <1>11

\* What lies between two tallies in each bucket does so cumulatively.
LEMMA Cumulated ==
    ASSUME NEW h \in [Cells -> Nat], NEW f \in [Values -> Nat], NEW g \in [Values -> Nat],
           \A j \in Buckets : /\ Total(f, In(<<"bucket", j>>)) <= h[<<"bucket", j>>]
                              /\ h[<<"bucket", j>>] <= Total(g, In(<<"bucket", j>>)),
           NEW i \in 0 .. Len(Bounds) + 1
    PROVE  /\ Total(f, UpTo(i)) <= Cumulative(h, i)
           /\ Cumulative(h, i) <= Total(g, UpTo(i))
           /\ Cumulative(h, i) \in Nat
  <1> DEFINE F == [j \in Buckets |-> Total(f, In(<<"bucket", j>>))]
             G == [j \in Buckets |-> Total(g, In(<<"bucket", j>>))]
             H == [j \in 1 .. i |-> h[<<"bucket", j>>]]
  <1>1. IsFiniteSet(1 .. i) /\ \A j \in 1 .. i : j \in Buckets
    <2>1. Len(Bounds) \in Nat
      BY BoundsRise
    <2>2. IsFiniteSet(1 .. i)
      BY <2>1, FS_Interval
    <2> QED
      BY <2>1, <2>2 DEF Buckets
  <1>2. \A j \in Buckets : F[j] \in Nat /\ G[j] \in Nat
    <2>1. \A j \in Buckets : /\ Total(f, In(<<"bucket", j>>)) \in Nat
                             /\ Total(g, In(<<"bucket", j>>)) \in Nat
      BY CellFacts, TotalNat
    <2> QED
      BY <2>1
  <1>3. \A j \in 1 .. i : H[j] \in Nat /\ H[j] = h[<<"bucket", j>>]
    BY <1>1, CellFacts DEF Tally
  <1>4. \A j \in 1 .. i : F[j] <= H[j] /\ H[j] <= G[j]
    BY <1>1, <1>3
  <1>5. Total(F, 1 .. i) = Total(f, UpTo(i)) /\ Total(G, 1 .. i) = Total(g, UpTo(i))
    <2>1. \A j \in Buckets : F[j] = Total(f, In(<<"bucket", j>>)) /\ G[j] = Total(g, In(<<"bucket", j>>))
      OBVIOUS
    <2> HIDE DEF F, G
    <2> QED
      BY <2>1, Column
  <1>6. Cumulative(h, i) = Total(H, 1 .. i)
    BY DEF Cumulative
  <1> HIDE DEF F, G, H
  <1>7. Total(H, 1 .. i) \in Nat
    BY <1>1, <1>3, TotalNat
  <1>8. Total(F, 1 .. i) <= Total(H, 1 .. i) /\ Total(H, 1 .. i) <= Total(G, 1 .. i)
    BY <1>1, <1>2, <1>3, <1>4, TotalAtMost
  <1> QED
    BY <1>5, <1>6, <1>7, <1>8

-----------------------------------------------------------------------------
(* The histogram's invariant. *)

HistogramTypes ==
    /\ hist \in [Cells -> Nat]
    /\ busy \in [Observers -> {None} \cup Observations]
    /\ begun \in [Values -> Nat] /\ settled \in [Values -> Nat]
    /\ reader \in [cells : [Cells -> Nat], left : SUBSET Cells,
                   from : {None} \cup [Values -> Nat]]
    /\ scraped \in [cells : [Cells -> Nat], from : {None} \cup [Values -> Nat],
                    upto : {None} \cup [Values -> Nat]]

\* A thread has still to increment cells of its own observation.
OwnCells == \A t \in Observers : busy[t] # None => busy[t].left \subseteq CellsOf(busy[t].value)

\* The observations under way that a cell counts, and those it has counted.
Underway(c) ==
    [t \in Observers |-> IF busy[t] # None /\ c \in CellsOf(busy[t].value) THEN 1 ELSE 0]
Landed(c) ==
    [t \in Observers |->
        IF busy[t] # None /\ c \in CellsOf(busy[t].value) \ busy[t].left THEN 1 ELSE 0]

\* A cell holds the observations that have landed and those under way that have
\* reached it.
Balanced ==
    \A c \in Tally :
        /\ hist[c] = Total(settled, In(c)) + Total(Landed(c), Observers)
        /\ Total(begun, In(c)) = Total(settled, In(c)) + Total(Underway(c), Observers)

\* What has been copied lies between what had landed when the copying began and
\* what has begun since, and is no less than the last snapshot's.
Copied ==
    Reading =>
        /\ reader.from \in [Values -> Nat]
        /\ \A v \in Values : reader.from[v] <= settled[v]
        /\ \A c \in Cells \ reader.left :
            scraped.cells[c] <= reader.cells[c] /\ reader.cells[c] <= hist[c]
        /\ \A c \in Tally \ reader.left :
            /\ Total(reader.from, In(c)) <= reader.cells[c]
            /\ reader.cells[c] <= Total(begun, In(c))

Scraped ==
    /\ \A c \in Cells : scraped.cells[c] <= hist[c]
    /\ (Taken \/ phase = "over") =>
        /\ scraped.from \in [Values -> Nat] /\ scraped.upto \in [Values -> Nat]
        /\ \A c \in Tally : /\ Total(scraped.from, In(c)) <= scraped.cells[c]
                            /\ scraped.cells[c] <= Total(scraped.upto, In(c))

HistogramInv == HistogramTypes /\ OwnCells /\ Balanced /\ Copied /\ Scraped

LEMMA SumsOfValues ==
    ASSUME NEW f \in [Values -> Nat], NEW c
    PROVE  Total(f, In(c)) \in Nat
  <1>1. IsFiniteSet(In(c)) /\ \A v \in In(c) : f[v] \in Nat
    BY CellFacts
  <1> QED
    BY <1>1, TotalNat

LEMMA SumsRise ==
    ASSUME NEW f \in [Values -> Nat], NEW g \in [Values -> Nat], NEW c,
           \A v \in Values : f[v] <= g[v]
    PROVE  Total(f, In(c)) <= Total(g, In(c))
  <1>1. IsFiniteSet(In(c)) /\ \A v \in In(c) : f[v] \in Nat /\ g[v] \in Nat /\ f[v] <= g[v]
    BY CellFacts
  <1> QED
    BY <1>1, TotalAtMost

\* One more observation of v.
LEMMA OneMore ==
    ASSUME NEW f \in [Values -> Nat], NEW v \in Values, NEW c
    PROVE  LET g == [f EXCEPT ![v] = f[v] + 1]
           IN  /\ g \in [Values -> Nat]
               /\ \A w \in Values : f[w] <= g[w]
               /\ Total(g, In(c)) = Total(f, In(c)) + (IF c \in CellsOf(v) THEN 1 ELSE 0)
  <1> DEFINE g == [f EXCEPT ![v] = f[v] + 1]
  <1>1. /\ g \in [Values -> Nat] /\ g[v] = f[v] + 1
        /\ \A w \in Values \ {v} : g[w] = f[w]
    OBVIOUS
  <1> HIDE DEF g
  <1>2. \A w \in Values : f[w] \in Nat /\ g[w] \in Nat /\ f[w] <= g[w]
    BY <1>1
  <1>3. IsFiniteSet(In(c)) /\ In(c) \subseteq Values
    BY CellFacts
  <1>4. CASE c \in CellsOf(v)
    <2>1. v \in In(c)
      BY <1>4 DEF In
    <2>2. Total(g, In(c)) = Total(f, In(c)) - f[v] + g[v]
      BY <1>1, <1>2, <1>3, <2>1, TotalChange
    <2>3. Total(f, In(c)) \in Nat
      BY SumsOfValues
    <2> QED
      BY <1>1, <1>2, <1>4, <2>2, <2>3 DEF g
  <1>5. CASE c \notin CellsOf(v)
    <2>1. v \notin In(c)
      BY <1>5 DEF In
    <2>2. \A w \in In(c) : g[w] = f[w]
      BY <1>1, <1>3, <2>1
    <2>3. Total(g, In(c)) = Total(f, In(c))
      BY <1>3, <2>2, TotalSame
    <2>4. Total(f, In(c)) \in Nat
      BY SumsOfValues
    <2> QED
      BY <1>1, <1>2, <1>5, <2>3, <2>4 DEF g
  <1> QED
    BY <1>4, <1>5

\* Flags of the threads, of which one changes.
LEMMA OneThread ==
    ASSUME NEW f \in [Observers -> {0, 1}], NEW g \in [Observers -> {0, 1}], NEW t \in Observers,
           \A u \in Observers \ {t} : g[u] = f[u]
    PROVE  Total(g, Observers) = Total(f, Observers) - f[t] + g[t] /\ Total(f, Observers) \in Nat
  <1>1. IsFiniteSet(Observers)
    BY HistogramShape
  <1>2. \A u \in Observers : f[u] \in Nat /\ g[u] \in Nat
    OBVIOUS
  <1>3. Total(f, Observers) \in Nat
    BY <1>1, <1>2, TotalNat
  <1> QED
    BY <1>1, <1>2, <1>3, TotalChange

LEMMA FlagTypes ==
    ASSUME NEW c
    PROVE  /\ Underway(c) \in [Observers -> {0, 1}] /\ Underway(c)' \in [Observers -> {0, 1}]
           /\ Landed(c) \in [Observers -> {0, 1}] /\ Landed(c)' \in [Observers -> {0, 1}]
  BY DEF Underway, Landed

\* A cell holds no less than what has landed and no more than what has begun.
LEMMA Tallied ==
    ASSUME HistogramTypes, Balanced, NEW c \in Tally
    PROVE  /\ Total(settled, In(c)) <= hist[c]
           /\ hist[c] <= Total(begun, In(c))
  <1>1. IsFiniteSet(Observers)
    BY HistogramShape
  <1>2. \A t \in Observers : /\ Landed(c)[t] \in Nat /\ Underway(c)[t] \in Nat
                             /\ Landed(c)[t] <= Underway(c)[t]
    BY DEF Landed, Underway
  <1>3. /\ Total(Landed(c), Observers) \in Nat /\ Total(Underway(c), Observers) \in Nat
        /\ Total(Landed(c), Observers) <= Total(Underway(c), Observers)
    BY <1>1, <1>2, TotalNat, TotalAtMost
  <1>4. Total(settled, In(c)) \in Nat
    BY SumsOfValues DEF HistogramTypes
  <1> QED
    BY <1>3, <1>4 DEF Balanced

\* Observations only add.
LEMMA StillBetween ==
    ASSUME HistogramTypes, HistogramTypes', Copied, Scraped, UNCHANGED <<reader, scraped>>,
           phase' = "over" => phase = "over",
           \A c \in Cells : hist[c] <= hist'[c],
           \A v \in Values : begun[v] <= begun'[v] /\ settled[v] <= settled'[v]
    PROVE  Copied' /\ Scraped'
  <1>1. /\ reader' = reader /\ scraped' = scraped
        /\ \A c \in Cells : hist[c] \in Nat /\ hist'[c] \in Nat /\ scraped.cells[c] \in Nat
                            /\ reader.cells[c] \in Nat
        /\ \A v \in Values : settled[v] \in Nat /\ settled'[v] \in Nat
    BY DEF HistogramTypes
  <1>2. \A c \in Cells : scraped.cells[c] <= hist'[c]
    BY <1>1 DEF Scraped
  <1>3. Scraped'
    BY <1>1, <1>2 DEF Scraped, Taken
  <1>4. ASSUME Reading PROVE Copied'
    <2>1. reader.from \in [Values -> Nat] /\ \A v \in Values : reader.from[v] \in Nat
      BY <1>4 DEF Copied
    <2>2. \A v \in Values : reader.from[v] <= settled'[v]
      BY <1>1, <1>4, <2>1 DEF Copied
    <2>3. \A c \in Cells \ reader.left :
            scraped.cells[c] <= reader.cells[c] /\ reader.cells[c] <= hist'[c]
      BY <1>1, <1>4 DEF Copied
    <2>4. ASSUME NEW c \in Tally \ reader.left
          PROVE  /\ Total(reader.from, In(c)) <= reader.cells[c]
                 /\ reader.cells[c] <= Total(begun', In(c))
      <3>1. begun \in [Values -> Nat] /\ begun' \in [Values -> Nat]
        BY DEF HistogramTypes
      <3>2. Total(begun, In(c)) <= Total(begun', In(c))
        BY <3>1, SumsRise
      <3>3. Total(begun, In(c)) \in Nat /\ Total(begun', In(c)) \in Nat /\ c \in Cells
        BY <3>1, SumsOfValues DEF Tally
      <3>4. reader.cells[c] <= Total(begun, In(c)) /\ Total(reader.from, In(c)) <= reader.cells[c]
        BY <1>4 DEF Copied
      <3> QED
        BY <1>1, <3>2, <3>3, <3>4
    <2> QED
      BY <1>1, <2>1, <2>2, <2>3, <2>4 DEF Copied
  <1>5. ASSUME ~Reading PROVE Copied'
    BY <1>1, <1>5 DEF Copied, Reading
  <1> QED
    BY <1>3, <1>4, <1>5

LEMMA ObserveOK ==
    ASSUME HistogramInv, NEW t \in Observers, NEW v \in Values, Observe(t, v)
    PROVE  HistogramInv'
  <1> DEFINE o == [value |-> v, left |-> CellsOf(v)]
  <1> HistogramTypes /\ OwnCells /\ Balanced /\ Copied /\ Scraped
    BY DEF HistogramInv
  <1>1. /\ busy[t] = None /\ busy' = [busy EXCEPT ![t] = o]
        /\ begun' = [begun EXCEPT ![v] = begun[v] + 1]
        /\ UNCHANGED <<hist, settled, reader, phase, scraped>>
    BY DEF Observe
  <1>2. o \in Observations /\ o.value = v /\ o.left = CellsOf(v) /\ o # None
    BY CellFacts, IdleThread DEF Observations
  <1> HIDE DEF o
  <1>3. /\ begun' \in [Values -> Nat] /\ \A w \in Values : begun[w] <= begun'[w]
        /\ \A c : Total(begun', In(c)) = Total(begun, In(c)) + (IF c \in CellsOf(v) THEN 1 ELSE 0)
    <2>1. begun \in [Values -> Nat]
      BY DEF HistogramTypes
    <2> QED
      BY <1>1, <2>1, OneMore
  <1>4. busy'[t] = o /\ \A u \in Observers \ {t} : busy'[u] = busy[u]
    BY <1>1 DEF HistogramTypes
  <1>5. HistogramTypes'
    <2>1. busy' \in [Observers -> {None} \cup Observations]
      BY <1>1, <1>2 DEF HistogramTypes
    <2> QED
      BY <1>1, <1>3, <2>1 DEF HistogramTypes
  <1>6. OwnCells'
    BY <1>2, <1>4 DEF OwnCells
  <1>7. ASSUME NEW c \in Tally
        PROVE  /\ hist'[c] = Total(settled', In(c)) + Total(Landed(c)', Observers)
               /\ Total(begun', In(c)) = Total(settled', In(c)) + Total(Underway(c)', Observers)
    <2>1. /\ Landed(c)[t] = 0 /\ Landed(c)'[t] = 0 /\ Underway(c)[t] = 0
          /\ Underway(c)'[t] = (IF c \in CellsOf(v) THEN 1 ELSE 0)
      BY <1>1, <1>2, <1>4 DEF Landed, Underway
    <2>2. \A u \in Observers \ {t} : /\ Landed(c)'[u] = Landed(c)[u]
                                     /\ Underway(c)'[u] = Underway(c)[u]
      BY <1>4 DEF Landed, Underway
    <2>3. PICK a, b \in [Observers -> {0, 1}] : a = Landed(c) /\ b = Landed(c)'
      BY FlagTypes
    <2>4. PICK d, e \in [Observers -> {0, 1}] : d = Underway(c) /\ e = Underway(c)'
      BY FlagTypes
    <2>5. Total(b, Observers) = Total(a, Observers) /\ Total(a, Observers) \in Nat
      <3>1. Total(b, Observers) = Total(a, Observers) - a[t] + b[t] /\ Total(a, Observers) \in Nat
        BY <2>2, <2>3, OneThread
      <3> QED
        BY <2>1, <2>3, <3>1
    <2>6. /\ Total(e, Observers) = Total(d, Observers) + (IF c \in CellsOf(v) THEN 1 ELSE 0)
          /\ Total(d, Observers) \in Nat
      <3>1. Total(e, Observers) = Total(d, Observers) - d[t] + e[t] /\ Total(d, Observers) \in Nat
        BY <2>2, <2>4, OneThread
      <3> QED
        BY <2>1, <2>4, <3>1
    <2>7. Total(settled, In(c)) \in Nat
      BY SumsOfValues DEF HistogramTypes
    <2>8. /\ hist[c] = Total(settled, In(c)) + Total(a, Observers)
          /\ Total(begun, In(c)) = Total(settled, In(c)) + Total(d, Observers)
      BY <2>3, <2>4 DEF Balanced
    <2>9. Total(begun', In(c)) = Total(begun, In(c)) + (IF c \in CellsOf(v) THEN 1 ELSE 0)
      BY <1>3
    <2> QED
      BY <1>1, <2>3, <2>4, <2>5, <2>6, <2>7, <2>8, <2>9
  <1>8. Balanced'
    BY <1>7 DEF Balanced
  <1>9. Copied' /\ Scraped'
    <2>1. \A c \in Cells : hist[c] <= hist'[c]
      BY <1>1 DEF HistogramTypes
    <2>2. \A w \in Values : begun[w] <= begun'[w] /\ settled[w] <= settled'[w]
      BY <1>1, <1>3 DEF HistogramTypes
    <2> QED
      BY <1>1, <1>5, <2>1, <2>2, StillBetween
  <1> QED
    BY <1>5, <1>6, <1>8, <1>9 DEF HistogramInv


LEMMA FetchAddOK ==
    ASSUME HistogramInv, NEW t \in Observers, NEW c \in Cells, FetchAdd(t, c)
    PROVE  HistogramInv'
  <1> DEFINE o == busy[t]
             v == o.value
             last == o.left = {c}
  <1> HistogramTypes /\ OwnCells /\ Balanced /\ Copied /\ Scraped
    BY DEF HistogramInv
  <1>1. /\ o # None /\ c \in o.left
        /\ hist' = [hist EXCEPT ![c] = hist[c] + (IF c = SumCell THEN v ELSE 1)]
        /\ UNCHANGED <<begun, reader, phase, scraped>>
    BY DEF FetchAdd, Added
  <1>2. /\ o \in Observations /\ v \in Values /\ v \in Nat /\ o.left \subseteq CellsOf(v)
    <2>1. o \in Observations
      BY <1>1 DEF HistogramTypes
    <2>2. v \in Values
      BY <2>1 DEF Observations
    <2>3. v \in Nat
      BY <2>2, HistogramShape
    <2> QED
      BY <1>1, <2>1, <2>2, <2>3 DEF OwnCells
  <1>3. last => /\ busy' = [busy EXCEPT ![t] = None]
                /\ settled' = [settled EXCEPT ![v] = settled[v] + 1]
    BY DEF FetchAdd
  <1>4. ~last => busy' = [busy EXCEPT ![t] = [o EXCEPT !.left = o.left \ {c}]] /\ settled' = settled
    BY DEF FetchAdd
  <1>5. /\ busy'[t] = (IF last THEN None ELSE [o EXCEPT !.left = o.left \ {c}])
        /\ \A u \in Observers \ {t} : busy'[u] = busy[u]
    BY <1>3, <1>4 DEF HistogramTypes
  <1>6. LET r == [o EXCEPT !.left = o.left \ {c}]
        IN r \in Observations /\ r.value = v /\ r.left = o.left \ {c} /\ r # None
    <2>1. [o EXCEPT !.left = o.left \ {c}] \in Observations
      BY <1>2 DEF Observations
    <2> QED
      BY <1>2, <2>1, IdleThread DEF Observations
  <1>7. busy' \in [Observers -> {None} \cup Observations]
    BY <1>3, <1>4, <1>6 DEF HistogramTypes
  <1>8. /\ settled' \in [Values -> Nat] /\ \A w \in Values : settled[w] <= settled'[w]
        /\ \A d : Total(settled', In(d)) =
                      Total(settled, In(d)) + (IF last /\ d \in CellsOf(v) THEN 1 ELSE 0)
    <2>1. settled \in [Values -> Nat]
      BY DEF HistogramTypes
    <2>2. \A d : Total(settled, In(d)) \in Nat
      BY <2>1, SumsOfValues
    <2> HIDE DEF o, v, last
    <2>3. CASE last
      <3>1. settled' = [settled EXCEPT ![v] = settled[v] + 1]
        BY <1>3, <2>3
      <3>2. /\ settled' \in [Values -> Nat]
            /\ \A w \in Values : settled[w] <= settled'[w]
            /\ \A d : Total(settled', In(d)) =
                          Total(settled, In(d)) + (IF d \in CellsOf(v) THEN 1 ELSE 0)
        BY <1>2, <2>1, <3>1, OneMore
      <3> QED
        BY <2>3, <3>2
    <2>4. CASE ~last
      <3>1. settled' = settled /\ \A w \in Values : settled[w] <= settled[w]
        BY <1>4, <2>1, <2>4
      <3> QED
        BY <2>1, <2>2, <2>4, <3>1
    <2> QED
      BY <2>3, <2>4
  <1>9. /\ hist' \in [Cells -> Nat] /\ \A d \in Cells : hist[d] <= hist'[d]
        /\ \A d \in Tally : hist'[d] = hist[d] + (IF d = c THEN 1 ELSE 0)
    <2>1. (IF c = SumCell THEN v ELSE 1) \in Nat /\ hist \in [Cells -> Nat]
      BY <1>2 DEF HistogramTypes
    <2>2. /\ hist' \in [Cells -> Nat] /\ \A d \in Cells \ {c} : hist'[d] = hist[d]
          /\ hist'[c] = hist[c] + (IF c = SumCell THEN v ELSE 1)
      BY <1>1, <2>1
    <2>3. \A d \in Cells : hist[d] <= hist'[d]
      BY <2>1, <2>2
    <2>4. \A d \in Tally : hist'[d] = hist[d] + (IF d = c THEN 1 ELSE 0)
      BY <2>1, <2>2 DEF Tally
    <2> QED
      BY <2>2, <2>3, <2>4
  <1> HIDE DEF o, v, last
  <1>10. HistogramTypes'
    BY <1>1, <1>7, <1>8, <1>9 DEF HistogramTypes
  <1>11. OwnCells'
    <2>1. ASSUME NEW u \in Observers, busy'[u] # None
          PROVE  busy'[u].left \subseteq CellsOf(busy'[u].value)
      <3>1. CASE u = t
        BY <1>2, <1>5, <1>6, <2>1, <3>1
      <3>2. CASE u # t
        BY <1>5, <2>1, <3>2 DEF OwnCells
      <3> QED
        BY <3>1, <3>2
    <2> QED
      BY <2>1 DEF OwnCells
  <1>12. ASSUME NEW d \in Tally
         PROVE  /\ hist'[d] = Total(settled', In(d)) + Total(Landed(d)', Observers)
                /\ Total(begun', In(d)) = Total(settled', In(d)) + Total(Underway(d)', Observers)
    <2> DEFINE own == d \in CellsOf(v)
    <2>1. \A u \in Observers \ {t} : /\ Landed(d)'[u] = Landed(d)[u]
                                     /\ Underway(d)'[u] = Underway(d)[u]
      BY <1>5 DEF Landed, Underway
    <2>2. /\ Landed(d)[t] = (IF own /\ d \notin o.left THEN 1 ELSE 0)
          /\ Underway(d)[t] = (IF own THEN 1 ELSE 0)
      BY <1>1 DEF Landed, Underway, o, v
    <2>3. /\ Landed(d)'[t] =
                (IF ~last /\ own /\ (d \notin o.left \/ d = c) THEN 1 ELSE 0)
          /\ Underway(d)'[t] = (IF ~last /\ own THEN 1 ELSE 0)
      BY <1>5, <1>6 DEF Landed, Underway
    <2>4. last => (d \in o.left <=> d = c)
      BY DEF last
    <2>5. d = c => own /\ d \in o.left
      BY <1>1, <1>2
    <2> HIDE DEF own
    <2>6. PICK a, b \in [Observers -> {0, 1}] : a = Landed(d) /\ b = Landed(d)'
      BY FlagTypes
    <2>7. PICK x, y \in [Observers -> {0, 1}] : x = Underway(d) /\ y = Underway(d)'
      BY FlagTypes
    <2>8. Total(b, Observers) = Total(a, Observers) - a[t] + b[t] /\ Total(a, Observers) \in Nat
      BY <2>1, <2>6, OneThread
    <2>9. Total(y, Observers) = Total(x, Observers) - x[t] + y[t] /\ Total(x, Observers) \in Nat
      BY <2>1, <2>7, OneThread
    <2>10. /\ hist[d] = Total(settled, In(d)) + Total(a, Observers)
           /\ Total(begun, In(d)) = Total(settled, In(d)) + Total(x, Observers)
           /\ Total(settled, In(d)) \in Nat
      <3>1. Total(settled, In(d)) \in Nat
        BY SumsOfValues DEF HistogramTypes
      <3> QED
        BY <2>6, <2>7, <3>1 DEF Balanced
    <2>11. Total(settled', In(d)) = Total(settled, In(d)) + (IF last /\ own THEN 1 ELSE 0)
      BY <1>8 DEF own
    <2>12. hist'[d] = hist[d] + (IF d = c THEN 1 ELSE 0)
      BY <1>9
    <2>13. /\ (IF d = c THEN 1 ELSE 0) = (IF last /\ own THEN 1 ELSE 0) - a[t] + b[t]
           /\ 0 = (IF last /\ own THEN 1 ELSE 0) - x[t] + y[t]
      BY <2>2, <2>3, <2>4, <2>5, <2>6, <2>7
    <2>14. a[t] \in Nat /\ b[t] \in Nat /\ x[t] \in Nat /\ y[t] \in Nat
      BY <2>6, <2>7
    <2>15. hist'[d] = Total(settled', In(d)) + Total(b, Observers)
      BY <2>8, <2>10, <2>11, <2>12, <2>13, <2>14
    <2>16. Total(begun, In(d)) = Total(settled', In(d)) + Total(y, Observers)
      BY <2>9, <2>10, <2>11, <2>13, <2>14
    <2> QED
      BY <1>1, <2>6, <2>7, <2>15, <2>16
  <1>13. Balanced'
    BY <1>12 DEF Balanced
  <1>14. Copied' /\ Scraped'
    <2>1. \A w \in Values : begun[w] <= begun'[w]
      BY <1>1 DEF HistogramTypes
    <2> QED
      BY <1>1, <1>8, <1>9, <1>10, <2>1, StillBetween
  <1> QED
    BY <1>10, <1>11, <1>13, <1>14 DEF HistogramInv

\* What the steps that touch neither cells nor observations keep.
LEMMA CountsKept ==
    ASSUME HistogramInv, HistogramTypes', UNCHANGED <<hist, busy, begun, settled>>
    PROVE  OwnCells' /\ Balanced'
  <1>1. OwnCells /\ Balanced
    BY DEF HistogramInv
  <1>2. OwnCells'
    BY <1>1 DEF OwnCells
  <1>3. ASSUME NEW c \in Tally PROVE Landed(c)' = Landed(c) /\ Underway(c)' = Underway(c)
    BY DEF Landed, Underway
  <1>4. Balanced'
    BY <1>1, <1>3 DEF Balanced
  <1> QED
    BY <1>2, <1>4

LEMMA BeginOK ==
    ASSUME HistogramInv, Begin
    PROVE  HistogramInv'
  <1> HistogramTypes /\ Scraped
    BY DEF HistogramInv
  <1>1. /\ reader' = [cells |-> NoCounts, left |-> Cells, from |-> settled]
        /\ UNCHANGED <<hist, busy, begun, settled, phase, scraped>>
    BY DEF Begin
  <1>2. NoCounts \in [Cells -> Nat] /\ settled \in [Values -> Nat]
    BY DEF NoCounts, HistogramTypes
  <1>3. HistogramTypes'
    BY <1>1, <1>2 DEF HistogramTypes
  <1>4. OwnCells' /\ Balanced'
    BY <1>1, <1>3, CountsKept
  <1>5. Copied'
    <2>1. reader'.left = Cells /\ reader'.from = settled /\ settled' = settled
      BY <1>1
    <2>2. \A v \in Values : settled[v] <= settled[v]
      BY <1>2
    <2> QED
      BY <1>2, <2>1, <2>2 DEF Copied, Tally
  <1>6. Scraped'
    BY <1>1 DEF Scraped, Taken
  <1> QED
    BY <1>3, <1>4, <1>5, <1>6 DEF HistogramInv

LEMMA LoadCellOK ==
    ASSUME HistogramInv, NEW c \in Cells, LoadCell(c)
    PROVE  /\ HistogramInv'
           /\ \A d \in Cells : scraped.cells[d] <= scraped'.cells[d]
  <1> DEFINE cells == [reader.cells EXCEPT ![c] = hist[c]]
             last == reader.left = {c}
  <1> HistogramTypes /\ Balanced /\ Copied /\ Scraped
    BY DEF HistogramInv
  <1>1. /\ c \in reader.left /\ UNCHANGED <<hist, busy, begun, settled>>
        /\ last => /\ scraped' = [cells |-> cells, from |-> reader.from, upto |-> begun]
                   /\ reader' = Idle
        /\ ~last => /\ reader' = [reader EXCEPT !.cells = cells, !.left = reader.left \ {c}]
                    /\ UNCHANGED <<scraped, phase>>
    BY DEF LoadCell, Copy
  <1>2. /\ reader.cells \in [Cells -> Nat] /\ hist \in [Cells -> Nat]
        /\ reader.left \subseteq Cells /\ scraped.cells \in [Cells -> Nat]
        /\ begun \in [Values -> Nat] /\ settled \in [Values -> Nat]
    BY DEF HistogramTypes
  <1>3. /\ cells \in [Cells -> Nat] /\ cells[c] = hist[c]
        /\ \A d \in Cells \ {c} : cells[d] = reader.cells[d]
    BY <1>2
  <1>4. Reading
    BY <1>1 DEF Reading
  <1>5. /\ reader.from \in [Values -> Nat]
        /\ \A v \in Values : reader.from[v] <= settled[v]
    BY <1>4 DEF Copied
  <1> HIDE DEF cells
  <1>6. \A d \in (Cells \ reader.left) \cup {c} : scraped.cells[d] <= cells[d] /\ cells[d] <= hist[d]
    <2>1. ASSUME NEW d \in Cells \ reader.left
          PROVE  scraped.cells[d] <= cells[d] /\ cells[d] <= hist[d]
      BY <1>1, <1>3, <1>4 DEF Copied
    <2>2. scraped.cells[c] <= cells[c] /\ cells[c] <= hist[c]
      <3>1. scraped.cells[c] <= hist[c]
        BY DEF Scraped
      <3> QED
        BY <1>2, <1>3, <3>1
    <2> QED
      BY <2>1, <2>2
  <1>7. \A d \in Tally \cap ((Cells \ reader.left) \cup {c}) :
            Total(reader.from, In(d)) <= cells[d] /\ cells[d] <= Total(begun, In(d))
    <2>1. ASSUME NEW d \in Tally \ reader.left
          PROVE  Total(reader.from, In(d)) <= cells[d] /\ cells[d] <= Total(begun, In(d))
      BY <1>1, <1>3, <1>4 DEF Copied, Tally
    <2>2. ASSUME c \in Tally
          PROVE  Total(reader.from, In(c)) <= cells[c] /\ cells[c] <= Total(begun, In(c))
      <3>1. Total(settled, In(c)) <= hist[c] /\ hist[c] <= Total(begun, In(c))
        BY <2>2, Tallied
      <3>2. Total(reader.from, In(c)) <= Total(settled, In(c))
        BY <1>2, <1>5, SumsRise
      <3>3. /\ Total(reader.from, In(c)) \in Nat /\ Total(settled, In(c)) \in Nat
            /\ hist[c] \in Nat
        BY <1>2, <1>5, SumsOfValues
      <3> QED
        BY <1>3, <3>1, <3>2, <3>3
    <2> QED
      BY <2>1, <2>2
  <1>8. CASE last
    <2>1. /\ scraped' = [cells |-> cells, from |-> reader.from, upto |-> begun]
          /\ reader' = Idle
      BY <1>1, <1>8
    <2>2. (Cells \ reader.left) \cup {c} = Cells /\ Tally \cap Cells = Tally
      BY <1>8 DEF Tally
    <2>3. scraped'.cells = cells /\ scraped'.from = reader.from /\ scraped'.upto = begun
      BY <2>1
    <2>4. NoCounts \in [Cells -> Nat]
      BY DEF NoCounts
    <2>5. reader' \in [cells : [Cells -> Nat], left : SUBSET Cells,
                       from : {None} \cup [Values -> Nat]]
      BY <2>1, <2>4 DEF Idle
    <2>6. scraped' \in [cells : [Cells -> Nat], from : {None} \cup [Values -> Nat],
                        upto : {None} \cup [Values -> Nat]]
      BY <1>2, <1>3, <1>5, <2>1
    <2>7. HistogramTypes'
      BY <1>1, <2>5, <2>6 DEF HistogramTypes
    <2>8. OwnCells' /\ Balanced'
      BY <1>1, <2>7, CountsKept
    <2>9. Copied'
      <3>1. reader'.left = {}
        BY <2>1 DEF Idle
      <3> QED
        BY <3>1 DEF Copied, Reading
    <2>10. Scraped'
      <3>1. /\ \A d \in Cells : cells[d] <= hist[d]
            /\ \A d \in Tally : Total(reader.from, In(d)) <= cells[d] /\ cells[d] <= Total(begun, In(d))
        BY <1>6, <1>7, <2>2
      <3> QED
        BY <1>1, <1>2, <1>5, <2>3, <3>1 DEF Scraped, Taken
    <2> QED
      BY <1>6, <2>2, <2>3, <2>7, <2>8, <2>9, <2>10 DEF HistogramInv
  <1>9. CASE ~last
    <2>1. /\ reader' = [reader EXCEPT !.cells = cells, !.left = reader.left \ {c}]
          /\ UNCHANGED <<scraped, phase>>
      BY <1>1, <1>9
    <2>2. reader' \in [cells : [Cells -> Nat], left : SUBSET Cells,
                       from : {None} \cup [Values -> Nat]]
      BY <1>3, <2>1 DEF HistogramTypes
    <2>3. reader'.cells = cells /\ reader'.left = reader.left \ {c} /\ reader'.from = reader.from
      BY <2>1 DEF HistogramTypes
    <2>4. HistogramTypes'
      BY <1>1, <2>1, <2>2 DEF HistogramTypes
    <2>5. OwnCells' /\ Balanced'
      BY <1>1, <2>4, CountsKept
    <2>6. Copied'
      <3>1. /\ Cells \ reader'.left = (Cells \ reader.left) \cup {c}
            /\ Tally \ reader'.left = Tally \cap ((Cells \ reader.left) \cup {c})
        BY <1>1, <1>2, <2>3 DEF Tally
      <3> QED
        BY <1>1, <1>5, <1>6, <1>7, <2>1, <2>3, <3>1 DEF Copied
    <2>7. Scraped'
      BY <1>1, <2>1 DEF Scraped, Taken
    <2>8. \A d \in Cells : scraped.cells[d] <= scraped.cells[d]
      BY <1>2
    <2> QED
      BY <2>1, <2>4, <2>5, <2>6, <2>7, <2>8 DEF HistogramInv
  <1> QED
    BY <1>8, <1>9

LEMMA InitHistogram == HistogramInit => HistogramInv
  <1> SUFFICES ASSUME HistogramInit PROVE HistogramInv
    OBVIOUS
  <1>1. NoCounts \in [Cells -> Nat] /\ \A c \in Cells : NoCounts[c] = 0
    BY DEF NoCounts
  <1>2. /\ begun \in [Values -> Nat] /\ settled = begun
        /\ \A v \in Values : begun[v] = 0
        /\ hist = NoCounts /\ reader = Idle /\ scraped = NoSnapshot
        /\ \A t \in Observers : busy[t] = None
    BY DEF HistogramInit
  <1>3. HistogramTypes
    <2>1. busy \in [Observers -> {None} \cup Observations]
      BY DEF HistogramInit
    <2>2. reader \in [cells : [Cells -> Nat], left : SUBSET Cells,
                      from : {None} \cup [Values -> Nat]]
      BY <1>1, <1>2 DEF Idle
    <2>3. scraped \in [cells : [Cells -> Nat], from : {None} \cup [Values -> Nat],
                       upto : {None} \cup [Values -> Nat]]
      BY <1>1, <1>2 DEF NoSnapshot
    <2> QED
      BY <1>1, <1>2, <2>1, <2>2, <2>3 DEF HistogramTypes
  <1>4. OwnCells
    BY <1>2 DEF OwnCells
  <1>5. ASSUME NEW c \in Tally
        PROVE  /\ Total(begun, In(c)) = 0 /\ Total(Landed(c), Observers) = 0
               /\ Total(Underway(c), Observers) = 0
    <2>1. IsFiniteSet(In(c)) /\ In(c) \subseteq Values /\ IsFiniteSet(Observers)
      BY CellFacts, HistogramShape
    <2>2. \A t \in Observers : Landed(c)[t] = 0 /\ Underway(c)[t] = 0
      BY <1>2 DEF Landed, Underway
    <2>3. \A v \in In(c) : begun[v] = 0
      BY <1>2, <2>1
    <2> QED
      BY <2>1, <2>2, <2>3, TotalZero
  <1>6. Balanced
    <2>1. \A c \in Tally : hist[c] = 0
      BY <1>1, <1>2 DEF Tally
    <2> QED
      BY <1>2, <1>5, <2>1 DEF Balanced
  <1>7. Copied
    BY <1>2 DEF Copied, Reading, Idle
  <1>8. Scraped
    <2>1. scraped.from = None /\ scraped.cells = NoCounts /\ phase # "over"
      BY <1>2 DEF NoSnapshot, HistogramInit
    <2> QED
      BY <1>1, <1>2, <2>1 DEF Scraped, Taken
  <1> QED
    BY <1>3, <1>4, <1>6, <1>7, <1>8 DEF HistogramInv

\* A step keeps the invariant, and no cell of the last snapshot goes back.
LEMMA HistogramStep ==
    ASSUME HistogramInv, [HistogramNext]_histogramVars
    PROVE  /\ HistogramInv'
           /\ \A c \in Cells : scraped.cells[c] <= scraped'.cells[c]
  <1>1. \A c \in Cells : scraped.cells[c] \in Nat
    BY DEF HistogramInv, HistogramTypes
  <1>2. scraped' = scraped => \A c \in Cells : scraped.cells[c] <= scraped'.cells[c]
    BY <1>1
  <1>3. ASSUME NEW t \in Observers, NEW v \in Values, Observe(t, v)
        PROVE  HistogramInv' /\ scraped' = scraped
    BY <1>3, ObserveOK DEF Observe
  <1>4. ASSUME NEW t \in Observers, NEW c \in Cells, FetchAdd(t, c)
        PROVE  HistogramInv' /\ scraped' = scraped
    BY <1>4, FetchAddOK DEF FetchAdd
  <1>5. ASSUME Begin PROVE HistogramInv' /\ scraped' = scraped
    BY <1>5, BeginOK DEF Begin
  <1>6. ASSUME EndRun \/ UNCHANGED histogramVars PROVE HistogramInv' /\ scraped' = scraped
    <2>1. /\ UNCHANGED <<hist, busy, begun, settled, reader, scraped>>
          /\ phase' = "over" => phase = "over"
      BY <1>6 DEF EndRun, histogramVars
    <2>2. HistogramTypes'
      BY <2>1 DEF HistogramInv, HistogramTypes
    <2>3. OwnCells' /\ Balanced'
      BY <2>1, <2>2, CountsKept
    <2>4. Copied' /\ Scraped'
      <3>1. \A c \in Cells : hist[c] <= hist'[c]
        BY <2>1 DEF HistogramInv, HistogramTypes
      <3>2. \A v \in Values : begun[v] <= begun'[v] /\ settled[v] <= settled'[v]
        BY <2>1 DEF HistogramInv, HistogramTypes
      <3> QED
        BY <2>1, <2>2, <3>1, <3>2, StillBetween DEF HistogramInv
    <2> QED
      BY <2>1, <2>2, <2>3, <2>4 DEF HistogramInv
  <1>7. ASSUME NEW c \in Cells, LoadCell(c)
        PROVE  HistogramInv' /\ \A d \in Cells : scraped.cells[d] <= scraped'.cells[d]
    BY <1>7, LoadCellOK
  <1> QED
    BY <1>2, <1>3, <1>4, <1>5, <1>6, <1>7 DEF HistogramNext

THEOREM HistogramInvariance == HistogramSpec => []HistogramInv
  <1>1. HistogramInv /\ [HistogramNext]_histogramVars => HistogramInv'
    BY HistogramStep
  <1> QED
    BY <1>1, InitHistogram, PTL DEF HistogramSpec

-----------------------------------------------------------------------------
(* What the snapshots show. *)

\* A set of numbers has a greatest one if it is finite.
LEMMA GreatestNumber ==
    ASSUME NEW D, D \subseteq Nat, D # {}, IsFiniteSet(D)
    PROVE  \E m \in D : \A k \in D : k <= m
  <1> DEFINE X == {u \in SUBSET D : \E k \in D : u = {j \in D : k < j}}
  <1>0. X \subseteq SUBSET D
    OBVIOUS
  <1>1. \A k \in D : {j \in D : k < j} \in X
    OBVIOUS
  <1>2. PICK U \in X : \A V \in X : V \subseteq U => V = U
    <2>1. X # {}
      BY <1>1
    <2> HIDE DEF X
    <2> QED
      BY ONLY IsFiniteSet(D), <1>0, <2>1, Smallest
  <1>3. PICK m \in D : U = {j \in D : m < j}
    BY <1>2
  <1>4. ASSUME NEW k \in D, m < k PROVE FALSE
    <2> DEFINE V == {j \in D : k < j}
    <2>1. V \in X
      BY <1>1
    <2>2. m \in Nat /\ k \in Nat /\ \A j \in D : j \in Nat
      OBVIOUS
    <2>3. V \subseteq U
      <3>1. \A j \in D : k < j => m < j
        BY <1>4, <2>2
      <3> QED
        BY <1>3, <3>1
    <2>4. k \in U /\ k \notin V
      BY <1>3, <1>4, <2>2
    <2> HIDE DEF V, X
    <2> QED
      BY <1>2, <2>1, <2>3, <2>4
  <1> QED
    <2>1. \A k \in D : k \in Nat
      OBVIOUS
    <2> QED
      BY <1>3, <1>4, <2>1

\* The buckets up to a bound count the values up to it.
LEMMA UpToBound ==
    /\ \A i \in 1 .. Len(Bounds) : UpTo(i) = {v \in Values : v <= Bounds[i]}
    /\ UpTo(Len(Bounds) + 1) = Values /\ UpTo(0) = {}
    /\ \A i : UpTo(i) \subseteq Values /\ IsFiniteSet(UpTo(i))
  <1>1. Len(Bounds) \in Nat /\ \A v \in Values : BucketIndex(v) \in 1 .. Len(Bounds) + 1
    BY IndexOf, BoundsRise DEF Buckets
  <1>2. \A i \in 1 .. Len(Bounds) : UpTo(i) = {v \in Values : v <= Bounds[i]}
    BY IndexOf DEF UpTo
  <1>3. UpTo(Len(Bounds) + 1) = Values
    BY <1>1 DEF UpTo
  <1>4. UpTo(0) = {}
    BY <1>1 DEF UpTo
  <1>5. \A i : UpTo(i) \subseteq Values /\ IsFiniteSet(UpTo(i))
    <2>1. \A i : UpTo(i) \subseteq Values
      BY DEF UpTo
    <2> QED
      BY <2>1, HistogramShape, FS_Subset
  <1> QED
    BY <1>2, <1>3, <1>4, <1>5

\* SnapshotWithinRun holds of every published histogram of metrics.cc: a torn
\* snapshot lies between what had landed before it and what began before its end.
THEOREM SnapshotsWithinRun == HistogramSpec => []SnapshotWithinRun
  <1>1. HistogramInv => SnapshotWithinRun
    <2> SUFFICES ASSUME HistogramInv, Taken PROVE SnapshotWithinRun
      BY DEF SnapshotWithinRun
    <2> DEFINE L == Len(Bounds)
               h == scraped.cells
               f == scraped.from
               g == scraped.upto
    <2>1. h \in [Cells -> Nat] /\ f \in [Values -> Nat] /\ g \in [Values -> Nat]
      BY DEF HistogramInv, HistogramTypes, Scraped
    <2>2. \A c \in Tally : Total(f, In(c)) <= h[c] /\ h[c] <= Total(g, In(c))
      BY DEF HistogramInv, Scraped
    <2> HIDE DEF h, f, g
    <2>3. \A j \in Buckets : /\ Total(f, In(<<"bucket", j>>)) <= h[<<"bucket", j>>]
                             /\ h[<<"bucket", j>>] <= Total(g, In(<<"bucket", j>>))
      BY <2>2, CellFacts
    <2>4. \A i \in 0 .. L + 1 : /\ Total(f, UpTo(i)) <= Cumulative(h, i)
                                /\ Cumulative(h, i) <= Total(g, UpTo(i))
                                /\ Cumulative(h, i) \in Nat
      BY <2>1, <2>3, Cumulated
    <2>5. L \in Nat
      BY BoundsRise
    <2>6. \A i : Total(f, UpTo(i)) \in Nat /\ Total(g, UpTo(i)) \in Nat
      <3>1. \A i : \A v \in UpTo(i) : f[v] \in Nat /\ g[v] \in Nat
        BY <2>1, UpToBound
      <3> QED
        BY <3>1, UpToBound, TotalNat
    <2>7. ASSUME NEW i \in 1 .. L
          PROVE  Cumulative(h, i) \in Below(f, Bounds[i]) .. Below(g, Bounds[i])
      <3>1. /\ Total(f, UpTo(i)) <= Cumulative(h, i)
            /\ Cumulative(h, i) <= Total(g, UpTo(i))
            /\ Cumulative(h, i) \in Nat
        BY <2>4, <2>5
      <3>2. Total(f, UpTo(i)) = Below(f, Bounds[i]) /\ Total(g, UpTo(i)) = Below(g, Bounds[i])
        BY UpToBound DEF Below
      <3> QED
        BY <2>6, <3>1, <3>2
    <2>8. Cumulative(h, L + 1) \in Total(f, Values) .. Total(g, Values)
      <3>1. /\ Total(f, UpTo(L + 1)) <= Cumulative(h, L + 1)
            /\ Cumulative(h, L + 1) <= Total(g, UpTo(L + 1))
            /\ Cumulative(h, L + 1) \in Nat
        BY <2>4, <2>5
      <3>2. UpTo(L + 1) = Values
        BY UpToBound
      <3> QED
        BY <2>6, <3>1, <3>2
    <2>9. h[CountCell] \in Total(f, Values) .. Total(g, Values)
      <3>1. In(CountCell) = Values /\ CountCell \in Tally /\ CountCell \in Cells
        BY CellFacts DEF Tally
      <3>2. Total(f, Values) \in Nat /\ Total(g, Values) \in Nat
        BY <2>6, UpToBound
      <3>3. h[CountCell] \in Nat
        BY <2>1, <3>1
      <3> QED
        BY <2>2, <3>1, <3>2, <3>3
    <2> QED
      BY <2>7, <2>8, <2>9 DEF SnapshotWithinRun, h, f, g
  <1> QED
    BY <1>1, HistogramInvariance, PTL

\* Cells that do not go back make samples that do not.
LEMMA CumulativeGrows ==
    ASSUME NEW h \in [Cells -> Nat], NEW g \in [Cells -> Nat], \A c \in Cells : h[c] <= g[c],
           NEW i \in Buckets
    PROVE  Cumulative(g, i) >= Cumulative(h, i)
  <1> DEFINE H == [j \in 1 .. i |-> h[<<"bucket", j>>]]
             G == [j \in 1 .. i |-> g[<<"bucket", j>>]]
  <1>1. IsFiniteSet(1 .. i) /\ \A j \in 1 .. i : <<"bucket", j>> \in Cells
    <2>1. Len(Bounds) \in Nat
      BY BoundsRise
    <2>2. IsFiniteSet(1 .. i)
      BY <2>1, FS_Interval DEF Buckets
    <2>3. \A j \in 1 .. i : j \in Buckets
      BY <2>1 DEF Buckets
    <2> QED
      BY <2>2, <2>3, CellFacts DEF Tally
  <1>2. \A j \in 1 .. i : H[j] \in Nat /\ G[j] \in Nat /\ H[j] <= G[j]
    BY <1>1
  <1>3. Cumulative(h, i) = Total(H, 1 .. i) /\ Cumulative(g, i) = Total(G, 1 .. i)
    BY DEF Cumulative
  <1> HIDE DEF H, G
  <1>4. Total(H, 1 .. i) <= Total(G, 1 .. i)
    BY <1>1, <1>2, TotalAtMost
  <1>5. Total(H, 1 .. i) \in Nat /\ Total(G, 1 .. i) \in Nat
    BY <1>1, <1>2, TotalNat
  <1> QED
    BY <1>3, <1>4, <1>5

\* ScrapesGrow holds of every scrape of metrics.cc and of the final snapshot: no
\* sample is lower than in the one before, whatever the order of the loads.
THEOREM ScrapesOnlyGrow == HistogramSpec => ScrapesGrow
  <1> DEFINE A == /\ \A i \in Buckets :
                        Cumulative(scraped'.cells, i) >= Cumulative(scraped.cells, i)
                  /\ \A c \in {SumCell, CountCell} : scraped'.cells[c] >= scraped.cells[c]
  <1>1. HistogramInv /\ [HistogramNext]_histogramVars => A
    <2> SUFFICES ASSUME HistogramInv, [HistogramNext]_histogramVars PROVE A
      OBVIOUS
    <2>1. /\ scraped.cells \in [Cells -> Nat] /\ scraped'.cells \in [Cells -> Nat]
          /\ \A c \in Cells : scraped.cells[c] <= scraped'.cells[c]
      BY HistogramStep DEF HistogramInv, HistogramTypes
    <2>2. PICK h, g \in [Cells -> Nat] : h = scraped.cells /\ g = scraped'.cells
      BY <2>1
    <2>3. \A i \in Buckets : Cumulative(g, i) >= Cumulative(h, i)
      BY <2>1, <2>2, CumulativeGrows
    <2>4. \A c \in {SumCell, CountCell} : c \in Cells /\ h[c] <= g[c] /\ h[c] \in Nat /\ g[c] \in Nat
      BY <2>1, <2>2, CellFacts DEF Tally
    <2>5. \A c \in {SumCell, CountCell} : g[c] >= h[c]
      BY <2>4
    <2> QED
      BY <2>2, <2>3, <2>5
  <1>2. HistogramInv /\ [HistogramNext]_histogramVars => [A]_histogramVars
    BY <1>1
  <1> HIDE DEF A
  <1>3. HistogramSpec => [][A]_histogramVars
    BY <1>2, HistogramInvariance, PTL DEF HistogramSpec
  <1> QED
    BY <1>3 DEF ScrapesGrow, A

\* A percentage of a count.
LEMMA Percentage ==
    ASSUME NEW p \in Percents, NEW n \in Nat, n > 0
    PROVE  p * n \in Nat /\ 0 < p * n /\ p * n <= n * 100
  <1>1. p = 50 \/ p = 95 \/ p = 99
    BY DEF Percents
  <1>2. CASE p = 50
    BY <1>2
  <1>3. CASE p = 95
    BY <1>3
  <1>4. CASE p = 99
    BY <1>4
  <1> QED
    BY <1>1, <1>2, <1>3, <1>4

\* Factors keep an order.
LEMMA Factors ==
    ASSUME NEW a \in Nat, NEW b \in Nat, NEW c \in Nat, a <= b
    PROVE  a * c <= b * c /\ a * c \in Nat /\ b * c \in Nat
  OBVIOUS

\* Interpolation stays between the ends.
LEMMA Interpolated ==
    ASSUME NEW lo \in Nat, NEW hi \in Nat, NEW den \in Nat, NEW over \in Nat,
           lo < hi, 0 < over, over <= den
    PROVE  /\ lo * den < lo * den + over * (hi - lo)
           /\ lo * den + over * (hi - lo) <= hi * den
           /\ lo * den + over * (hi - lo) \in Nat
  <1> DEFINE d == hi - lo
  <1>1. d \in Nat /\ 0 < d /\ hi = lo + d
    OBVIOUS
  <1> HIDE DEF d
  <1>2. over * d \in Nat /\ over * d <= den * d /\ den * d \in Nat
    BY <1>1, Factors
  <1>3. 0 < over * d
    BY <1>1
  <1>4. hi * den = lo * den + den * d
    BY <1>1
  <1>5. lo * den \in Nat
    OBVIOUS
  <1> QED
    BY <1>2, <1>3, <1>4, <1>5 DEF d

\* The nearest-rank observation is up to a bound if enough are.
LEMMA RankAt ==
    ASSUME NEW f \in [Values -> Nat], NEW need \in Nat, 0 < need,
           need <= Total(f, Values) * 100, NEW k \in 1 .. Len(Bounds)
    PROVE  LET rank == Min({v \in Values : Below(f, v) * 100 >= need})
           IN (rank <= Bounds[k]) <=> (Total(f, UpTo(k)) * 100 >= need)
  <1> DEFINE R == {v \in Values : Below(f, v) * 100 >= need}
             UpToValue(b) == {v \in Values : v <= b}
  <1>1. Values \in SUBSET Nat /\ IsFiniteSet(Values) /\ Bounds[k] \in Nat
    BY HistogramShape, BoundsRise
  <1>2. \A b : /\ UpToValue(b) \subseteq Values /\ IsFiniteSet(UpToValue(b))
               /\ Total(f, UpToValue(b)) \in Nat /\ Below(f, b) = Total(f, UpToValue(b))
    <2>1. \A b : UpToValue(b) \subseteq Values
      OBVIOUS
    <2>2. \A b : IsFiniteSet(UpToValue(b))
      BY <1>1, <2>1, FS_Subset
    <2>3. \A b : \A v \in UpToValue(b) : f[v] \in Nat
      BY <2>1
    <2>4. \A b : Total(f, UpToValue(b)) \in Nat
      <3> HIDE DEF UpToValue
      <3> QED
        BY <2>2, <2>3, TotalNat
    <2>5. \A b : Below(f, b) = Total(f, UpToValue(b))
      BY DEF Below
    <2> QED
      BY <2>1, <2>2, <2>4, <2>5
  <1>3. UpTo(k) = UpToValue(Bounds[k])
    BY UpToBound
  <1>4. ASSUME NEW T \in SUBSET Values, T # {}, NEW m \in T, \A v \in T : v <= m,
               T = UpToValue(m), Total(f, T) * 100 >= need
        PROVE  m \in R
    BY <1>2, <1>4
  <1>5. R # {}
    <2>1. Values # {}
      <3>1. SUFFICES ASSUME Values = {} PROVE FALSE
        OBVIOUS
      <3>2. Total(f, Values) = 0
        BY <3>1, TotalEmpty
      <3> QED
        BY <3>2
    <2>2. PICK m \in Values : \A v \in Values : v <= m
      BY <1>1, <2>1, GreatestNumber
    <2>3. Values = UpToValue(m)
      BY <2>2
    <2>4. Total(f, Values) * 100 >= need
      <3>1. Total(f, Values) \in Nat
        BY <1>2, <2>3
      <3> QED
        BY <3>1
    <2> HIDE DEF R, UpToValue
    <2> QED
      BY <1>4, <2>1, <2>2, <2>3, <2>4
  <1>6. PICK rank \in R : /\ rank = Min(R) /\ \A v \in R : rank <= v
    <2>1. R \in SUBSET Nat
      BY <1>1
    <2> HIDE DEF R
    <2> QED
      BY <1>5, <2>1, MinOf
  <1>7. rank \in Values /\ rank \in Nat /\ Below(f, rank) * 100 >= need
    BY <1>1, <1>6
  <1>8. ASSUME rank <= Bounds[k] PROVE Total(f, UpTo(k)) * 100 >= need
    <2> DEFINE A == UpToValue(rank)
               B == UpToValue(Bounds[k])
    <2>1. A \subseteq B
      <3>1. \A v \in Values : v \in Nat
        BY <1>1
      <3>2. \A v \in Values : v <= rank => v <= Bounds[k]
        BY <1>1, <1>7, <1>8, <3>1
      <3> QED
        BY <3>2
    <2>2. IsFiniteSet(A) /\ IsFiniteSet(B) /\ B \subseteq Values
      BY <1>2
    <2> HIDE DEF A, B
    <2>3. Total(f, B) = Total(f, A) + Total(f, B \ A)
      <3>1. IsFiniteSet(B \ A) /\ A \cap (B \ A) = {} /\ A \cup (B \ A) = B
        BY <2>1, <2>2, FS_Subset
      <3>2. \A v \in A \cup (B \ A) : f[v] \in Nat
        BY <2>2, <3>1
      <3>3. Total(f, A \cup (B \ A)) = Total(f, A) + Total(f, B \ A)
        BY ONLY <2>2, <3>1, <3>2, TotalUnion
      <3> QED
        BY <3>1, <3>3
    <2>4. Total(f, B \ A) \in Nat
      <3>1. IsFiniteSet(B \ A) /\ \A v \in B \ A : f[v] \in Nat
        BY <2>2, FS_Subset
      <3> QED
        BY <3>1, TotalNat
    <2>5. Total(f, A) \in Nat /\ Total(f, A) * 100 >= need
      BY <1>2, <1>7 DEF A
    <2> QED
      BY <1>3, <2>3, <2>4, <2>5 DEF B
  <1>9. ASSUME Total(f, UpTo(k)) * 100 >= need PROVE rank <= Bounds[k]
    <2> DEFINE T == UpTo(k)
    <2>1. T \in SUBSET Nat /\ IsFiniteSet(T) /\ T \subseteq Values
      BY <1>1, UpToBound
    <2>2. T # {}
      <3>1. SUFFICES ASSUME T = {} PROVE FALSE
        OBVIOUS
      <3>2. Total(f, T) = 0
        BY <3>1, TotalEmpty
      <3> QED
        BY <1>9, <3>2
    <2>3. PICK m \in T : \A v \in T : v <= m
      <3> HIDE DEF T
      <3> QED
        BY <2>1, <2>2, GreatestNumber
    <2>4. m \in Values /\ m <= Bounds[k] /\ m \in Nat
      BY <1>1, <1>3, <2>3
    <2>5. T = UpToValue(m)
      <3>1. \A v \in Values : v \in Nat
        BY <1>1
      <3>2. \A v \in Values : v <= m => v <= Bounds[k]
        BY <1>1, <2>4, <3>1
      <3>3. T = UpToValue(Bounds[k])
        BY <1>3
      <3> HIDE DEF T
      <3> QED
        BY <2>3, <3>2, <3>3
    <2>6. m \in R
      <3> HIDE DEF R, UpToValue
      <3> QED
        BY <1>4, <1>9, <2>1, <2>2, <2>3, <2>5
    <2> QED
      BY <1>1, <1>6, <1>7, <2>4, <2>6
  <1> QED
    BY <1>6, <1>8, <1>9

\* The percentile of exact cells is up to a bound if enough observations are.
LEMMA PercentileAt ==
    ASSUME NEW h \in [Cells -> Nat], NEW f \in [Values -> Nat],
           \A c \in Tally : h[c] = Total(f, In(c)),
           Total(f, Values) > 0, NEW p \in Percents, NEW k \in 1 .. Len(Bounds)
    PROVE  LET q == HistogramPercentile(h, p)
           IN (q.num <= Bounds[k] * q.den) <=> (Total(f, UpTo(k)) * 100 >= p * Total(f, Values))
  <1> DEFINE L == Len(Bounds)
             n == h[CountCell]
             need == p * n
             m == Min(Reached(h, p))
             C(i) == Cumulative(h, i)
             in == h[<<"bucket", m>>]
             den == 100 * in
             over == need - 100 * C(m - 1)
             lo == Lower(m)
             hi == Upper(m)
             q == HistogramPercentile(h, p)
  <1>1. L \in Nat /\ L > 0 /\ k \in Nat /\ k >= 1 /\ k <= L
    BY BoundsRise
  <1>2. n = Total(f, Values) /\ n \in Nat /\ n > 0
    BY CellFacts DEF Tally
  <1>3. need \in Nat /\ 0 < need /\ need <= n * 100
    BY <1>2, Percentage
  <1>4. \A i \in 0 .. L + 1 : C(i) = Total(f, UpTo(i)) /\ C(i) \in Nat
    <2>1. \A j \in Buckets : /\ Total(f, In(<<"bucket", j>>)) <= h[<<"bucket", j>>]
                             /\ h[<<"bucket", j>>] <= Total(f, In(<<"bucket", j>>))
      <3>1. ASSUME NEW j \in Buckets
            PROVE  /\ Total(f, In(<<"bucket", j>>)) <= h[<<"bucket", j>>]
                   /\ h[<<"bucket", j>>] <= Total(f, In(<<"bucket", j>>))
        <4> DEFINE c == <<"bucket", j>>
        <4>1. c \in Tally /\ c \in Cells
          BY CellFacts DEF Tally
        <4> HIDE DEF c
        <4>2. h[c] = Total(f, In(c)) /\ h[c] \in Nat
          BY <4>1
        <4> QED
          BY <4>2 DEF c
      <3> QED
        BY <3>1
    <2>2. \A i \in 0 .. L + 1 : /\ Total(f, UpTo(i)) <= C(i) /\ C(i) <= Total(f, UpTo(i))
                                /\ C(i) \in Nat
      BY <2>1, Cumulated
    <2>3. \A i : Total(f, UpTo(i)) \in Nat
      <3>1. \A i : \A v \in UpTo(i) : f[v] \in Nat
        BY UpToBound
      <3> QED
        BY <3>1, UpToBound, TotalNat
    <2> HIDE DEF C
    <2> QED
      BY <2>2, <2>3
  <1>5. \A i \in Buckets : C(i) = C(i - 1) + h[<<"bucket", i>>] /\ h[<<"bucket", i>>] \in Nat
    <2>1. ASSUME NEW i \in Buckets PROVE C(i) = C(i - 1) + h[<<"bucket", i>>]
      <3> DEFINE H == [j \in 1 .. i |-> h[<<"bucket", j>>]]
                 G == [j \in 1 .. i - 1 |-> h[<<"bucket", j>>]]
      <3>1. i \in Nat /\ i >= 1 /\ \A j \in 1 .. i : j \in Buckets
        BY <1>1 DEF Buckets
      <3>2. i \in 1 .. i /\ (1 .. i) \ {i} = 1 .. i - 1
        BY <3>1
      <3>3. IsFiniteSet(1 .. i)
        BY <3>1, FS_Interval
      <3>4. \A j \in 1 .. i : H[j] \in Nat
        BY <3>1, CellFacts DEF Tally
      <3>5. \A j \in 1 .. i - 1 : H[j] = G[j]
        BY <3>1
      <3>6. IsFiniteSet(1 .. i - 1)
        BY <3>2, <3>3, FS_Subset
      <3>7. H[i] = h[<<"bucket", i>>]
        BY <3>2
      <3>8. C(i) = Total(H, 1 .. i) /\ C(i - 1) = Total(G, 1 .. i - 1)
        BY DEF Cumulative
      <3> DEFINE I == 1 .. i
                 J == 1 .. i - 1
      <3> HIDE DEF H, G, C, I, J
      <3>9. Total(H, J) = Total(G, J)
        <4>1. IsFiniteSet(J) /\ \A j \in J : H[j] = G[j]
          BY <3>5, <3>6 DEF J
        <4> QED
          BY ONLY <4>1, TotalSame
      <3>10. Total(H, I) = H[i] + Total(H, J)
        <4>1. i \in I /\ I \ {i} = J /\ IsFiniteSet(I) /\ \A j \in I : H[j] \in Nat
          BY <3>2, <3>3, <3>4 DEF I, J
        <4>2. Total(H, I) = H[i] + Total(H, I \ {i})
          BY ONLY <4>1, TotalRemove
        <4> QED
          BY <4>1, <4>2
      <3>11. i - 1 \in 0 .. L + 1 /\ h[<<"bucket", i>>] \in Nat
        BY <1>1, <3>1, CellFacts DEF Buckets, Tally
      <3> QED
        BY <1>4, <3>7, <3>8, <3>9, <3>10, <3>11 DEF I, J
    <2> QED
      BY <2>1, CellFacts DEF Tally
  <1>6. \A i, j \in 0 .. L + 1 : i <= j => C(i) <= C(j)
    <2>1. \A i, j \in 0 .. L + 1 : i <= j => UpTo(i) \subseteq UpTo(j)
      <3>1. \A v \in Values : BucketIndex(v) \in Nat
        BY <1>1, IndexOf DEF Buckets
      <3>2. ASSUME NEW i \in 0 .. L + 1, NEW j \in 0 .. L + 1, i <= j, NEW v \in Values
            PROVE  BucketIndex(v) <= i => BucketIndex(v) <= j
        BY <1>1, <3>1, <3>2
      <3> QED
        BY <3>2 DEF UpTo
    <2>2. ASSUME NEW i \in 0 .. L + 1, NEW j \in 0 .. L + 1, i <= j
          PROVE  C(i) <= C(j)
      <3> DEFINE A == UpTo(i)
                 B == UpTo(j)
      <3>1. A \subseteq B /\ IsFiniteSet(B) /\ IsFiniteSet(A) /\ B \subseteq Values
        BY <2>1, <2>2, UpToBound
      <3> HIDE DEF A, B
      <3>2. IsFiniteSet(B \ A) /\ A \cap (B \ A) = {} /\ A \cup (B \ A) = B
        BY <3>1, FS_Subset
      <3>3. \A v \in A \cup (B \ A) : f[v] \in Nat
        BY <3>1, <3>2
      <3>4. Total(f, A \cup (B \ A)) = Total(f, A) + Total(f, B \ A)
        BY ONLY <3>1, <3>2, <3>3, TotalUnion
      <3>5. Total(f, A) \in Nat /\ Total(f, B \ A) \in Nat
        BY <3>1, <3>2, <3>3, TotalNat
      <3>6. C(i) = Total(f, A) /\ C(j) = Total(f, B)
        BY <1>4 DEF A, B
      <3>7. Total(f, B) = Total(f, A) + Total(f, B \ A)
        BY <3>2, <3>4
      <3> HIDE DEF C
      <3> QED
        BY <3>5, <3>6, <3>7
    <2> QED
      BY <2>2
  <1>7. C(0) = 0 /\ C(L + 1) = n
    <2>1. 0 \in 0 .. L + 1 /\ L + 1 \in 0 .. L + 1
      BY <1>1
    <2> QED
      BY <1>2, <1>4, <2>1, UpToBound, TotalEmpty
  <1>8. \A i \in Buckets : i \in Nat /\ i \in 0 .. L + 1 /\ i - 1 \in 0 .. L + 1 /\ i >= 1
    BY <1>1 DEF Buckets
  <1> HIDE DEF C
  <1>9. Reached(h, p) = {i \in Buckets : C(i) * 100 >= need}
    BY DEF Reached, C
  <1>10. /\ m \in Buckets /\ C(m) * 100 >= need
         /\ \A i \in Buckets : C(i) * 100 >= need => m <= i
    <2>1. L + 1 \in Reached(h, p)
      <3>1. L + 1 \in Buckets /\ C(L + 1) * 100 >= need
        BY <1>1, <1>2, <1>3, <1>7 DEF Buckets
      <3> QED
        BY <1>9, <3>1
    <2>2. Reached(h, p) \in SUBSET Nat
      BY <1>8, <1>9
    <2>3. m \in Reached(h, p) /\ \A i \in Reached(h, p) : m <= i
      BY <2>1, <2>2, MinOf
    <2> HIDE DEF m
    <2> QED
      BY <1>9, <2>3
  <1> HIDE DEF m, need
  <1>11. C(m - 1) * 100 < need /\ C(m - 1) \in Nat
    <2>1. m - 1 \in 0 .. L + 1 /\ m \in Nat /\ m >= 1
      BY <1>8, <1>10
    <2>2. C(m - 1) \in Nat
      BY <1>4, <2>1
    <2>3. CASE m = 1
      BY <1>3, <1>7, <2>2, <2>3
    <2>4. CASE m # 1
      <3>1. m - 1 \in Buckets /\ ~(m <= m - 1)
        BY <1>1, <2>1, <2>4 DEF Buckets
      <3>2. ~(C(m - 1) * 100 >= need)
        BY <1>10, <3>1
      <3> QED
        BY <1>3, <2>2, <3>2
    <2> QED
      BY <2>3, <2>4, <2>2
  <1>12. /\ in \in Nat /\ in > 0 /\ den \in Nat /\ over \in Nat
         /\ 0 < over /\ over <= den
    <2>1. C(m) = C(m - 1) + in /\ in \in Nat
      BY <1>5, <1>10
    <2> HIDE DEF in
    <2> QED
      BY <1>3, <1>10, <1>11, <2>1
  <1>13. lo \in Nat /\ hi \in Nat /\ lo < hi
    <2>1. m \in Nat /\ m >= 1 /\ m <= L + 1
      BY <1>1, <1>10 DEF Buckets
    <2>2. CASE m = 1
      <3>1. lo = 0 /\ hi = Bounds[1]
        BY <1>1, <2>2 DEF Lower, Upper
      <3> QED
        BY <1>1, <3>1, BoundsRise
    <2>3. CASE m # 1 /\ m <= L
      <3>1. m - 1 \in 1 .. L /\ m \in 1 .. L /\ m - 1 < m
        BY <1>1, <2>1, <2>3
      <3>2. lo = Bounds[m - 1] /\ hi = Bounds[m]
        BY <2>3 DEF Lower, Upper
      <3>3. Bounds[m - 1] < Bounds[m]
        BY <3>1, HistogramShape
      <3> QED
        BY <3>1, <3>2, <3>3, BoundsRise
    <2>4. CASE m = L + 1
      <3>1. lo = Bounds[L] /\ hi = Bounds[L] * 2 /\ L \in 1 .. L
        <4>1. m # 1 /\ ~(m <= L) /\ m - 1 = L /\ L \in 1 .. L
          BY <1>1, <2>4
        <4> QED
          BY <4>1 DEF Lower, Upper
      <3>2. Bounds[L] \in Nat \ {0}
        BY <3>1, BoundsRise
      <3> QED
        BY <3>1, <3>2
    <2> QED
      BY <1>1, <2>1, <2>2, <2>3, <2>4
  <1>14. q.num = lo * den + over * (hi - lo) /\ q.den = den
    <2>1. Reached(h, p) # {}
      BY <1>9, <1>10
    <2>2. q = [num |-> lo * den + over * (hi - lo), den |-> den]
      <3>1. n # 0 /\ in # 0
        BY <1>2, <1>12
      <3> QED
        BY <2>1, <3>1 DEF HistogramPercentile, m, need, C
    <2> HIDE DEF q
    <2> QED
      BY <2>2
  <1> HIDE DEF in, den, over, lo, hi, q
  <1>15. lo * den < q.num /\ q.num <= hi * den /\ q.num \in Nat
    BY <1>12, <1>13, <1>14, Interpolated
  <1>16. Bounds[k] \in Nat /\ k \in Buckets
    BY <1>1, BoundsRise DEF Buckets
  <1>17. C(k) * 100 >= need <=> m <= k
    <2>1. k \in 0 .. L + 1 /\ m \in 0 .. L + 1
      BY <1>8, <1>10, <1>16
    <2>2. ASSUME m <= k PROVE C(k) * 100 >= need
      <3>1. C(m) <= C(k) /\ C(m) \in Nat /\ C(k) \in Nat
        BY <1>4, <1>6, <2>1, <2>2
      <3> QED
        BY <1>3, <1>10, <3>1
    <2> QED
      BY <1>10, <1>16, <2>2
  <1>18. q.num <= Bounds[k] * q.den <=> m <= k
    <2>1. m \in Nat /\ m >= 1 /\ m <= L + 1
      BY <1>1, <1>10 DEF Buckets
    <2>2. CASE m <= k
      <3>1. m \in 1 .. L /\ hi = Bounds[m] /\ Bounds[m] <= Bounds[k]
        BY <1>1, <2>1, <2>2, BoundsRise DEF hi, Upper
      <3>2. hi * den <= Bounds[k] * den /\ hi * den \in Nat /\ Bounds[k] * den \in Nat
        BY <1>12, <1>13, <1>16, <3>1, Factors
      <3> QED
        BY <1>14, <1>15, <2>2, <3>2
    <2>3. CASE k < m
      <3>1. m # 1 /\ m - 1 \in 1 .. L /\ k <= m - 1
        BY <1>1, <2>1, <2>3
      <3>2. lo = Bounds[m - 1] /\ Bounds[k] <= Bounds[m - 1]
        BY <3>1, BoundsRise DEF lo, Lower
      <3>3. Bounds[k] * den <= lo * den /\ lo * den \in Nat /\ Bounds[k] * den \in Nat
        BY <1>12, <1>13, <1>16, <3>2, Factors
      <3> QED
        BY <1>1, <1>14, <1>15, <2>1, <2>3, <3>3
    <2> QED
      BY <1>1, <2>1, <2>2, <2>3
  <1>19. C(k) = Total(f, UpTo(k))
    BY <1>4, <1>8, <1>16
  <1> QED
    BY <1>2, <1>17, <1>18, <1>19 DEF q, need

\* PercentileInItsBucket holds of result.json's percentiles after a run that
\* drained, for any bounds that rise: HistogramPercentile in metrics.cc stays in
\* the bucket of the nearest-rank observation.
THEOREM PercentilesInBucket == HistogramSpec => []PercentileInItsBucket
  <1>1. HistogramInv => PercentileInItsBucket
    <2> DEFINE f == scraped.upto
               h == scraped.cells
    <2> SUFFICES ASSUME HistogramInv, phase = "over", scraped.from = f, Total(f, Values) > 0,
                        NEW p \in Percents, NEW k \in 1 .. Len(Bounds)
                 PROVE  LET n == Total(f, Values)
                            rank == Min({v \in Values : Below(f, v) * 100 >= p * n})
                            q == HistogramPercentile(h, p)
                        IN (rank <= Bounds[k]) <=> (q.num <= Bounds[k] * q.den)
      BY DEF PercentileInItsBucket
    <2>1. f \in [Values -> Nat] /\ h \in [Cells -> Nat]
      BY DEF HistogramInv, HistogramTypes, Scraped
    <2>2. \A c \in Tally : Total(f, In(c)) <= h[c] /\ h[c] <= Total(f, In(c))
      BY DEF HistogramInv, Scraped
    <2> HIDE DEF f, h
    <2>3. \A c \in Tally : h[c] = Total(f, In(c))
      <3>1. \A c \in Tally : h[c] \in Nat /\ Total(f, In(c)) \in Nat
        BY <2>1, SumsOfValues DEF Tally
      <3> QED
        BY <2>2, <3>1
    <2>4. Total(f, Values) \in Nat
      <3>1. IsFiniteSet(Values) /\ \A v \in Values : f[v] \in Nat
        BY <2>1, HistogramShape
      <3> QED
        BY <3>1, TotalNat
    <2> DEFINE need == p * Total(f, Values)
               q == HistogramPercentile(h, p)
               rank == Min({v \in Values : Below(f, v) * 100 >= need})
    <2>5. need \in Nat /\ 0 < need /\ need <= Total(f, Values) * 100
      BY <2>4, Percentage
    <2>6. (q.num <= Bounds[k] * q.den) <=> (Total(f, UpTo(k)) * 100 >= need)
      BY <2>1, <2>3, PercentileAt
    <2>7. (rank <= Bounds[k]) <=> (Total(f, UpTo(k)) * 100 >= need)
      <3> HIDE DEF need
      <3> QED
        BY <2>1, <2>5, RankAt
    <2> QED
      BY <2>6, <2>7
  <1> QED
    BY <1>1, HistogramInvariance, PTL

-----------------------------------------------------------------------------
(* Every observation begun is under way or has landed. *)

Making(v) == [t \in Observers |-> IF busy[t] # None /\ busy[t].value = v THEN 1 ELSE 0]

Accounted ==
    /\ phase \in {"run", "drained", "timedout", "over"}
    /\ \A v \in Values : begun[v] = settled[v] + Total(Making(v), Observers)

LEMMA MakingTypes ==
    ASSUME NEW v
    PROVE  Making(v) \in [Observers -> {0, 1}] /\ Making(v)' \in [Observers -> {0, 1}]
  BY DEF Making

\* A step of one thread accounts for the values that it begins and ends.
LEMMA OneAccount ==
    ASSUME Accounted, NEW t \in Observers, NEW v \in Values,
           \A u \in Observers \ {t} : busy'[u] = busy[u],
           begun[v] \in Nat, settled[v] \in Nat, begun'[v] \in Nat, settled'[v] \in Nat,
           begun'[v] - begun[v] = settled'[v] - settled[v] + (Making(v)'[t] - Making(v)[t])
    PROVE  begun'[v] = settled'[v] + Total(Making(v)', Observers)
  <1>1. PICK a, b \in [Observers -> {0, 1}] : a = Making(v) /\ b = Making(v)'
    BY MakingTypes
  <1>2. \A u \in Observers \ {t} : b[u] = a[u]
    BY <1>1 DEF Making
  <1>3. Total(b, Observers) = Total(a, Observers) - a[t] + b[t] /\ Total(a, Observers) \in Nat
    BY <1>2, OneThread
  <1>4. a[t] \in Nat /\ b[t] \in Nat
    BY <1>1
  <1>5. begun[v] = settled[v] + Total(a, Observers)
    BY <1>1 DEF Accounted
  <1>6. begun'[v] - begun[v] = settled'[v] - settled[v] + (b[t] - a[t])
    BY <1>1
  <1>7. begun'[v] = settled'[v] + Total(b, Observers)
    BY <1>3, <1>4, <1>5, <1>6
  <1> QED
    BY <1>1, <1>7

LEMMA AccountedStep ==
    ASSUME HistogramInv, Accounted, [HistogramNext]_histogramVars
    PROVE  Accounted'
  <1> HistogramTypes /\ HistogramTypes'
    BY HistogramStep DEF HistogramInv
  <1>1. \A v \in Values : /\ begun[v] \in Nat /\ settled[v] \in Nat
                          /\ begun'[v] \in Nat /\ settled'[v] \in Nat
    BY DEF HistogramTypes
  <1>2. ASSUME NEW t \in Observers, NEW w \in Values, Observe(t, w)
        PROVE  Accounted'
    <2> DEFINE o == [value |-> w, left |-> CellsOf(w)]
    <2>1. /\ busy[t] = None /\ busy' = [busy EXCEPT ![t] = o]
          /\ begun' = [begun EXCEPT ![w] = begun[w] + 1] /\ UNCHANGED <<settled, phase>>
      BY <1>2 DEF Observe
    <2>2. o \in Observations /\ o.value = w /\ o # None
      BY CellFacts, IdleThread DEF Observations
    <2> HIDE DEF o
    <2>3. busy'[t] = o /\ \A u \in Observers \ {t} : busy'[u] = busy[u]
      BY <2>1 DEF HistogramTypes
    <2>4. ASSUME NEW v \in Values
          PROVE  begun'[v] = settled'[v] + Total(Making(v)', Observers)
      <3>1. Making(v)[t] = 0 /\ Making(v)'[t] = (IF v = w THEN 1 ELSE 0)
        BY <2>1, <2>2, <2>3 DEF Making
      <3>2. begun'[v] = begun[v] + (IF v = w THEN 1 ELSE 0) /\ settled'[v] = settled[v]
        BY <1>1, <2>1 DEF HistogramTypes
      <3>3. begun'[v] - begun[v] = settled'[v] - settled[v] + (Making(v)'[t] - Making(v)[t])
        BY <1>1, <3>1, <3>2
      <3> QED
        BY <1>1, <2>3, <3>3, OneAccount
    <2> QED
      BY <2>1, <2>4 DEF Accounted
  <1>3. ASSUME NEW t \in Observers, NEW c \in Cells, FetchAdd(t, c)
        PROVE  Accounted'
    <2> DEFINE o == busy[t]
               r == [o EXCEPT !.left = o.left \ {c}]
               last == o.left = {c}
    <2>1. /\ o # None /\ UNCHANGED <<begun, phase>>
          /\ last => /\ busy' = [busy EXCEPT ![t] = None]
                     /\ settled' = [settled EXCEPT ![o.value] = settled[o.value] + 1]
          /\ ~last => busy' = [busy EXCEPT ![t] = r] /\ settled' = settled
      BY <1>3 DEF FetchAdd
    <2>2. o \in Observations
      BY <2>1 DEF HistogramTypes
    <2>3. o.value \in Values /\ r.value = o.value /\ r # None
      <3>1. r \in Observations
        BY <2>2 DEF Observations
      <3> QED
        BY <2>2, <3>1, IdleThread DEF Observations
    <2>4. /\ busy'[t] = (IF last THEN None ELSE r)
          /\ \A u \in Observers \ {t} : busy'[u] = busy[u]
      BY <2>1 DEF HistogramTypes
    <2>5. ASSUME NEW v \in Values
          PROVE  settled'[v] = settled[v] + (IF last /\ v = o.value THEN 1 ELSE 0)
      BY <1>1, <2>1 DEF HistogramTypes
    <2> HIDE DEF r, last
    <2>6. ASSUME NEW v \in Values
          PROVE  begun'[v] = settled'[v] + Total(Making(v)', Observers)
      <3>1. /\ Making(v)[t] = (IF v = o.value THEN 1 ELSE 0)
            /\ Making(v)'[t] = (IF ~last /\ v = o.value THEN 1 ELSE 0)
        BY <2>1, <2>3, <2>4 DEF Making
      <3>2. begun'[v] = begun[v]
        BY <2>1
      <3>3. begun'[v] - begun[v] = settled'[v] - settled[v] + (Making(v)'[t] - Making(v)[t])
        BY <1>1, <2>5, <3>1, <3>2
      <3> QED
        BY <1>1, <2>4, <3>3, OneAccount
    <2> QED
      BY <2>1, <2>6 DEF Accounted
  <1>4. ASSUME UNCHANGED <<busy, begun, settled>>, phase' \in {"run", "drained", "timedout", "over"}
        PROVE  Accounted'
    <2>1. \A v \in Values : Making(v)' = Making(v)
      BY <1>4 DEF Making
    <2> QED
      BY <1>4, <2>1 DEF Accounted
  <1>5. ASSUME NEW c \in Cells, LoadCell(c) PROVE Accounted'
    BY <1>4, <1>5 DEF LoadCell, Copy, Accounted
  <1>6. ASSUME Begin \/ EndRun \/ UNCHANGED histogramVars PROVE Accounted'
    BY <1>4, <1>6 DEF Begin, EndRun, histogramVars, Accounted
  <1> QED
    BY <1>2, <1>3, <1>5, <1>6 DEF HistogramNext

\* HistogramTypeOK holds of the cells of metrics.cc for any number of callback
\* threads: every observation begun is under way in one of them or has landed.
THEOREM HistogramCounts == HistogramSpec => []HistogramTypeOK
  <1>1. HistogramInit => Accounted
    <2> SUFFICES ASSUME HistogramInit PROVE Accounted
      OBVIOUS
    <2>1. \A v \in Values : \A t \in Observers : Making(v)[t] = 0
      BY DEF HistogramInit, Making
    <2>2. \A v \in Values : Total(Making(v), Observers) = 0
      BY <2>1, HistogramShape, TotalZero
    <2> QED
      BY <2>2 DEF HistogramInit, Accounted
  <1>2. HistogramInv /\ Accounted /\ [HistogramNext]_histogramVars => Accounted'
    BY AccountedStep
  <1>3. HistogramInv /\ Accounted => HistogramTypeOK
    <2> SUFFICES ASSUME HistogramInv, Accounted PROVE HistogramTypeOK
      OBVIOUS
    <2>1. ASSUME NEW v \in Values
          PROVE  begun[v] = settled[v]
                    + Cardinality({t \in Observers : busy[t] # None /\ busy[t].value = v})
      <3>1. \A t \in Observers : Making(v)[t] \in {0, 1}
        BY DEF Making
      <3>2. {t \in Observers : Making(v)[t] = 1}
                = {t \in Observers : busy[t] # None /\ busy[t].value = v}
        BY DEF Making
      <3>3. Total(Making(v), Observers) = Cardinality({t \in Observers : Making(v)[t] = 1})
        BY <3>1, HistogramShape, TotalCount
      <3> QED
        BY <3>2, <3>3 DEF Accounted
    <2>2. reader.cells \in [Cells -> Nat] /\ reader.left \subseteq Cells
      BY DEF HistogramInv, HistogramTypes
    <2>3. scraped.cells \in [Cells -> Nat]
      BY DEF HistogramInv, HistogramTypes
    <2> QED
      BY <2>1, <2>2, <2>3 DEF HistogramInv, HistogramTypes, Accounted, HistogramTypeOK
  <1> QED
    BY <1>1, <1>2, <1>3, HistogramInvariance, PTL DEF HistogramSpec

=============================================================================
