---------------------------- MODULE LaunchProofs -----------------------------
(***************************************************************************)
(* The launch's agreement of checks, the lifetime of its credential and the *)
(* price of its items, for every command line, proxy and drain.             *)
(***************************************************************************)
EXTENDS Launch, TLAPS

Labels == {"main", "validate", "select", "auth", "resolve", "engine", "load",
           "drain", "attribute", "done", "refused"}
BeforeEngine == {"main", "validate", "select", "auth", "resolve", "engine"}

\* No time counts before the set-up, and the process is somewhere.
Clocked ==
    /\ cmd \in CommandLines /\ pc \in Labels /\ target \in Nat
    /\ expires \in Int
    /\ pc # "done" => now \in Nat
    /\ pc \in BeforeEngine => now = 0

\* What a workload's checks have established by the time each is past.
Vetted ==
    cmd.workload =>
        /\ why \notin {"uncapped", "endpoint", "files"}
        /\ pc \in {"main", "validate", "select"} => target = 0
        /\ pc \in {"select", "auth", "resolve", "engine", "load", "drain"} \/ target # 0
               => WorkloadAccepted
        /\ pc \in {"auth", "resolve", "engine", "load", "drain"} \/ target # 0
               => target \in DOMAIN cmd.targets
        /\ pc = "resolve" => cfg = Config(cmd.targets[target])
        /\ pc \in {"engine", "load", "drain"} =>
               cfg = [Config(cmd.targets[target]) EXCEPT !.maxBytes = cfg.maxBytes]

\* What the credential must still outlast.
Ahead ==
    Checked =>
        /\ pc \in {"resolve", "engine"} => expires >= cmd.duration + Margin
        /\ pc = "load" => expires >= now + cmd.duration + MaxDelay + DrainWaitCap
        /\ pc = "drain" => expires >= now + DrainWaitCap
        /\ pc = "attribute" => expires >= now

\* A configuration has the command's times.
Timed ==
    pc \in {"resolve", "engine", "load", "drain"} =>
        /\ {"duration", "timeout"} \subseteq DOMAIN cfg
        /\ cfg.duration = cmd.duration /\ cfg.timeout = cmd.timeout

Inv == Clocked /\ Timed /\ Vetted /\ Ahead

\* What is used of a command line.
LEMMA CommandParts ==
    ASSUME NEW c \in CommandLines
    PROVE  /\ c.targets \in Seq(Targets) /\ DOMAIN c.targets = 1 .. Len(c.targets)
           /\ Len(c.targets) \in Nat
           /\ \A i \in DOMAIN c.targets : c.targets[i] \in Targets
           /\ c.duration \in Nat /\ c.timeout \in Nat
  <1>1. c.targets \in Seq(Targets) /\ c.duration \in Nat /\ c.timeout \in Nat
    BY DEF CommandLines
  <1> HIDE DEF Targets
  <1> QED
    BY <1>1

\* A drain waits at most for its cap.
LEMMA DrainCapBound ==
    ASSUME NEW c, c.timeout \in Nat
    PROVE  DrainCap(c) \in Nat /\ DrainCap(c) <= DrainWaitCap
  BY LaunchTimes DEF DrainCap, Smaller

\* A target that was accepted gives a configuration RunRunCommand accepts.
LEMMA AcceptedResolves ==
    ASSUME NEW t \in Targets, TargetAccepted(t)
    PROVE  /\ ~Unresolvable(Config(t))
           /\ Config(t).endpoint # "" /\ Config(t).files # 0
  <1>1. /\ Config(t).rate = ParseTargetRateString(t.bits)
        /\ Config(t).auto = t.auto /\ Config(t).maxBytes = t.maxBytes
        /\ Config(t).endpoint = t.endpoint /\ Config(t).files = t.files
    BY DEF Config
  <1>2. ~Unresolvable(Config(t))
    BY <1>1, Zenon DEF TargetAccepted, PatternAccepted, Unresolvable
  <1>3. t.endpoint = "root" /\ t.files > 0 /\ t.files \in Nat
    BY DEF TargetAccepted, Targets
  <1> QED
    BY <1>1, <1>2, <1>3

\* Resolving changes nothing but the budget.
LEMMA ResolveKeeps ==
    ASSUME NEW t
    PROVE  ResolveRunConfig(Config(t)) =
               [Config(t) EXCEPT !.maxBytes = ResolveRunConfig(Config(t)).maxBytes]
  BY DEF ResolveRunConfig, Config

\* A launch begins with nothing checked.
LEMMA InitInv == Init => Inv
  <1> SUFFICES ASSUME Init PROVE Inv
    OBVIOUS
  <1>1. cmd \in CommandLines
    BY LaunchCommands DEF Init
  <1>2. pc = "main" /\ why = ""
    BY DEF Init
  <1>6. target = 0 /\ now = 0 /\ expires = 0
    BY DEF Init
  <1>3. Clocked
    <2>1. pc \in Labels
      BY <1>2 DEF Labels
    <2>2. target \in Nat /\ now \in Nat /\ expires \in Int
      BY <1>6
    <2> QED
      BY <1>1, <1>6, <2>1, <2>2 DEF Clocked
  <1>4. Vetted
    BY <1>2, <1>6 DEF Vetted
  <1>5. Timed /\ Ahead
    BY <1>2 DEF Timed, Ahead
  <1> QED
    BY <1>3, <1>4, <1>5 DEF Inv

\* Each step keeps Inv: the dispatch on the mode,
LEMMA DispatchKeeps == ASSUME Inv, Dispatch PROVE Inv'
  <1> USE DEF Inv, Dispatch, Refuse, Go
  <1>1. Clocked'
    BY DEF Clocked, Labels, BeforeEngine
  <1>2. Vetted'
    BY DEF Clocked, Vetted, BeforeEngine, WorkloadAccepted, Config
  <1>3. Timed' /\ Ahead'
    BY DEF Timed, Ahead, Checked
  <1> QED
    BY <1>1, <1>2, <1>3

\* the parsing of the flags,
LEMMA ParseFlagsKeeps == ASSUME Inv, ParseFlags PROVE Inv'
  <1> USE DEF Inv
  <1>1. /\ pc = "main" /\ ~cmd.workload /\ UNCHANGED <<cmd, now, expires>>
        /\ \/ pc' = "refused" /\ target' = target
           \/ /\ pc' = "resolve" /\ target' = 1
              /\ cfg' = ConfigOfFlags(cmd.targets[1])
    BY DEF ParseFlags, Refuse, Go
  <1>2. Clocked'
    BY <1>1 DEF Clocked, Labels, BeforeEngine
  <1>3. Vetted'
    BY <1>1 DEF Vetted
  <1>4. Timed'
    BY <1>1 DEF Timed, ConfigOfFlags, Config
  <1>5. Ahead'
    BY <1>1 DEF Ahead, Checked
  <1> QED
    BY <1>2, <1>3, <1>4, <1>5

\* the validation,
LEMMA ValidateKeeps == ASSUME Inv, ValidateWorkloadFile PROVE Inv'
  <1> USE DEF Inv, ValidateWorkloadFile, Refuse, Go
  <1>1. Clocked'
    BY DEF Clocked, Labels, BeforeEngine
  <1>2. Vetted'
    BY DEF Vetted, WorkloadAccepted
  <1>3. Timed' /\ Ahead'
    BY DEF Timed, Ahead, Checked
  <1> QED
    BY <1>1, <1>2, <1>3

\* the choice of a target,
LEMMA SelectKeeps == ASSUME Inv, SelectTarget PROVE Inv'
  <1> USE DEF Inv
  <1>1. /\ DOMAIN cmd.targets = 1 .. Len(cmd.targets) /\ Len(cmd.targets) \in Nat
        /\ target \in Nat
    BY CommandParts DEF Clocked
  <1>2. /\ pc = "select" /\ UNCHANGED <<cmd, cfg, now, expires>>
        /\ \/ /\ pc' = "auth" /\ why' = why
              /\ target' \in DOMAIN cmd.targets
           \/ pc' = "refused" /\ why' = "target" /\ target' = target
    <2>1. CASE cmd.select # "" /\ \E i \in DOMAIN cmd.targets : cmd.targets[i].name = cmd.select
      BY <2>1 DEF SelectTarget, Refuse, Go
    <2>2. CASE cmd.select = "" /\ Len(cmd.targets) = 1
      <3>1. 1 \in DOMAIN cmd.targets
        <4>1. Len(cmd.targets) = 1
          BY <2>2
        <4> QED
          BY <1>1, <4>1
      <3> QED
        BY <2>2, <3>1 DEF SelectTarget, Refuse, Go
    <2> QED
      BY <2>1, <2>2 DEF SelectTarget, Refuse, Go
  <1>3. target' \in Nat
    BY <1>1, <1>2
  <1>4. Clocked'
    BY <1>2, <1>3 DEF Clocked, Labels, BeforeEngine
  <1>5. Vetted'
    <2> SUFFICES ASSUME cmd.workload PROVE Vetted'
      BY <1>2 DEF Vetted
    <2>1. WorkloadAccepted /\ target = 0 /\ why \notin {"uncapped", "endpoint", "files"}
      BY <1>2 DEF Vetted
    <2>2. WorkloadAccepted'
      BY <1>2, <2>1 DEF WorkloadAccepted
    <2> QED
      BY <1>2, <2>1, <2>2 DEF Vetted
  <1>6. Timed' /\ Ahead'
    BY <1>2 DEF Timed, Ahead, Checked
  <1> QED
    BY <1>4, <1>5, <1>6

\* the credential check,
LEMMA CheckKeeps == ASSUME Inv, CheckX509Credentials PROVE Inv'
  <1> USE DEF Inv, CheckX509Credentials, Refuse, Go
  <1>1. PICK p \in Proxies :
            /\ pc = "auth" /\ ~cmd.skipAuth
            /\ IF CredentialAccepted(p)
               THEN cfg' = Config(cmd.targets[target]) /\ pc' = "resolve" /\ UNCHANGED why
               ELSE UNCHANGED cfg /\ pc' = "refused" /\ why' = "credential"
            /\ expires' = p.remaining
            /\ UNCHANGED <<cmd, target, item, touched, now>>
    OBVIOUS
  <1>2. p.remaining \in Int
    BY LaunchTimes DEF Proxies
  <1>3. Clocked'
    BY <1>1, <1>2 DEF Clocked, Labels, BeforeEngine
  <1>4. Vetted'
    BY <1>1 DEF Vetted, WorkloadAccepted, Config
  <1>5. Timed' /\ Ahead'
    BY <1>1 DEF Timed, Config, Ahead, Checked, CredentialAccepted
  <1> QED
    BY <1>3, <1>4, <1>5

\* or its omission,
LEMMA SkipKeeps == ASSUME Inv, SkipAuthCheck PROVE Inv'
  <1> USE DEF Inv, SkipAuthCheck, Refuse, Go
  <1>1. Clocked'
    BY DEF Clocked, Labels, BeforeEngine
  <1>2. Vetted'
    BY DEF Vetted, WorkloadAccepted, Config
  <1>3. Timed' /\ Ahead'
    BY DEF Timed, Config, Ahead, Checked
  <1> QED
    BY <1>1, <1>2, <1>3

\* the resolution of the configuration,
LEMMA RunRunCommandKeeps == ASSUME Inv, RunRunCommand PROVE Inv'
  <1> USE DEF Inv, RunRunCommand, Refuse, Go
  <1> DEFINE t == cmd.targets[target]
  <1>1. Clocked'
    BY DEF Clocked, Labels, BeforeEngine
  <1>2. Vetted'
    <2> SUFFICES ASSUME cmd.workload PROVE Vetted'
      BY DEF Vetted
    <2>1. cfg = Config(t) /\ WorkloadAccepted /\ target \in DOMAIN cmd.targets
      BY DEF Vetted
    <2>2. t \in Targets /\ TargetAccepted(t)
      BY <2>1, CommandParts DEF Clocked, WorkloadAccepted
    <2>3. ~Unresolvable(cfg) /\ cfg.endpoint # "" /\ cfg.files # 0
      BY <2>1, <2>2, AcceptedResolves
    <2>4. pc' \in {"engine", "done"} /\ why' = why
      BY <2>3
    <2>5. cfg' = [Config(t) EXCEPT !.maxBytes = cfg'.maxBytes]
      BY <2>1, <2>3, ResolveKeeps
    <2> QED
      BY <2>1, <2>4, <2>5 DEF Vetted, WorkloadAccepted, Config
  <1>3. Timed'
    <2>1. /\ {"duration", "timeout"} \subseteq DOMAIN cfg
          /\ cfg.duration = cmd.duration /\ cfg.timeout = cmd.timeout /\ cmd' = cmd
      BY DEF Timed
    <2>2. /\ DOMAIN cfg' = DOMAIN cfg
          /\ cfg'.duration = cfg.duration /\ cfg'.timeout = cfg.timeout
      BY <2>1 DEF ResolveRunConfig
    <2> QED
      BY <2>1, <2>2 DEF Timed
  <1>4. Ahead'
    BY DEF Ahead, Checked
  <1> QED
    BY <1>1, <1>2, <1>3, <1>4

\* the set-up,
LEMMA SetUpSinksKeeps == ASSUME Inv, SetUpSinks PROVE Inv'
  <1> USE DEF Inv
  <1>1. PICK took \in 0 .. MaxDelay : now' = now + took
    BY DEF SetUpSinks
  <1>2. /\ pc = "engine" /\ UNCHANGED <<cmd, target, cfg, expires>>
        /\ \/ pc' = "load" /\ why' = why
           \/ pc' = "refused" /\ why' \in {"site map", "results", "pushgateway"}
    BY DEF SetUpSinks, Refuse, Go
  <1>3. now = 0 /\ now' = took /\ took \in Nat /\ took <= MaxDelay
    <2>1. now = 0
      BY <1>2 DEF Clocked, BeforeEngine
    <2> QED
      BY <1>1, <2>1, LaunchTimes
  <1>4. Clocked'
    BY <1>2, <1>3 DEF Clocked, Labels, BeforeEngine
  <1>5. Vetted'
    BY <1>2 DEF Vetted, WorkloadAccepted, Config
  <1>6. cmd.duration \in Nat /\ expires \in Int
    BY CommandParts DEF Clocked
  <1>7. Timed'
    BY <1>2 DEF Timed
  <1>8. Ahead'
    <2>1. Checked' => expires >= cmd.duration + Margin
      BY <1>2 DEF Ahead, Checked
    <2>2. MaxDelay + MaxDelay + DrainWaitCap <= Margin
      BY DelaysWithinMargin
    <2>3. expires >= cmd.duration + Margin
              => expires >= now' + cmd.duration + MaxDelay + DrainWaitCap
      BY <1>3, <1>6, <2>2, LaunchTimes
    <2> QED
      BY <1>2, <2>1, <2>3 DEF Ahead, Checked
  <1> QED
    BY <1>4, <1>5, <1>7, <1>8

\* an item of the load,
LEMMA ScheduleNextKeeps == ASSUME Inv, ScheduleNext PROVE Inv'
  <1>1. UNCHANGED <<cmd, pc, why, target, cfg, touched, now, expires>>
    BY DEF ScheduleNext
  <1> QED
    BY <1>1 DEF Inv, Clocked, Timed, Vetted, Ahead, Checked, WorkloadAccepted, Config

\* the deadline,
LEMMA DeadlineKeeps == ASSUME Inv, Deadline PROVE Inv'
  <1> USE DEF Inv, Go
  <1>1. PICK late \in 0 .. MaxDelay : now' = now + cfg.duration + late
    BY DEF Deadline
  <1>2. /\ pc = "load" /\ pc' = "drain" /\ why' = why
        /\ UNCHANGED <<cmd, target, cfg, expires>>
    BY DEF Deadline
  <1>3. cfg.duration = cmd.duration /\ cmd.duration \in Nat /\ expires \in Int
    BY <1>2, CommandParts DEF Clocked, Timed
  <1>4. late \in Nat /\ late <= MaxDelay /\ now \in Nat
    BY <1>2, LaunchTimes DEF Clocked
  <1>5. Clocked'
    BY <1>1, <1>2, <1>3, <1>4 DEF Clocked, Labels, BeforeEngine
  <1>6. Vetted'
    BY <1>2 DEF Vetted, WorkloadAccepted, Config
  <1>7. Timed' /\ Ahead'
    BY <1>1, <1>2, <1>3, <1>4, LaunchTimes DEF Timed, Ahead, Checked
  <1> QED
    BY <1>5, <1>6, <1>7

\* the drain,
LEMMA DrainKeeps == ASSUME Inv, Drain PROVE Inv'
  <1> USE DEF Inv, Go
  <1>1. PICK waited \in 0 .. DrainCap(cfg) : now' = now + waited
    BY DEF Drain
  <1>2. /\ pc = "drain" /\ pc' = "attribute" /\ why' = why
        /\ UNCHANGED <<cmd, target, cfg, expires>>
    BY DEF Drain
  <1>3. cfg.timeout \in Nat /\ expires \in Int /\ now \in Nat
    BY <1>2, CommandParts DEF Clocked, Timed
  <1>4. waited \in Nat /\ waited <= DrainWaitCap
    BY <1>3, DrainCapBound, LaunchTimes
  <1>5. Clocked'
    BY <1>1, <1>2, <1>3, <1>4 DEF Clocked, Labels, BeforeEngine
  <1>6. Vetted'
    BY <1>2 DEF Vetted, WorkloadAccepted
  <1>7. Timed' /\ Ahead'
    BY <1>1, <1>2, <1>3, <1>4, LaunchTimes DEF Timed, Ahead, Checked
  <1> QED
    BY <1>5, <1>6, <1>7

\* the final attribution,
LEMMA AttributeSitesKeeps == ASSUME Inv, AttributeSites PROVE Inv'
  <1> USE DEF Inv, Go
  <1>1. /\ pc = "attribute" /\ pc' = "done" /\ why' = why
        /\ UNCHANGED <<cmd, target, cfg, expires>>
    BY DEF AttributeSites
  <1>2. Clocked'
    BY <1>1 DEF Clocked, Labels, BeforeEngine
  <1>3. Vetted'
    BY <1>1 DEF Vetted, WorkloadAccepted
  <1>4. Timed' /\ Ahead'
    BY <1>1 DEF Timed, Ahead, Checked
  <1> QED
    BY <1>2, <1>3, <1>4

\* and a stutter.
LEMMA StutterKeeps == ASSUME Inv, UNCHANGED vars PROVE Inv'
  BY DEF vars, Inv, Clocked, Timed, Vetted, Ahead, Checked, WorkloadAccepted, Config

\* The launch's invariant: at every label, what the checks that are past have
\* established of the command (workload_spec.cc, workload_run_command.cc) and
\* how much longer than the time still to come the proxy lasts (auth_check.cc).
THEOREM Invariance == Spec => []Inv
  <1>1. Inv /\ [Next]_vars => Inv'
    <2> SUFFICES ASSUME Inv, [Next]_vars PROVE Inv'
      OBVIOUS
    <2>1. CASE UNCHANGED vars
      BY <2>1, StutterKeeps
    <2>2. CASE Next
      BY <2>2, DispatchKeeps, ParseFlagsKeeps, ValidateKeeps, SelectKeeps,
         CheckKeeps, SkipKeeps, RunRunCommandKeeps, SetUpSinksKeeps,
         ScheduleNextKeeps, DeadlineKeeps, DrainKeeps, AttributeSitesKeeps
         DEF Next
    <2> QED
      BY <2>1, <2>2
  <1> QED
    BY InitInv, <1>1, PTL DEF Spec

\* The checks in two places agree: RunRunCommand never refuses what `validate`
\* accepted (run_command.cc:546-561), and one target has the name that runs.
THEOREM ChecksAgree == Spec => []LaunchChecksAgree
  <1>1. Inv => LaunchChecksAgree
    BY DEF Inv, Vetted, LaunchChecksAgree, WorkloadAccepted
  <1> QED
    BY Invariance, <1>1, PTL

\* The margin of the credential check is enough for every drain: no session of
\* a checked launch outlives the proxy (auth_check.cc:87, run_command.cc:410).
THEOREM CredentialLasts == Spec => []CredentialOutlivesDrain
  <1>1. Inv => CredentialOutlivesDrain
    BY LaunchTimes, CommandParts
       DEF Inv, Clocked, Ahead, Checked, CredentialOutlivesDrain
  <1> QED
    BY Invariance, <1>1, PTL

-----------------------------------------------------------------------------
(* The price of an item. *)

Sizes(c) ==
    /\ {"chunk", "vectors", "pattern"} \subseteq DOMAIN c
    /\ c.chunk \in Nat /\ c.vectors \in Nat /\ c.pattern \in Patterns

\* The configuration has its sizes once it is there, and items are the load's.
Priced ==
    /\ ~cmd.workload => Len(cmd.targets) = 1
    /\ pc \in {"validate", "select", "auth"} => cmd.workload
    /\ pc \in {"resolve", "engine", "load"} => Sizes(cfg)
    /\ item # NoItem => pc = "load"
    /\ PriceFitsBucket

\* A vector read costs at least what a plain one does.
LEMMA VectorsCostMore ==
    ASSUME NEW c, Sizes(c)
    PROVE  /\ ComputeOpBytes(c, FALSE) \in Nat /\ ComputeOpBytes(c, TRUE) \in Nat
           /\ ComputeOpBytes(c, FALSE) <= ComputeOpBytes(c, TRUE)
  <1>1. ChunkOf(c) \in Nat /\ Larger(c.vectors, 1) \in Nat \ {0}
    BY DEF Sizes, ChunkOf, Larger
  <1>2. \A a, b \in Nat : b # 0 => a * b \in Nat /\ a <= a * b
    OBVIOUS
  <1> QED
    BY <1>1, <1>2 DEF ComputeOpBytes

\* The bucket of a capped rate holds whatever the scheduler may draw.
LEMMA DrawsFit ==
    ASSUME NEW c, Sizes(c), c.rate # 0, NEW d \in Draws(c.pattern)
    PROVE  ComputeOpBytes(c, d.vector) <= ComputeBucketCapacity(c)
  <1> DEFINE plain == ComputeOpBytes(c, FALSE)
             vectored == ComputeOpBytes(c, TRUE)
             priced == ComputeOpBytes(c, d.vector)
  <1>1. d.vector \in BOOLEAN /\ (d.vector => c.pattern \in {"vector", "mixed"})
    BY DEF Draws, Sizes, Patterns
  <1>2. priced = IF d.vector THEN vectored ELSE plain
    BY <1>1 DEF ComputeOpBytes
  <1>3. ComputeBucketCapacity(c) =
            IF c.pattern \in {"vector", "mixed"} THEN vectored ELSE plain
    BY DEF ComputeBucketCapacity, ComputeOpBytes
  <1>4. plain \in Nat /\ vectored \in Nat /\ plain <= vectored
    BY VectorsCostMore
  <1> HIDE DEF plain, vectored, priced
  <1>5. priced <= ComputeBucketCapacity(c)
    BY <1>1, <1>2, <1>3, <1>4
  <1> QED
    BY <1>5 DEF priced

\* A target gives the sizes, with its chunk cut to 32 bits or not.
LEMMA TargetSizes ==
    ASSUME NEW t \in Targets
    PROVE  Sizes(Config(t)) /\ Sizes(ConfigOfFlags(t))
  <1>1. t.chunk \in Nat /\ t.vectors \in Nat /\ t.pattern \in Patterns
    BY DEF Targets
  <1>2. t.chunk % Modulus \in Nat
    BY <1>1, SizingConstants
  <1> QED
    BY <1>1, <1>2 DEF Sizes, Config, ConfigOfFlags

\* No item has a price to begin with.
LEMMA InitPriced == Init => Priced
  BY LaunchCommands DEF Init, Priced, PriceFitsBucket

\* Every step keeps the prices within the bucket.
LEMMA StepPriced == ASSUME Inv, Priced, [Next]_vars PROVE Priced'
  <1> DEFINE t == cmd.targets[target]
  <1>1. \A i \in 1 .. Len(cmd.targets) : cmd.targets[i] \in Targets
    BY CommandParts DEF Inv, Clocked
  <1>2. CASE Dispatch
    BY <1>2 DEF Dispatch, Refuse, Go, Priced, PriceFitsBucket
  <1>3. CASE ParseFlags
    <2>1. /\ pc = "main" /\ ~cmd.workload /\ cmd' = cmd /\ item' = item
          /\ \/ pc' = "refused"
             \/ pc' = "resolve" /\ cfg' = ConfigOfFlags(cmd.targets[1])
      BY <1>3 DEF ParseFlags, Refuse, Go
    <2>2. cmd.targets[1] \in Targets
      BY <1>1, <2>1 DEF Priced
    <2>3. item = NoItem
      BY <2>1 DEF Priced
    <2> QED
      BY <2>1, <2>2, <2>3, TargetSizes DEF Priced, PriceFitsBucket
  <1>4. CASE ValidateWorkloadFile \/ SelectTarget
    BY <1>4 DEF ValidateWorkloadFile, SelectTarget, Refuse, Go, Priced, PriceFitsBucket
  <1>5. CASE CheckX509Credentials \/ SkipAuthCheck
    <2>1. /\ pc = "auth" /\ cmd' = cmd /\ item' = item
          /\ \/ pc' = "refused"
             \/ pc' = "resolve" /\ cfg' = Config(t)
      BY <1>5 DEF CheckX509Credentials, SkipAuthCheck, Refuse, Go
    <2>2. target \in DOMAIN cmd.targets
      BY <2>1 DEF Priced, Inv, Vetted
    <2>3. t \in Targets
      BY <2>2, CommandParts DEF Inv, Clocked
    <2>4. item = NoItem
      BY <2>1 DEF Priced
    <2> QED
      BY <2>1, <2>3, <2>4, TargetSizes DEF Priced, PriceFitsBucket
  <1>6. CASE RunRunCommand
    <2>1. /\ pc = "resolve" /\ pc' \in {"refused", "done", "engine"}
          /\ cmd' = cmd /\ item' = item
          /\ cfg' = cfg \/ cfg' = ResolveRunConfig(cfg)
      BY <1>6 DEF RunRunCommand, Refuse, Go
    <2>2. Sizes(cfg) /\ item = NoItem
      BY <2>1 DEF Priced
    <2>3. Sizes(cfg')
      BY <2>1, <2>2 DEF ResolveRunConfig, Sizes
    <2> QED
      BY <2>1, <2>2, <2>3 DEF Priced, PriceFitsBucket
  <1>7. CASE SetUpSinks
    BY <1>7 DEF SetUpSinks, Refuse, Go, Priced, PriceFitsBucket
  <1>8. CASE ScheduleNext
    <2>1. /\ pc = "load" /\ UNCHANGED <<cmd, pc, cfg>>
      BY <1>8 DEF ScheduleNext
    <2>2. PICK d \in Draws(cfg.pattern) : item'.price = ComputeOpBytes(cfg, d.vector)
      BY <1>8 DEF ScheduleNext
    <2>3. cfg.rate # 0 => item'.price <= ComputeBucketCapacity(cfg)
      BY <2>1, <2>2, DrawsFit DEF Priced
    <2> QED
      BY <2>1, <2>3 DEF Priced, PriceFitsBucket
  <1>9. CASE Deadline
    BY <1>9 DEF Deadline, Go, Priced, PriceFitsBucket
  <1>10. CASE Drain \/ AttributeSites
    BY <1>10 DEF Drain, AttributeSites, Go, Priced, PriceFitsBucket
  <1>11. CASE UNCHANGED vars
    BY <1>11 DEF vars, Priced, PriceFitsBucket
  <1> QED
    BY <1>2, <1>3, <1>4, <1>5, <1>6, <1>7, <1>8, <1>9, <1>10, <1>11 DEF Next

\* The token bucket can hold the price of every item of the scheduler, whatever
\* the sizes and the pattern: no session waits for tokens that cannot come
\* (run_config.cc ComputeOpBytes and ComputeBucketCapacity, scheduler.cc Next).
THEOREM PricesFit == Spec => []PriceFitsBucket
  <1>1. Inv /\ Priced /\ [Next]_vars => Priced'
    BY StepPriced
  <1>2. Priced => PriceFitsBucket
    BY DEF Priced
  <1> QED
    BY Invariance, InitPriced, <1>1, <1>2, PTL DEF Spec

-----------------------------------------------------------------------------
(* The budget of --max-bytes auto. *)

\* A quotient is the largest number of times the divisor goes into a number.
LEMMA Quotient ==
    ASSUME NEW a \in Nat, NEW b \in Nat \ {0}
    PROVE  a \div b \in Nat /\ (a \div b) * b <= a /\ a < (a \div b) * b + b
  OBVIOUS

\* More chunks are more bytes, and conversely.
LEMMA MoreChunks ==
    ASSUME NEW j \in Int, NEW k \in Int, NEW c \in Nat \ {0}
    PROVE  /\ j * c \in Int /\ k * c \in Int
           /\ j <= k <=> j * c <= k * c
           /\ (j + 1) * c = j * c + c
  <1>1. j <= k => j * c <= k * c
    OBVIOUS
  <1>2. k + 1 <= j => k * c + c <= j * c
    OBVIOUS
  <1> QED
    BY <1>1, <1>2

\* Rounding gives the multiple next below, or the one next above.
LEMMA Rounding ==
    ASSUME NEW n \in Nat, NEW c \in Nat \ {0}
    PROVE  /\ \E k \in Nat : RoundDown(n, c) = k * c /\ k = n \div c
                             /\ k * c <= n /\ n < k * c + c
           /\ \E k \in Nat : RoundUp(n, c) = k * c /\ n <= k * c /\ k * c < n + c
  <1>1. n + c - 1 \in Nat
    OBVIOUS
  <1> DEFINE up == (n + c - 1) \div c
  <1>2. up \in Nat /\ up * c <= n + c - 1 /\ n + c - 1 < up * c + c
    BY <1>1, Quotient
  <1>3. RoundUp(n, c) = up * c
    BY DEF RoundUp
  <1> HIDE DEF up
  <1>4. up * c \in Nat /\ n <= up * c /\ up * c < n + c
    BY <1>2
  <1>5. RoundDown(n, c) = (n \div c) * c
    BY DEF RoundDown
  <1> QED
    BY <1>2, <1>3, <1>4, <1>5, Quotient

\* The whole numbers of chunks that H admits.
Whole(H, c) == {k * c : k \in 1 .. (H \div c)}

\* The budget for a session that wants T bytes under a ceiling of H: the least
\* whole number of chunks that reaches T, or the largest that H admits.
LEMMA LeastBudget ==
    ASSUME NEW T \in Nat, NEW H \in Nat, NEW c \in Nat \ {0}, c <= H, c <= T
    PROVE  LET aligned == RoundUp(Smaller(T, H), c)
               budget == Larger(IF aligned > H THEN RoundDown(H, c) ELSE aligned, c)
               enough == {n \in Whole(H, c) : n >= T}
           IN  IF enough # {} THEN budget \in enough /\ \A n \in enough : budget <= n
               ELSE budget \in Whole(H, c) /\ \A n \in Whole(H, c) : n <= budget
  <1> DEFINE least == Smaller(T, H)
             aligned == RoundUp(least, c)
             budget == Larger(IF aligned > H THEN RoundDown(H, c) ELSE aligned, c)
             enough == {n \in Whole(H, c) : n >= T}
  <1> SUFFICES IF enough # {} THEN budget \in enough /\ \A n \in enough : budget <= n
               ELSE budget \in Whole(H, c) /\ \A n \in Whole(H, c) : n <= budget
    OBVIOUS
  <1>1. least \in Nat /\ c <= least /\ least = (IF T <= H THEN T ELSE H)
    BY DEF Smaller
  <1>2. PICK K \in Nat : RoundDown(H, c) = K * c /\ K = H \div c /\ K * c <= H
                         /\ H < K * c + c
    BY Rounding
  <1> HIDE DEF least
  <1>3. PICK u \in Nat : aligned = u * c /\ least <= u * c /\ u * c < least + c
    BY <1>1, Rounding
  <1>4. K * c \in Nat /\ u * c \in Nat
    OBVIOUS
  <1>5. 1 <= K /\ 1 <= u
    <2>1. K = 0 => K * c = 0
      OBVIOUS
    <2>2. u = 0 => u * c = 0
      OBVIOUS
    <2> QED
      BY <2>1, <2>2, <1>1, <1>2, <1>3
  <1>6. \A n \in Whole(H, c) : \E k \in 1 .. K : n = k * c /\ n \in Int /\ n <= K * c
    <2>1. \A k \in 1 .. K : k * c \in Int /\ k * c <= K * c
      BY MoreChunks
    <2> QED
      BY <2>1, <1>2 DEF Whole
  <1>7. \A k \in 1 .. K : k * c \in Whole(H, c)
    BY <1>2 DEF Whole
  <1>8. c <= K * c /\ c <= u * c
    BY <1>5, MoreChunks
  <1>9. CASE u * c <= H
    <2>1. u <= K
      <3>1. u * c < (K + 1) * c
        BY <1>2, <1>4, <1>9, MoreChunks
      <3>2. ~(K + 1 <= u)
        BY <3>1, <1>4, MoreChunks
      <3> QED
        BY <3>2
    <2>2. u * c \in Whole(H, c)
      BY <1>5, <1>7, <2>1
    <2>3. budget = u * c
      BY <1>3, <1>4, <1>8, <1>9 DEF Larger
    <2>4. CASE T <= H
      <3>1. u * c \in enough
        BY <1>1, <1>3, <2>2, <2>4
      <3>2. ASSUME NEW n \in enough PROVE u * c <= n
        <4>1. PICK k \in 1 .. K : n = k * c
          BY <1>6
        <4>2. k * c \in Nat /\ T <= k * c
          BY <4>1
        <4>3. u * c < k * c + c
          BY <1>1, <1>3, <1>4, <2>4, <4>2
        <4>4. ~(k + 1 <= u)
          <5>1. (k + 1) * c = k * c + c
            BY MoreChunks
          <5>2. k + 1 <= u => (k + 1) * c <= u * c
            BY MoreChunks
          <5> QED
            BY <4>2, <4>3, <5>1, <5>2, <1>4
        <4>5. u <= k
          BY <4>4
        <4>6. u * c <= k * c
          BY <4>5, MoreChunks
        <4> QED
          BY <4>1, <4>6
      <3> HIDE DEF budget, enough
      <3> QED
        BY <2>3, <3>1, <3>2
    <2>5. CASE ~(T <= H)
      <3>1. u * c = H
        BY <1>1, <1>3, <1>4, <1>9, <2>5
      <3>2. \A n \in Whole(H, c) : n \in Int /\ n <= H
        BY <1>2, <1>4, <1>6
      <3>3. enough = {}
        BY <2>5, <3>2
      <3> HIDE DEF budget, enough
      <3> QED
        BY <2>2, <2>3, <3>1, <3>2, <3>3
    <2> QED
      BY <2>4, <2>5
  <1>10. CASE ~(u * c <= H)
    <2>1. budget = K * c
      BY <1>2, <1>3, <1>4, <1>8, <1>10 DEF Larger
    <2>2. K * c \in Whole(H, c)
      BY <1>5, <1>7
    <2>3. enough = {}
      <3> SUFFICES ASSUME NEW n \in enough PROVE FALSE
        OBVIOUS
      <3>1. PICK k \in 1 .. K : n = k * c
        BY <1>6
      <3>2. k * c \in Nat /\ T <= k * c /\ k * c <= K * c
        BY <1>6, <3>1
      <3>3. T <= H
        BY <1>2, <1>4, <3>2
      <3>4. u * c < k * c + c
        BY <1>1, <1>3, <1>4, <3>2, <3>3
      <3>5. ~(k + 1 <= u)
        <4>1. (k + 1) * c = k * c + c
          BY MoreChunks
        <4>2. k + 1 <= u => (k + 1) * c <= u * c
          BY MoreChunks
        <4> QED
          BY <3>2, <3>4, <4>1, <4>2, <1>4
      <3>6. u <= K
        BY <3>5
      <3>7. u * c <= K * c
        BY <3>6, MoreChunks
      <3> QED
        BY <3>7, <1>2, <1>4, <1>10
    <2>4. \A n \in Whole(H, c) : n <= K * c
      BY <1>6
    <2> HIDE DEF budget, enough
    <2> QED
      BY <2>1, <2>2, <2>3, <2>4
  <1> QED
    BY <1>9, <1>10

\* A rate held for kAutoMaxAmortizeSec, shared among the sessions, rounded down.
LEMMA ShareOfRate ==
    ASSUME NEW a \in Nat, NEW p \in Nat \ {0}, NEW n \in Nat
    PROVE  n * p > a - p <=> n >= a \div p
  <1> DEFINE q == a \div p
  <1>1. q \in Nat /\ q * p <= a /\ a < q * p + p
    BY Quotient
  <1> HIDE DEF q
  <1>2. /\ q * p \in Int /\ n * p \in Int
        /\ q <= n <=> q * p <= n * p
        /\ n + 1 <= q <=> (n + 1) * p <= q * p
        /\ (n + 1) * p = n * p + p
    BY <1>1, MoreChunks
  <1>3. n >= q => n * p > a - p
    BY <1>1, <1>2
  <1>4. ~(n >= q) => ~(n * p > a - p)
    BY <1>1, <1>2
  <1> QED
    BY <1>3, <1>4 DEF q

\* What the budget is computed from, and that it has been by the time the engine
\* starts.
Rated(c) ==
    /\ {"rate", "inflight", "chunk", "auto", "maxBytes"} \subseteq DOMAIN c
    /\ c.rate \in Nat /\ c.inflight \in Nat \ {0} /\ c.chunk \in Nat

Budgeted ==
    /\ pc \in {"resolve", "engine", "load"} => Rated(cfg)
    /\ pc \in {"engine", "load"} /\ cfg.rate # 0 /\ cfg.auto =>
           cfg.maxBytes = ComputeAutoMaxBytes(cfg)

\* A target gives what the budget is computed from.
LEMMA TargetRated ==
    ASSUME NEW t \in Targets
    PROVE  Rated(Config(t)) /\ Rated(ConfigOfFlags(t))
  <1>1. t.bits \in Nat /\ t.inflight \in Nat \ {0} /\ t.chunk \in Nat
    BY DEF Targets
  <1>2. t.chunk % Modulus \in Nat
    BY <1>1, SizingConstants
  <1>3. ParseTargetRateString(t.bits) \in Nat
    BY <1>1 DEF ParseTargetRateString
  <1> QED
    BY <1>1, <1>2, <1>3 DEF Rated, Config, ConfigOfFlags

\* Resolving a configuration computes the budget.
LEMMA ResolveBudgets ==
    ASSUME NEW c, Rated(c)
    PROVE  LET r == ResolveRunConfig(c)
           IN  /\ Rated(r)
               /\ r.rate # 0 /\ r.auto => r.maxBytes = ComputeAutoMaxBytes(r)
  <1> DEFINE m == ComputeAutoMaxBytes(c)
             r == [c EXCEPT !.maxBytes = m]
  <1>1. CASE c.rate # 0 /\ c.auto
    <2>1. ResolveRunConfig(c) = r
      BY <1>1 DEF ResolveRunConfig
    <2> HIDE DEF m
    <2>2. /\ Rated(r) /\ r.maxBytes = m
          /\ r.rate = c.rate /\ r.inflight = c.inflight /\ r.chunk = c.chunk
      BY DEF Rated
    <2>3. ComputeAutoMaxBytes(r) = m
      BY <2>2 DEF ComputeAutoMaxBytes, AutoCeiling, ChunkOf, m
    <2> QED
      BY <2>1, <2>2, <2>3
  <1>2. CASE ~(c.rate # 0 /\ c.auto)
    BY <1>2 DEF ResolveRunConfig
  <1> QED
    BY <1>1, <1>2

\* Every step keeps it.
LEMMA StepBudgeted == ASSUME Inv, Priced, Budgeted, [Next]_vars PROVE Budgeted'
  <1> DEFINE t == cmd.targets[target]
  <1>1. CASE ParseFlags
    <2>1. /\ pc = "main" /\ ~cmd.workload
          /\ \/ pc' = "refused"
             \/ pc' = "resolve" /\ cfg' = ConfigOfFlags(cmd.targets[1])
      BY <1>1 DEF ParseFlags, Refuse, Go
    <2>2. cmd.targets[1] \in Targets
      BY <2>1, CommandParts DEF Priced, Inv, Clocked
    <2> QED
      BY <2>1, <2>2, TargetRated DEF Budgeted
  <1>2. CASE CheckX509Credentials \/ SkipAuthCheck
    <2>1. /\ pc = "auth"
          /\ \/ pc' = "refused"
             \/ pc' = "resolve" /\ cfg' = Config(t)
      BY <1>2 DEF CheckX509Credentials, SkipAuthCheck, Refuse, Go
    <2>2. target \in DOMAIN cmd.targets
      BY <2>1 DEF Priced, Inv, Vetted
    <2>3. t \in Targets
      BY <2>2, CommandParts DEF Inv, Clocked
    <2> QED
      BY <2>1, <2>3, TargetRated DEF Budgeted
  <1>3. CASE RunRunCommand
    <2>1. /\ pc = "resolve"
          /\ \/ pc' = "refused"
             \/ pc' \in {"done", "engine"} /\ cfg' = ResolveRunConfig(cfg)
      BY <1>3 DEF RunRunCommand, Refuse, Go
    <2>2. Rated(cfg)
      BY <2>1 DEF Budgeted
    <2> QED
      BY <2>1, <2>2, ResolveBudgets DEF Budgeted
  <1>4. CASE SetUpSinks \/ ScheduleNext
    <2>1. pc \in {"engine", "load"} /\ cfg' = cfg /\ pc' \in {"engine", "load", "refused"}
      BY <1>4 DEF SetUpSinks, ScheduleNext, Refuse, Go
    <2> QED
      BY <2>1 DEF Budgeted
  <1>5. CASE Dispatch \/ ValidateWorkloadFile \/ SelectTarget \/ Deadline \/ Drain
             \/ AttributeSites
    <2>1. pc' \notin {"resolve", "engine", "load"}
      BY <1>5 DEF Dispatch, ValidateWorkloadFile, SelectTarget, Deadline, Drain,
                  AttributeSites, Refuse, Go
    <2> QED
      BY <2>1 DEF Budgeted
  <1>6. CASE UNCHANGED vars
    BY <1>6 DEF vars, Budgeted
  <1> QED
    BY <1>1, <1>2, <1>3, <1>4, <1>5, <1>6 DEF Next

\* The budget of --max-bytes auto is the policy's, whatever the rate, the
\* sessions and the chunk: the least whole number of chunks that covers the
\* session's share of the rate and the floor, or the largest under the ceiling
\* (run_config.cc ComputeAutoMaxBytes, whose rounding must not leave either).
THEOREM BudgetIsPolicy == Spec => []AutoBudget
  <1>1. ASSUME Budgeted PROVE AutoBudget
    <2> SUFFICES ASSUME pc = "load", cfg.rate # 0, cfg.auto, ChunkOf(cfg) <= AutoCeiling(cfg)
                 PROVE  AutoBudget
      BY DEF AutoBudget
    <2> DEFINE c == ChunkOf(cfg)
               H == AutoCeiling(cfg)
               rate == cfg.rate * kAutoMaxAmortizeSec
               share == rate \div cfg.inflight
               T == Larger(share, c * kAutoMaxFloorChunks)
               budget == LET aligned == RoundUp(Smaller(T, H), c)
                         IN  Larger(IF aligned > H THEN RoundDown(H, c) ELSE aligned, c)
               enough == {n \in Whole(H, c) : n >= T}
               covers(n) == n * cfg.inflight > rate - cfg.inflight
                            /\ n >= kAutoMaxFloorChunks * c
               covered == {n \in Whole(H, c) : covers(n)}
    <2>1. /\ cfg.rate \in Nat /\ cfg.inflight \in Nat \ {0} /\ cfg.chunk \in Nat
          /\ cfg.maxBytes = ComputeAutoMaxBytes(cfg)
      BY <1>1 DEF Budgeted, Rated
    <2>2. cfg.maxBytes = budget
      BY <2>1 DEF ComputeAutoMaxBytes
    <2>3. c \in Nat \ {0} /\ H \in Nat /\ c <= H /\ rate \in Nat
      <3>1. cfg.rate * kRateHeadroomSec \in Nat
        BY <2>1 DEF kRateHeadroomSec
      <3> QED
        BY <2>1, <3>1, SizingConstants
           DEF ChunkOf, Larger, AutoCeiling, Smaller, kAutoMaxAmortizeSec
    <2> HIDE DEF c, H, rate
    <2>4. share \in Nat
      BY <2>1, <2>3, Quotient
    <2>5. T \in Nat /\ c <= T /\ (\A n \in Nat : n >= T <=> n >= share /\ n >= kAutoMaxFloorChunks * c)
      <3> HIDE DEF share
      <3> QED
        BY <2>3, <2>4 DEF Larger, kAutoMaxFloorChunks
    <2> HIDE DEF T
    <2>6. IF enough # {} THEN budget \in enough /\ \A n \in enough : budget <= n
          ELSE budget \in Whole(H, c) /\ \A n \in Whole(H, c) : n <= budget
      BY <2>3, <2>5, LeastBudget
    <2>7. Whole(H, c) \in SUBSET Nat
      <3>1. \A k \in 1 .. (H \div c) : k * c \in Nat
        BY <2>3, Quotient
      <3> QED
        BY <3>1 DEF Whole
    <2>8. \A n \in Nat : covers(n) <=> n >= T
      <3>1. \A n \in Nat : n * cfg.inflight > rate - cfg.inflight <=> n >= share
        BY <2>1, <2>3, ShareOfRate
      <3> QED
        BY <3>1, <2>5
    <2>9. covered = enough
      BY <2>7, <2>8
    <2> HIDE DEF budget, enough, covers
    <2>10. IF covered # {} THEN cfg.maxBytes \in covered /\ \A n \in covered : cfg.maxBytes <= n
           ELSE cfg.maxBytes \in Whole(H, c) /\ \A n \in Whole(H, c) : n <= cfg.maxBytes
      BY <2>2, <2>6, <2>9
    <2> QED
      BY <2>10 DEF AutoBudget, Whole, covers, c, H, rate
  <1>2. Inv /\ Priced /\ Budgeted /\ [Next]_vars => Priced' /\ Budgeted'
    BY StepPriced, StepBudgeted
  <1>3. Init => Budgeted
    BY DEF Init, Budgeted
  <1> QED
    BY Invariance, InitPriced, <1>1, <1>2, <1>3, PTL DEF Spec

=============================================================================
