------------------------------- MODULE Launch --------------------------------
(***************************************************************************)
(* One launch of `xrdhover run`, from the command line to its exit: the two *)
(* modes of main.cc, the validation of a workload (workload_spec.cc), the   *)
(* choice of its target (workload_run_command.cc), the credential check     *)
(* (auth_check.cc), RunRunCommand and the set-up, load and drain of         *)
(* RunEngine (run_command.cc), all under src/src.                           *)
(*                                                                          *)
(* The load is modelled by the sizes of its items and by how long it and    *)
(* the drain take; RunEngine has what happens in it.  now is the time since *)
(* the credential was checked.                                              *)
(***************************************************************************)
EXTENDS Sizing, Sequences

CONSTANTS
    Commands,      \* command lines, with the workload or the flags they give
    Lifetimes,     \* what a proxy may have left when it is checked
    Margin,        \* kCredentialSafetyMarginSec
    DrainWaitCap,  \* kDrainWaitCapSec
    DrainGrace,    \* kDrainTimeoutGraceSec
    MaxDelay,      \* bounds what set-up takes, and by how much a load overruns
    MaxQueries,    \* bounds the servers whose site is asked for at the end
    QueryTimeout   \* of one such query

\* A target of a workload; the flags describe one too.  files is the length of
\* its file list, maxBytes 0 when "auto".
Targets == [name : STRING, endpoint : {"root", "other", ""}, files : Nat,
            bits : Nat, inflight : Nat \ {0}, chunk : Nat, vectors : Nat,
            pattern : Patterns, auto : BOOLEAN, maxBytes : Nat]

\* legacy: a configuration flag is given; required: --endpoint and --filelist
\* are; select: --target, if not ""; siteMap: where one is named.
CommandLines == [workload : BOOLEAN, legacy : BOOLEAN, required : BOOLEAN,
                 select : STRING, skipAuth : BOOLEAN, dryRun : BOOLEAN,
                 targets : Seq(Targets), duration : Nat, timeout : Nat,
                 siteMap : SUBSET {"workload", "flag"},
                 results : BOOLEAN, push : BOOLEAN]

ASSUME LaunchCommands ==
    \A c \in Commands : c \in CommandLines /\ (~c.workload => Len(c.targets) = 1)
ASSUME LaunchTimes ==
    /\ Lifetimes \subseteq Int
    /\ Margin \in Nat /\ DrainWaitCap \in Nat /\ DrainGrace \in Nat
    /\ MaxDelay \in Nat /\ MaxQueries \in Nat /\ QueryTimeout \in Nat
\* Set-up is local work: reading a map, making a directory, looking for a
\* binary.
ASSUME DelaysWithinMargin == MaxDelay + MaxDelay + DrainWaitCap <= Margin

VARIABLES
    cmd,        \* the command line
    pc,         \* what the process does next
    why,        \* the check that refused the launch
    target,     \* the target selected, by its place
    cfg,        \* the RunConfig
    item,       \* the latest item of the scheduler
    touched,    \* files of an earlier run with this id were truncated
    now, expires
vars == <<cmd, pc, why, target, cfg, item, touched, now, expires>>

Items == [price : Nat, op : Nat]
NoItem == [price |-> 0, op |-> 0]
NoConfig == [rate |-> 0]
Checked == cmd.workload /\ ~cmd.skipAuth

\* The launch is where its command line can bring it.
TypeOK ==
    /\ cmd \in CommandLines
    /\ pc \in {"main", "validate", "select", "auth", "resolve", "engine", "load",
               "drain", "attribute", "done", "refused"}
    /\ why \in STRING
    /\ target \in 0 .. Len(cmd.targets)
    /\ item \in Items
    /\ touched \in BOOLEAN
    /\ now \in Nat /\ expires \in Int

Init ==
    /\ cmd \in Commands
    /\ pc = "main" /\ why = "" /\ target = 0
    /\ cfg = NoConfig /\ item = NoItem
    /\ touched = FALSE /\ now = 0 /\ expires = 0

\* Exit code 2.
Refuse(reason) == pc' = "refused" /\ why' = reason
Go(label) == pc' = label /\ UNCHANGED why

-----------------------------------------------------------------------------
(* main and RunWorkloadCommand. *)

\* The configuration a target and the rest of the command give.
Config(t) ==
    [endpoint |-> t.endpoint, files |-> t.files,
     rate |-> ParseTargetRateString(t.bits), inflight |-> t.inflight,
     chunk |-> t.chunk, vectors |-> t.vectors, pattern |-> t.pattern,
     auto |-> t.auto, maxBytes |-> t.maxBytes,
     duration |-> cmd.duration, timeout |-> cmd.timeout,
     siteMap |-> cmd.siteMap # {}]

\* The flags' --chunk-size is cast to 32 bits.
ConfigOfFlags(t) == [Config(t) EXCEPT !.chunk = t.chunk % Modulus]

Dispatch ==
    /\ pc = "main" /\ cmd.workload
    /\ IF cmd.legacy THEN Refuse("legacy flags") ELSE Go("validate")
    /\ UNCHANGED <<cmd, target, cfg, item, touched, now, expires>>

\* LoadFileList throws for an empty list.
ParseFlags ==
    /\ pc = "main" /\ ~cmd.workload
    /\ IF cmd.select # "" \/ cmd.skipAuth THEN Refuse("workload flags") /\ UNCHANGED <<target, cfg>>
       ELSE IF ~cmd.required THEN Refuse("usage") /\ UNCHANGED <<target, cfg>>
       ELSE IF cmd.targets[1].files = 0 THEN Refuse("filelist") /\ UNCHANGED <<target, cfg>>
       ELSE /\ target' = 1
            /\ cfg' = ConfigOfFlags(cmd.targets[1])
            /\ Go("resolve")
    /\ UNCHANGED <<cmd, item, touched, now, expires>>

\* ValidateWorkloadJson on one target.
TargetAccepted(t) ==
    /\ t.name # "" /\ t.endpoint = "root" /\ t.files > 0
    /\ PatternAccepted(t)

WorkloadAccepted ==
    /\ cmd.duration > 0 /\ cmd.targets # <<>>
    /\ \A i \in DOMAIN cmd.targets : TargetAccepted(cmd.targets[i])
    /\ \A i, j \in DOMAIN cmd.targets :
           cmd.targets[i].name = cmd.targets[j].name => i = j

\* The workload's own site map is read here, and again by RunEngine.
ValidateWorkloadFile == \E mapLoads \in BOOLEAN :
    /\ pc = "validate"
    /\ IF WorkloadAccepted /\ ("workload" \in cmd.siteMap => mapLoads)
       THEN Go("select") ELSE Refuse("workload")
    /\ UNCHANGED <<cmd, target, cfg, item, touched, now, expires>>

\* The first target of the name, or the only one.
SelectTarget ==
    /\ pc = "select"
    /\ LET named == {i \in DOMAIN cmd.targets : cmd.targets[i].name = cmd.select}
           first == {i \in named : \A j \in named : i <= j}
       IN  IF cmd.select # "" /\ named # {} THEN target' \in first /\ Go("auth")
           ELSE IF cmd.select = "" /\ Len(cmd.targets) = 1 THEN target' = 1 /\ Go("auth")
           ELSE Refuse("target") /\ UNCHANGED target
    /\ UNCHANGED <<cmd, cfg, item, touched, now, expires>>

\* The credential file: writable by others, or unusable in some other way.
Proxies == [file : {"private", "writable", "unusable"}, remaining : Lifetimes]

\* Mutant: the credential has to last for the load alone.
CredentialAcceptedBarely(p) ==
    p.file = "private" /\ p.remaining > 0 /\ p.remaining >= cmd.duration

CredentialAccepted(p) ==
    p.file = "private" /\ p.remaining > 0 /\ p.remaining >= cmd.duration + Margin

CheckX509Credentials == \E p \in Proxies :
    /\ pc = "auth" /\ ~cmd.skipAuth
    /\ IF CredentialAccepted(p)
       THEN cfg' = Config(cmd.targets[target]) /\ Go("resolve")
       ELSE UNCHANGED cfg /\ Refuse("credential")
    /\ expires' = p.remaining
    /\ UNCHANGED <<cmd, target, item, touched, now>>

SkipAuthCheck ==
    /\ pc = "auth" /\ cmd.skipAuth
    /\ cfg' = Config(cmd.targets[target]) /\ Go("resolve")
    /\ UNCHANGED <<cmd, target, item, touched, now, expires>>

-----------------------------------------------------------------------------
(* RunRunCommand and RunEngine. *)

RunRunCommand ==
    /\ pc = "resolve"
    /\ cfg' = IF Unresolvable(cfg) THEN cfg ELSE ResolveRunConfig(cfg)
    /\ IF Unresolvable(cfg) THEN Refuse("uncapped")
       ELSE IF cfg.endpoint = "" THEN Refuse("endpoint")
       ELSE IF cfg.files = 0 THEN Refuse("files")
       ELSE Go(IF cmd.dryRun THEN "done" ELSE "engine")
    /\ UNCHANGED <<cmd, target, item, touched, now, expires>>

\* The map's file may have gone since it was validated; FileSink::Start creates
\* and truncates the files it can; the Pushgateway sink may refuse its URL.
SetUpSinks == \E mapLoads, started, pushes \in BOOLEAN, took \in 0 .. MaxDelay :
    /\ pc = "engine"
    /\ now' = now + took
    /\ IF cfg.siteMap /\ ~mapLoads THEN Refuse("site map") /\ UNCHANGED touched
       ELSE /\ touched' \in (IF started THEN {cmd.results} ELSE {FALSE, cmd.results})
            /\ IF cmd.results /\ ~started THEN Refuse("results")
               ELSE IF cmd.push /\ ~pushes THEN Refuse("pushgateway")
               ELSE Go("load")
    /\ UNCHANGED <<cmd, target, cfg, item, expires>>

\* Scheduler::Next.
ScheduleNext ==
    /\ pc = "load"
    /\ \E d \in Draws(cfg.pattern) :
           item' = [price |-> ComputeOpBytes(cfg, d.vector), op |-> OpBytes(cfg, d.vector)]
    /\ UNCHANGED <<cmd, pc, why, target, cfg, touched, now, expires>>

Deadline ==
    /\ pc = "load"
    /\ \E late \in 0 .. MaxDelay : now' = now + cfg.duration + late
    /\ item' = NoItem
    /\ Go("drain")
    /\ UNCHANGED <<cmd, target, cfg, touched, expires>>

DrainCap(c) ==
    IF c.timeout > 0 THEN Smaller(DrainWaitCap, c.timeout + DrainGrace) ELSE DrainWaitCap

\* It ends early when no session is left.
Drain ==
    /\ pc = "drain"
    /\ \E waited \in 0 .. DrainCap(cfg) : now' = now + waited
    /\ Go("attribute")
    /\ UNCHANGED <<cmd, target, cfg, item, touched, expires>>

\* The site thread's queries and those of the final fill_cms_sites.
AttributeSites == \E n \in 0 .. MaxQueries :
    /\ pc = "attribute"
    /\ now' = now + n * QueryTimeout
    /\ Go("done")
    /\ UNCHANGED <<cmd, target, cfg, item, touched, expires>>

Next ==
    \/ Dispatch \/ ParseFlags \/ ValidateWorkloadFile \/ SelectTarget
    \/ CheckX509Credentials \/ SkipAuthCheck \/ RunRunCommand \/ SetUpSinks
    \/ ScheduleNext \/ Deadline \/ Drain \/ AttributeSites

Spec == Init /\ [][Next]_vars

-----------------------------------------------------------------------------
(* Properties. *)

\* The checks in two places agree: a workload that `validate` accepts is one
\* RunRunCommand starts (workload_spec.cc:525 and run_config.cc:62, and the
\* checks of run_command.cc:554-561), and the target that runs is the only one
\* of its name.
LaunchChecksAgree ==
    cmd.workload =>
        /\ why \notin {"uncapped", "endpoint", "files"}
        /\ \A i \in DOMAIN cmd.targets :
               target # 0 /\ cmd.targets[i].name = cmd.targets[target].name => i = target

\* The margin of the credential check covers what comes after the configured
\* duration: no session of a checked launch reads with a credential that has
\* expired, be it the last one of the drain (auth_check.cc:87,
\* run_command.cc:410-420).
CredentialOutlivesDrain ==
    Checked /\ pc \in {"load", "drain", "attribute"} => now <= expires

\* The bucket can hold the price of every item the scheduler may hand out; a
\* dearer item would never be admitted, and the run thread would wait for it
\* until the deadline.
PriceFitsBucket ==
    item # NoItem /\ cfg.rate # 0 => item.price <= ComputeBucketCapacity(cfg)

\* --max-bytes auto, where one chunk fits under the ceiling: the least whole
\* number of chunks that covers the session's share of the rate and the floor,
\* or the largest that the ceiling admits.
AutoBudget ==
    pc = "load" /\ cfg.rate # 0 /\ cfg.auto /\ ChunkOf(cfg) <= AutoCeiling(cfg) =>
        LET chunk == ChunkOf(cfg)
            covers(n) == n * cfg.inflight > cfg.rate * kAutoMaxAmortizeSec - cfg.inflight
                         /\ n >= kAutoMaxFloorChunks * chunk
            whole == {k * chunk : k \in 1 .. (AutoCeiling(cfg) \div chunk)}
            enough == {n \in whole : covers(n)}
        IN  IF enough # {} THEN cfg.maxBytes \in enough /\ \A n \in enough : cfg.maxBytes <= n
            ELSE cfg.maxBytes \in whole /\ \A n \in whole : n <= cfg.maxBytes

\* run_config.hh: "ceil = min(target_rate x kRateHeadroomSec,
\* kAutoMaxHardCapBytes)" of --max-bytes auto.  A chunk above it is the budget.
AutoUnderCeiling ==
    pc = "load" /\ cfg.rate # 0 /\ cfg.auto => cfg.maxBytes <= AutoCeiling(cfg)

\* run_config.hh on ComputeOpBytes: "Bytes charged for one I/O (Read or
\* VectorRead)".  The session computes the same product in 32 bits.
ChargedWhatItReads == item.op = item.price

\* A plain read is as long as --chunk-size or read_size asks.  The flags' value
\* is truncated to 32 bits.
ReadsWhatIsAsked ==
    item # NoItem /\ cfg.pattern \in {"sequential", "random"} =>
        item.op = cmd.targets[target].chunk

\* A rate that is stated is held.  One below four bits per second rounds to
\* zero, which is uncapped.
StatedRateHeld ==
    pc = "load" /\ cfg.rate = 0 => cmd.targets[target].bits = 0

\* A launch that is refused leaves an earlier run's files alone.
RefusedTouchesNothing == pc = "refused" => ~touched

\* The queries of the final attribution have a valid credential too.
QueriesAuthenticated == Checked /\ pc = "done" /\ ~cmd.dryRun => now <= expires

=============================================================================
