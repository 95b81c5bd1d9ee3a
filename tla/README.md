# A TLA+ model of xrdhover

xrdhover reads files from an XRootD federation at a held rate. A run keeps up to
`max_inflight` file sessions open, each reading op by op; a token bucket pays for
every read; metrics go to files, a Pushgateway and HTCondor's chirp. Almost
everything interesting happens between threads: the run thread, XrdCl's response
threads (which run all session callbacks), a session deadline watchdog, a metrics
timer and a sitename thread. Before it lies a launch that checks its workload and its
credential, after it a report that reads what the run left behind, perhaps while it
still writes.

This directory holds modules that model that code, TLC configurations that check
them on small instances, and TLAPS proofs of what matters most for every instance: the
safety of a session, the run engine, the bucket, a launch, the probe, the sinks and the
report, and that each session of a run follows the protocol it is proved under. Paths
below are relative to the repository.

```
tlc -config RunEngine.cfg RunEngine               # one run: <cfg> <module>
tlapm FileSessionProofs.tla                       # one proof module
```

## 1. Inventory

| Component | Source | State | Operations | Interacts with |
|---|---|---|---|---|
| File session | `src/file_session.cc` | self-reference, pending callbacks, completed/timed-out/close-requested flags, bytes left, requested, prepaid | `Start`, `OnOpen`, `OnStat`, `OnRead`, `OnClose`, `NextOpBytes`, `IssueNextFromEngine`, `CloseNow`, `RequestWallTimeout` | XrdCl (submits, is called back), owner (`on_ready`, `on_refund`, `on_done`), watchdog (`Arm`, `Disarm`) |
| Deadline watchdog | `src/file_session.cc` | table of deadlines, thread, stop flag | `Arm`, `Disarm`, thread main, `ShutDown` | sessions |
| Run engine | `src/run_command.cc` | `ready` queue, `live`, `stop_pace`, counters, its position in the loop | pace loop, admission, stop, flush, drain, final snapshot, exit | everything |
| Token bucket | `src/token_bucket.cc` | tokens, last refill | `TryAcquire`, `AcquireUntil`, `SecondsUntil`, `Refund` | engine, session refunds |
| Semaphore | `src/inflight.cc` | current, max | `AcquireUntil`, `TryAcquire`, `Release` | engine, probe |
| Scheduler | `src/scheduler.cc` | random generator, position | `Next` | engine |
| Metrics registry | `src/metrics.cc` | relaxed counters, per-server table under a mutex | `ObserveSession*`, `SetInflight`, `SetCmsSite`, `Snapshot` | callbacks, timer, site thread, run thread |
| Histograms | `src/metrics.cc`, `src/prom_encode.cc` | buckets, count, sum | `Observe`, `Snapshot`, percentile, cumulative encoding | callbacks, timer, run thread |
| Sitename resolver, site map | `src/sitename_resolver.cc`, `src/site_map.cc` | cache; exact and suffix rules | `Resolve`; `Add`, `Lookup` | site thread, final pass |
| Sinks | `src/file_sink.cc`, `src/pushgateway_sink.cc`, `src/chirp_sink.cc` | jsonl stream, curl handle, `finished_`, remote attributes and file | write, push, finish | timer, run thread, external services |
| Launch | `src/main.cc`, `src/workload_spec.cc`, `src/workload_run_command.cc`, `src/auth_check.cc`, `RunRunCommand` | the command line, the target, the configuration | dispatch, validate, select, check the credential, resolve | validator, site map, sinks, engine |
| Size policy | `src/run_config.cc`, `src/units.cc` | – | round a rate, resolve a budget, price an op | launch, scheduler, session |
| Error classifier | `src/error_classifier.cc` | – | `ClassifyXRootDError` | run's and probe's callbacks |
| Report | `src/report_command.cc` | what it has read | find `result.json`, read it, exit code | the files of a run, of this process or another |
| Probe | `src/probe_command.cc` | results, completed count | admission, callback, wait, report | sessions, semaphore |
| Read command, soft-fault log, XrdCl options, text formats | | mostly none | sequential | |

Hard behaviours: callbacks on XrdCl's threads racing the run thread and the watchdog
over one session; a session parked between two reads while its deadline passes; a
Close refused because an operation is in flight; a stop flag tested before the lock
that protects the queue; notifications sent without the mutex; a drain that gives up
with sessions still live; objects on the frame of a function that returns while a
callback still uses them; relaxed counters read piece by piece; requests that time
out here and are applied later there; a result file written in place by a process that
may die and read by another; the same decision taken in two places (what is valid, what
failed, what the exit code is). `PROJECT.json` lists each of these under
`hazards`, at its line, with the properties about it.

What makes each component correct:

- session: exactly one outcome is reported, nothing is submitted after the Close, at
  most one operation uses the buffer, every token is accounted for, and it is alive
  whenever a callback comes and gone after;
- engine: slots and live sessions agree, the load stops at the deadline, what was
  drained is in the final tally, the run ends;
- bucket: over any window no more than the rate plus one capacity;
- registry, histograms: the final snapshot is exact, live ones are torn by no more
  than what is under way, counters only grow;
- sinks: final data last, nothing left behind, whatever fails;
- launch and policy: what is accepted is started and can be paid for, and the
  credential lasts;
- report: one launch's whole result or none, and the run's own exit code;
- classifier: every failure gets a class, the same in a run and in a probe.

## 2. Modules

| Module | Models | Composes |
|---|---|---|
| `SessionOps` | a session's state and each entry point as a function of it | – |
| `SessionContract` | abstract: what a session promises its owner | – |
| `FileSession` | one session, XrdCl, the watchdog and an owner that follows the pacing protocol | `SessionOps`; implements `SessionContract` |
| `SessionOpsProofs`, `FileSessionProofs` | the proofs about them | |
| `RunEngine`, `RunEngineProofs` | the engine with its real queue, slots, condition variable, bucket content and shutdown | `SessionOps` for each session; every session implements `FileSession` |
| `TokenBucket`, `TokenBucketProofs` | the bucket and its callers | |
| `Sums` | operator: the sum of a function's values on a finite set | – |
| `Metrics` | the registry under its five kinds of thread, resolver included | `Sums` |
| `Histogram` | one histogram, its snapshots and percentiles | `Sums` |
| `MetricsProofs` | the proofs about both | |
| `Probe`, `ProbeProofs` | the probe command over the contract's sessions | |
| `Sizing` | operators: a pattern's validation, the policy, the session's own pricing | – |
| `Launch`, `LaunchProofs` | one launch, from its command line to its exit | `Sizing` |
| `Sinks` | timer and run thread over all sinks and their remote ends | – |
| `Results`, `ResultsProofs` | a run that may crash and a report over one directory | `Sinks` |
| `SiteMap` | rules and lookup | – |
| `ErrorClassifier` | operators: the rules of the classifier | – |
| `Attribution` | how a session fails, and what a run and a probe call it | `SiteMap`, `ErrorClassifier` |
| `MCHistogram`, `MCLaunch`, `MCResults`, `MCAttribution` | constants that a `.cfg` cannot write | |

### Correspondence to the code

*Atomicity.* What runs under a mutex for its whole body is one step: an entry point
of a session (`smu_`), a bucket operation, `SetCmsSite`. What runs outside is split
where another thread can come in between:

- `on_ready` after `OnRead` unlocked: `Enqueue`/`CloseOnEntry` and `OnReadyReturns` in
  `FileSession`; `CheckStop`, `Push`, `Nudge` in `RunEngine`;
- the watchdog: `Collect` under its mutex, `Fire` after it;
- the owner: `Price`, `Pay`, `Issue` are three steps of the loop (357–376);
- `session_done`: observe, decrement `live`, release the slot, notify. It runs inside
  the session's mutex, so in `RunEngine` the session stays locked (`stage`) until
  the last of them;
- the condition variable: `Top` evaluates the predicate under `pace_mu`, `Block` gives
  up the mutex, and a notification in between is lost because the callbacks notify
  without it. `SleepEnds` is `wait_until` reaching the run's deadline;
- a `result.json` is opened, which empties it, and written block by block; the report
  reads it block by block; the process may end between any two steps (`Crash`), and what
  it sent before is still on its way;
- the launch is sequential: one step per check, with what the environment does in
  between as a choice (a map that is gone, a directory that cannot be made, time that
  passes);
- relaxed atomics (`Metrics`, `Histogram`): each update and each load is a step, in any
  order within one call. In `Metrics` the endpoint mutex is what orders the final
  snapshot after the reports: the final `fill_cms_sites` takes it.

*A session's record* (`SessionOps!Session`) has the fields of the class; the two
history fields are `dones` (calls of `on_done`) and `held` (tokens taken for the
session and not refunded).

*External code.* XrdCl answers each submitted operation once, with any status, size
and byte count, and may refuse a submission. Whether it accepts a Close while an
operation is in flight is the constant `StrictClose`; the comments of the code say it
does not. The Pushgateway applies a request at once, never, or after the client gave
up. Chirp calls may fail. A sitename query may fail. The clock only advances.

*Data.* Bytes are small numbers, a read is of `OpBytes`, a message or label is left out.
Time in a session is "armed" and "due"; in a launch it is counted from the credential
check. A rate is stated in bits per second and rounds to bytes as the code does. An
error text is the set of those phrases in it that a rule looks for, one standing for all
that lead to the same rules; a phrase that contains another comes with it (`Texts`). A
`result.json` is two blocks (`Blocks`): one can be missing or of another launch. A text
that does not parse is refused at once and not modelled.

*Options.* Where an option only selects a branch it is chosen in `Init` instead of
being a constant, so that one run covers both: `Sinks!keep` (`--pushgateway-keep`) and
`Probe!patient` (whether the 24-hour wait for a slot can expire).

## 3. Runs and what they show

| Run | Instance | Distinct states |
|---|---|---|
| `FileSession` | paced, ops of 2 bytes, offset 1, cap 5, files of 0, 1, 4 and 7 bytes, strict Close, wall timeout | 1 500 |
| `RunEngine` | two sessions, two slots, any status, no wall timeout | 321 000 |
| `RunEngine_faults` | one session, any status, refusals, lenient Close, wall timeout | 46 000 |
| `TokenBucket` | rate 1, capacity 3, amounts 1, 3, 4, clock to 4 | 112 000 |
| `Metrics` | one session, a mapped and an unmapped server, one timer snapshot | 1 553 000 |
| `Histogram` | two callback threads, two observations of 0, 10, 30 over bounds 10, 20, one timer snapshot | 917 000 |
| `Probe` | three files, two slots | 176 000 |
| `Launch` | 14 200 command lines: small rates, chunks and widths with 4-bit integers, lists of up to two targets, flags, durations and timeouts | 385 000 |
| `Results` | two timer snapshots and the final one, a crash, a report, three earlier states of the directory | 6 202 000 |
| `Attribution` | four site rules over nested domains; a status, a number and up to two phrases for each rule and for none | 121 500 |

**Session.** No two operations share the buffer (`OneOpInFlight`), tokens settle exactly
unless the outcome is a timeout, also where an expired session's last answer is an error
(`SettledLedger`), and no read is issued unpaid and at most one op's tokens are lost by a
session that reports a timeout, whether in its owner's hand, prepaid or asked for
(`LosesAtMostOneOp`); nothing follows a Close (`NothingAfterClose`), no
session vanishes (`NeverLost`) or reports twice (`DoneOnce`), callbacks find it alive
(`AliveForCallback`), its owner sees no more than `SessionContract` allows
(`ImplementsContract`), and it reports and is released (`Completes`). The
sizes give an empty file, one that ends at the offset, one shorter than the cap and one
cut by it in the middle of an op, so that an op is short because of the cap, because of
the file, or because XrdCl returned less. The lenient XrdCl and the unpaced session are
covered by the proofs, which hold for every value of the constants, and the lenient one
also by `RunEngine_faults`.

**Engine.** `RunEngine` has two sessions live at once, so that two `session_done`s
interleave with each other and the loop: slots and live sessions agree
(`SlotAccounting`), the final tally is exact after a complete drain (`FinalTally`), the
load ends at the stop (`StopEndsLoad`), the process ends (`Exits`) and each session
reports unless it is stranded (`Reported`).
`RunEngine_faults` has what the first leaves out: refused submissions, the wall timeout,
the watchdog and its shutdown (`WatchdogDown`), and an XrdCl that accepts a Close over a
read. All of it with two sessions exceeds what TLC explores in minutes; the proofs hold
for any number of sessions and slots, with all of these at once. `SessionsImplement` shows that the
real owner is an instance of the protocol `FileSession` assumes, so what is proved of a
session holds of the sessions of a run; sessions share nothing but the owner's queue and
slots, which is why one is enough for it.

**Bucket.** An `AcquireUntil` caller beside other threads that take and refund freely;
the window of `WindowBound` may start at any time. That threads refund only what they
took is `FileSession`'s ledger.

**Metrics, histograms.** `FinalSums`: the final snapshot is exact after a complete drain
although everything is relaxed, because the final `fill_cms_sites` takes the endpoint
mutex. `SiteKept`: the map and the query name different sites, and no later pass changes
a site. `Resolved`: failed queries are asked again. One session is enough for the order
of its relaxed updates against both snapshots, which is what `FinalSums` is about; that
any number of sessions add up is proved. `SnapshotWithinRun` and `ScrapesGrow` say how far a
histogram snapshot can be torn; `PercentileInItsBucket` compares the percentiles to a
nearest-rank definition, with values on, between and beyond the bounds.

**Probe.** `Bounded`, `ReportComplete`, `Exits`, over three files in two slots.

**Launch.** The validator, the credential check and the engine each test what an earlier
one has tested in its own words. `LaunchChecksAgree`: a workload that `validate` accepts
is not refused for its rate, its endpoint or its files by `run`. `CredentialOutlivesDrain`:
the check's margin is compared to the real schedule: set-up, a load that overruns its
deadline, and a drain as long as the session timeout allows up to its cap. Its one
assumption is `DelaysWithinMargin`: set-up and the overrun of the last admission are local
work and, with the drain's cap of 120 s, stay within the margin of 300 s (the instance
has 2, 2 and 8 within 20; 0 to 24 are what the credential may have left, around both
sides of each sum). `PriceFitsBucket` and `AutoBudget` hold for every target of the size
sweep: rates that round to zero, chunks of zero, of the largest 32-bit (here 4-bit) value
and beyond, budgets on both sides of the floor and the ceiling. `MCLaunch` sweeps sizes,
checks and times one at a time around a launch that works, which is what keeps it small;
the checks do not look at each other's fields.

**Results.** `FinalLineLast`, `NoStaleRate` and `ChirpRetired` are about a run that exits,
whichever request, chirp command or write fails. `NoStaleRate`: the two requests that retire
the gateway's rate are the zero-rate push and the DELETE, and a rate stays only if both
failed; with `--pushgateway-keep` no DELETE is sent and the zero-rate push alone decides. A
push that timed out and is applied late, the timer's or the final one, changes nothing as
long as one of the two succeeds after it. Applied after one that succeeded, it leaves its
rate behind: the code cannot prevent that, and it is the one exception, which the history
variable `stray` (what the group shows was applied late) keeps apart from a run in which
some request merely timed out.
`ReportWhole` and `ReportAgrees` are about the report: started at any moment, before,
during or after the writing, with the process crashing in between, over a directory that
was empty or had an earlier launch's result, whole or cut short. The tallies (`Tally`)
make the three snapshots differ in their exit codes, so that a report of the wrong one
shows. That no proper prefix of a `result.json` parses is a fact of its format (an
object's last character closes it); blocks of two launches may parse or not.

**Attribution.** `LookupOrder` against the documented precedence, for rules added in any
order. `SameVerdict`: the class in the run's counters and in the probe's report agree for
every way a session fails, but for one, which it names. A session fails when the site map
has at most `MaxLoaded` entries: no class looks at the map.

The type invariants of `FileSession`, `RunEngine` and `TokenBucket` are in their runs,
where they say that unsigned counts do not wrap. Those of the other modules hold in
theirs too; the configurations leave them out, which keeps each run to what could go wrong.

### Deviations

Two runs check a statement of the repository that the code does not keep, and TLC finds
the behaviour:

| Run | Property | The code |
|---|---|---|
| `RunEngine_stranded` | `SessionsBounded` | a session parked between the flush and its own test of the stop flag is never closed; its deadline is disarmed |
| `FileSession_tokenwait` | `ExpiresOnlyInOperation` | a deadline already collected times out a session that waits for tokens |

The modules state others, each after its section of properties or with the words of the
comment it quotes. They are no run of their own; TLC refutes each when it replaces the
properties of the configuration named:

| Property | Configuration | The code |
|---|---|---|
| `FileSession!TimedOutReadCloses` | `FileSession` | a read that answers after the wall timeout parks the session and leaves the Close to the owner |
| `FileSession!AliveForHandler` | `FileSession` | a session can be released before the handler that parked it returns |
| `RunEngine!SleepsOnlyWhenFull` | `RunEngine` | a freed slot's notification is lost; the engine sleeps until another one or the run's deadline |
| `RunEngine!ExitZeroMeansSuccess` | `RunEngine` | exit 0 when no session reported before the drain gave up |
| `RunEngine!DoneBeforeReturn` | `RunEngine` | the last callback still uses locals of `RunEngine` when it has returned |
| `RunEngine!WatchdogDownAtExit` | `RunEngine_faults` | after a drain timeout a session's submission restarts the watchdog thread |
| `Probe!CallbackBeforeReturn` | `Probe` | the same with the locals of `RunProbeCommand` |
| `Metrics!SiteSeriesSumToLink` | `Metrics` | live site series do not sum to the link |
| `Metrics!UnmappedIsCounter` | `Metrics` | the unmapped byte counter decreases |
| `Metrics!AllBytesCounted` | `Metrics` | bytes read by failed sessions are in no total |
| `Metrics!FinalGauge` | `Metrics`, with two sessions | the in-flight gauge ends above zero |
| `Histogram!PercentileObserved` | `Histogram` | after a drain timeout, a percentile above every observation |
| `Launch!AutoUnderCeiling` | `Launch` | a chunk larger than the ceiling is the automatic `max_bytes` |
| `Launch!ChargedWhatItReads` | `Launch` | price and size of a vector op differ when 32 bits overflow, and for a chunk of zero |
| `Launch!ReadsWhatIsAsked` | `Launch` | `--chunk-size` is truncated to 32 bits |
| `Launch!StatedRateHeld` | `Launch` | a rate below four bits per second is uncapped |
| `Launch!RefusedTouchesNothing` | `Launch` | a refused sink ends the launch after `metrics.jsonl` and `workload.hash` of an earlier one are gone |
| `Launch!QueriesAuthenticated` | `Launch` | the last sitename queries may come after the credential has expired |
| `Sinks!FinalPromZeroed` | `Results` | the final `.prom` is not zeroed before it is removed |
| `Results!NeverMixed` | `Results` | a report that runs while a second launch replaces `result.json` may read both |
| `Results!ReportCurrent` | `Results` | after a crash the report is about the launch before |
| `Results!HashOfResult` | `Results` | `workload.hash` is the new launch's while `result.json` is the earlier one's |
| `Attribution!AlwaysSameVerdict` | `Attribution` | a timed-out session whose Close expires too is `expired` in a run, `timeout` in a probe |
| `Attribution!NoServersIsNoReplicas` | `Attribution` | "no servers are available" is a `server_error`: its own rule comes too late |

### Deadlock

All configurations set `CHECK_DEADLOCK FALSE`: a session, a run and a probe really
end, and the bounds end the others. That they end where they should is what the liveness
properties say.

### Fairness

- `FileSession`: weak fairness of XrdCl's answers, of the owner's steps and of the
  watchdog's. XrdCl bounds its operations by its own timeouts
  (`src/xrdcl_env.cc`), the engine serves its queue in order, and the threads run.
  Strong fairness of `Pay`: the attempt may fail again and again, but the bucket refills
  at a constant rate and an op's price never exceeds its capacity
  (`PriceFitsBucket`).
- `RunEngine`: weak fairness of each thread's steps, of the run's deadline, of the
  drain's and of the refill: clock times pass. Nothing is assumed of notifications.
- `Metrics`: while the run lasts, the site thread and the callbacks run, and a query
  that is retried forever succeeds at some time (strong fairness of a successful answer).
- `Probe`: main thread, callbacks and sessions; nothing of the 24-hour wait for a slot,
  which may or may not expire (`patient`).

Deadlines of sessions are never fair: that a session completes does not rest on its
timeout.

## 4. What is proved

All for every value of the constants, with no assumption but the named `ASSUME`s of the
modules (sizes are naturals, options Boolean).

`FileSessionProofs`: `TypeCorrect`, `HandlersAlive` (`AliveForCallback`), `OneBuffer`
(`OneOpInFlight`), `OutcomeBeforeRelease` (`NeverLost`), `OneOutcome` (`DoneOnce`).
The inductive invariant `Inv` says that a started session is `Sound` and that one in its
owner's hands has no operation in flight except perhaps a Close of the watchdog.
`Sound` (in `SessionOpsProofs`) relates the self-reference to completion and pending
callbacks, the pending Close to the flag, the pending read to what is left, and the
outcome to the flag. None of the five properties is inductive alone: that a callback
finds the session alive needs that completion without pending callbacks is the only way
to drop the reference; that `IssueNext` by the owner starts a first operation and not a
second one needs the fact about the owner's hands. `SessionOpsProofs` has one lemma for
each helper and entry point; `StepInv` has one step for each action of `Next`.

The ledger, in the same module: `LossBounded` (`LosesAtMostOneOp`) and `Settles`
(`SettledLedger`), for
every op size, cap, offset and set of file sizes, whether or not XrdCl insists on Close
coming last. Both are about the history variable `held`, which no guard reads, so the
proof follows every token. `Ledger` says where the session may hold any: a prepayment
until its first Read, a request only while a Read is out, neither once it closes or ends
without a timeout. `Account` adds the owner: what is held beyond bytes, prepayment and
request (`Owed`) is what the owner has in hand while the session is parked, and outside
nothing, unless the session expired after its op was paid for, when it is one op at most
and nothing is in flight. It rests on `Inv`, above all on `Busy(s) = 0` in the owner's
hands: a Read in flight next to the owner's payment would make two requests of one field.
`Purse` is what is left of a session that expired, of which `Ledger` says less: an outcome
other than the timeout finds neither prepayment nor request (`Tidy`), and where an op was
paid for in vain there was neither before it and no other outcome can follow (`Empty`).

`FileSessionProofs` also has `CloseIsLast` (`NothingAfterClose`) and `Implementation`
(`ImplementsContract`). Both come from one fact about each entry point (`Advance`, proved
in `SessionOpsProofs` from the helpers' `Onward`): bytes only grow, and not in the step
that notes the timeout; tokens are only given back; once a Close is requested no count of
pending operations grows; an outcome is reported once and agrees with the flags. The
contract's step simulation (`StepContract`) needs `Within` besides: before the size is
known nothing is read, afterwards what was read and what is left stay within one file's
allowance (`Sized`).

`RunEngineProofs`: `TypeCorrect`, `SlotsNeverDrift` (`SlotAccounting`), `SnapshotComplete`
(`FinalTally`), `WatchdogStaysDown` (`WatchdogDown`), `StopIsFinal` (`StopEndsLoad`), for
any number of sessions and slots, with all faults at once. The invariant has three layers,
each proved from those before it:

- `Base`: a session not yet started is blank, any other is `Sound`, and one in the hands
  of `on_ready`, the queue or the run thread has nothing in flight but perhaps the
  watchdog's Close (`SessionOK`); the run thread holds a session at five statements and
  only one (`HandsOK`); no session is in the queue twice, or there and elsewhere
  (`QueueOK`). Without the last two, `IssueNext` could meet a session that reads.
- `Tallies`: `live`, the semaphore and the totals are the cardinalities of sets of
  sessions, told apart by how far `session_done` has run for each. `EngineStep` sorts all
  steps by what they do to these sets, so that the counting is done once per sort and not
  per action.
- `Ended`: `stop_pace` and the place of the run thread agree; after a complete drain no
  session is live, and after the shutdown none has a deadline. That nothing arms one
  again rests on `Advance`: what XrdCl still owes by then belongs to completed sessions,
  whose entry points arm nothing.

The engine's sessions are paced (`EngineOptions`), as `run_command.cc:281` sets it.

`SessionsFaithful` (`SessionsImplement`) is the refinement. Under the mapping of
`RunEngine` every step is, for every session, a step of `FileSession` or none of its
business (`Faithful`); `AnswerMirrored`, `CallMirrored`, `OwnerMirrored` and
`WatchdogMirrored` state which, and the lemmas after them show it for each of the engine's
actions. `FileSession` releases a session in the step that returns from an entry point,
the engine when `session_done` is through: the mapping releases it early, and `Tidy` says
that it never has to otherwise. The two instances of `SessionOps`, the engine's and the
one inside `FileSession`, are shown equal operator by operator (`SameEntries`).

What is proved of a session then holds of every session of every run. The provers cite no
theorem through an instance with a parameter, so `RunEngineProofs` declares a constant
`Any` and instantiates `FileSessionProofs` for that session under the same mapping
(`One`); each theorem assumes `Any \in Sessions` and nothing else of it. `EverySession`
is `Spec => One!Spec`. From it follow `LedgerOfRun` (`SettledLedger`, `LosesAtMostOneOp`),
`MemoryOfRun` (`AliveForCallback`, `NeverLost`, `OneOpInFlight`), `OutcomesOfRun`
(`DoneOnce`, `NothingAfterClose`) and `ContractOfRun` (`ImplementsContract`), each for
`Any`, and `PaidIsRead` in the engine's own variables: a session that has reported
anything but a timeout holds exactly as many tokens as it read bytes.

`TokenBucketProofs`: `TypeCorrect` and `HoldsRate` (`WindowBound`). The bound is
strengthened to `Reserve`: what was taken since the window began *plus what is there
now or would be after a refill* is within the bound.

`LaunchProofs`: `ChecksAgree` (`LaunchChecksAgree`) and `CredentialLasts`
(`CredentialOutlivesDrain`), for every set of command lines and every time. Neither is
inductive: at the step that could break them nothing is known of what was checked
before. `Inv` says what the passed checks have established at each label: `Clocked`
(the types of times), `Timed` (the configuration has the command's duration and
timeout), `Vetted` (after validation the list is accepted, after selection the target is
the only one of its name, and before `RunRunCommand` the configuration is that target's)
and `Ahead` (the credential lasts for the time spent and the most that is still to
come). The only assumptions are the `ASSUME`s of `Launch`, among them
`DelaysWithinMargin`. `PricesFit` (`PriceFitsBucket`) holds for every rate, op size,
budget and integer width: the bucket's capacity is the price of a vector for the patterns
that may draw one, a vector costs no less than a plain read of its chunk, and the sizes
are fixed once the configuration is resolved. `BudgetIsPolicy` (`AutoBudget`): the
automatic budget is the least whole number of chunks that covers the session's share of
the rate and the floor, or the largest under the ceiling. The code divides and rounds in
three places; `ShareOfRate`, `Rounding` and `LeastBudget` show that the roundings compose
to that, and `Budgeted` that the run thread starts with it.

`ProbeProofs`: `ConcurrencyBounds` (`Bounded`) and `ReportHasAll` (`ReportComplete`), for
any number of files and any `--concurrency`. `current` and `results` are counted against
sets of items: a slot is held until its callback is past `Release` (`Slots`), a result is
listed once its callback is past `Record` (`Listed`), items are admitted in order
(`InOrder`), and past its wait the main thread has nobody left to hear from (`AllIn`),
because a set of `admitted` items with `admitted` members is all of them.

The same module has `LookupsOrdered` (`LookupOrder`) and `VerdictsAgree` (`SameVerdict`),
about `Attribution`: for any hosts, domains, sites and number of entries, and any codes and
texts. The rules are sorted by the length of their strings with an unstable sort, so the
model allows every order in which a domain comes before those it lies in. `RulesMatch` says
that there is one rule for each domain given, in such an order, with the site last given;
that the first rule that matches a host is the longest needs that of two domains of one
host the shorter lies in the longer (`DomainsNest`) and that there is one of each length
(`DomainsDiffer`). Every failure has words, so a rule before the last applies
(`FirstRule`), and a watchdog's timeout is caught by the rules for a timeout or an expired
operation before any other (`RuleCases`).

`ResultsProofs`: `FinalLineIsLast` (`FinalLineLast`), `RateRetired` (`NoStaleRate`),
`AccessPointRetired` (`ChirpRetired`), `ReportsWhole` (`ReportWhole`) and `ReportsAgree`
(`ReportAgrees`), for any number of snapshots and any tallies, wherever the launch crashes
and whenever the report starts. `SinkInv` is about the launch: the timer is gone before
the run thread writes (`Located`), a snapshot is in the file before the next is taken
(`Ordered`), `result.json` is the earlier launch's or a prefix of the final snapshot's
(`Filed`), and a rate still shown anywhere is one whose removal failed (`Retired`,
`Chirped`), but for what a late request put there (`stray`). The report's part rests on
`Onward`, what a launch never takes back while a report reads: once the final snapshot is
taken its number stays, and once the process is gone, so does the file.

`MetricsProofs`: `SitesStay` (`SiteKept`), `MetricsTypes` (`TypeOK`) and `FinalIsCurrent`,
for any number of sessions and servers, any map and any answers, whichever order the
relaxed counters are updated and read in. The assumption that `"timer"`, `"main"` and
`"nobody"` are not sessions only keeps the threads' names apart. `SetCmsSite` overwrites,
so `SiteKept` rests on what its callers have checked before: a server that a pass has
still to look up, or whose answer it holds, has no site yet and is in that pass only once
(`Asked`), and there is one pass at a time because the run thread fills only after the
join (`Apart`); without the join the other thread's answer falls between check and write.
`FinalIsCurrent` is why the final snapshot is exact though its counters are relaxed: `live`
counts the callbacks that have not decremented it (`Levels`); once it is zero, what may
still be unfinished is an update before an unlock (`Counting`), which the final pass's lock
waits for; nothing changes afterwards, whatever order the snapshot reads it in (`Drains`).
`SumsAreExact` (`FinalSums`) adds that these values are the sums over the sessions' results.
`LinkSums` says at every moment that each of the link's counters is the sum, over all
sessions, of what a session has added to it so far, and `ServerSums` the same of each
server's entry, which only `Attribute` changes; at the end every session has added all it
had to. The two views agree because adding up over the servers the sums over the sessions
of one server is adding up over the sessions. `Total` is a fold over a finite set, and the
facts about it that this needs (one more element, one changed value, a union, zeros) are
proved from its definition in the module's first part: a set for which one failed would
contain a smallest one, by the well-foundedness of strict inclusion (`Smallest`), and one
element less than that makes it hold.

The same module has `HistogramCounts` (`HistogramTypeOK`), `SnapshotsWithinRun`
(`SnapshotWithinRun`), `ScrapesOnlyGrow` (`ScrapesGrow`) and `PercentilesInBucket`
(`PercentileInItsBucket`), for any number of callback threads and snapshots, any finite
set of values, and any positive bounds that rise (`HistogramShape`; the code's are
constants, `metrics.hh:25`). The order of increments and loads is free. `Balanced` says
that a cell holds the observations that have landed and, of those under way, the ones that
have reached it; so it never holds less than has landed nor more than has begun
(`Tallied`). `Copied` carries this to the cells a snapshot has read, with what had landed
when it began and what has begun by now, and with the last snapshot's cells below them;
`Scraped` keeps it once published. That is the whole argument for the single cells. The
cumulative samples are sums over buckets where the properties speak of sums over values:
`Column` turns one into the other, because a value's bucket is the first whose bound is
not below it (`IndexOf`). For the percentiles the sandwich closes: with nothing under way
the cells are exact, both sides of the equivalence say that the observations up to the
bound reach the rank (`RankAt`, `PercentileAt`), and interpolation stays strictly above the
bucket's lower end and not above its upper (`Interpolated`).

### What is only model-checked

- Liveness (`Completes`, `Reported`, `Exits`, `Resolved`): it needs fairness and ENABLED,
  which these provers do not treat.
- The statements of the *Deviations*: they are false.

## 5. Limits

- `Sizing`: the doubles of `ComputeAutoMaxBytes` and of the rate are exact; `Histogram`:
  percentiles are fractions. A load in `Histogram` returns the cell's present value.
- `FileSession` assumes a positive op size. `--chunk-size 0`, or a multiple of 4 GiB,
  gives a session one of zero (`ReadsWhatIsAsked`); what such a session does is not
  modelled.
- A Close that XrdCl never answers is not covered: its deadline is not armed again
  (`file_session.cc:199`), and the fairness assumed of XrdCl excludes the case.
- `Attribution`: texts are sets of phrases with at most two of those the rules look for;
  a word that contains a phrase by chance is not considered.
- `Results`: a block is written or not; the operating system does not reorder blocks of
  one file, as it may when the machine itself goes down.

Not modelled, and why:

- the read command: a future around one unpaced session, which the proofs of
  `FileSession` cover; it adds no state of its own;
- the soft-fault log: its hazard is the locking of XrdCl's log, which is not in the
  repository;
- XrdCl's options: set once, before any session;
- JSON types, unknown keys, canonical text and hash of a workload; parsing and formatting
  of quantities; metric names, labels and number formats;
- dashboards, packaging and scripts.

## 6. Plan

Done, in this order: session, contract and proofs; engine; bucket and proofs; metrics;
probe; policy; sinks; site map; histograms; launch and proofs; crash and report; error
classes; proofs of the contract, the engine, the probe, the sinks, the report, the
registry, the histograms, the site map and the classifier, of the engine's refinement of a
session, and of the properties of every session of a run.

Left: the sessions' ledgers added up against the bucket's content and its refills, which
needs the refills as a history variable of the engine.
