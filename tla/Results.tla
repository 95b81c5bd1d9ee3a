------------------------------ MODULE Results --------------------------------
(***************************************************************************)
(* A run and a report over one results directory: the sinks of a launch     *)
(* that may crash at any moment, and `xrdhover report`                      *)
(* (src/src/report_command.cc), a process of its own that may start at any  *)
(* time, while the launch writes or after it is gone.                       *)
(*                                                                          *)
(* The report reads result.json block by block.                             *)
(***************************************************************************)
EXTENDS Sinks, FiniteSets

CONSTANT
    Tally       \* the sessions that had succeeded and failed at a snapshot

ASSUME ResultOptions == \A id \in 0 .. MaxTicks + 1 : Tally[id] \in [ok : Nat, fail : Nat]

VARIABLES
    hash,       \* the launch whose workload.hash is in the directory
    report      \* the report: where it is, what it read, its exit code, and
                \* whether the launch was over when it started
reportVars == <<hash, report>>
resultVars == <<vars, reportVars>>

Launches == {"earlier", "this"}
Gone == pc["main"] \in {"exited", "crashed"}

\* Nothing but blocks of the file is ever read.
ReportTypeOK ==
    /\ hash \in Launches
    /\ report.at \in {"start", "open", "read", "done"} /\ report.code \in 0 .. 2
    /\ report.seen \in Seq(0 .. MaxTicks + 1) /\ report.late \in BOOLEAN

ResultsInit ==
    /\ Init
    /\ hash = "earlier"
    /\ report = [at |-> "start", seen |-> <<>>, code |-> 0, late |-> FALSE]

-----------------------------------------------------------------------------
(* The launch. *)

\* FileSink::Start replaces workload.hash before it truncates metrics.jsonl.
Start ==
    /\ Setup
    /\ hash' \in IF pc["main"]' = "run" THEN {"this"} ELSE Launches
    /\ UNCHANGED report

\* The process dies; what it sent is still on its way.
Crash ==
    /\ ~Gone
    /\ pc' = [timer |-> "stopped", main |-> "crashed"]
    /\ mine' = [t \in Threads |-> NoCall.put]
    /\ call' = [t \in Threads |-> NoCall]
    /\ late' = late \cup {call[t] : t \in {u \in Threads : call[u] # NoCall}}
    /\ failed' = {} /\ finished' = FALSE /\ broken' = FALSE
    /\ UNCHANGED <<keep, lastId, jsonl, result, group, stray, chirpVars, reportVars>>

\* RunEngine's exit code.
ExitCode(id) == IF Tally[id].fail > 0 /\ Tally[id].ok = 0 THEN 1 ELSE 0

-----------------------------------------------------------------------------
(* The report. *)

\* What PATH is, whether --results-dir and --run-id are given.
ReportOptions == [path : {"none", "file", "run", "root", "wrong"},
                  results : BOOLEAN, runId : BOOLEAN]

\* The options lead to the run's result.json, if it is there.
Locates(o) ==
    \/ o.path \in {"file", "run"} /\ ~o.results
    \/ o.path = "root" /\ ~o.results /\ o.runId
    \/ o.path = "none" /\ o.results /\ o.runId

Fail == report' = [report EXCEPT !.at = "done", !.code = 2, !.late = Gone]

DiscoverResultFiles == \E o \in ReportOptions :
    /\ report.at = "start"
    /\ IF Locates(o) /\ result # None
       THEN report' = [report EXCEPT !.at = "open", !.late = Gone]
       ELSE Fail
    /\ UNCHANGED <<vars, hash>>

\* What is not JSON throws: no proper prefix of a result.json is.  Blocks of two
\* launches may be.
\* Mutant: a file that is cut short is read as far as it goes.
AcceptsPrefix(seen) == {seen # <<>>}

Accepts(seen) ==
    IF Len(seen) < Blocks THEN {FALSE}
    ELSE IF \A n \in DOMAIN seen : seen[n] = seen[1] THEN {TRUE}
    ELSE BOOLEAN

\* Mutant: any failed session makes the report's exit code 1.
ReportCodeAnyFailure(id) == IF Tally[id].fail > 0 THEN 1 ELSE 0

ReportCode(id) == IF Tally[id].fail > 0 /\ Tally[id].ok = 0 THEN 1 ELSE 0

Done(code) == report' = [report EXCEPT !.at = "done", !.code = code]

\* The file may not open; then the next block of it, or its end.  The tallies
\* are in one of the blocks.
AggregateResultFiles ==
    LET next == Len(report.seen) + 1 IN
    /\ \/ report.at = "open" /\ Done(2)
       \/ /\ report.at \in {"open", "read"} /\ next <= Len(result)
          /\ report' = [report EXCEPT !.at = "read", !.seen = Append(@, result[next])]
       \/ /\ report.at \in {"open", "read"} /\ next > Len(result)
          /\ \/ FALSE \in Accepts(report.seen) /\ Done(2)
             \/ /\ TRUE \in Accepts(report.seen)
                /\ \E n \in DOMAIN report.seen : Done(ReportCode(report.seen[n]))
    /\ UNCHANGED <<vars, hash>>

ResultsNext ==
    \/ Start
    \/ Work /\ UNCHANGED reportVars
    \/ Crash
    \/ DiscoverResultFiles
    \/ AggregateResultFiles

ResultsSpec == ResultsInit /\ [][ResultsNext]_resultVars

-----------------------------------------------------------------------------
(* Properties. *)

Reported == report.at = "done" /\ report.code # 2
Read == {report.seen[n] : n \in DOMAIN report.seen}

\* Whatever moment the launch crashes at and the report starts at, the report
\* accepts one launch's whole result.json or none: only one that runs while a
\* second launch replaces the file can read both (report_command.cc:215-224,
\* file_sink.cc:198-201).
ReportWhole ==
    Reported /\ (report.late \/ 0 \notin Read) =>
        \E id \in 0 .. lastId : Whole(report.seen, id)

\* A report of a run that has exited gives the run's own exit code, from the
\* file instead of the process (report_command.cc:275, run_command.cc:541); if
\* it reports an earlier launch, this one could not open its result.json.
ReportAgrees ==
    Reported /\ report.late /\ Exited /\ lastId > 0 =>
        IF 0 \in Read THEN Whole(result, 0) ELSE report.code = ExitCode(lastId)

\* A report never reads a result.json that is being replaced.
NeverMixed == Reported => Cardinality(Read) = 1

\* What is reported after a launch is over is that launch, and not an earlier
\* one that used the directory.
ReportCurrent == Reported /\ report.late /\ lastId > 0 => 0 \notin Read

\* workload.hash is the hash of the workload that result.json is about.
HashOfResult == Gone /\ Whole(result, 0) => hash = "earlier"

=============================================================================
