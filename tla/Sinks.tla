-------------------------------- MODULE Sinks --------------------------------
(***************************************************************************)
(* Where the snapshots of RunEngine (src/src/run_command.cc) go: the        *)
(* results directory (FileSink), a Pushgateway group (PushgatewaySink) and  *)
(* HTCondor's chirp (ChirpSink).  The timer writes each of its snapshots to *)
(* all three; the run thread joins it and then writes the final one and     *)
(* retires what the job leaves behind.                                      *)
(*                                                                          *)
(* A snapshot is its place in the order they were taken and whether it      *)
(* shows a rate; a result.json is the blocks written of it, each the place  *)
(* of its snapshot, 0 for an earlier launch into the same directory.  The   *)
(* gateway and the access point are modelled from how the code uses them.   *)
(***************************************************************************)
EXTENDS Naturals, Sequences

CONSTANTS
    MaxTicks,   \* bounds the timer
    Earlier,    \* what an earlier launch may have left of its result.json
    None

ASSUME SinkOptions ==
    /\ MaxTicks \in Nat
    /\ None \notin [id : Nat, rate : BOOLEAN] \cup Seq(Nat)
    /\ Earlier \subseteq {None, <<>>, <<0>>, <<0, 0>>}

VARIABLES
    keep,       \* cfg.pushgateway_keep
    pc,         \* the timer's and the run thread's next statement
    mine,       \* the snapshot each of them is writing
    call,       \* the request each has in the one curl handle
    lastId,     \* the snapshots taken
    jsonl, broken, result,  \* metrics.jsonl, its stream's state, result.json
    finished,   \* PushgatewaySink's finished_
    group,      \* the gateway's group
    late,       \* requests that timed out here and may still be applied there
    stray,      \* history: what is in group was applied late
    failed,     \* the last steps of the retirement that failed
    attr, prom  \* the achieved-rate ClassAd, the remote .prom file

fileVars == <<jsonl, broken, result>>
gatewayVars == <<call, finished, group, late, stray>>
chirpVars == <<attr, prom>>
vars == <<keep, pc, mine, lastId, failed, fileVars, gatewayVars, chirpVars>>

Snapshots == [id : Nat, rate : BOOLEAN]
Requests == [put : Snapshots \cup {None}]   \* None: DELETE
NoCall == [put |-> [id |-> 0, rate |-> FALSE]]
Threads == {"timer", "main"}

Blocks == 2     \* of a result.json
Whole(file, id) == file = [n \in 1 .. Blocks |-> id]

\* Each thread is at a step of its sink code, and what is written anywhere is a
\* snapshot that was taken.
TypeOK ==
    /\ keep \in BOOLEAN
    /\ pc["timer"] \in {"sleep", "file", "push", "attrs", "prom", "stopped"}
    /\ pc["main"] \in {"setup", "run", "stop", "file", "result", "write", "push",
                       "idle", "delete", "attrs", "prom", "zero", "remove", "exited",
                       "crashed"}
    /\ mine \in [Threads -> Snapshots]
    /\ call \in [Threads -> Requests]
    /\ lastId \in Nat
    /\ jsonl \in Seq(Nat) /\ broken \in BOOLEAN
    /\ result \in Seq(Nat) \cup {None}
    /\ finished \in BOOLEAN /\ stray \in BOOLEAN
    /\ group \in Snapshots \cup {None}
    /\ late \subseteq Requests
    /\ failed \subseteq {"push", "idle", "delete", "zero", "remove"}
    /\ attr \in {"unset", "rate", "zero"}
    /\ prom \in Snapshots \cup {None}

Init ==
    /\ keep \in BOOLEAN
    /\ pc = [timer |-> "stopped", main |-> "setup"]
    /\ mine = [t \in Threads |-> [id |-> 0, rate |-> FALSE]]
    /\ call = [t \in Threads |-> NoCall]
    /\ lastId = 0
    /\ jsonl = <<>> /\ broken = FALSE /\ result \in Earlier
    /\ finished = FALSE /\ group = None /\ late = {} /\ stray = FALSE
    /\ failed = {}
    /\ attr = "unset" /\ prom = None

Go(t, label) == pc' = [pc EXCEPT ![t] = label]

\* Mutant: the zero-rate push comes before the final one.
AfterIdleFirst(t, label) ==
    CASE t = "timer" -> [file |-> "push", push |-> "attrs", attrs |-> "prom",
                         prom |-> "sleep"][label]
      [] t = "main"  -> [file |-> "result", result |-> "idle", write |-> "idle",
                         idle |-> "push",
                         push |-> IF keep THEN "attrs" ELSE "delete",
                         delete |-> "attrs", attrs |-> "prom", prom |-> "zero",
                         zero |-> "remove", remove |-> "exited"][label]

\* The statement after each of the timer's and of the run thread's.
After(t, label) ==
    CASE t = "timer" -> [file |-> "push", push |-> "attrs", attrs |-> "prom",
                         prom |-> "sleep"][label]
      [] t = "main"  -> [file |-> "result", result |-> "push", write |-> "push",
                         push |-> "idle",
                         idle |-> IF keep THEN "attrs" ELSE "delete",
                         delete |-> "attrs", attrs |-> "prom", prom |-> "zero",
                         zero |-> "remove", remove |-> "exited"][label]

-----------------------------------------------------------------------------
(* FileSink. *)

\* Start, and the sinks' constructors: RunEngine returns 2 if one throws.
Setup ==
    /\ pc["main"] = "setup"
    /\ \/ pc' = [timer |-> "sleep", main |-> "run"]
       \/ pc' = [pc EXCEPT !["main"] = "exited"]
    /\ UNCHANGED <<keep, mine, lastId, failed, fileVars, gatewayVars, chirpVars>>

\* A stream that failed stays failed.
WriteSnapshot(t) == \E ok \in BOOLEAN :
    /\ pc[t] = "file"
    /\ broken' = (broken \/ ~ok)
    /\ jsonl' = IF broken' THEN jsonl ELSE Append(jsonl, mine[t].id)
    /\ Go(t, After(t, "file"))
    /\ UNCHANGED <<keep, mine, lastId, failed, result, gatewayVars, chirpVars>>

\* It throws if result.json cannot be opened, and the caller goes on; opened,
\* the file is empty.
OpenResult == \E ok \in BOOLEAN :
    /\ pc["main"] = "result"
    /\ result' = IF ok THEN <<>> ELSE result
    /\ Go("main", IF ok THEN "write" ELSE After("main", "result"))
    /\ UNCHANGED <<keep, mine, lastId, failed, jsonl, broken, gatewayVars, chirpVars>>

\* Nobody looks whether a block was written.
WriteResult == \E ok \in BOOLEAN :
    /\ pc["main"] = "write"
    /\ result' = IF ok THEN Append(result, mine["main"].id) ELSE result
    /\ IF ok /\ Len(result') < Blocks THEN UNCHANGED pc ELSE Go("main", After("main", "write"))
    /\ UNCHANGED <<keep, mine, lastId, failed, jsonl, broken, gatewayVars, chirpVars>>

-----------------------------------------------------------------------------
(* PushgatewaySink.  HttpRequest blocks in curl_easy_perform. *)

\* What each statement sends.
Body(t, label) ==
    CASE label = "push"   -> [put |-> mine[t]]
      [] label = "idle"   -> [put |-> [mine[t] EXCEPT !.rate = FALSE]]
      [] label = "delete" -> [put |-> None]

HttpBegin(t) ==
    /\ pc[t] \in {"push", "idle", "delete"} /\ call[t] = NoCall
    /\ ~finished
    /\ call' = [call EXCEPT ![t] = Body(t, pc[t])]
    /\ finished' = (pc[t] = "delete")
    /\ UNCHANGED <<keep, pc, mine, lastId, failed, fileVars, group, late, stray, chirpVars>>

\* The gateway applied it, refused it, or did not answer in time.
HttpEnd(t) == \E outcome \in {"applied", "refused", "timeout"} :
    /\ call[t] # NoCall
    /\ call' = [call EXCEPT ![t] = NoCall]
    /\ group' = IF outcome = "applied" THEN call[t].put ELSE group
    /\ stray' = (stray /\ outcome # "applied")
    /\ late' = IF outcome = "timeout" THEN late \cup {call[t]} ELSE late
    /\ failed' = IF outcome = "applied" \/ t = "timer" THEN failed
                 ELSE failed \cup {pc[t]}
    /\ Go(t, After(t, pc[t]))
    /\ UNCHANGED <<keep, mine, lastId, finished, fileVars, chirpVars>>

AppliedLate == \E r \in late :
    /\ group' = r.put /\ stray' = TRUE
    /\ late' = late \ {r}
    /\ UNCHANGED <<keep, pc, mine, lastId, failed, fileVars, call, finished, chirpVars>>

-----------------------------------------------------------------------------
(* ChirpSink.  condor_chirp's exit status is looked at by nobody. *)

\* condor_chirp is spawned, polled and killed after 10 s: the access point has
\* applied the command, or not.
Spawned == BOOLEAN

SetAttr(t, label, value) == \E done \in Spawned :
    /\ pc[t] = label
    /\ attr' = IF done THEN value ELSE attr
    /\ failed' = IF label = "zero" /\ ~done THEN failed \cup {"zero"} ELSE failed
    /\ Go(t, After(t, label))
    /\ UNCHANGED <<keep, mine, lastId, fileVars, gatewayVars, prom>>

PushPromFile(t) == \E done \in Spawned :
    /\ pc[t] = "prom"
    /\ prom' = IF done THEN mine[t] ELSE prom
    /\ Go(t, After(t, "prom"))
    /\ UNCHANGED <<keep, mine, lastId, failed, fileVars, gatewayVars, attr>>

\* Mutant: a zeroed file is left behind.
RemoveFileZeroes == \E done \in Spawned :
    /\ pc["main"] = "remove"
    /\ prom' = IF done THEN [mine["main"] EXCEPT !.rate = FALSE] ELSE prom
    /\ failed' = IF done THEN failed ELSE failed \cup {"remove"}
    /\ Go("main", After("main", "remove"))
    /\ UNCHANGED <<keep, mine, lastId, fileVars, gatewayVars, attr>>

RemoveFile == \E done \in Spawned :
    /\ pc["main"] = "remove"
    /\ prom' = IF done THEN None ELSE prom
    /\ failed' = IF done THEN failed ELSE failed \cup {"remove"}
    /\ Go("main", After("main", "remove"))
    /\ UNCHANGED <<keep, mine, lastId, fileVars, gatewayVars, attr>>

-----------------------------------------------------------------------------
(* The two threads. *)

Snapshot(t) ==
    /\ lastId' = lastId + 1
    /\ mine' = [mine EXCEPT ![t] = [id |-> lastId + 1, rate |-> TRUE]]

Tick ==
    /\ pc["timer"] = "sleep" /\ lastId < MaxTicks
    /\ Snapshot("timer")
    /\ Go("timer", "file")
    /\ UNCHANGED <<keep, failed, fileVars, gatewayVars, chirpVars>>

\* The drain is over: stop_timer is set.
Stop ==
    /\ pc["main"] = "run"
    /\ Go("main", "stop")
    /\ UNCHANGED <<keep, mine, lastId, failed, fileVars, gatewayVars, chirpVars>>

\* Mutant: the timer is told to stop and not waited for.
JoinTimerDetaches ==
    /\ pc["main"] = "stop"
    /\ Snapshot("main")
    /\ Go("main", "file")
    /\ UNCHANGED <<keep, failed, fileVars, gatewayVars, chirpVars>>

JoinTimer ==
    /\ pc["main"] = "stop" /\ pc["timer"] = "sleep"
    /\ Snapshot("main")
    /\ pc' = [timer |-> "stopped", main |-> "file"]
    /\ UNCHANGED <<keep, failed, fileVars, gatewayVars, chirpVars>>

Work ==
    \/ Tick \/ Stop \/ JoinTimer \/ OpenResult \/ WriteResult \/ AppliedLate \/ RemoveFile
    \/ SetAttr("main", "zero", "zero")
    \/ \E t \in Threads :
           \/ WriteSnapshot(t) \/ HttpBegin(t) \/ HttpEnd(t)
           \/ SetAttr(t, "attrs", "rate") \/ PushPromFile(t)

Next == Setup \/ Work

Spec == Init /\ [][Next]_vars

-----------------------------------------------------------------------------
(* Properties. *)

Exited == pc["main"] = "exited"

\* metrics.jsonl is in the order the snapshots were taken and, if its stream
\* held, ends with the one result.json reports.
FinalLineLast ==
    /\ \A i, j \in DOMAIN jsonl : i < j => jsonl[i] < jsonl[j]
    /\ Exited /\ ~broken => \A id \in 1 .. lastId :
           Whole(result, id) => jsonl[Len(jsonl)] = id

\* The gateway shows a rate of a job that has exited only if the zero-rate push
\* failed and so did the DELETE, which a job told to keep its group does not
\* send (the comment at the idle push in run_command.cc).  A push that timed
\* out, the timer's or the final one, does not undo that when it is applied
\* before the two; applied after one of them that succeeded it does, and that
\* case alone is excepted: nothing in PushgatewaySink prevents it.
NoStaleRate ==
    Exited /\ group # None /\ group.rate =>
        \/ "idle" \in failed /\ (keep \/ "delete" \in failed)
        \/ stray

\* The same for the access point: the ClassAd, and the .prom file that Alloy
\* would keep scraping, go unless the last call for each failed
\* (chirp_sink.cc Finish).
ChirpRetired ==
    Exited =>
        /\ attr = "rate" => "zero" \in failed
        /\ prom # None => "remove" \in failed

\* chirp_sink.hh:33: Finish pushes the "final snapshot with zeroed
\* rate/inflight" before it removes the remote .prom file.
FinalPromZeroed ==
    [][pc["main"] = "prom" /\ prom' # prom => ~prom'.rate]_vars

=============================================================================
