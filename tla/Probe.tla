-------------------------------- MODULE Probe --------------------------------
(***************************************************************************)
(* RunProbeCommand (src/src/probe_command.cc): the main thread starts one   *)
(* one-byte session per file, at most `concurrency` at a time, waits until  *)
(* every session it started has reported, stops the session watchdog and    *)
(* prints the results.  A session reports by a callback, on an XrdCl        *)
(* thread, on the watchdog's, or, if the session cannot be submitted, on    *)
(* the main thread inside the call that starts it.                          *)
(*                                                                          *)
(* A session is what SessionContract promises: it reports once.             *)
(***************************************************************************)
EXTENDS Naturals, Sequences, FiniteSets

CONSTANTS
    Files,        \* how many files the workload selects
    Concurrency   \* opts.concurrency

ASSUME ProbeOptions ==
    /\ Files \in Nat \ {0}
    /\ Concurrency \in Nat

Items == 1 .. Files

VARIABLES
    pc,         \* the main thread
    asleep,     \* it sleeps in a condition variable's wait
    current,    \* InFlightSemaphore's current_
    admitted, completed,
    results,    \* <<item, ok>> in the order they came
    cb,         \* the next statement of an item's callback
    thread,     \* the thread the callback runs on
    patient     \* the 24-hour deadline of the admission never comes

vars == <<pc, asleep, current, admitted, completed, results, cb, thread, patient>>

Labels == {"admit", "starting", "wait", "shutdown", "report", "exited"}
\* idle: not started; open: the session has not reported; then the callback:
\* record the result, Release, its notify_one, cv.notify_all.
Steps == {"idle", "open", "record", "release", "notifySlot", "notifyDone", "returned"}
Threads == {"xrdcl", "watchdog", "main"}
Running(i) == cb[i] \in {"record", "release", "notifySlot", "notifyDone"}

\* The constructor's max_.
MaxSlots == IF Concurrency = 0 THEN 1 ELSE Concurrency

\* No slot beyond the semaphore's maximum is in use, and no item is admitted or
\* completed beyond those of the filelist.
TypeOK ==
    /\ pc \in Labels /\ asleep \in BOOLEAN
    /\ current \in 0 .. MaxSlots
    /\ admitted \in 0 .. Files /\ completed \in 0 .. Files
    /\ results \in Seq(Items \X BOOLEAN)
    /\ cb \in [Items -> Steps]
    /\ thread \in [Items -> Threads]
    /\ patient \in BOOLEAN

Init ==
    /\ pc = "admit" /\ asleep = FALSE
    /\ current = 0 /\ admitted = 0 /\ completed = 0
    /\ results = <<>>
    /\ cb = [i \in Items |-> "idle"]
    /\ thread = [i \in Items |-> "xrdcl"]
    /\ patient \in BOOLEAN

-----------------------------------------------------------------------------
(* The callback. *)

SessionReports(i) == \E t \in Threads :
    /\ cb[i] = "open"
    /\ t = "main" => pc = "starting" /\ i = admitted
    /\ t = "watchdog" => /\ pc \notin {"report", "exited"}
                         /\ \A j \in Items : ~(Running(j) /\ thread[j] = t)
    /\ cb' = [cb EXCEPT ![i] = "record"]
    /\ thread' = [thread EXCEPT ![i] = t]
    /\ UNCHANGED <<pc, asleep, current, admitted, completed, results, patient>>

Record(i) == \E ok \in BOOLEAN :
    /\ cb[i] = "record"
    /\ results' = Append(results, <<i, ok>>)
    /\ completed' = completed + 1
    /\ cb' = [cb EXCEPT ![i] = "release"]
    /\ UNCHANGED <<pc, asleep, current, admitted, thread, patient>>

\* InFlightSemaphore::Release.
Release(i) ==
    /\ cb[i] = "release"
    /\ current' = IF current > 0 THEN current - 1 ELSE current
    /\ cb' = [cb EXCEPT ![i] = "notifySlot"]
    /\ UNCHANGED <<pc, asleep, admitted, completed, results, thread, patient>>

NotifySlot(i) ==
    /\ cb[i] = "notifySlot"
    /\ asleep' = IF pc = "admit" THEN FALSE ELSE asleep
    /\ cb' = [cb EXCEPT ![i] = "notifyDone"]
    /\ UNCHANGED <<pc, current, admitted, completed, results, thread, patient>>

NotifyDone(i) ==
    /\ cb[i] = "notifyDone"
    /\ asleep' = IF pc = "wait" THEN FALSE ELSE asleep
    /\ cb' = [cb EXCEPT ![i] = "returned"]
    /\ UNCHANGED <<pc, current, admitted, completed, results, thread, patient>>

-----------------------------------------------------------------------------
(* The main thread.  Both waits test their condition under the mutex the      *)
(* callbacks change it under.                                                 *)

\* Mutant: the slot is tested and taken with <=.
AdmitOneMore ==
    /\ pc = "admit" /\ ~asleep /\ admitted < Files
    /\ current <= MaxSlots
    /\ current' = current + 1
    /\ admitted' = admitted + 1
    /\ cb' = [cb EXCEPT ![admitted + 1] = "open"]
    /\ pc' = "starting"
    /\ UNCHANGED <<asleep, completed, results, thread, patient>>

\* AcquireUntil succeeds: the session is handed to `runner`.
Admit ==
    /\ pc = "admit" /\ ~asleep /\ admitted < Files
    /\ current < MaxSlots
    /\ current' = current + 1
    /\ admitted' = admitted + 1
    /\ cb' = [cb EXCEPT ![admitted + 1] = "open"]
    /\ pc' = "starting"
    /\ UNCHANGED <<asleep, completed, results, thread, patient>>

\* runner returns; a callback it ran itself is over by then.
Started ==
    /\ pc = "starting"
    /\ ~(Running(admitted) /\ thread[admitted] = "main")
    /\ pc' = "admit"
    /\ UNCHANGED <<asleep, current, admitted, completed, results, cb, thread, patient>>

SleepForSlot ==
    /\ pc = "admit" /\ ~asleep /\ admitted < Files
    /\ current >= MaxSlots
    /\ asleep' = TRUE
    /\ UNCHANGED <<pc, current, admitted, completed, results, cb, thread, patient>>

\* AcquireUntil times out with no slot free: the rest is not probed.
GiveUp ==
    /\ ~patient
    /\ pc = "admit" /\ asleep /\ current >= MaxSlots
    /\ pc' = "wait" /\ asleep' = FALSE
    /\ UNCHANGED <<current, admitted, completed, results, cb, thread, patient>>

AdmittedAll ==
    /\ pc = "admit" /\ admitted = Files
    /\ pc' = "wait"
    /\ UNCHANGED <<asleep, current, admitted, completed, results, cb, thread, patient>>

\* Mutant: the main thread waits for the files it selected, not for the
\* sessions it started.
WaitedForAllFiles ==
    /\ pc = "wait" /\ ~asleep
    /\ IF completed >= Files THEN pc' = "shutdown" /\ asleep' = asleep
                             ELSE pc' = pc /\ asleep' = TRUE
    /\ UNCHANGED <<current, admitted, completed, results, cb, thread, patient>>

\* Mutant: it stops at the first result.
WaitedForOne ==
    /\ pc = "wait" /\ ~asleep
    /\ IF completed >= 1 THEN pc' = "shutdown" /\ asleep' = asleep
                         ELSE pc' = pc /\ asleep' = TRUE
    /\ UNCHANGED <<current, admitted, completed, results, cb, thread, patient>>

\* cv.wait.
Wait ==
    /\ pc = "wait" /\ ~asleep
    /\ IF completed >= admitted THEN pc' = "shutdown" /\ asleep' = asleep
                                ELSE pc' = pc /\ asleep' = TRUE
    /\ UNCHANGED <<current, admitted, completed, results, cb, thread, patient>>

\* ShutdownSessionWatchdog joins the watchdog, with the callback it runs.
Shutdown ==
    /\ pc = "shutdown"
    /\ \A i \in Items : ~(Running(i) /\ thread[i] = "watchdog")
    /\ pc' = "report"
    /\ UNCHANGED <<asleep, current, admitted, completed, results, cb, thread, patient>>

Report ==
    /\ pc = "report"
    /\ pc' = "exited"
    /\ UNCHANGED <<asleep, current, admitted, completed, results, cb, thread, patient>>

ExitCode ==
    IF admitted # Files \/ \E n \in DOMAIN results : ~results[n][2] THEN 1 ELSE 0

-----------------------------------------------------------------------------
CallbackStep(i) == Record(i) \/ Release(i) \/ NotifySlot(i) \/ NotifyDone(i)
MainStep ==
    \/ Admit \/ Started \/ SleepForSlot \/ AdmittedAll \/ Wait \/ Shutdown \/ Report
Next ==
    \/ MainStep \/ GiveUp
    \/ \E i \in Items : SessionReports(i) \/ CallbackStep(i)

Spec == Init /\ [][Next]_vars

\* A session reports in the end (FileSession's Completes), a callback runs to
\* its end, and the main thread is scheduled.  Nothing is assumed of GiveUp.
FairSpec ==
    /\ Spec
    /\ WF_vars(MainStep)
    /\ \A i \in Items : WF_vars(SessionReports(i)) /\ WF_vars(CallbackStep(i))

-----------------------------------------------------------------------------
(* Properties. *)

\* --concurrency bounds the sessions that have not reported, whatever order
\* callbacks release their slots in (InFlightSemaphore).
Unreported == {i \in Items : cb[i] \in {"open", "record"}}
Bounded == Cardinality(Unreported) <= MaxSlots

\* The report is of the sessions started, each once, and nothing is added to
\* it while the main thread reads `results`, which it does without the mutex;
\* so exit code 0 says of every file that it was read (probe_command.hh: "0 all
\* ok"), also of those the admission gave up on.
ReportComplete ==
    pc \in {"report", "exited"} =>
        /\ {results[n][1] : n \in DOMAIN results} = 1 .. admitted
        /\ Len(results) = admitted
        /\ ExitCode = 0 =>
             \A i \in Items : \E n \in DOMAIN results : results[n] = <<i, TRUE>>

\* Every command exits, also when it stopped admitting, and if the deadline
\* never comes every file has been probed: the slot wait and the completion
\* wait lose no wakeup.
Exits == <>(pc = "exited" /\ (patient => admitted = Files))

\* file_session.hh:77: "on_done must be safe to call from that thread".  It
\* still works on `inflight` and `cv`, locals of RunProbeCommand, after the
\* result that lets RunProbeCommand return.
CallbackBeforeReturn == pc = "exited" => \A i \in Items : ~Running(i)

=============================================================================
