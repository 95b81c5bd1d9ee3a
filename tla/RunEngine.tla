------------------------------ MODULE RunEngine ------------------------------
(***************************************************************************)
(* RunEngine (src/src/run_command.cc): the run thread that admits sessions  *)
(* against the token bucket and the in-flight limit, re-issues the paced    *)
(* sessions waiting in `ready`, and at the deadline stops, drains and       *)
(* reports; together with XrdCl's response threads, which run the session   *)
(* handlers and the callbacks on_ready, on_refund and session_done, and the *)
(* session deadline watchdog.                                               *)
(*                                                                          *)
(* A session handler holds smu_ for its whole body, and session_done is     *)
(* called in it, but session_done's effects are on atomics and on objects   *)
(* with their own locks, which the run thread reads in between: they are    *)
(* steps of their own, and smu_ stays held until the last (stage).  The     *)
(* run thread holds pace_mu while pc is "blocking" or "flush".              *)
(***************************************************************************)
EXTENDS SessionOps, Sequences, FiniteSets

CONSTANTS
    Sessions,     \* the sessions the scheduler hands out; bounds the run
    MaxInflight,  \* cfg.max_inflight
    Uncapped,     \* cfg.target_rate_bytes_per_s = 0
    Sizes,        \* the file sizes Stat may report
    Statuses,     \* the statuses XrdCl may answer, TRUE for IsOK
    Accepts,      \* whether XrdCl may refuse a submission, TRUE for accepted
    NoSession

\* RunEngine always paces its sessions (run_command.cc:281).
ASSUME EngineOptions ==
    /\ Paced
    /\ IsFiniteSet(Sessions)
    /\ NoSession \notin Sessions
    /\ MaxInflight \in Nat \ {0}
    /\ Uncapped \in BOOLEAN
    /\ Sizes \subseteq Nat
    /\ Statuses \subseteq BOOLEAN
    /\ Accepts \subseteq BOOLEAN

Capacity == OpBytes   \* ComputeBucketCapacity: one I/O

VARIABLES
    sess,          \* [Sessions -> Session]
    place,         \* who holds the session's next IssueNext
    stage,         \* how far session_done has run for a session
    runner,        \* the thread that runs it
    ready, nudges, \* the ready deque; the notify_one calls that sessions'
                   \* on_ready calls still owe
    tokens,        \* the bucket's tokens_, in whole bytes
    live, sem,     \* the live counter and the semaphore's current_
    okCount, failCount,           \* the registry's session totals
    pc, cont, quote,              \* the run thread
    timeUp, stopPace, drainTimedOut,
    report,        \* the totals of the final snapshot
    caught, wdStarted, wdStop     \* the watchdog

sessionVars  == <<sess, place, stage, runner>>
queueVars    == <<ready, nudges>>
slotVars     == <<live, sem>>
totalVars    == <<okCount, failCount, report>>
threadVars   == <<pc, cont, quote>>
stopVars     == <<timeUp, stopPace, drainTimedOut>>
watchdogVars == <<caught, wdStarted, wdStop>>
vars == <<sessionVars, queueVars, tokens, slotVars, totalVars, threadVars,
          stopVars, watchdogVars>>

\* new: not handed out; out: with XrdCl, or done; entering, pushing: on_ready
\* runs, before and after it read stop_pace; queued: in ready; held: the run
\* thread's `cont`, or the work item it is starting.
Places == {"new", "out", "entering", "pushing", "queued", "held"}

\* The next statement of session_done: Observe..., live.fetch_sub,
\* inflight.Release, pace_cv.notify_one.
Stages == {"none", "observe", "leave", "release", "notify"}
Threads == {"xrdcl", "engine", "watchdog"}

Labels ==
    {"top", "blocking", "asleep", "waking", "popped", "pay", "requeue",
     "tokenWait", "issue", "admit", "charge", "launch", "start", "stop", "flush",
     "drain", "snapshot", "shutdown", "join", "exited"}

\* Sessions, threads and queues keep their types: tokens stay within the
\* bucket and the live and slot counts, unsigned in the code, never go below zero.
TypeOK ==
    /\ sess \in [Sessions -> Session]
    /\ place \in [Sessions -> Places]
    /\ stage \in [Sessions -> Stages]
    /\ runner \in [Sessions -> Threads]
    /\ ready \in Seq(Sessions)
    /\ nudges \in [Sessions -> Nat]
    /\ tokens \in 0 .. Capacity
    /\ live \in Nat /\ sem \in Nat
    /\ okCount \in Nat /\ failCount \in Nat
    /\ pc \in Labels
    /\ cont \in Sessions \cup {NoSession}
    /\ quote \in Nat
    /\ {timeUp, stopPace, drainTimedOut, wdStarted, wdStop} \subseteq BOOLEAN
    /\ report \in [ok : Nat, fail : Nat]
    /\ caught \subseteq Sessions

Init ==
    /\ sess = [x \in Sessions |-> Blank]
    /\ place = [x \in Sessions |-> "new"]
    /\ stage = [x \in Sessions |-> "none"]
    /\ runner = [x \in Sessions |-> "xrdcl"]
    /\ ready = <<>> /\ nudges = [x \in Sessions |-> 0]
    /\ tokens = Capacity
    /\ live = 0 /\ sem = 0
    /\ okCount = 0 /\ failCount = 0
    /\ report = [ok |-> 0, fail |-> 0]
    /\ pc = "top" /\ cont = NoSession /\ quote = 0
    /\ timeUp = FALSE /\ stopPace = FALSE /\ drainTimedOut = FALSE
    /\ caught = {} /\ wdStarted = FALSE /\ wdStop = FALSE

-----------------------------------------------------------------------------
(* What the steps share. *)

\* smu_ is free: no session_done runs under it.
Unlocked(x) == stage[x] = "none"

\* A thread runs one handler at a time, session_done included.
Free(t) == \A x \in Sessions : stage[x] = "none" \/ runner[x] # t

PaceMutexHeld == pc \in {"blocking", "flush"}

\* pace_cv.notify_one as the run thread sees it: lost unless it sleeps.
Notified == IF pc = "asleep" THEN "waking" ELSE pc

\* Mutant: Refund does not clamp at the capacity.
HandleUnclamped(t, x, charged, new) ==
    LET done  == new.completed /\ ~sess[x].completed
        after == IF wdStop THEN [new EXCEPT !.deadline = "none"] ELSE new
    IN  /\ Unlocked(x)
        /\ sess' = [sess EXCEPT ![x] = IF done THEN after ELSE ReleaseIfIdle(after)]
        /\ stage' = [stage EXCEPT ![x] = IF done THEN "observe" ELSE "none"]
        /\ runner' = [runner EXCEPT ![x] = IF done THEN t ELSE @]
        /\ tokens' = tokens + charged - new.held
        /\ wdStarted' = (wdStarted \/ after.deadline = "armed")

\* One session entry point, run by thread t: it takes x from a state in which
\* it had been charged `charged` tokens to the state `new`.  What it refunds
\* goes back to the bucket; if it completes the session, session_done follows.
\* Arm is ignored while the watchdog shuts down, and starts its thread else.
Handle(t, x, charged, new) ==
    LET done  == new.completed /\ ~sess[x].completed
        after == IF wdStop THEN [new EXCEPT !.deadline = "none"] ELSE new
    IN  /\ Unlocked(x)
        /\ sess' = [sess EXCEPT ![x] = IF done THEN after ELSE ReleaseIfIdle(after)]
        /\ stage' = [stage EXCEPT ![x] = IF done THEN "observe" ELSE "none"]
        /\ runner' = [runner EXCEPT ![x] = IF done THEN t ELSE @]
        /\ tokens' = Least(Capacity, tokens + charged - new.held)
        /\ wdStarted' = (wdStarted \/ after.deadline = "armed")

\* The same for the threads that are not the run thread: on_refund and
\* notify_one may wake it.
HandleElsewhere(t, x, new) ==
    /\ Handle(t, x, sess[x].held, new)
    /\ pc' = IF new.held < sess[x].held THEN Notified ELSE pc
    /\ UNCHANGED <<cont, quote>>

-----------------------------------------------------------------------------
(* XrdCl's threads: the response handlers, on_ready and session_done. *)

OpenDone(x, ok, acc) ==
    /\ sess[x].pend["open"] > 0
    /\ HandleElsewhere("xrdcl", x, OnOpen(sess[x], ok, acc))
    /\ UNCHANGED <<place, queueVars, slotVars, totalVars, stopVars, caught, wdStop>>

StatDone(x, ok, size, acc) ==
    /\ sess[x].pend["stat"] > 0
    /\ HandleElsewhere("xrdcl", x, OnStat(sess[x], ok, size, acc))
    /\ UNCHANGED <<place, queueVars, slotVars, totalVars, stopVars, caught, wdStop>>

ReadDone(x, ok, got, acc) ==
    /\ sess[x].pend["read"] > 0
    /\ got <= sess[x].requested
    /\ HandleElsewhere("xrdcl", x, OnRead(sess[x], ok, got, acc))
    /\ place' = [place EXCEPT ![x] = IF Parks(sess[x], ok, got) THEN "entering" ELSE @]
    /\ UNCHANGED <<queueVars, slotVars, totalVars, stopVars, caught, wdStop>>

CloseDone(x, ok) ==
    /\ sess[x].pend["close"] > 0
    /\ HandleElsewhere("xrdcl", x, OnClose(sess[x], ok))
    /\ UNCHANGED <<place, queueVars, slotVars, totalVars, stopVars, caught, wdStop>>

\* on_ready reads stop_pace without pace_mu ...
CheckStop(x) ==
    /\ place[x] = "entering"
    /\ ~stopPace
    /\ place' = [place EXCEPT ![x] = "pushing"]
    /\ UNCHANGED <<sess, stage, runner, queueVars, tokens, slotVars, totalVars,
                   threadVars, stopVars, watchdogVars>>

\* Mutant: on_ready lets the session go on after the stop.
CloseOnEntryIssues(x, acc) ==
    /\ place[x] = "entering"
    /\ stopPace
    /\ HandleElsewhere("xrdcl", x, IssueNext(sess[x], acc))
    /\ place' = [place EXCEPT ![x] = "out"]
    /\ UNCHANGED <<queueVars, slotVars, totalVars, stopVars, caught, wdStop>>

\* Mutant: on_ready drops the session after the stop.
CloseOnEntryDrops(x, acc) ==
    /\ place[x] = "entering"
    /\ stopPace
    /\ place' = [place EXCEPT ![x] = "out"]
    /\ UNCHANGED <<sess, stage, runner, queueVars, tokens, slotVars, totalVars,
                   threadVars, stopVars, watchdogVars>>

CloseOnEntry(x, acc) ==
    /\ place[x] = "entering"
    /\ stopPace
    /\ HandleElsewhere("xrdcl", x, CloseNow(sess[x], acc))
    /\ place' = [place EXCEPT ![x] = "out"]
    /\ UNCHANGED <<queueVars, slotVars, totalVars, stopVars, caught, wdStop>>

\* ... and pushes under it, if it did not see the stop.
Push(x) ==
    /\ place[x] = "pushing"
    /\ ~PaceMutexHeld
    /\ ready' = Append(ready, x)
    /\ place' = [place EXCEPT ![x] = "queued"]
    /\ nudges' = [nudges EXCEPT ![x] = @ + 1]
    /\ UNCHANGED <<sess, stage, runner, tokens, slotVars, totalVars, threadVars,
                   stopVars, watchdogVars>>

Nudge(x) ==
    /\ nudges[x] > 0
    /\ nudges' = [nudges EXCEPT ![x] = @ - 1]
    /\ pc' = Notified
    /\ UNCHANGED <<sessionVars, ready, tokens, slotVars, totalVars, cont, quote,
                   stopVars, watchdogVars>>

Observe(x) ==
    /\ stage[x] = "observe"
    /\ IF sess[x].result = "ok"
       THEN okCount' = okCount + 1 /\ UNCHANGED failCount
       ELSE failCount' = failCount + 1 /\ UNCHANGED okCount
    /\ stage' = [stage EXCEPT ![x] = "leave"]
    /\ UNCHANGED <<sess, place, runner, queueVars, tokens, slotVars, report,
                   threadVars, stopVars, watchdogVars>>

LeaveLive(x) ==
    /\ stage[x] = "leave"
    /\ live' = live - 1
    /\ stage' = [stage EXCEPT ![x] = "release"]
    /\ UNCHANGED <<sess, place, runner, queueVars, tokens, sem, totalVars,
                   threadVars, stopVars, watchdogVars>>

ReleaseSlot(x) ==
    /\ stage[x] = "release"
    /\ sem' = IF sem > 0 THEN sem - 1 ELSE 0
    /\ stage' = [stage EXCEPT ![x] = "notify"]
    /\ UNCHANGED <<sess, place, runner, queueVars, tokens, live, totalVars,
                   threadVars, stopVars, watchdogVars>>

\* notify_one, the end of the handler, and its ReleaseIfIdle.
DoneReturns(x) ==
    /\ stage[x] = "notify"
    /\ stage' = [stage EXCEPT ![x] = "none"]
    /\ sess' = [sess EXCEPT ![x] = ReleaseIfIdle(@)]
    /\ pc' = Notified
    /\ UNCHANGED <<place, runner, queueVars, tokens, slotVars, totalVars, cont,
                   quote, stopVars, watchdogVars>>

XrdClAnswers(x) ==
    \/ \E ok \in Statuses, acc \in Accepts : OpenDone(x, ok, acc)
    \/ \E ok \in Statuses, acc \in Accepts, size \in Sizes : StatDone(x, ok, size, acc)
    \/ \E ok \in Statuses, acc \in Accepts, got \in 0 .. OpBytes : ReadDone(x, ok, got, acc)
    \/ \E ok \in Statuses : CloseDone(x, ok)

OnReady(x) == CheckStop(x) \/ Push(x) \/ Nudge(x) \/ \E acc \in Accepts : CloseOnEntry(x, acc)

SessionDone(x) == Observe(x) \/ LeaveLive(x) \/ ReleaseSlot(x) \/ DoneReturns(x)

-----------------------------------------------------------------------------
(* The run thread, one action per statement that other threads can tell     *)
(* apart.  It takes a step only when no session_done runs on it.            *)

At(l) == pc = l /\ Free("engine")
Goto(l) == pc' = l

CanWork == ready # <<>> \/ live < MaxInflight
CanTake(n) == Uncapped \/ tokens >= n
TokensAfterTaking(n) == IF Uncapped THEN tokens ELSE tokens - n
Fresh == {x \in Sessions : place[x] = "new"}

\* Under pace_mu, with can_work true: pop a parked session, or go on to admit.
PickWork ==
    IF ready # <<>>
    THEN /\ cont' = Head(ready)
         /\ ready' = Tail(ready)
         /\ place' = [place EXCEPT ![Head(ready)] = "held"]
         /\ Goto("popped")
    ELSE Goto("admit") /\ UNCHANGED <<cont, ready, place>>

pickUnchanged == <<sess, stage, runner, nudges, tokens, slotVars, totalVars, quote,
                   stopVars, watchdogVars>>

\* The loop condition, and can_work the first time.
Top ==
    /\ At("top")
    /\ CASE timeUp -> Goto("stop") /\ UNCHANGED <<cont, ready, place>>
         [] ~timeUp /\ CanWork -> PickWork
         [] ~timeUp /\ ~CanWork -> Goto("blocking") /\ UNCHANGED <<cont, ready, place>>
    /\ UNCHANGED pickUnchanged

\* can_work was false; only now does the thread join the condition's waiters.
Block ==
    /\ At("blocking")
    /\ Goto("asleep")
    /\ UNCHANGED <<sessionVars, queueVars, tokens, slotVars, totalVars, cont, quote,
                   stopVars, watchdogVars>>

\* Notified: can_work is evaluated again.
Wake ==
    /\ At("waking")
    /\ IF CanWork THEN PickWork ELSE Goto("blocking") /\ UNCHANGED <<cont, ready, place>>
    /\ UNCHANGED pickUnchanged

\* Mutant: the wait has no deadline.
SleepEndsNever == At("asleep") /\ FALSE /\ UNCHANGED vars

\* wait_until reaches the deadline and returns can_work.
SleepEnds ==
    /\ At("asleep")
    /\ timeUp
    /\ IF CanWork THEN PickWork ELSE Goto("stop") /\ UNCHANGED <<cont, ready, place>>
    /\ UNCHANGED pickUnchanged

\* The popped session has completed meanwhile.
Skip ==
    /\ At("popped")
    /\ sess[cont].completed
    /\ place' = [place EXCEPT ![cont] = "out"]
    /\ cont' = NoSession
    /\ Goto("top")
    /\ UNCHANGED <<sess, stage, runner, queueVars, tokens, slotVars, totalVars, quote,
                   stopVars, watchdogVars>>

\* Prices the popped session's next Read; one with nothing left is closed
\* (none is: a session parks with bytes left and keeps them while it waits).
Price(acc) ==
    /\ At("popped")
    /\ Unlocked(cont)
    /\ ~sess[cont].completed
    /\ IF NextOpBytes(sess[cont]) > 0
       THEN /\ quote' = NextOpBytes(sess[cont])
            /\ Goto("pay")
            /\ UNCHANGED <<sessionVars, tokens, cont, wdStarted>>
       ELSE /\ Handle("engine", cont, sess[cont].held, CloseNow(sess[cont], acc))
            /\ place' = [place EXCEPT ![cont] = "out"]
            /\ cont' = NoSession
            /\ Goto("top")
            /\ UNCHANGED quote
    /\ UNCHANGED <<queueVars, slotVars, totalVars, stopVars, caught, wdStop>>

\* bucket.TryAcquire(n) for the popped session.
Pay ==
    /\ At("pay")
    /\ IF CanTake(quote)
       THEN /\ tokens' = TokensAfterTaking(quote)
            /\ sess' = [sess EXCEPT ![cont].held = @ + quote]
            /\ Goto("issue")
       ELSE Goto("requeue") /\ UNCHANGED <<tokens, sess>>
    /\ UNCHANGED <<place, stage, runner, queueVars, slotVars, totalVars, cont, quote,
                   stopVars, watchdogVars>>

\* Mutant: after push_front the loop goes on to IssueNext.
RequeueFallsThrough ==
    /\ At("requeue")
    /\ ready' = <<cont>> \o ready
    /\ place' = [place EXCEPT ![cont] = "queued"]
    /\ Goto("issue")
    /\ UNCHANGED <<sess, stage, runner, nudges, tokens, slotVars, totalVars, cont, quote,
                   stopVars, watchdogVars>>

Requeue ==
    /\ At("requeue")
    /\ ready' = <<cont>> \o ready
    /\ place' = [place EXCEPT ![cont] = "queued"]
    /\ cont' = NoSession
    /\ Goto("tokenWait")
    /\ UNCHANGED <<sess, stage, runner, nudges, tokens, slotVars, totalVars, quote,
                   stopVars, watchdogVars>>

\* A wait without a predicate, for at most SecondsUntil(n): any notification,
\* a spurious one, or the time itself ends it.
TokenWaitEnds ==
    /\ At("tokenWait")
    /\ Goto("top")
    /\ UNCHANGED <<sessionVars, queueVars, tokens, slotVars, totalVars, cont, quote,
                   stopVars, watchdogVars>>

Issue(acc) ==
    /\ At("issue")
    /\ Handle("engine", cont, sess[cont].held, IssueNext(sess[cont], acc))
    /\ place' = [place EXCEPT ![cont] = "out"]
    /\ cont' = NoSession
    /\ Goto("top")
    /\ UNCHANGED <<queueVars, slotVars, totalVars, quote, stopVars, caught, wdStop>>

\* Re-reads live, then inflight.TryAcquire.
Admit ==
    /\ At("admit")
    /\ IF live < MaxInflight /\ sem < MaxInflight /\ Fresh # {}
       THEN sem' = sem + 1 /\ Goto("charge")
       ELSE Goto("top") /\ UNCHANGED sem
    /\ UNCHANGED <<sessionVars, queueVars, tokens, live, totalVars, cont, quote,
                   stopVars, watchdogVars>>

\* Mutant: a charge that fails keeps the slot.
ChargeLeaksSlot ==
    /\ At("charge")
    /\ IF CanTake(OpBytes)
       THEN tokens' = TokensAfterTaking(OpBytes) /\ Goto("launch")
       ELSE Goto("tokenWait") /\ UNCHANGED tokens
    /\ UNCHANGED <<sessionVars, queueVars, slotVars, totalVars, cont, quote,
                   stopVars, watchdogVars>>

\* bucket.TryAcquire(n) for a new session.
Charge ==
    /\ At("charge")
    /\ IF CanTake(OpBytes)
       THEN tokens' = TokensAfterTaking(OpBytes) /\ Goto("launch") /\ UNCHANGED sem
       ELSE sem' = sem - 1 /\ Goto("tokenWait") /\ UNCHANGED tokens
    /\ UNCHANGED <<sessionVars, queueVars, live, totalVars, cont, quote,
                   stopVars, watchdogVars>>

Launch(x) ==
    /\ At("launch")
    /\ x \in Fresh
    /\ live' = live + 1
    /\ cont' = x
    /\ place' = [place EXCEPT ![x] = "held"]
    /\ Goto("start")
    /\ UNCHANGED <<sess, stage, runner, queueVars, tokens, sem, totalVars, quote,
                   stopVars, watchdogVars>>

StartSession(acc) ==
    /\ At("start")
    /\ Handle("engine", cont, OpBytes, Start(sess[cont], OpBytes, acc))
    /\ place' = [place EXCEPT ![cont] = "out"]
    /\ cont' = NoSession
    /\ Goto("top")
    /\ UNCHANGED <<queueVars, slotVars, totalVars, quote, stopVars, caught, wdStop>>

\* stop_pace, notify_all, and pace_mu is taken.
Stop ==
    /\ At("stop")
    /\ stopPace' = TRUE
    /\ Goto("flush")
    /\ UNCHANGED <<sessionVars, queueVars, tokens, slotVars, totalVars, cont, quote,
                   timeUp, drainTimedOut, watchdogVars>>

Flush(acc) ==
    /\ At("flush")
    /\ ready # <<>>
    /\ Handle("engine", Head(ready), sess[Head(ready)].held, CloseNow(sess[Head(ready)], acc))
    /\ ready' = Tail(ready)
    /\ place' = [place EXCEPT ![Head(ready)] = "out"]
    /\ UNCHANGED <<nudges, slotVars, totalVars, threadVars, stopVars, caught, wdStop>>

Flushed ==
    /\ At("flush")
    /\ ready = <<>>
    /\ Goto("drain")
    /\ UNCHANGED <<sessionVars, queueVars, tokens, slotVars, totalVars, cont, quote,
                   stopVars, watchdogVars>>

\* Mutant: the drain waits for XrdCl to owe nothing, not for live.
DrainedWhenIdle ==
    /\ At("drain")
    /\ \A x \in Sessions : Pending(sess[x]) = 0
    /\ Goto("snapshot")
    /\ UNCHANGED <<sessionVars, queueVars, tokens, slotVars, totalVars, cont, quote,
                   stopVars, watchdogVars>>

Drained ==
    /\ At("drain")
    /\ live = 0
    /\ Goto("snapshot")
    /\ UNCHANGED <<sessionVars, queueVars, tokens, slotVars, totalVars, cont, quote,
                   stopVars, watchdogVars>>

DrainTimeout ==
    /\ At("drain")
    /\ live > 0
    /\ drainTimedOut' = TRUE
    /\ Goto("snapshot")
    /\ UNCHANGED <<sessionVars, queueVars, tokens, slotVars, totalVars, cont, quote,
                   timeUp, stopPace, watchdogVars>>

\* The timer and site threads are joined; the final snapshot is what the
\* sinks, the summary and the exit code are made from.
FinalSnapshot ==
    /\ At("snapshot")
    /\ report' = [ok |-> okCount, fail |-> failCount]
    /\ Goto("shutdown")
    /\ UNCHANGED <<sessionVars, queueVars, tokens, slotVars, okCount, failCount, cont,
                   quote, stopVars, watchdogVars>>

\* ShutDown: stop_ is set and the table cleared, ...
ShutDown ==
    /\ At("shutdown")
    /\ wdStop' = TRUE
    /\ sess' = [x \in Sessions |-> [sess[x] EXCEPT !.deadline = "none"]]
    /\ Goto("join")
    /\ UNCHANGED <<place, stage, runner, queueVars, tokens, slotVars, totalVars, cont,
                   quote, stopVars, caught, wdStarted>>

\* ... the thread finishes its round and is joined, and RunEngine returns.
Join ==
    /\ At("join")
    /\ caught = {}
    /\ Free("watchdog")
    /\ wdStarted' = FALSE
    /\ wdStop' = FALSE
    /\ Goto("exited")
    /\ UNCHANGED <<sessionVars, queueVars, tokens, slotVars, totalVars, cont, quote,
                   stopVars, caught>>

ExitCode == IF report.fail > 0 /\ report.ok = 0 THEN 1 ELSE 0

LoopStep ==
    \/ Top \/ Block \/ Wake \/ SleepEnds \/ Skip \/ Pay \/ Requeue
    \/ TokenWaitEnds \/ Admit \/ Charge
    \/ \E x \in Sessions : Launch(x)
    \/ \E acc \in Accepts : Price(acc) \/ Issue(acc) \/ StartSession(acc)

EndStep ==
    \/ Stop \/ Flushed \/ Drained \/ FinalSnapshot \/ ShutDown \/ Join
    \/ \E acc \in Accepts : Flush(acc)

-----------------------------------------------------------------------------
(* Time and the watchdog thread. *)

RunDeadline ==
    /\ ~timeUp
    /\ timeUp' = TRUE
    /\ UNCHANGED <<sessionVars, queueVars, tokens, slotVars, totalVars, threadVars,
                   stopPace, drainTimedOut, watchdogVars>>

Refill ==
    /\ ~Uncapped
    /\ \E more \in 1 .. Capacity : tokens + more <= Capacity /\ tokens' = tokens + more
    /\ UNCHANGED <<sessionVars, queueVars, slotVars, totalVars, threadVars, stopVars,
                   watchdogVars>>

DeadlinePasses(x) ==
    /\ sess[x].deadline = "armed"
    /\ ~sess[x].completed
    /\ sess' = [sess EXCEPT ![x].deadline = "due"]
    /\ UNCHANGED <<place, stage, runner, queueVars, tokens, slotVars, totalVars,
                   threadVars, stopVars, watchdogVars>>

\* One scan of ThreadMain: completed sessions are pruned, due ones collected.
Collect ==
    /\ wdStarted /\ ~wdStop /\ caught = {} /\ Free("watchdog")
    /\ LET due == {x \in Sessions : sess[x].deadline = "due"}
       IN  /\ due # {}
           /\ caught' = {x \in due : ~sess[x].completed}
           /\ sess' = [x \in Sessions |->
                          IF sess[x].completed \/ x \in due
                          THEN [sess[x] EXCEPT !.deadline = "none"] ELSE sess[x]]
    /\ UNCHANGED <<place, stage, runner, queueVars, tokens, slotVars, totalVars,
                   threadVars, stopVars, wdStarted, wdStop>>

Fire(x, acc) ==
    /\ x \in caught
    /\ Free("watchdog")
    /\ HandleElsewhere("watchdog", x, RequestWallTimeout(sess[x], acc))
    /\ caught' = caught \ {x}
    /\ UNCHANGED <<place, queueVars, slotVars, totalVars, stopVars, wdStop>>

Next ==
    \/ \E x \in Sessions : XrdClAnswers(x) \/ OnReady(x) \/ SessionDone(x) \/ DeadlinePasses(x)
    \/ \E x \in Sessions, acc \in Accepts : Fire(x, acc)
    \/ Collect \/ Refill \/ RunDeadline
    \/ LoopStep \/ EndStep \/ DrainTimeout

Spec == Init /\ [][Next]_vars
(***************************************************************************)
(* XrdCl runs every handler it accepted; on_ready, session_done, the run    *)
(* thread and the watchdog keep running; the bucket refills; the run's      *)
(* deadline and the drain's cap are clock times and pass.  No fairness for  *)
(* a session's wall-clock deadline.                                         *)
(***************************************************************************)
Fairness ==
    /\ \A x \in Sessions :
          /\ WF_vars(XrdClAnswers(x))
          /\ WF_vars(CheckStop(x) \/ \E acc \in Accepts : CloseOnEntry(x, acc))
          /\ WF_vars(Push(x))
          /\ WF_vars(Nudge(x))
          /\ WF_vars(SessionDone(x))
    /\ WF_vars(LoopStep)
    /\ WF_vars(EndStep)
    /\ WF_vars(DrainTimeout)
    /\ WF_vars(RunDeadline)
    /\ WF_vars(Refill)
    /\ WF_vars(Collect)
    /\ \A x \in Sessions : WF_vars(\E acc \in Accepts : Fire(x, acc))

FairSpec == Spec /\ Fairness

-----------------------------------------------------------------------------
(* Properties. *)

Launched == {x \in Sessions : place[x] # "new"}

\* Sessions that live counts: launched, and not past session_done's fetch_sub.
Counted == {x \in Launched : ~sess[x].completed \/ stage[x] \in {"observe", "leave"}}

\* live and the semaphore are two counters of one thing, updated apart by the
\* run thread and the callbacks.  They never drift: each slot is held by the
\* run thread between TryAcquire and launch, by a session, or by a callback
\* between fetch_sub and Release.  No failed charge or refused Open leaks one.
SlotAccounting ==
    /\ live = Cardinality(Counted)
    /\ sem = live + Cardinality({x \in Sessions : stage[x] = "release"})
                  + (IF pc \in {"charge", "launch"} THEN 1 ELSE 0)
    /\ sem <= MaxInflight

\* Once pc is here nobody takes from `ready` any more.
Closing == pc \in {"drain", "snapshot", "shutdown", "join", "exited"}

\* When the drain was not cut off, the final snapshot has every session that
\* was launched, under the outcome it reported, though callbacks may still
\* run: nothing is reported late, and exit code 0 is then a success.
FinalTally ==
    pc \in {"shutdown", "join", "exited"} /\ ~drainTimedOut =>
        LET passed == {x \in Launched : sess[x].result = "ok"}
        IN  report = [ok   |-> Cardinality(passed),
                      fail |-> Cardinality(Launched \ passed)]

\* The watchdog's thread starts when a session arms its deadline, also while
\* the process exits.  After a complete drain none does: ShutDown is final.
WatchdogDown == pc = "exited" /\ ~drainTimedOut => ~wdStarted

\* After stop_pace no session is launched, and no session that has read once
\* is given another Read: the load ends with the Reads in flight.
StopEndsLoad ==
    [][stopPace =>
          \A x \in Sessions :
             /\ place[x] = "new" => place'[x] = "new"
             /\ sess[x].issuedRead => sess'[x].pend["read"] <= sess[x].pend["read"]]_vars

\* A session popped by nobody: pushed by an on_ready that read stop_pace
\* before it was set and locked pace_mu after the queue was emptied.
Stranded(x) == Closing /\ place[x] = "queued"

\* Every session launched is reported, except one stranded by that race.
Reported == \A x \in Sessions :
                place[x] # "new" ~> sess[x].completed \/ Stranded(x)

\* The process ends: no wait, lost notification or late callback holds it.
Exits == <>(pc = "exited")

(***************************************************************************)
(* Every session of the run behaves like FileSession, whose owner is        *)
(* abstract: the run thread, the queue and the callbacks are one.  A        *)
(* handler returns when its session_done has.                               *)
(***************************************************************************)
OwnerPlace(x) ==
    CASE place[x] = "pushing" -> "entering"
      [] place[x] = "held" -> (CASE pc = "start" -> "new"
                                 [] pc = "popped" -> "queued"
                                 [] pc \in {"pay", "requeue"} -> "priced"
                                 [] OTHER -> "paid")
      [] OTHER -> place[x]

FS(x) ==
    INSTANCE FileSession WITH
        s        <- IF stage[x] = "none" THEN sess[x] ELSE ReleaseIfIdle(sess[x]),
        place    <- OwnerPlace(x),
        quote    <- IF cont = x /\ pc \in {"pay", "requeue", "issue"} THEN quote ELSE 0,
        frames   <- nudges[x],
        caught   <- x \in caught,
        stopping <- wdStop

SessionsImplement ==
    /\ \A x \in Sessions : FS(x)!Init
    /\ [][\A x \in Sessions : UNCHANGED FS(x)!vars \/ FS(x)!Next]_vars

-----------------------------------------------------------------------------
(* What the comments and the README say of the run and the code does not do. *)

\* run_config.hh:30-31, session_timeout_s: "Bound a stuck XrdCl session".
\* Once the loop is over, an unfinished session is bounded if an operation of
\* it is outstanding, the watchdog has it, or a thread is about to act on it.
SessionsBounded ==
    Closing => \A x \in Launched :
        \/ sess[x].completed \/ Pending(sess[x]) > 0 \/ x \in caught
        \/ sess[x].deadline # "none"
        \/ place[x] \in {"entering", "pushing"}

\* README.md:3, a "held-rate reader", and the loop's own wait condition: the
\* run thread does not sleep on a free slot when nobody is left to wake it.
SleepsOnlyWhenFull ==
    ~ /\ pc = "asleep"
      /\ live < MaxInflight
      /\ \A x \in Sessions :
            /\ stage[x] = "none" /\ nudges[x] = 0 /\ Pending(sess[x]) = 0
            /\ place[x] \notin {"entering", "pushing"}

\* README.md:92, exit code 0: "OK (or some sessions failed but at least one
\* succeeded)".
ExitZeroMeansSuccess ==
    pc = "exited" /\ Launched # {} /\ ExitCode = 0 => report.ok > 0

\* file_session.cc:61: the watchdog "Must be ShutDown() before process exit".
\* WatchdogDown fails of it when the drain was cut off.
WatchdogDownAtExit == pc = "exited" => ~wdStarted

\* file_session.hh:77: "on_done must be safe to call from that thread".  It
\* works on RunEngine's locals, so it must not outlive a drained RunEngine.
DoneBeforeReturn ==
    pc = "exited" /\ ~drainTimedOut => \A x \in Sessions : stage[x] = "none"

=============================================================================
