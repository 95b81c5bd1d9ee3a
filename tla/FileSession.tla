----------------------------- MODULE FileSession -----------------------------
(***************************************************************************)
(* One FileSession together with everything that touches it concurrently:   *)
(* XrdCl's response threads, the shared deadline watchdog, and an owner     *)
(* that obeys the pacing protocol of file_session.hh (pay tokens, then      *)
(* IssueNext; or CloseNow).  RunEngine composes many of these with the real *)
(* owner.                                                                   *)
(*                                                                          *)
(* Every step that runs under the session mutex smu_ is atomic.  What runs  *)
(* outside it is split: on_ready is called after OnRead unlocked, the       *)
(* watchdog collects expired sessions under its own mutex and only then     *)
(* calls RequestWallTimeout, and the owner reads NextOpBytes, pays and      *)
(* issues in three steps.                                                   *)
(***************************************************************************)
EXTENDS SessionOps

CONSTANT Sizes   \* the file sizes Stat may report

ASSUME SizesAreNat == Sizes \subseteq Nat

VARIABLES
    s,       \* the session's own state
    place,   \* who may act on it next besides XrdCl and the watchdog
    quote,   \* the NextOpBytes answer the owner acts on, 0 if none
    frames,  \* OnRead calls that gave their reference to the owner in
             \* on_ready and still run code stored in this session
    caught,  \* the watchdog's `expired` vector holds this session
    stopping \* the watchdog is being shut down (stop_)

vars == <<s, place, quote, frames, caught, stopping>>

\* new: not started; out: nobody; entering: on_ready runs and still owns its
\* argument; queued: in the owner's ready queue; priced, paid: popped by the
\* owner, which read NextOpBytes, and then took the tokens.
Places == {"new", "out", "entering", "queued", "priced", "paid"}

\* The session, the place its owner keeps it in and the watchdog's catch keep
\* their types; no byte or callback count of the session goes below zero.
TypeOK ==
    /\ s \in Session
    /\ place \in Places
    /\ quote \in Nat
    /\ frames \in Nat
    /\ caught \in BOOLEAN
    /\ stopping \in BOOLEAN

Init ==
    /\ s = Blank
    /\ place = "new"
    /\ quote = 0
    /\ frames = 0
    /\ caught = FALSE
    /\ stopping = FALSE

\* Some shared_ptr to the session exists.
Alive == s.keep \/ caught \/ place \in {"entering", "queued", "priced", "paid"}

\* An entry point returns: a watchdog that is stopping ignored its Arm, and
\* ReleaseIfIdle is the last thing it does.
Settled(new) == ReleaseIfIdle(IF stopping THEN [new EXCEPT !.deadline = "none"] ELSE new)

Open(acc) ==
    /\ place = "new"
    /\ s' = Settled(Start(s, IF Paced THEN OpBytes ELSE 0, acc))
    /\ place' = "out"
    /\ UNCHANGED <<quote, frames, caught, stopping>>

-----------------------------------------------------------------------------
(* XrdCl answers.  Each callback it owes comes once, with any status. *)

OpenDone(ok, acc) ==
    /\ s.pend["open"] > 0
    /\ s' = Settled(OnOpen(s, ok, acc))
    /\ UNCHANGED <<place, quote, frames, caught, stopping>>

StatDone(ok, size, acc) ==
    /\ s.pend["stat"] > 0
    /\ s' = Settled(OnStat(s, ok, size, acc))
    /\ UNCHANGED <<place, quote, frames, caught, stopping>>

ReadDone(ok, got, acc) ==
    /\ s.pend["read"] > 0
    /\ got <= s.requested
    /\ s' = Settled(OnRead(s, ok, got, acc))
    /\ place' = IF Parks(s, ok, got) THEN "entering" ELSE place
    /\ UNCHANGED <<quote, frames, caught, stopping>>

CloseDone(ok) ==
    /\ s.pend["close"] > 0
    /\ s' = Settled(OnClose(s, ok))
    /\ UNCHANGED <<place, quote, frames, caught, stopping>>

XrdClAnswers ==
    \/ \E ok, acc \in BOOLEAN : OpenDone(ok, acc)
    \/ \E ok, acc \in BOOLEAN, size \in Sizes : StatDone(ok, size, acc)
    \/ \E ok, acc \in BOOLEAN, got \in 0 .. OpBytes : ReadDone(ok, got, acc)
    \/ \E ok \in BOOLEAN : CloseDone(ok)

-----------------------------------------------------------------------------
(* The pacing callback and the owner. *)

\* on_ready pushes its argument on the owner's queue; the rest of the call
\* runs without owning the session.
Enqueue ==
    /\ place = "entering"
    /\ place' = "queued"
    /\ frames' = frames + 1
    /\ UNCHANGED <<s, quote, caught, stopping>>

\* on_ready of an owner that is stopping.
CloseOnEntry(acc) ==
    /\ place = "entering"
    /\ s' = Settled(CloseNow(s, acc))
    /\ place' = "out"
    /\ UNCHANGED <<quote, frames, caught, stopping>>

OnReadyReturns ==
    /\ frames > 0
    /\ frames' = frames - 1
    /\ UNCHANGED <<s, place, quote, caught, stopping>>

Price ==
    /\ place = "queued"
    /\ ~s.completed
    /\ NextOpBytes(s) > 0
    /\ quote' = NextOpBytes(s)
    /\ place' = "priced"
    /\ UNCHANGED <<s, frames, caught, stopping>>

\* TryAcquire succeeds.
Pay ==
    /\ place = "priced"
    /\ s' = [s EXCEPT !.held = @ + quote]
    /\ place' = "paid"
    /\ UNCHANGED <<quote, frames, caught, stopping>>

\* TryAcquire fails: back to the front of the queue.
Requeue ==
    /\ place = "priced"
    /\ place' = "queued"
    /\ quote' = 0
    /\ UNCHANGED <<s, frames, caught, stopping>>

Issue(acc) ==
    /\ place = "paid"
    /\ s' = Settled(IssueNext(s, acc))
    /\ place' = "out"
    /\ quote' = 0
    /\ UNCHANGED <<frames, caught, stopping>>

\* The owner drops a queued session: it is completed, has nothing left to
\* read, or the owner is stopping.  (CloseNow leaves a completed one alone.)
CloseQueued(acc) ==
    /\ place = "queued"
    /\ s' = Settled(CloseNow(s, acc))
    /\ place' = "out"
    /\ UNCHANGED <<quote, frames, caught, stopping>>

OwnerSteps ==
    \/ Enqueue \/ OnReadyReturns \/ Price \/ Pay \/ Requeue
    \/ \E acc \in BOOLEAN :
          Open(acc) \/ CloseOnEntry(acc) \/ Issue(acc) \/ CloseQueued(acc)

-----------------------------------------------------------------------------
(* The watchdog thread. *)

\* The wall clock passes the entry's deadline.
DeadlinePasses ==
    /\ s.deadline = "armed"
    /\ s' = [s EXCEPT !.deadline = "due"]
    /\ UNCHANGED <<place, quote, frames, caught, stopping>>

\* One scan of ThreadMain, under the watchdog's mutex: the entry of a dead or
\* completed session is pruned, a due one moves to `expired` and is referenced.
Collect ==
    /\ ~caught /\ ~stopping
    /\ \/ s.deadline = "due"
       \/ s.deadline = "armed" /\ (~Alive \/ s.completed)
    /\ s' = [s EXCEPT !.deadline = "none"]
    /\ caught' = (Alive /\ ~s.completed)
    /\ UNCHANGED <<place, quote, frames, stopping>>

\* RequestWallTimeout, called after that mutex is released.
Fire(acc) ==
    /\ caught
    /\ s' = Settled(RequestWallTimeout(s, acc))
    /\ caught' = FALSE
    /\ UNCHANGED <<place, quote, frames, stopping>>

\* ShutDown: stop_ is set and the table cleared, ...
ShutDown ==
    /\ ~stopping
    /\ stopping' = TRUE
    /\ s' = [s EXCEPT !.deadline = "none"]
    /\ UNCHANGED <<place, quote, frames, caught>>

\* ... the thread is joined after its round, and stop_ is reset.
Join ==
    /\ stopping
    /\ ~caught
    /\ stopping' = FALSE
    /\ UNCHANGED <<s, place, quote, frames, caught>>

WatchdogSteps ==
    DeadlinePasses \/ Collect \/ ShutDown \/ Join \/ \E acc \in BOOLEAN : Fire(acc)

Next == XrdClAnswers \/ OwnerSteps \/ WatchdogSteps

Spec == Init /\ [][Next]_vars

(***************************************************************************)
(* XrdCl runs every handler it accepted (its request timeout bounds a       *)
(* silent server); the owner's loop and the on_ready calls keep running,    *)
(* and the bucket refills, so TryAcquire succeeds sooner or later; the      *)
(* watchdog thread keeps scanning.  Nothing forces a deadline to pass.      *)
(***************************************************************************)
Fairness ==
    /\ WF_vars(XrdClAnswers)
    /\ WF_vars(Enqueue \/ \E acc \in BOOLEAN : CloseOnEntry(acc))
    /\ WF_vars(OnReadyReturns)
    /\ WF_vars(Price \/ \E acc \in BOOLEAN : CloseQueued(acc))
    /\ SF_vars(Pay)
    /\ WF_vars(Pay \/ Requeue)
    /\ WF_vars(\E acc \in BOOLEAN : Issue(acc))
    /\ WF_vars(Collect)
    /\ WF_vars(\E acc \in BOOLEAN : Fire(acc))

FairSpec == Spec /\ Fairness

-----------------------------------------------------------------------------
(* Properties. *)

\* While XrdCl still owes a callback, the session's self-reference is held:
\* the callback never runs on a destroyed handler (file_session.cc:262-265).
AliveForCallback == Pending(s) > 0 => s.keep

\* A session holds one buffer, one requested_ and one issue time, so at most
\* one operation is ever outstanding -- although on_ready, the owner, the
\* watchdog and XrdCl's threads may each submit the next one.
OneOpInFlight == StrictClose => Pending(s) <= 1

\* Tokens in the owner's hand for the next read.
InHand == IF place = "paid" THEN quote ELSE 0

\* Tokens taken for the session that neither became bytes, nor stand for a
\* read in flight or about to be issued, nor were refunded.
Lost == s.held - s.bytes - s.requested - s.prepaid - InHand

\* A session that reports anything but a timeout settles exactly: the tokens
\* it kept are the bytes it delivered, on every success, error, short read and
\* refused submission, also when it had expired and then failed.
SettledLedger ==
    Paced /\ s.completed /\ s.result # "timeout"
        => s.held - InHand = s.bytes

\* Every byte asked of XrdCl was paid for first, also when the session expired
\* between the owner's NextOpBytes and its IssueNext, and no refund is made
\* twice; and even a session that reports a timeout, which may leave a price
\* its owner paid, a prepayment or a request behind it, loses one op at most.
LosesAtMostOneOp ==
    Paced => /\ Lost >= 0 /\ Lost <= OpBytes
             /\ s.completed => Lost + s.requested + s.prepaid <= OpBytes

\* Once a Close is on its way to XrdCl, no step submits a Stat, Read or
\* second Close on the same file, and the session still completes.
NothingAfterClose ==
    [][s.closeReq => /\ s'.closeReq
                     /\ \A o \in Ops : s'.pend[o] <= s.pend[o]]_vars

\* on_done fires once, and the outcome it reported never changes.
DoneOnce ==
    [][/\ s'.dones <= 1
       /\ s.completed => s'.completed /\ s'.result = s.result]_vars

\* No reference to a session is dropped for good before its owner has heard
\* an outcome: a started session cannot silently disappear.
NeverLost == place # "new" /\ ~Alive => s.dones = 1

(***************************************************************************)
(* The session implements its contract: a refinement mapping.               *)
(***************************************************************************)
Contract ==
    INSTANCE SessionContract WITH
        Limits    <- {IF MaxBytes > 0 THEN Least(z, MaxBytes) ELSE z : z \in Sizes},
        phase     <- IF s.completed THEN "done"
                     ELSE IF s.keep THEN "running" ELSE "idle",
        outcome   <- s.result,
        delivered <- s.bytes,
        expired   <- s.timedOut

\* Seen from its owner, the session does only what the contract allows.
ImplementsContract == Contract!Spec

\* Every started session is reported to its owner, so a slot is always freed,
\* and then its memory goes away, with nothing still running in it.
Completes == place # "new" ~> s.completed /\ ~Alive /\ frames = 0

-----------------------------------------------------------------------------
(* What the comments say of the code and the code does not do. *)

\* file_session.cc:193-195 of a Close rejected because an operation is in
\* flight: "that op's handler retries" the close on completion.
TimedOutReadCloses ==
    [][s.timedOut /\ s'.pend["read"] < s.pend["read"]
          => s'.closeReq \/ s'.completed]_vars

\* file_session.hh:22-23: the wall clock is "Re-armed on each XrdCl submit so
\* token wait does not count", so a session expires only in an operation.
ExpiresOnlyInOperation ==
    [][~s.timedOut /\ s'.timedOut => Pending(s) > 0]_vars

\* file_session.cc:263-264: "the object must stay alive until every submitted
\* XrdCl handler has run"; OnRead has not while its on_ready call runs.
AliveForHandler == frames > 0 => Alive

=============================================================================
