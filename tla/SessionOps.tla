----------------------------- MODULE SessionOps -----------------------------
(***************************************************************************)
(* The state of one FileSession (src/src/file_session.cc) and what each of  *)
(* its entry points does to it.  Every entry point takes the session mutex  *)
(* smu_ for its whole body, so each is one function from the state before   *)
(* to the state after; the modules that use this one decide when it runs.   *)
(*                                                                          *)
(* XrdCl is external.  A handler's inputs are what XrdCl answers: `ok` is   *)
(* the status handed to the callback, `size` and `got` the file size and    *)
(* the bytes it reports, and `acc` whether it accepts the operation the     *)
(* handler submits next.                                                    *)
(***************************************************************************)
EXTENDS Integers

CONSTANTS
    OpBytes,       \* bytes of one Read or VectorRead (FileSession::OpBytes)
    MaxBytes,      \* opts_.max_bytes, 0 for the whole file
    Offset,        \* opts_.offset
    RandomOffset,  \* opts_.random_offset
    Paced,         \* pacing_.paced, with its callbacks set
    HasTimeout,    \* opts_.wall_timeout_s > 0
    StrictClose    \* XrdCl rejects Close while another operation is in flight

ASSUME SessionOptions ==
    /\ OpBytes \in Nat \ {0}
    /\ MaxBytes \in Nat
    /\ Offset \in Nat
    /\ {RandomOffset, Paced, HasTimeout, StrictClose} \subseteq BOOLEAN

Ops == {"open", "stat", "read", "close"}
Outcomes == {"none", "ok", "error", "timeout"}

Least(a, b) == IF a < b THEN a ELSE b

(***************************************************************************)
(* keep is self_keep_, pend splits pending_cbs_ by operation, result is     *)
(* which kind of FileSessionResult on_done received, deadline is this       *)
(* session's entry in the watchdog's table ("due" once its time has come).  *)
(* dones and held are history: how often on_done fired, and the tokens      *)
(* taken from the bucket for this session and not refunded through it.      *)
(***************************************************************************)
Session ==
    [keep : BOOLEAN, pend : [Ops -> Nat],
     completed : BOOLEAN, timedOut : BOOLEAN, closeReq : BOOLEAN,
     budgetSet : BOOLEAN, issuedRead : BOOLEAN,
     remaining : Nat, requested : Nat, prepaid : Nat, bytes : Nat,
     result : Outcomes, deadline : {"none", "armed", "due"},
     dones : Nat, held : Int]

Blank ==
    [keep |-> FALSE, pend |-> [o \in Ops |-> 0],
     completed |-> FALSE, timedOut |-> FALSE, closeReq |-> FALSE,
     budgetSet |-> FALSE, issuedRead |-> FALSE,
     remaining |-> 0, requested |-> 0, prepaid |-> 0, bytes |-> 0,
     result |-> "none", deadline |-> "none",
     dones |-> 0, held |-> 0]

Pending(s) == s.pend["open"] + s.pend["stat"] + s.pend["read"] + s.pend["close"]

-----------------------------------------------------------------------------
(* The private helpers, each run with smu_ held. *)

\* ++pending_cbs_, ArmOpDeadline, the XrdCl call, and --pending_cbs_ again if
\* XrdCl refused it (the deadline stays armed).
Submit(s, op, acc) ==
    [s EXCEPT !.pend[op] = IF acc THEN @ + 1 ELSE @,
              !.deadline = IF HasTimeout THEN "armed" ELSE @]

\* SessionDeadlineWatchdog::Disarm drops the session's entry.
Disarmed(s) == [s EXCEPT !.deadline = "none"]

\* --pending_cbs_ at the head of every response handler.
Answered(s, op) == [s EXCEPT !.pend[op] = @ - 1]

RefundBytes(s, n) == IF Paced THEN [s EXCEPT !.held = @ - n] ELSE s

RefundPrepaid(s) ==
    IF s.issuedRead THEN s ELSE [RefundBytes(s, s.prepaid) EXCEPT !.prepaid = 0]

Complete(s, r) ==
    IF s.completed THEN s
    ELSE [s EXCEPT !.completed = TRUE, !.result = r, !.dones = @ + 1]

\* Mutant: the release does not wait for the outcome.
ReleaseIfIdleIgnoresOutcome(s) ==
    IF Pending(s) = 0 THEN [s EXCEPT !.keep = FALSE] ELSE s

ReleaseIfIdle(s) ==
    IF Pending(s) = 0 /\ s.completed THEN [s EXCEPT !.keep = FALSE] ELSE s

\* What XrdCl makes of a Close submitted in state s.
CloseAccepted(s, acc) == acc /\ (StrictClose => Pending(s) = 0)

\* Mutant: a rejected Close is not rolled back.
SubmitCloseNoRollback(s, acc) ==
    LET taken == CloseAccepted(s, acc)
        sub   == [Submit(s, "close", taken) EXCEPT !.closeReq = TRUE]
    IN  IF s.closeReq \/ taken \/ Pending(s) > 0
        THEN IF s.closeReq THEN s ELSE sub
        ELSE Complete(sub, IF s.timedOut THEN "timeout" ELSE "error")

SubmitClose(s, acc) ==
    LET taken == CloseAccepted(s, acc)
        sub   == [Submit(s, "close", taken) EXCEPT !.closeReq = TRUE]
    IN  CASE s.closeReq -> s
          [] ~s.closeReq /\ taken -> sub
          [] ~s.closeReq /\ ~taken /\ Pending(s) > 0 -> [sub EXCEPT !.closeReq = FALSE]
          [] ~s.closeReq /\ ~taken /\ Pending(s) = 0 ->
                Complete(sub, IF s.timedOut THEN "timeout" ELSE "error")

\* Mutant: every Read asks for a whole op, also past the budget.
SubmitReadWholeOp(s, acc) ==
    LET sub == [Submit(s, "read", acc)
                   EXCEPT !.requested = OpBytes, !.prepaid = 0, !.issuedRead = TRUE]
    IN  IF acc THEN sub
        ELSE Complete([RefundBytes(sub, OpBytes) EXCEPT !.requested = 0], "error")

\* The part of IssueNext that submits a Read of the next op.  A prepayment
\* larger than the op is trimmed; a refused Read ends the session.
SubmitRead(s, acc) ==
    LET n    == Least(OpBytes, s.remaining)
        over == IF s.prepaid > n THEN s.prepaid - n ELSE 0
        sub  == [RefundBytes(Submit(s, "read", acc), over)
                    EXCEPT !.requested = n, !.prepaid = 0, !.issuedRead = TRUE]
    IN  IF acc THEN sub
        ELSE Complete([RefundBytes(sub, n) EXCEPT !.requested = 0], "error")

\* Mutant: IssueNext does not look at timed_out_.
IssueNextIgnoresTimeout(s, acc) ==
    IF s.completed THEN s
    ELSE IF s.remaining = 0 THEN SubmitClose(RefundPrepaid(s), acc)
    ELSE SubmitRead(s, acc)

IssueNext(s, acc) ==
    LET t == IF s.timedOut THEN [s EXCEPT !.remaining = 0] ELSE s
    IN  IF s.completed THEN s
        ELSE IF t.remaining = 0 THEN SubmitClose(RefundPrepaid(t), acc)
        ELSE SubmitRead(t, acc)

\* Mutant: a failed read is refunded and still counted as requested.
FailKeepsRequested(s, stage) ==
    Complete(IF stage = "read" THEN RefundBytes(s, s.requested) ELSE RefundPrepaid(s),
             "error")

Fail(s, stage) ==
    Complete(IF stage = "read"
             THEN [RefundBytes(s, s.requested) EXCEPT !.requested = 0]
             ELSE RefundPrepaid(s),
             "error")

-----------------------------------------------------------------------------
(* The entry points: Start, the four response handlers, the watchdog's      *)
(* request, and what the engine calls.                                      *)

Start(s, paid, acc) ==
    LET sub == [Submit(s, "open", acc)
                   EXCEPT !.keep = TRUE, !.prepaid = paid, !.held = paid]
    IN  IF acc THEN sub ELSE Complete(RefundPrepaid(sub), "error")

OnOpen(s, ok, acc) ==
    LET a   == Answered(s, "open")
        sub == Submit(a, "stat", acc)
    IN  CASE a.completed -> a
          [] ~a.completed /\ ~ok -> Fail(a, "open")
          [] ~a.completed /\ ok /\ a.timedOut -> SubmitClose(a, acc)
          [] ~a.completed /\ ok /\ ~a.timedOut ->
                IF acc THEN sub ELSE Complete(RefundPrepaid(sub), "error")

\* The bytes OnStat lets the session read of a file of this size.
Budget(size) ==
    LET cap == IF MaxBytes > 0 THEN Least(size, MaxBytes) ELSE size
    IN  IF RandomOffset THEN cap ELSE Least(size - Offset, cap)

BeyondEnd(size) == ~RandomOffset /\ Offset >= size

OnStat(s, ok, size, acc) ==
    LET a == Answered(s, "stat")
    IN  CASE a.completed -> a
          [] ~a.completed /\ ~ok -> Fail(a, "stat")
          [] ~a.completed /\ ok /\ BeyondEnd(size) -> Complete(RefundPrepaid(a), "error")
          [] ~a.completed /\ ok /\ ~BeyondEnd(size) ->
                IssueNext([a EXCEPT !.remaining = Budget(size), !.budgetSet = TRUE], acc)

\* Mutant: a short read is not refunded.
ReadCountedNoRefund(s, got) ==
    [Answered(s, "read")
        EXCEPT !.bytes = @ + got, !.requested = 0,
               !.remaining = IF got < s.requested THEN 0 ELSE @ - got]

\* The counters OnRead updates when a Read returned `got` bytes.
ReadCounted(s, got) ==
    LET a     == Answered(s, "read")
        short == s.requested - got
    IN  [RefundBytes(a, short)
            EXCEPT !.bytes = @ + got, !.requested = 0,
                   !.remaining = IF short > 0 THEN 0 ELSE @ - got]

\* OnRead hands a paced session with bytes left to on_ready, outside smu_.
Parks(s, ok, got) ==
    Paced /\ ok /\ ~s.completed /\ ReadCounted(s, got).remaining > 0

\* Mutant: OnRead goes on to IssueNext after it called on_ready.
OnReadNoReturn(s, ok, got, acc) ==
    LET a == Answered(s, "read")
    IN  IF a.completed THEN a
        ELSE IF ok THEN IssueNext(ReadCounted(s, got), acc) ELSE Fail(a, "read")

OnRead(s, ok, got, acc) ==
    LET a == Answered(s, "read")
        c == ReadCounted(s, got)
    IN  CASE a.completed -> a
          [] ~a.completed /\ ~ok -> Fail(a, "read")
          [] Parks(s, ok, got) -> Disarmed(c)
          [] ~a.completed /\ ok /\ ~Parks(s, ok, got) -> IssueNext(c, acc)

\* Mutant: OnClose does not look at timed_out_.
OnCloseIgnoresTimeout(s, ok) ==
    LET a == Answered(s, "close")
    IN  CASE a.completed -> a
          [] ~a.completed /\ ~ok -> Fail(a, "close")
          [] ~a.completed /\ ok -> Complete(a, "ok")

OnClose(s, ok) ==
    LET a == Answered(s, "close")
    IN  CASE a.completed -> a
          [] ~a.completed /\ a.timedOut -> Complete(a, "timeout")
          [] ~a.completed /\ ~a.timedOut /\ ~ok -> Fail(a, "close")
          [] ~a.completed /\ ~a.timedOut /\ ok -> Complete(a, "ok")

\* Mutant: the watchdog reports the timeout itself and leaves OnClose to
\* report it again.
RequestWallTimeoutReports(s, acc) ==
    IF s.completed \/ s.closeReq THEN s
    ELSE [SubmitClose([s EXCEPT !.timedOut = TRUE], acc)
             EXCEPT !.result = "timeout", !.dones = @ + 1]

RequestWallTimeout(s, acc) ==
    IF s.completed \/ s.closeReq THEN s
    ELSE SubmitClose([s EXCEPT !.timedOut = TRUE], acc)

NextOpBytes(s) == IF s.budgetSet THEN Least(OpBytes, s.remaining) ELSE OpBytes

CloseNow(s, acc) ==
    IF s.completed THEN s ELSE SubmitClose([s EXCEPT !.remaining = 0], acc)

=============================================================================
