----------------------------- MODULE TokenBucket -----------------------------
(***************************************************************************)
(* The bytes-per-second token bucket (src/src/token_bucket.cc), called by   *)
(* any number of threads.  Every operation refills under mu_ before it      *)
(* looks; AcquireUntil drops mu_ and sleeps between its attempts.           *)
(*                                                                          *)
(* Time is counted in clock ticks of Rate tokens each.  What the code       *)
(* computes as (now - last_) * rate is kept as `accrued`: it grows with the *)
(* clock and is spent by a refill, which sets last_ to now.                 *)
(***************************************************************************)
EXTENDS Integers

CONSTANTS
    Rate,      \* rate_bytes_per_s_, per tick
    Capacity,  \* capacity_
    Amounts,   \* the n that threads ask for
    Callers,   \* the threads in AcquireUntil
    MaxClock   \* bounds the run

ASSUME BucketOptions ==
    /\ Rate \in Nat
    /\ Capacity \in Nat \ {0}
    /\ Amounts \subseteq Nat
    /\ MaxClock \in Nat

VARIABLES
    tokens,   \* tokens_
    accrued,  \* (now - last_) * rate_bytes_per_s_
    clock,    \* now
    net,      \* history: tokens taken minus tokens refunded
    mark,     \* history: net at the start of a window, and rate * its length
    call      \* what each AcquireUntil caller is doing

vars == <<tokens, accrued, clock, net, mark, call>>

Idle == [at |-> "idle", n |-> 0, deadline |-> 0]

Calls ==
    [at : {"idle", "try", "late", "sleep", "took", "gaveUp"}, n : Nat, deadline : Nat]

\* The tokens stay between none and the capacity, and every call is at a
\* statement of AcquireUntil.
TypeOK ==
    /\ tokens \in 0 .. Capacity
    /\ accrued \in Nat
    /\ clock \in Nat
    /\ net \in Int
    /\ mark \in [net : Int, allowance : Nat]
    /\ call \in [Callers -> Calls]

Init ==
    /\ tokens = Capacity
    /\ accrued = 0
    /\ clock = 0
    /\ net = 0
    /\ mark = [net |-> 0, allowance |-> 0]
    /\ call = [c \in Callers |-> Idle]

Least(a, b) == IF a < b THEN a ELSE b

\* Mutant: the refill does not stop at the capacity.
AvailableUnclamped == tokens + accrued

\* What tokens_ is after RefillUnlocked.
Available == Least(Capacity, tokens + accrued)

Limited(n) == Rate > 0 /\ n > 0

-----------------------------------------------------------------------------

\* The clock advances.
Tick ==
    /\ clock < MaxClock
    /\ clock' = clock + 1
    /\ accrued' = accrued + Rate
    /\ mark' = [mark EXCEPT !.allowance = @ + Rate]
    /\ UNCHANGED <<tokens, net, call>>

\* Mutant: the tokens are taken before the clock is read again.
TakeKeepsTime(n) ==
    /\ n <= Available
    /\ tokens' = Available - n
    /\ accrued' = accrued
    /\ net' = net + n

\* RefillUnlocked, then n tokens are taken.
Take(n) ==
    /\ n <= Available
    /\ tokens' = Available - n
    /\ accrued' = 0
    /\ net' = net + n

\* RefillUnlocked and nothing else: SecondsUntil, and a TryAcquire that fails.
RefillOnly ==
    /\ tokens' = Available
    /\ accrued' = 0
    /\ UNCHANGED net

\* A TryAcquire of more than the capacity, or with no rate, changes nothing.
TryAcquire(n) ==
    /\ Limited(n) /\ n <= Capacity
    /\ Take(n) \/ (n > Available /\ RefillOnly)
    /\ UNCHANGED <<clock, mark, call>>

SecondsUntil(n) ==
    /\ Limited(n) /\ n <= Capacity
    /\ RefillOnly
    /\ UNCHANGED <<clock, mark, call>>

\* Threads refund only what they took: FileSession's ledger.
Refund(n) ==
    /\ Limited(n) /\ n <= net
    /\ tokens' = Least(Capacity, Available + n)
    /\ accrued' = 0
    /\ net' = net - n
    /\ UNCHANGED <<clock, mark, call>>

-----------------------------------------------------------------------------
(* AcquireUntil. *)

Called(c, at) == call' = [call EXCEPT ![c].at = at]

\* The early returns: no rate or nothing asked, and more than the capacity.
Call(c, n, deadline) ==
    /\ call[c].at = "idle"
    /\ call' = [call EXCEPT ![c] =
                   [at |-> CASE ~Limited(n) -> "took"
                             [] Limited(n) /\ n > Capacity -> "gaveUp"
                             [] OTHER -> "try",
                    n |-> n, deadline |-> deadline]]
    /\ UNCHANGED <<tokens, accrued, clock, net, mark>>

Try(c) ==
    /\ call[c].at = "try"
    /\ \/ Take(call[c].n) /\ Called(c, "took")
       \/ call[c].n > Available /\ RefillOnly /\ Called(c, "late")
    /\ UNCHANGED <<clock, mark>>

\* mu_ was free in between: the deadline is read, then the deficit.
Late(c) ==
    /\ call[c].at = "late"
    /\ IF clock >= call[c].deadline
       THEN Called(c, "gaveUp") /\ UNCHANGED <<tokens, accrued, net>>
       ELSE /\ RefillOnly
            /\ Called(c, IF call[c].n <= Available THEN "try" ELSE "sleep")
    /\ UNCHANGED <<clock, mark>>

\* At most 20 ms, the deficit's time, or the deadline.
SleepEnds(c) ==
    /\ call[c].at = "sleep"
    /\ Called(c, "try")
    /\ UNCHANGED <<tokens, accrued, clock, net, mark>>

Acquirer(c) == Try(c) \/ Late(c) \/ SleepEnds(c)

\* History: a new window starts here.
StartWindow ==
    /\ mark' = [net |-> net, allowance |-> 0]
    /\ UNCHANGED <<tokens, accrued, clock, net, call>>

Next ==
    \/ Tick
    \/ \E n \in Amounts : TryAcquire(n) \/ SecondsUntil(n) \/ Refund(n)
    \/ \E c \in Callers, n \in Amounts, d \in 0 .. MaxClock : Call(c, n, d)
    \/ \E c \in Callers : Acquirer(c)
    \/ StartWindow

Spec == Init /\ [][Next]_vars

-----------------------------------------------------------------------------
(* Properties. *)

\* The hold: over any window, whatever threads take and refund and however
\* their refills interleave, they keep at most the rate times its length plus
\* one capacity.  (RefillUnlocked, TryAcquire, Refund: token_bucket.cc:14-30,
\* 75-80.)
WindowBound == net - mark.net <= Capacity + mark.allowance

=============================================================================
