-------------------------- MODULE TokenBucketProofs --------------------------
(***************************************************************************)
(* The token bucket's type invariant and its window bound, for every rate,  *)
(* capacity, set of requests and number of callers.                         *)
(***************************************************************************)
EXTENDS TokenBucket, TLAPS

\* What the bucket holds, or would hold after a refill, is what the window's
\* bound has left.  WindowBound alone is not inductive: it does not say that
\* tokens already spent are no longer there to be taken.
Reserve == net + Available <= mark.net + Capacity + mark.allowance

IInv == TypeOK /\ Reserve

\* A refill stays within the capacity and loses nothing but the overflow.
LEMMA AvailableBounds ==
    ASSUME TypeOK
    PROVE  /\ Available \in 0 .. Capacity
           /\ Available <= tokens + accrued
  BY BucketOptions DEF TypeOK, Available, Least

\* A new bucket satisfies IInv: its window starts with the bucket full.
LEMMA InitIInv == Init => IInv
  BY BucketOptions DEF Init, IInv, TypeOK, Reserve, Available, Least, Idle, Calls

\* Take, with whatever else the step does to the callers.
LEMMA TakeKeeps ==
    ASSUME IInv, NEW n \in Nat, Take(n), UNCHANGED <<clock, mark>>
    PROVE  /\ tokens' \in 0 .. Capacity /\ accrued' \in Nat /\ net' \in Int
           /\ Reserve'
  <1>1. Available \in 0 .. Capacity
    BY AvailableBounds DEF IInv
  <1>2. Available' = tokens'
    BY <1>1, BucketOptions DEF Take, Available, Least
  <1> QED
    BY <1>1, <1>2, BucketOptions DEF IInv, TypeOK, Reserve, Take

\* SecondsUntil's refill.
LEMMA RefillKeeps ==
    ASSUME IInv, RefillOnly, UNCHANGED <<clock, mark>>
    PROVE  /\ tokens' \in 0 .. Capacity /\ accrued' \in Nat /\ net' \in Int
           /\ Reserve'
  <1>1. Available \in 0 .. Capacity
    BY AvailableBounds DEF IInv
  <1>2. Available' = Available
    BY <1>1, BucketOptions DEF RefillOnly, Available, Least
  <1> QED
    BY <1>1, <1>2, BucketOptions DEF IInv, TypeOK, Reserve, RefillOnly

\* A call that moves on is still a call.
LEMMA CalledType ==
    ASSUME TypeOK, NEW c \in Callers,
           NEW at \in {"idle", "try", "late", "sleep", "took", "gaveUp"}, Called(c, at)
    PROVE  call' \in [Callers -> Calls]
  BY DEF TypeOK, Called, Calls

\* Each step keeps IInv: time passing,
LEMMA TickKeeps == ASSUME IInv, Tick PROVE IInv'
  <1>1. TypeOK'
    BY BucketOptions DEF IInv, TypeOK, Tick
  <1>2. /\ Available \in 0 .. Capacity /\ Available' \in 0 .. Capacity
        /\ Available' <= Available + Rate
    BY <1>1, BucketOptions DEF IInv, TypeOK, Tick, Available, Least
  <1>3. Reserve'
    BY <1>2, BucketOptions DEF IInv, TypeOK, Tick, Reserve
  <1> QED
    BY <1>1, <1>3 DEF IInv

\* TryAcquire,
LEMMA TryAcquireKeeps ==
    ASSUME IInv, NEW n \in Amounts, TryAcquire(n) PROVE IInv'
  <1>1. n \in Nat /\ UNCHANGED <<clock, mark, call>>
    BY BucketOptions DEF TryAcquire
  <1>2. CASE Take(n)
    BY <1>1, <1>2, TakeKeeps DEF IInv, TypeOK
  <1>3. CASE RefillOnly
    BY <1>1, <1>3, RefillKeeps DEF IInv, TypeOK
  <1> QED
    BY <1>2, <1>3 DEF TryAcquire

\* SecondsUntil,
LEMMA SecondsUntilKeeps ==
    ASSUME IInv, NEW n \in Amounts, SecondsUntil(n) PROVE IInv'
  BY RefillKeeps DEF IInv, TypeOK, SecondsUntil

\* Refund,
LEMMA RefundKeeps ==
    ASSUME IInv, NEW n \in Amounts, Refund(n) PROVE IInv'
  <1>1. n \in Nat /\ Available \in 0 .. Capacity
    BY AvailableBounds, BucketOptions DEF IInv
  <1>2. /\ tokens' \in 0 .. Capacity
        /\ tokens' <= Available + n
        /\ Available' = tokens'
    BY <1>1, BucketOptions DEF Refund, Available, Least
  <1> QED
    BY <1>1, <1>2, BucketOptions DEF IInv, TypeOK, Reserve, Refund

\* entering AcquireUntil,
LEMMA CallKeeps ==
    ASSUME IInv, NEW c \in Callers, NEW n \in Amounts, NEW d \in 0 .. MaxClock,
           Call(c, n, d)
    PROVE  IInv'
  <1>1. n \in Nat /\ d \in Nat
    BY BucketOptions
  <1>2. call' \in [Callers -> Calls]
    BY <1>1 DEF IInv, TypeOK, Call, Calls
  <1>3. UNCHANGED <<tokens, accrued, clock, net, mark>>
    BY DEF Call
  <1> QED
    BY <1>2, <1>3 DEF IInv, TypeOK, Reserve, Available, Least

\* each statement of it,
LEMMA AcquirerKeeps ==
    ASSUME IInv, NEW c \in Callers, Acquirer(c) PROVE IInv'
  <1>1. call[c].n \in Nat
    BY DEF IInv, TypeOK, Calls
  <1>2. CASE Try(c)
    <2>1. call' \in [Callers -> Calls] /\ UNCHANGED <<clock, mark>>
      BY <1>2, CalledType DEF IInv, Try
    <2>2. CASE Take(call[c].n)
      BY <1>1, <2>1, <2>2, TakeKeeps DEF IInv, TypeOK
    <2>3. CASE RefillOnly
      BY <2>1, <2>3, RefillKeeps DEF IInv, TypeOK
    <2> QED
      BY <1>2, <2>2, <2>3 DEF Try
  <1>3. CASE Late(c)
    <2>1. call' \in [Callers -> Calls] /\ UNCHANGED <<clock, mark>>
      BY <1>3, CalledType DEF IInv, Late
    <2>2. CASE RefillOnly
      BY <2>1, <2>2, RefillKeeps DEF IInv, TypeOK
    <2>3. CASE UNCHANGED <<tokens, accrued, net>>
      BY <2>1, <2>3 DEF IInv, TypeOK, Reserve, Available, Least
    <2> QED
      BY <1>3, <2>2, <2>3 DEF Late
  <1>4. CASE SleepEnds(c)
    <2>1. call' \in [Callers -> Calls]
      BY <1>4, CalledType DEF IInv, SleepEnds
    <2> QED
      BY <1>4, <2>1 DEF IInv, TypeOK, Reserve, Available, Least, SleepEnds
  <1> QED
    BY <1>2, <1>3, <1>4 DEF Acquirer

\* and the start of another window.
LEMMA StartWindowKeeps == ASSUME IInv, StartWindow PROVE IInv'
  <1>1. Available \in 0 .. Capacity
    BY AvailableBounds DEF IInv
  <1>2. Available' = Available
    BY DEF StartWindow, Available, Least
  <1> QED
    BY <1>1, <1>2, BucketOptions DEF IInv, TypeOK, Reserve, StartWindow

\* Every step keeps IInv.
LEMMA NextIInv == ASSUME IInv, [Next]_vars PROVE IInv'
  <1>1. CASE Next
    BY <1>1, TickKeeps, TryAcquireKeeps, SecondsUntilKeeps, RefundKeeps, CallKeeps,
       AcquirerKeeps, StartWindowKeeps DEF Next
  <1>2. CASE UNCHANGED vars
    BY <1>2 DEF vars, IInv, TypeOK, Reserve, Available, Least
  <1> QED
    BY <1>1, <1>2

\* IInv holds in every state the bucket reaches.
THEOREM Invariance == Spec => []IInv
  <1>1. Init => IInv
    BY InitIInv
  <1>2. IInv /\ [Next]_vars => IInv'
    BY NextIInv
  <1> QED
    BY <1>1, <1>2, PTL DEF Spec

\* The bucket never holds less than nothing or more than its capacity.
THEOREM TypeCorrect == Spec => []TypeOK
  <1>1. IInv => TypeOK
    BY DEF IInv
  <1> QED
    BY <1>1, Invariance, PTL

\* token_bucket.cc holds the rate: over every window the tokens kept are at
\* most one capacity plus the rate times the window's length.
THEOREM HoldsRate == Spec => []WindowBound
  <1>1. IInv => WindowBound
    BY AvailableBounds, BucketOptions DEF IInv, TypeOK, Reserve, WindowBound
  <1> QED
    BY <1>1, Invariance, PTL

=============================================================================
