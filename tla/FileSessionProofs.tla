-------------------------- MODULE FileSessionProofs --------------------------
(***************************************************************************)
(* Safety of one FileSession for every value of the constants: any op size, *)
(* byte cap, offset and set of file sizes, paced or not, with or without a  *)
(* wall timeout, and with XrdCl strict about Close or not.                  *)
(*                                                                          *)
(* The inductive invariant adds to the types that a started session is      *)
(* Sound (SessionOpsProofs), and that a session in the owner's hands has no *)
(* operation in flight except perhaps a Close the watchdog asked for: this  *)
(* is what lets the owner call IssueNext and CloseNow on it at any moment.  *)
(* The ledger follows: no token is counted twice, and few are lost.         *)
(***************************************************************************)
EXTENDS FileSession, SessionOpsProofs

Parked == {"entering", "queued", "priced", "paid"}

Inv ==
    /\ TypeOK
    /\ place = "new" => s = Blank /\ ~caught
    /\ place # "new" => Sound(s)
    /\ place \in Parked => Handed(s)

-----------------------------------------------------------------------------

\* Returning from an entry point keeps a session sound and handed.
LEMMA SettledSound ==
    ASSUME NEW t, Sound(t)
    PROVE  /\ Sound(Settled(t)) /\ Settled(t) \in Session
           /\ Handed(t) => Handed(Settled(t))
  <1> DEFINE e == IF stopping THEN "none" ELSE t.deadline
  <1>1. t \in Session /\ e \in {"none", "armed", "due"}
    BY DEF Sound, Session
  <1>2. Settled(t) = ReleaseIfIdle([t EXCEPT !.deadline = e])
    <2>1. CASE stopping
      BY <2>1 DEF Settled
    <2>2. CASE ~stopping
      <3>1. [t EXCEPT !.deadline = e] = t
        BY <1>1, <2>2 DEF Session
      <3>2. QED
        BY <2>2, <3>1 DEF Settled
    <2>3. QED
      BY <2>1, <2>2
  <1> HIDE DEF e
  <1>3. LET r == Settled(t)
        IN  /\ Sound(r) /\ Busy(r) = Busy(t)
            /\ r.closeReq = t.closeReq /\ r.timedOut = t.timedOut
    BY <1>1, <1>2, ReleaseSound
  <1>4. QED
    BY <1>3 DEF Handed, Sound

\* While an operation other than the Close is in flight, the session is out.
LEMMA OutWhenBusy ==
    ASSUME Inv, NEW op \in {"open", "stat", "read"}, s.pend[op] > 0
    PROVE  place = "out" /\ Sound(s)
  <1>1. s.pend \in [Ops -> Nat]
    BY DEF Inv, TypeOK, Session
  <1>2. Busy(s) > 0
    BY <1>1 DEF Busy, Ops
  <1>3. place # "new"
    <2>1. SUFFICES ASSUME place = "new" PROVE FALSE
      OBVIOUS
    <2>2. s.pend = [o \in Ops |-> 0]
      BY <2>1 DEF Inv, Blank
    <2>3. QED
      BY <2>2 DEF Ops
  <1>4. place \notin Parked
    BY <1>2 DEF Inv, Handed
  <1>5. QED
    BY <1>3, <1>4 DEF Inv, TypeOK, Places, Parked

-----------------------------------------------------------------------------

\* A new session satisfies Inv.
LEMMA InitInv == Init => Inv
  <1> SUFFICES ASSUME Init PROVE Inv
    OBVIOUS
  <1>1. Blank \in Session
    BY DEF Blank, Session, Outcomes
  <1>2. TypeOK
    BY <1>1 DEF Init, TypeOK, Places
  <1>3. QED
    BY <1>2 DEF Init, Inv, Parked

\* Every step keeps Inv.
LEMMA StepInv == Inv /\ [Next]_vars => Inv'
  <1> SUFFICES ASSUME Inv, [Next]_vars PROVE Inv'
    OBVIOUS
  <1>0. /\ s \in Session /\ place \in Places /\ quote \in Nat /\ frames \in Nat
        /\ caught \in BOOLEAN /\ stopping \in BOOLEAN
    BY DEF Inv, TypeOK
  <1>1. ASSUME NEW acc \in BOOLEAN, Open(acc) PROVE Inv'
    <2> DEFINE paid == IF Paced THEN OpBytes ELSE 0
               t    == Start(Blank, paid, acc)
    <2>1. s = Blank /\ s' = Settled(t) /\ place' = "out"
      BY <1>1 DEF Open, Inv
    <2>2. paid \in Nat
      BY SessionOptions
    <2>3. Sound(t)
      BY <2>2, StartSound
    <2> HIDE DEF t
    <2>4. Sound(s') /\ s' \in Session
      BY <2>1, <2>3, SettledSound
    <2>5. QED
      BY <1>0, <1>1, <2>1, <2>4 DEF Open, Inv, TypeOK, Places, Parked
  <1>2. ASSUME NEW ok \in BOOLEAN, NEW acc \in BOOLEAN, OpenDone(ok, acc) PROVE Inv'
    <2>1. s.pend["open"] > 0 /\ s' = Settled(OnOpen(s, ok, acc)) /\ place' = place
      BY <1>2 DEF OpenDone
    <2>2. place = "out" /\ Sound(s)
      BY <2>1, OutWhenBusy
    <2>3. Sound(s') /\ s' \in Session
      BY <2>1, <2>2, OnOpenSound, SettledSound
    <2>4. QED
      BY <1>0, <1>2, <2>1, <2>2, <2>3 DEF OpenDone, Inv, TypeOK, Parked
  <1>3. ASSUME NEW ok \in BOOLEAN, NEW acc \in BOOLEAN, NEW size \in Sizes,
               StatDone(ok, size, acc)
        PROVE  Inv'
    <2>1. s.pend["stat"] > 0 /\ s' = Settled(OnStat(s, ok, size, acc)) /\ place' = place
      BY <1>3 DEF StatDone
    <2>2. place = "out" /\ Sound(s)
      BY <2>1, OutWhenBusy
    <2>3. size \in Nat
      BY SizesAreNat
    <2>4. Sound(s') /\ s' \in Session
      BY <2>1, <2>2, <2>3, OnStatSound, SettledSound
    <2>5. QED
      BY <1>0, <1>3, <2>1, <2>2, <2>4 DEF StatDone, Inv, TypeOK, Parked
  <1>4. ASSUME NEW ok \in BOOLEAN, NEW acc \in BOOLEAN, NEW got \in 0 .. OpBytes,
               ReadDone(ok, got, acc)
        PROVE  Inv'
    <2> DEFINE t == OnRead(s, ok, got, acc)
    <2>1. /\ s.pend["read"] > 0 /\ got <= s.requested /\ s' = Settled(t)
          /\ place' = IF Parks(s, ok, got) THEN "entering" ELSE place
      BY <1>4 DEF ReadDone
    <2>2. place = "out" /\ Sound(s)
      BY <2>1, OutWhenBusy
    <2>3. got \in Nat
      BY SessionOptions
    <2>4. Sound(t) /\ (Parks(s, ok, got) => Handed(t))
      BY <2>1, <2>2, <2>3, OnReadSound DEF Handed
    <2> HIDE DEF t
    <2>5. Sound(s') /\ s' \in Session /\ (Parks(s, ok, got) => Handed(s'))
      BY <2>1, <2>4, SettledSound
    <2>6. CASE Parks(s, ok, got)
      <3>1. place' = "entering" /\ Handed(s')
        BY <2>1, <2>5, <2>6
      <3>2. QED
        BY <1>0, <1>4, <2>5, <3>1 DEF ReadDone, Inv, TypeOK, Places
    <2>7. CASE ~Parks(s, ok, got)
      <3>1. place' = "out"
        BY <2>1, <2>2, <2>7
      <3>2. QED
        BY <1>0, <1>4, <2>5, <3>1 DEF ReadDone, Inv, TypeOK, Places, Parked
    <2>8. QED
      BY <2>6, <2>7
  <1>5. ASSUME NEW ok \in BOOLEAN, CloseDone(ok) PROVE Inv'
    <2> DEFINE t == OnClose(s, ok)
    <2>1. s.pend["close"] > 0 /\ s' = Settled(t) /\ place' = place
      BY <1>5 DEF CloseDone
    <2>2. place # "new"
      <3>1. SUFFICES ASSUME place = "new" PROVE FALSE
        OBVIOUS
      <3>2. s.pend = [o \in Ops |-> 0]
        BY <3>1 DEF Inv, Blank
      <3>3. QED
        BY <2>1, <3>2 DEF Ops
    <2>3. Sound(s)
      BY <2>2 DEF Inv
    <2>4. Sound(t) /\ (Handed(s) => Handed(t))
      BY <2>1, <2>3, OnCloseSound DEF Handed
    <2> HIDE DEF t
    <2>5. Sound(s') /\ s' \in Session /\ (Handed(s) => Handed(s'))
      BY <2>1, <2>4, SettledSound
    <2>6. QED
      BY <1>0, <1>5, <2>1, <2>2, <2>5 DEF CloseDone, Inv, TypeOK
  <1>6. ASSUME Enqueue PROVE Inv'
    BY <1>0, <1>6 DEF Enqueue, Inv, TypeOK, Places, Parked, Handed, Busy
  <1>7. ASSUME NEW acc \in BOOLEAN, CloseOnEntry(acc) PROVE Inv'
    <2>1. place = "entering" /\ s' = Settled(CloseNow(s, acc)) /\ place' = "out"
      BY <1>7 DEF CloseOnEntry
    <2>2. Sound(s) /\ Busy(s) = 0
      BY <2>1 DEF Inv, Parked, Handed
    <2>3. Sound(s') /\ s' \in Session
      BY <2>1, <2>2, CloseNowSound, SettledSound
    <2>4. QED
      BY <1>0, <1>7, <2>1, <2>3 DEF CloseOnEntry, Inv, TypeOK, Places, Parked
  <1>8. ASSUME OnReadyReturns PROVE Inv'
    BY <1>0, <1>8 DEF OnReadyReturns, Inv, TypeOK, Handed, Busy
  <1>9. ASSUME Price PROVE Inv'
    <2>1. NextOpBytes(s) \in Nat
      BY <1>0, SessionOptions DEF NextOpBytes, Least, Session
    <2>2. QED
      BY <1>0, <1>9, <2>1 DEF Price, Inv, TypeOK, Places, Parked, Handed, Busy
  <1>10. ASSUME Pay PROVE Inv'
    <2> DEFINE h == s.held + quote
    <2>1. /\ place = "priced" /\ place' = "paid" /\ s' = [s EXCEPT !.held = h]
      BY <1>10 DEF Pay
    <2>2. h \in Int
      BY <1>0 DEF Session
    <2> HIDE DEF h
    <2>3. Sound(s) /\ Handed(s)
      BY <2>1 DEF Inv, Parked
    <2>4. Sound(s') /\ s' \in Session /\ Handed(s')
      BY <2>1, <2>2, <2>3, HeldSound
    <2>5. QED
      BY <1>0, <1>10, <2>1, <2>4 DEF Pay, Inv, TypeOK, Places
  <1>11. ASSUME Requeue PROVE Inv'
    BY <1>0, <1>11 DEF Requeue, Inv, TypeOK, Places, Parked, Handed, Busy
  <1>12. ASSUME NEW acc \in BOOLEAN, Issue(acc) PROVE Inv'
    <2>1. place = "paid" /\ s' = Settled(IssueNext(s, acc)) /\ place' = "out"
      BY <1>12 DEF Issue
    <2>2. Sound(s) /\ Busy(s) = 0 /\ (s.closeReq => s.timedOut)
      BY <2>1 DEF Inv, Parked, Handed
    <2>3. Sound(s') /\ s' \in Session
      BY <2>1, <2>2, IssueNextSound, SettledSound
    <2>4. QED
      BY <1>0, <1>12, <2>1, <2>3 DEF Issue, Inv, TypeOK, Places, Parked
  <1>13. ASSUME NEW acc \in BOOLEAN, CloseQueued(acc) PROVE Inv'
    <2>1. place = "queued" /\ s' = Settled(CloseNow(s, acc)) /\ place' = "out"
      BY <1>13 DEF CloseQueued
    <2>2. Sound(s) /\ Busy(s) = 0
      BY <2>1 DEF Inv, Parked, Handed
    <2>3. Sound(s') /\ s' \in Session
      BY <2>1, <2>2, CloseNowSound, SettledSound
    <2>4. QED
      BY <1>0, <1>13, <2>1, <2>3 DEF CloseQueued, Inv, TypeOK, Places, Parked
  <1>14. ASSUME DeadlinePasses PROVE Inv'
    <2>1. s.deadline = "armed" /\ s' = [s EXCEPT !.deadline = "due"] /\ place' = place
      BY <1>14 DEF DeadlinePasses
    <2>2. place # "new"
      BY <2>1 DEF Inv, Blank
    <2>3. Sound(s') /\ s' \in Session /\ (Handed(s) => Handed(s'))
      BY <2>1, <2>2, DeadlineSound DEF Inv
    <2>4. QED
      BY <1>0, <1>14, <2>1, <2>2, <2>3 DEF DeadlinePasses, Inv, TypeOK
  <1>15. ASSUME Collect PROVE Inv'
    <2>1. /\ s.deadline # "none" /\ s' = [s EXCEPT !.deadline = "none"]
          /\ place' = place /\ caught' \in BOOLEAN
      <3>1. Alive \in BOOLEAN
        BY <1>0 DEF Alive, Session
      <3>2. QED
        BY <1>0, <1>15, <3>1 DEF Collect, Session
    <2>2. place # "new"
      BY <2>1 DEF Inv, Blank
    <2>3. Sound(s') /\ s' \in Session /\ (Handed(s) => Handed(s'))
      BY <2>1, <2>2, DeadlineSound DEF Inv
    <2>4. QED
      BY <1>0, <1>15, <2>1, <2>2, <2>3 DEF Collect, Inv, TypeOK
  <1>16. ASSUME NEW acc \in BOOLEAN, Fire(acc) PROVE Inv'
    <2> DEFINE t == RequestWallTimeout(s, acc)
    <2>1. caught /\ s' = Settled(t) /\ place' = place /\ caught' = FALSE
      BY <1>16 DEF Fire
    <2>2. place # "new" /\ Sound(s)
      BY <2>1 DEF Inv
    <2>3. Sound(t) /\ (Handed(s) => Handed(t))
      BY <2>2, RequestWallTimeoutSound DEF Handed
    <2> HIDE DEF t
    <2>4. Sound(s') /\ s' \in Session /\ (Handed(s) => Handed(s'))
      BY <2>1, <2>3, SettledSound
    <2>5. QED
      BY <1>0, <1>16, <2>1, <2>2, <2>4 DEF Fire, Inv, TypeOK
  <1>17. ASSUME ShutDown PROVE Inv'
    <2>1. s' = [s EXCEPT !.deadline = "none"] /\ place' = place /\ caught' = caught
      BY <1>17 DEF ShutDown
    <2>2. CASE place = "new"
      <3>1. s = Blank /\ ~caught /\ s' = s
        BY <1>0, <2>1, <2>2 DEF Inv, Blank, Session
      <3>2. QED
        BY <1>0, <1>17, <2>1, <2>2, <3>1 DEF ShutDown, Inv, TypeOK, Parked
    <2>3. CASE place # "new"
      <3>1. Sound(s') /\ s' \in Session /\ (Handed(s) => Handed(s'))
        BY <2>1, <2>3, DeadlineSound DEF Inv
      <3>2. QED
        BY <1>0, <1>17, <2>1, <2>3, <3>1 DEF ShutDown, Inv, TypeOK
    <2>4. QED
      BY <2>2, <2>3
  <1>18. ASSUME Join PROVE Inv'
    BY <1>0, <1>18 DEF Join, Inv, TypeOK, Handed, Busy
  <1>19. ASSUME UNCHANGED vars PROVE Inv'
    BY <1>0, <1>19 DEF vars, Inv, TypeOK, Handed, Busy
  <1>20. QED
    BY <1>1, <1>2, <1>3, <1>4, <1>5, <1>6, <1>7, <1>8, <1>9, <1>10, <1>11, <1>12,
       <1>13, <1>14, <1>15, <1>16, <1>17, <1>18, <1>19
       DEF Next, XrdClAnswers, OwnerSteps, WatchdogSteps

\* Inv holds in every state a session reaches.
THEOREM Invariance == Spec => []Inv
  BY InitInv, StepInv, PTL DEF Spec

-----------------------------------------------------------------------------

\* Every variable keeps its type: in particular no byte count of a session
\* ever becomes negative, whatever XrdCl answers and in whatever order.
THEOREM TypeCorrect == Spec => []TypeOK
  <1>1. Inv => TypeOK
    BY DEF Inv
  <1>2. QED
    BY <1>1, Invariance, PTL

\* A session XrdCl still owes a callback holds its self-reference
\* (ReleaseIfIdle, file_session.cc:280-287).
THEOREM HandlersAlive == Spec => []AliveForCallback
  <1>1. Inv => AliveForCallback
    <2> SUFFICES ASSUME Inv, Pending(s) > 0 PROVE s.keep
      BY DEF AliveForCallback
    <2>1. CASE place = "new"
      <3>1. s.pend = [o \in Ops |-> 0]
        BY <2>1 DEF Inv, Blank
      <3>2. QED
        BY <3>1 DEF Pending, Ops
    <2>2. CASE place # "new"
      BY <2>2 DEF Inv, Sound, Kept
    <2>3. QED
      BY <2>1, <2>2
  <1>2. QED
    BY <1>1, Invariance, PTL

\* Four parties may each submit a session's next operation, and at most one
\* operation is outstanding, provided XrdCl refuses a Close while another
\* operation is in flight.
THEOREM OneBuffer == Spec => []OneOpInFlight
  <1>1. Inv => OneOpInFlight
    <2> SUFFICES ASSUME Inv, StrictClose PROVE Pending(s) <= 1
      BY DEF OneOpInFlight
    <2>1. CASE place = "new"
      <3>1. s.pend = [o \in Ops |-> 0]
        BY <2>1 DEF Inv, Blank
      <3>2. QED
        BY <3>1 DEF Pending, Ops
    <2>2. CASE place # "new"
      <3>1. s \in Session /\ CloseSound(s) /\ Busy(s) <= 1
        BY <2>2 DEF Inv, Sound, ReadSound
      <3>2. /\ Busy(s) \in Nat /\ s.pend["close"] \in Nat
            /\ Pending(s) = Busy(s) + s.pend["close"]
        BY <3>1, Counts DEF Ops
      <3>3. CASE s.pend["close"] > 0
        BY <3>1, <3>2, <3>3 DEF CloseSound
      <3>4. CASE s.pend["close"] = 0
        BY <3>1, <3>2, <3>4
      <3>5. QED
        BY <3>2, <3>3, <3>4
    <2>3. QED
      BY <2>1, <2>2
  <1>2. QED
    BY <1>1, Invariance, PTL

\* The last reference to a started session goes away only after its owner
\* heard an outcome.
THEOREM OutcomeBeforeRelease == Spec => []NeverLost
  <1>1. Inv => NeverLost
    <2> SUFFICES ASSUME Inv, place # "new", ~Alive PROVE s.dones = 1
      BY DEF NeverLost
    <2>1. Sound(s) /\ ~s.keep
      BY DEF Inv, Alive
    <2>2. QED
      BY <2>1 DEF Sound, Kept, OutcomeSound
  <1>2. QED
    BY <1>1, Invariance, PTL

-----------------------------------------------------------------------------

\* Neither returning from an entry point nor striking off an operation
\* touches a reported outcome.
LEMMA SettledKeepsOutcome ==
    ASSUME NEW t \in Session
    PROVE  Settled(t).completed = t.completed /\ Settled(t).result = t.result
  <1> DEFINE d == IF stopping THEN [t EXCEPT !.deadline = "none"] ELSE t
  <1>1. d \in Session /\ d.completed = t.completed /\ d.result = t.result
    BY DEF Session
  <1>2. Settled(t) = d \/ Settled(t) = [d EXCEPT !.keep = FALSE]
    BY DEF Settled, ReleaseIfIdle
  <1> HIDE DEF d
  <1>3. QED
    BY <1>1, <1>2 DEF Session

\* That XrdCl has answered an operation changes no outcome.
LEMMA AnsweredKeepsOutcome ==
    ASSUME NEW t, Sound(t), NEW op \in Ops, t.pend[op] > 0
    PROVE  LET a == Answered(t, op)
           IN  a \in Session /\ a.completed = t.completed /\ a.result = t.result
  BY AnsweredSound DEF Sound, Session, Answered

\* OnStat leaves a completed session alone.
LEMMA OnStatKeeps ==
    ASSUME NEW t, NEW ok \in BOOLEAN, NEW size, NEW acc \in BOOLEAN
    PROVE  Answered(t, "stat").completed => OnStat(t, ok, size, acc) = Answered(t, "stat")
  <1> DEFINE a == Answered(t, "stat")
             c == [a EXCEPT !.remaining = Budget(size), !.budgetSet = TRUE]
             n == IssueNext(c, acc)
             f == Fail(a, "stat")
             e == Complete(RefundPrepaid(a), "error")
  <1>1. OnStat(t, ok, size, acc) = CASE a.completed -> a
                                     [] ~a.completed /\ ~ok -> f
                                     [] ~a.completed /\ ok /\ BeyondEnd(size) -> e
                                     [] ~a.completed /\ ok /\ ~BeyondEnd(size) -> n
    BY DEF OnStat
  <1> HIDE DEF a, n, f, e
  <1>2. a.completed => OnStat(t, ok, size, acc) = a
    BY <1>1
  <1>3. QED
    BY <1>2 DEF a

\* on_done fires at most once in every step's outcome, and a reported outcome
\* is final: late answers, a late wall timeout and the owner's late IssueNext
\* or CloseNow leave it alone.
THEOREM OneOutcome == Spec => DoneOnce
  <1> DEFINE Final == s'.dones <= 1 /\ (s.completed => s'.completed /\ s'.result = s.result)
  <1>1. ASSUME Inv, Inv', [Next]_vars PROVE Final
    <2>0. s \in Session /\ "open" \in Ops /\ "stat" \in Ops /\ "read" \in Ops /\ "close" \in Ops
      BY <1>1 DEF Inv, TypeOK, Ops
    <2>1. s'.dones <= 1
      <3>1. CASE place' = "new"
        BY <1>1, <3>1 DEF Inv, Blank
      <3>2. CASE place' # "new"
        BY <1>1, <3>2 DEF Inv, Sound, OutcomeSound
      <3>3. QED
        BY <3>1, <3>2
    <2>2. SUFFICES ASSUME s.completed PROVE s'.completed /\ s'.result = s.result
      BY <2>1
    <2>3. Sound(s) /\ place # "new"
      BY <1>1, <2>2 DEF Inv, Blank
    <2>4. ASSUME NEW op \in Ops, s.pend[op] > 0, s' = Settled(Answered(s, op))
          PROVE  s'.completed /\ s'.result = s.result
      BY <2>2, <2>3, <2>4, AnsweredKeepsOutcome, SettledKeepsOutcome
    <2>5. CASE s' = Settled(s)
      BY <2>0, <2>2, <2>5, SettledKeepsOutcome
    <2>6. CASE s' = s
      BY <2>2, <2>6
    <2>7. CASE XrdClAnswers
      <3>1. ASSUME NEW ok \in BOOLEAN, NEW acc \in BOOLEAN, OpenDone(ok, acc)
            PROVE  s'.completed /\ s'.result = s.result
        <4>1. s.pend["open"] > 0 /\ s' = Settled(OnOpen(s, ok, acc))
          BY <3>1 DEF OpenDone
        <4>2. Answered(s, "open").completed
          BY <2>0, <2>2, <2>3, <4>1, AnsweredKeepsOutcome
        <4>3. Answered(s, "open").completed => OnOpen(s, ok, acc) = Answered(s, "open")
          BY DEF OnOpen
        <4>4. QED
          BY <2>0, <2>4, <4>1, <4>2, <4>3
      <3>2. ASSUME NEW ok \in BOOLEAN, NEW acc \in BOOLEAN,
                   NEW size \in Sizes, StatDone(ok, size, acc)
            PROVE  s'.completed /\ s'.result = s.result
        <4>1. s.pend["stat"] > 0 /\ s' = Settled(OnStat(s, ok, size, acc))
          BY <3>2 DEF StatDone
        <4>2. Answered(s, "stat").completed
          BY <2>0, <2>2, <2>3, <4>1, AnsweredKeepsOutcome
        <4>3. Answered(s, "stat").completed => OnStat(s, ok, size, acc) = Answered(s, "stat")
          BY <3>2, OnStatKeeps
        <4>4. QED
          BY <2>0, <2>4, <4>1, <4>2, <4>3
      <3>3. ASSUME NEW ok \in BOOLEAN, NEW acc \in BOOLEAN,
                   NEW got \in 0 .. OpBytes, ReadDone(ok, got, acc)
            PROVE  s'.completed /\ s'.result = s.result
        <4>1. s.pend["read"] > 0 /\ s' = Settled(OnRead(s, ok, got, acc))
          BY <3>3 DEF ReadDone
        <4>2. Answered(s, "read").completed
          BY <2>0, <2>2, <2>3, <4>1, AnsweredKeepsOutcome
        <4>3. Answered(s, "read").completed => OnRead(s, ok, got, acc) = Answered(s, "read")
          BY <2>2 DEF OnRead, Parks, Disarmed
        <4>4. QED
          BY <2>0, <2>4, <4>1, <4>2, <4>3
      <3>4. ASSUME NEW ok \in BOOLEAN, CloseDone(ok)
            PROVE  s'.completed /\ s'.result = s.result
        <4>1. s.pend["close"] > 0 /\ s' = Settled(OnClose(s, ok))
          BY <3>4 DEF CloseDone
        <4>2. Answered(s, "close").completed
          BY <2>0, <2>2, <2>3, <4>1, AnsweredKeepsOutcome
        <4>3. Answered(s, "close").completed => OnClose(s, ok) = Answered(s, "close")
          BY DEF OnClose
        <4>4. QED
          BY <2>0, <2>4, <4>1, <4>2, <4>3
      <3>5. QED
        BY <2>7, <3>1, <3>2, <3>3, <3>4 DEF XrdClAnswers
    <2>8. CASE OwnerSteps
      <3>1. CASE Enqueue \/ OnReadyReturns \/ Price \/ Requeue
        BY <2>6, <3>1 DEF Enqueue, OnReadyReturns, Price, Requeue
      <3>2. CASE Pay
        <4>1. s' = [s EXCEPT !.held = s.held + quote]
          BY <3>2 DEF Pay
        <4>2. QED
          BY <2>0, <2>2, <4>1 DEF Session
      <3>3. CASE \E acc \in BOOLEAN : Open(acc)
        BY <2>3, <3>3 DEF Open
      <3>4. CASE \E acc \in BOOLEAN : CloseOnEntry(acc) \/ Issue(acc) \/ CloseQueued(acc)
        BY <2>2, <2>5, <3>4 DEF CloseOnEntry, Issue, CloseQueued, CloseNow, IssueNext
      <3>5. QED
        BY <2>8, <3>1, <3>2, <3>3, <3>4 DEF OwnerSteps
    <2>9. CASE WatchdogSteps
      <3>1. CASE DeadlinePasses \/ Collect \/ ShutDown
        <4>1. s' = [s EXCEPT !.deadline = "due"] \/ s' = [s EXCEPT !.deadline = "none"]
          BY <3>1 DEF DeadlinePasses, Collect, ShutDown
        <4>2. QED
          BY <2>0, <2>2, <4>1 DEF Session
      <3>2. CASE Join
        BY <2>6, <3>2 DEF Join
      <3>3. CASE \E acc \in BOOLEAN : Fire(acc)
        BY <2>2, <2>5, <3>3 DEF Fire, RequestWallTimeout
      <3>4. QED
        BY <2>9, <3>1, <3>2, <3>3 DEF WatchdogSteps
    <2>10. CASE UNCHANGED vars
      BY <2>6, <2>10 DEF vars
    <2>11. QED
      BY <1>1, <2>7, <2>8, <2>9, <2>10 DEF Next
  <1>2. QED
    BY <1>1, Invariance, PTL DEF Spec, DoneOnce


-----------------------------------------------------------------------------
(* The budget, the Close and the contract.                                   *)

\* What Stat allowed bounds what was read and is left to read.
Within == Sized(s, Sizes)

\* Returning from an entry point advances the session as the entry point did.
LEMMA SettledAdvance ==
    ASSUME NEW t \in Session, NEW u, Advance(t, u), Sized(u, Sizes)
    PROVE  Advance(t, Settled(u)) /\ Sized(Settled(u), Sizes)
  <1> DEFINE e == IF stopping THEN "none" ELSE u.deadline
             v == [u EXCEPT !.deadline = e]
  <1>1. u \in Session /\ e \in {u.deadline, "none"} /\ Sizes \in SUBSET Nat
    BY SizesAreNat DEF Advance
  <1>2. Settled(u) = ReleaseIfIdle(v)
    <2>1. CASE stopping
      BY <2>1 DEF Settled
    <2>2. CASE ~stopping
      <3>1. v = u
        BY <1>1, <2>2 DEF Session
      <3> QED
        BY <2>2, <3>1 DEF Settled
    <2> QED
      BY <2>1, <2>2
  <1> HIDE DEF e
  <1> QED
    BY ONLY <1>1, <1>2, t \in Session, Advance(t, u), Sized(u, Sizes), ReleaseAdvance,
       ZenonT(60) DEF v

\* Every step is the Open, advances the session within its budget, or pays for
\* it or moves its deadline.
LEMMA StepAdvances ==
    ASSUME Inv, Within, Next
    PROVE  \/ \E acc \in BOOLEAN : Open(acc)
           \/ Advance(s, s') /\ Sized(s', Sizes)
           \/ Stays(s, s')
  <1>0. /\ s \in Session /\ Sizes \in SUBSET Nat /\ Sized(s, Sizes)
        /\ s.held \in Int /\ s.deadline \in {"none", "armed", "due"}
    BY SizesAreNat DEF Inv, TypeOK, Within, Session
  <1>1. ASSUME NEW ok \in BOOLEAN, NEW acc \in BOOLEAN, OpenDone(ok, acc)
        PROVE  Advance(s, s') /\ Sized(s', Sizes)
    <2>1. s.pend["open"] > 0 /\ s' = Settled(OnOpen(s, ok, acc)) /\ Sound(s)
      BY <1>1, OutWhenBusy DEF OpenDone
    <2> QED
      BY <1>0, <2>1, OnOpenAdvance, SettledAdvance
  <1>2. ASSUME NEW ok \in BOOLEAN, NEW acc \in BOOLEAN, NEW size \in Sizes,
               StatDone(ok, size, acc)
        PROVE  Advance(s, s') /\ Sized(s', Sizes)
    <2>1. s.pend["stat"] > 0 /\ s' = Settled(OnStat(s, ok, size, acc)) /\ Sound(s)
      BY <1>2, OutWhenBusy DEF StatDone
    <2> QED
      BY <1>0, <2>1, OnStatAdvance, SettledAdvance
  <1>3. ASSUME NEW ok \in BOOLEAN, NEW acc \in BOOLEAN, NEW got \in 0 .. OpBytes,
               ReadDone(ok, got, acc)
        PROVE  Advance(s, s') /\ Sized(s', Sizes)
    <2>1. /\ s.pend["read"] > 0 /\ got <= s.requested
          /\ s' = Settled(OnRead(s, ok, got, acc)) /\ Sound(s)
      BY <1>3, OutWhenBusy DEF ReadDone
    <2>2. got \in Nat
      BY SessionOptions
    <2> QED
      BY <1>0, <2>1, <2>2, OnReadAdvance, SettledAdvance
  <1>4. ASSUME NEW ok \in BOOLEAN, CloseDone(ok)
        PROVE  Advance(s, s') /\ Sized(s', Sizes)
    <2>1. s.pend["close"] > 0 /\ s' = Settled(OnClose(s, ok))
      BY <1>4 DEF CloseDone
    <2>2. Sound(s)
      <3>1. place # "new"
        BY <2>1 DEF Inv, Blank, Ops
      <3> QED
        BY <3>1 DEF Inv
    <2> QED
      BY <1>0, <2>1, <2>2, OnCloseAdvance, SettledAdvance
  <1>5. ASSUME NEW acc \in BOOLEAN, CloseOnEntry(acc) \/ CloseQueued(acc)
        PROVE  Advance(s, s') /\ Sized(s', Sizes)
    <2>1. s' = Settled(CloseNow(s, acc))
      BY <1>5 DEF CloseOnEntry, CloseQueued
    <2> QED
      BY <1>0, <2>1, CloseNowAdvance, SettledAdvance
  <1>6. ASSUME NEW acc \in BOOLEAN, Issue(acc)
        PROVE  Advance(s, s') /\ Sized(s', Sizes)
    <2>1. s' = Settled(IssueNext(s, acc)) /\ (s.closeReq => s.timedOut)
      BY <1>6 DEF Issue, Inv, Parked, Handed
    <2> QED
      BY <1>0, <2>1, IssueNextAdvance, SettledAdvance
  <1>7. ASSUME NEW acc \in BOOLEAN, Fire(acc)
        PROVE  Advance(s, s') /\ Sized(s', Sizes)
    <2>1. s' = Settled(RequestWallTimeout(s, acc))
      BY <1>7 DEF Fire
    <2> QED
      BY <1>0, <2>1, RequestWallTimeoutAdvance, SettledAdvance
  <1>8. ASSUME Pay PROVE Stays(s, s')
    <2>1. s' = [s EXCEPT !.held = s.held + quote] /\ quote \in Nat
      BY <1>8 DEF Pay, Inv, TypeOK
    <2>2. s' = [s EXCEPT !.held = s.held + quote, !.deadline = s.deadline]
      BY <1>0, <2>1 DEF Session
    <2>3. s.held + quote \in Int
      BY <1>0, <2>1
    <2> QED
      BY <1>0, <2>2, <2>3 DEF Stays
  <1>9. ASSUME NEW e \in {"none", "armed", "due"}, s' = [s EXCEPT !.deadline = e]
        PROVE  Stays(s, s')
    <2>1. s' = [s EXCEPT !.held = s.held, !.deadline = e]
      BY <1>0, <1>9 DEF Session
    <2> QED
      BY <1>0, <2>1 DEF Stays
  <1>10. ASSUME s' = s PROVE Stays(s, s')
    <2>1. s' = [s EXCEPT !.held = s.held, !.deadline = s.deadline]
      BY <1>0, <1>10 DEF Session
    <2> QED
      BY <1>0, <2>1 DEF Stays
  <1>11. DeadlinePasses \/ Collect \/ ShutDown => Stays(s, s')
    BY <1>9 DEF DeadlinePasses, Collect, ShutDown
  <1>12. Enqueue \/ OnReadyReturns \/ Price \/ Requeue \/ Join => Stays(s, s')
    BY <1>10 DEF Enqueue, OnReadyReturns, Price, Requeue, Join
  <1> QED
    BY <1>1, <1>2, <1>3, <1>4, <1>5, <1>6, <1>7, <1>8, <1>11, <1>12
       DEF Next, XrdClAnswers, OwnerSteps, WatchdogSteps

\* The Open, as the contract and the budget see it.
LEMMA OpenFields ==
    ASSUME Inv, NEW acc \in BOOLEAN, Open(acc)
    PROVE  /\ s = Blank /\ place' = "out" /\ Sized(s', Sizes)
           /\ s'.bytes = 0 /\ s'.timedOut = FALSE
           /\ s'.completed => s'.result = "error"
  <1> DEFINE paid == IF Paced THEN OpBytes ELSE 0
             t    == Start(Blank, paid, acc)
  <1>1. s = Blank /\ s' = Settled(t) /\ place' = "out"
    BY DEF Open, Inv
  <1>2. paid \in Nat /\ Sizes \in SUBSET Nat
    BY SessionOptions, SizesAreNat
  <1>3. /\ t \in Session /\ Sized(t, Sizes) /\ t.bytes = 0 /\ t.timedOut = FALSE
        /\ t.completed => t.result = "error"
    BY <1>2, StartAdvance
  <1> HIDE DEF t
  <1>4. Advance(t, Settled(t)) /\ Sized(Settled(t), Sizes)
    BY <1>3, OnwardSelf, OnwardAdvance, SettledAdvance
  <1>5. Settled(t).completed = t.completed /\ Settled(t).result = t.result
    BY <1>3, SettledKeepsOutcome
  <1>6. Settled(t).bytes = t.bytes /\ Settled(t).timedOut = t.timedOut
    BY <1>3 DEF Settled, ReleaseIfIdle, Session
  <1> QED
    BY <1>1, <1>3, <1>4, <1>5, <1>6

\* A new session has read nothing.
LEMMA InitWithin == Init => Within
  BY DEF Init, Within, Blank, Sized

\* Every step stays within the budget.
LEMMA StepWithin == Inv /\ Within /\ [Next]_vars => Within'
  <1> SUFFICES ASSUME Inv, Within, [Next]_vars PROVE Within'
    OBVIOUS
  <1>1. CASE Next
    <2>1. ASSUME NEW acc \in BOOLEAN, Open(acc) PROVE Within'
      BY <2>1, OpenFields DEF Within
    <2>2. ASSUME Stays(s, s') PROVE Within'
      <3>1. s \in Session
        BY DEF Inv, TypeOK
      <3> QED
        BY <2>2, <3>1, StaysFields DEF Within, Sized
    <2> QED
      BY <1>1, <2>1, <2>2, StepAdvances DEF Within
  <1>2. CASE UNCHANGED vars
    BY <1>2 DEF vars, Within, Sized
  <1> QED
    BY <1>1, <1>2

\* NothingAfterClose: once a Close is on its way to XrdCl, neither the owner,
\* the watchdog nor a late handler submits anything more (the closing_ checks
\* of file_session.cc).
THEOREM CloseIsLast == Spec => NothingAfterClose
  <1> DEFINE Last == s.closeReq => s'.closeReq /\ \A o \in Ops : s'.pend[o] <= s.pend[o]
  <1>1. ASSUME Inv, Within, Next PROVE Last
    <2>1. s \in Session
      BY <1>1 DEF Inv, TypeOK
    <2>2. ASSUME NEW acc \in BOOLEAN, Open(acc) PROVE Last
      <3>1. s = Blank
        BY <1>1, <2>2, OpenFields
      <3>2. Blank.closeReq = FALSE
        BY DEF Blank
      <3> QED
        BY <3>1, <3>2
    <2>3. Advance(s, s') => Last
      BY DEF Advance, Quiet
    <2>4. ASSUME Stays(s, s') PROVE Last
      <3>1. \A o \in Ops : s.pend[o] <= s.pend[o]
        BY <2>1, Counts
      <3> QED
        BY <2>1, <2>4, <3>1, StaysFields
    <2> QED
      BY <1>1, <2>2, <2>3, <2>4, StepAdvances
  <1>2. Inv /\ Within /\ [Next]_vars => [Last]_vars
    BY <1>1
  <1>3. Spec => [](Inv /\ Within)
    BY InitInv, StepInv, InitWithin, StepWithin, PTL DEF Spec
  <1>4. QED
    BY <1>2, <1>3, PTL DEF Spec, NothingAfterClose

\* Every initial state of the session is one of its contract.
LEMMA InitContract == Init => Contract!Init
  BY DEF Init, Blank, Contract!Init

\* Every step is a step of the contract, or invisible to the owner.
LEMMA StepContract ==
    ASSUME Inv, Inv', Within, Within', [Next]_vars
    PROVE  [Contract!Next]_(Contract!vars)
  <1>0. s \in Session /\ s' \in Session
    BY DEF Inv, TypeOK
  <1>1. CASE UNCHANGED vars
    BY <1>1 DEF vars, Contract!vars
  <1>2. ASSUME NEW acc \in BOOLEAN, Open(acc) PROVE Contract!Next
    <2>1. /\ s = Blank /\ place' = "out" /\ s'.bytes = 0 /\ s'.timedOut = FALSE
          /\ s'.completed => s'.result = "error"
      BY <1>2, OpenFields
    <2>2. Sound(s')
      BY <2>1 DEF Inv
    <2>3. s.completed = FALSE /\ s.keep = FALSE /\ s.result = "none"
          /\ s.bytes = 0 /\ s.timedOut = FALSE
      BY <2>1 DEF Blank
    <2>4. CASE s'.completed
      BY <2>1, <2>3, <2>4 DEF Contract!Next, Contract!Reject
    <2>5. CASE ~s'.completed
      <3>1. s'.keep /\ s'.result = "none"
        BY <2>2, <2>5 DEF Sound, Kept, OutcomeSound
      <3> QED
        BY <2>1, <2>3, <2>5, <3>1 DEF Contract!Next, Contract!Begin
    <2> QED
      BY <2>4, <2>5
  <1>3. ASSUME Stays(s, s') PROVE UNCHANGED Contract!vars
    BY <1>0, <1>3, StaysFields DEF Contract!vars
  <1>4. ASSUME Next, Advance(s, s'), ~\E acc \in BOOLEAN : Open(acc)
        PROVE  Contract!Next \/ UNCHANGED Contract!vars
    <2>1. CASE s.completed
      <3>1. s'.completed /\ s'.result = s.result /\ s'.bytes = s.bytes
            /\ s'.timedOut = s.timedOut
        BY <1>4, <2>1 DEF Advance, Reports
      <3> QED
        BY <2>1, <3>1 DEF Contract!vars
    <2>2. CASE ~s.completed /\ s = s'
      BY <2>2 DEF Contract!vars
    <2>3. CASE ~s.completed /\ s # s'
      <3>1. place # "new" /\ place' # "new"
        <4>1. SUFFICES ASSUME place = "new" \/ place' = "new" PROVE FALSE
          OBVIOUS
        <4>2. place = "new" /\ s = Blank /\ ~caught
          BY <1>4, <4>1
             DEF Inv, Next, XrdClAnswers, OwnerSteps, WatchdogSteps, OpenDone, StatDone,
                 ReadDone, CloseDone, Enqueue, OnReadyReturns, Price, Pay, Requeue,
                 CloseOnEntry, Issue, CloseQueued, DeadlinePasses, Collect, ShutDown,
                 Join, Fire
        <4>3. s' = Blank
          <5>1. /\ \A o \in Ops : s.pend[o] = 0
                /\ s.deadline = "none"
            BY <4>2 DEF Blank
          <5>2. [Blank EXCEPT !.deadline = "none"] = Blank
            <6>1. s \in Session /\ s.deadline = "none"
              BY <1>0, <5>1
            <6>2. [s EXCEPT !.deadline = "none"] = s
              BY <6>1 DEF Session
            <6> QED
              BY <4>2, <6>2
          <5> QED
            BY <1>4, <4>2, <5>1, <5>2
               DEF Ops, Next, XrdClAnswers, OwnerSteps, WatchdogSteps, OpenDone, StatDone,
                   ReadDone, CloseDone, Enqueue, OnReadyReturns, Price, Pay, Requeue,
                   CloseOnEntry, Issue, CloseQueued, DeadlinePasses, Collect, ShutDown,
                   Join, Fire
        <4> QED
          BY <2>3, <4>2, <4>3
      <3>2. Sound(s) /\ Sound(s')
        BY <3>1 DEF Inv
      <3>3. s.keep /\ s.result = "none"
        BY <2>3, <3>2 DEF Sound, Kept, OutcomeSound
      <3>4. ~s'.completed => s'.keep /\ s'.result = "none"
        BY <3>2 DEF Sound, Kept, OutcomeSound
      <3>5. /\ s.bytes \in Nat /\ s'.bytes \in Nat /\ s'.remaining \in Nat
            /\ s.bytes <= s'.bytes
        BY <1>0, <1>4 DEF Session, Advance
      <3>6. s'.bytes # s.bytes => \E z \in Sizes : s'.bytes <= Cap(z)
        <4>1. SUFFICES ASSUME s'.bytes # s.bytes
                       PROVE  \E z \in Sizes : s'.bytes <= Cap(z)
          OBVIOUS
        <4>2. s'.bytes # 0
          BY <3>5, <4>1
        <4>3. PICK z \in Sizes : s'.bytes + s'.remaining <= Cap(z)
          BY <4>2 DEF Within, Sized
        <4>4. Cap(z) \in Nat
          BY SessionOptions, SizesAreNat DEF Cap, Least
        <4> QED
          BY <3>5, <4>3, <4>4
      <3>7. s'.bytes # s.bytes => Contract!Delivers
        BY <3>5, <3>6 DEF Contract!Delivers, Cap
      <3>8. CASE s'.completed
        <4>1. \/ s'.result = "ok" /\ ~s'.timedOut /\ s'.bytes = s.bytes
              \/ s'.result = "error" /\ s'.timedOut = s.timedOut
              \/ s'.result = "timeout" /\ s'.timedOut
          BY <1>4, <2>3, <3>8 DEF Advance, Reports
        <4>2. s.timedOut => s'.timedOut
          BY <1>4 DEF Advance
        <4> QED
          BY <2>3, <3>3, <3>7, <3>8, <4>1, <4>2 DEF Contract!Next, Contract!Finish
      <3>9. CASE ~s'.completed /\ s'.timedOut = s.timedOut /\ s'.bytes = s.bytes
        BY <2>3, <3>3, <3>4, <3>9 DEF Contract!vars
      <3>10. CASE ~s'.completed /\ s'.timedOut = s.timedOut /\ s'.bytes # s.bytes
        BY <2>3, <3>3, <3>4, <3>7, <3>10 DEF Contract!Next, Contract!Deliver
      <3>11. CASE ~s'.completed /\ s'.timedOut # s.timedOut
        <4>1. s'.bytes = s.bytes /\ s.timedOut = FALSE /\ s'.timedOut = TRUE
          BY <1>0, <1>4, <3>11 DEF Advance, Session
        <4> QED
          BY <2>3, <3>3, <3>4, <3>11, <4>1 DEF Contract!Next, Contract!Expire
      <3> QED
        BY <3>8, <3>9, <3>10, <3>11
    <2> QED
      BY <2>1, <2>2, <2>3
  <1> QED
    BY <1>1, <1>2, <1>3, <1>4, StepAdvances

\* ImplementsContract: whatever XrdCl answers and whenever the watchdog and
\* the owner act, the session begins once, delivers bytes within the allowance
\* of one file, reports one outcome and then delivers nothing.
THEOREM Implementation == Spec => ImplementsContract
  <1>1. Spec => [](Inv /\ Within)
    BY InitInv, StepInv, InitWithin, StepWithin, PTL DEF Spec
  <1>2. QED
    BY <1>1, InitContract, StepContract, PTL DEF Spec, ImplementsContract, Contract!Spec

-----------------------------------------------------------------------------
(* The byte ledger of a paced session: where every token taken for it from   *)
(* the bucket is.                                                            *)

\* Tokens held that are neither bytes, nor asked for, nor prepaid.
Owed(t) == t.held - t.bytes - t.requested - t.prepaid

\* A session has its prepayment until its first Read, a request only while a
\* Read is out, and neither once it closes or ends without a timeout.
Ledger(t) ==
    /\ t.issuedRead => t.prepaid = 0 /\ t.budgetSet
    /\ t.pend["read"] > 0 => t.issuedRead
    /\ ~t.completed /\ t.pend["read"] = 0 => t.requested = 0
    /\ ~t.completed /\ t.pend["open"] + t.pend["stat"] > 0
           => t.prepaid = OpBytes /\ ~t.issuedRead
    /\ (t.closeReq \/ t.completed) /\ ~t.timedOut => t.prepaid = 0 /\ t.requested = 0

\* Nothing to return: what a session needs to close or end without a timeout.
Clear(t) == ~t.timedOut => t.prepaid = 0 /\ t.requested = 0

-----------------------------------------------------------------------------
(* The helpers. *)

\* The fields a session's ledger is made of.
SameBytes(u, t) ==
    /\ u.held = t.held /\ u.bytes = t.bytes /\ u.requested = t.requested
    /\ u.prepaid = t.prepaid /\ u.issuedRead = t.issuedRead
    /\ u.budgetSet = t.budgetSet

\* What is the same in these fields is accounted for in the same way.
LEMMA SameBytesKeep ==
    ASSUME NEW t, NEW u, SameBytes(u, t), u.pend = t.pend,
           u.completed = t.completed, u.timedOut = t.timedOut, u.closeReq = t.closeReq
    PROVE  Owed(u) = Owed(t) /\ (Ledger(t) => Ledger(u)) /\ (Clear(t) => Clear(u))
  BY DEF SameBytes, Owed, Ledger, Clear

\* An outcome is reported with nothing to return.
LEMMA CompleteLedger ==
    ASSUME NEW t \in Session, NEW r, Ledger(t), Clear(t)
    PROVE  LET u == Complete(t, r)
           IN  Ledger(u) /\ Owed(u) = Owed(t) /\ u.timedOut = t.timedOut
  <1>1. CASE t.completed
    BY <1>1 DEF Complete
  <1>2. CASE ~t.completed
    <2> DEFINE d == t.dones + 1
               u == [t EXCEPT !.completed = TRUE, !.result = r, !.dones = d]
    <2>1. Complete(t, r) = u
      BY <1>2 DEF Complete
    <2> HIDE DEF d
    <2>2. SameBytes(u, t) /\ u.pend = t.pend /\ u.completed
          /\ u.timedOut = t.timedOut /\ u.closeReq = t.closeReq
      BY DEF Session, SameBytes
    <2> HIDE DEF u
    <2>3. Ledger(u) /\ Owed(u) = Owed(t)
      BY <2>2 DEF SameBytes, Ledger, Clear, Owed
    <2> QED
      BY <2>1, <2>2, <2>3
  <1> QED
    BY <1>1, <1>2

\* A refund moves tokens from the session's hands to the bucket.
LEMMA RefundPrepaidLedger ==
    ASSUME Paced, NEW t \in Session, t.issuedRead => t.prepaid = 0
    PROVE  LET u == RefundPrepaid(t)
           IN  /\ u \in Session /\ u.prepaid = 0 /\ Owed(u) = Owed(t)
               /\ u.requested = t.requested /\ u.pend = t.pend
               /\ u.completed = t.completed /\ u.timedOut = t.timedOut
               /\ u.closeReq = t.closeReq /\ u.issuedRead = t.issuedRead
               /\ u.budgetSet = t.budgetSet /\ u.remaining = t.remaining
  <1>1. CASE t.issuedRead
    BY <1>1 DEF RefundPrepaid
  <1>2. CASE ~t.issuedRead
    <2> DEFINE h == t.held - t.prepaid
               v == [t EXCEPT !.held = h]
               u == [v EXCEPT !.prepaid = 0]
    <2>1. RefundPrepaid(t) = u
      BY <1>2 DEF RefundPrepaid, RefundBytes
    <2>2. RefundPrepaid(t) \in Session
      BY RefundPrepaidFields
    <2>3. h \in Int /\ t.held \in Int /\ t.prepaid \in Int /\ t.bytes \in Int
          /\ t.requested \in Int /\ h = t.held - t.prepaid
      BY DEF Session
    <2> HIDE DEF h
    <2>4. /\ u.held = h /\ u.prepaid = 0 /\ u.bytes = t.bytes
          /\ u.requested = t.requested /\ u.pend = t.pend
          /\ u.completed = t.completed /\ u.timedOut = t.timedOut
          /\ u.closeReq = t.closeReq /\ u.issuedRead = t.issuedRead
          /\ u.budgetSet = t.budgetSet /\ u.remaining = t.remaining
      BY DEF Session
    <2> HIDE DEF u
    <2>5. Owed(u) = Owed(t)
      BY <2>3, <2>4 DEF Owed
    <2> QED
      BY <2>1, <2>2, <2>4, <2>5
  <1> QED
    BY <1>1, <1>2

\* A refund of the prepayment, with neither Open nor Stat out, clears.
LEMMA RefundClears ==
    ASSUME Paced, NEW t \in Session, Ledger(t),
           t.pend["open"] + t.pend["stat"] = 0, t.requested = 0
    PROVE  LET u == RefundPrepaid(t)
           IN  /\ u \in Session /\ Ledger(u) /\ Clear(u) /\ Owed(u) = Owed(t)
               /\ u.timedOut = t.timedOut
  <1> DEFINE u == RefundPrepaid(t)
  <1>1. t.issuedRead => t.prepaid = 0
    BY DEF Ledger
  <1>2. /\ u \in Session /\ u.prepaid = 0 /\ Owed(u) = Owed(t)
        /\ u.requested = t.requested /\ u.pend = t.pend
        /\ u.completed = t.completed /\ u.timedOut = t.timedOut
        /\ u.closeReq = t.closeReq /\ u.issuedRead = t.issuedRead
        /\ u.budgetSet = t.budgetSet /\ u.remaining = t.remaining
    BY <1>1, RefundPrepaidLedger
  <1> HIDE DEF u
  <1>3. Ledger(u) /\ Clear(u)
    BY <1>2 DEF Ledger, Clear
  <1> QED
    BY <1>2, <1>3 DEF u

\* A Close moves no tokens.
LEMMA SubmitCloseLedger ==
    ASSUME NEW t \in Session, Ledger(t), Clear(t), NEW acc \in BOOLEAN
    PROVE  LET u == SubmitClose(t, acc)
           IN  Ledger(u) /\ Owed(u) = Owed(t) /\ u.timedOut = t.timedOut
  <1> DEFINE taken == CloseAccepted(t, acc)
             v   == Submit(t, "close", taken)
             sub == [v EXCEPT !.closeReq = TRUE]
             out == IF t.timedOut THEN "timeout" ELSE "error"
  <1>1. taken \in BOOLEAN /\ "close" \in Ops
    BY DEF CloseAccepted, Ops
  <1>2. /\ t.closeReq => SubmitClose(t, acc) = t
        /\ ~t.closeReq /\ taken => SubmitClose(t, acc) = sub
        /\ ~t.closeReq /\ ~taken /\ Pending(t) > 0
              => SubmitClose(t, acc) = [sub EXCEPT !.closeReq = FALSE]
        /\ ~t.closeReq /\ ~taken /\ Pending(t) = 0
              => SubmitClose(t, acc) = Complete(sub, out)
    BY DEF SubmitClose
  <1> HIDE DEF taken
  <1>3. /\ v \in Session
        /\ v = [t EXCEPT !.pend = v.pend, !.deadline = v.deadline]
        /\ taken => v.pend = [t.pend EXCEPT !["close"] = t.pend["close"] + 1]
        /\ ~taken => v.pend = t.pend
    BY ONLY <1>1, t \in Session, SubmitFields, ZenonT(60) DEF v
  <1>4. Pending(t) \in Nat
    BY Counts
  <1> HIDE DEF v, out
  <1>5. sub \in Session /\ [sub EXCEPT !.closeReq = FALSE] = [v EXCEPT !.closeReq = FALSE]
    BY <1>3 DEF Session
  <1>6. /\ SameBytes(sub, t) /\ sub.pend = v.pend /\ sub.closeReq
        /\ sub.completed = t.completed /\ sub.timedOut = t.timedOut
    BY <1>3 DEF Session, SameBytes
  <1>7. LET w == [v EXCEPT !.closeReq = FALSE]
        IN  /\ SameBytes(w, t) /\ w.pend = v.pend /\ w.closeReq = FALSE
            /\ w.completed = t.completed /\ w.timedOut = t.timedOut
    BY <1>3 DEF Session, SameBytes
  <1>8. /\ v.pend["open"] = t.pend["open"] /\ v.pend["stat"] = t.pend["stat"]
        /\ v.pend["read"] = t.pend["read"]
    <2>1. t.pend \in [Ops -> Nat]
      BY DEF Session
    <2> QED
      BY <1>1, <1>3, <2>1 DEF Ops
  <1>9. Ledger(sub) /\ Clear(sub) /\ Owed(sub) = Owed(t)
    BY <1>6, <1>8 DEF SameBytes, Ledger, Clear, Owed
  <1>10. LET w == [v EXCEPT !.closeReq = FALSE]
         IN  ~t.closeReq => Ledger(w) /\ Owed(w) = Owed(t)
    BY <1>7, <1>8 DEF SameBytes, Ledger, Owed
  <1>11. CASE t.closeReq
    BY <1>2, <1>11
  <1>12. CASE ~t.closeReq /\ taken
    BY <1>2, <1>6, <1>9, <1>12
  <1>13. CASE ~t.closeReq /\ ~taken /\ Pending(t) > 0
    BY <1>2, <1>5, <1>7, <1>10, <1>13
  <1>14. CASE ~t.closeReq /\ ~taken /\ Pending(t) = 0
    <2> HIDE DEF sub
    <2>1. /\ Ledger(Complete(sub, out)) /\ Owed(Complete(sub, out)) = Owed(sub)
          /\ Complete(sub, out).timedOut = sub.timedOut
      BY <1>5, <1>9, CompleteLedger
    <2>2. SubmitClose(t, acc) = Complete(sub, out)
      BY <1>2, <1>14
    <2> QED
      BY <1>6, <1>9, <2>1, <2>2
  <1> QED
    BY <1>1, <1>4, <1>11, <1>12, <1>13, <1>14

-----------------------------------------------------------------------------
(* The Read, and what decides on it. *)

Next1(t) == Least(OpBytes, t.remaining)

\* A Read takes its op from the prepayment, which it uses up, or from tokens
\* that were owed.
LEMMA SubmitReadLedger ==
    ASSUME Paced, NEW t \in Session, NEW acc \in BOOLEAN, Busy(t) = 0,
           ~t.closeReq, ~t.completed, t.budgetSet, t.remaining > 0,
           t.requested = 0, t.prepaid \in {0, OpBytes}
    PROVE  LET u == SubmitRead(t, acc)
           IN  /\ Ledger(u) /\ u.timedOut = t.timedOut
               /\ Owed(u) = IF t.prepaid = 0 THEN Owed(t) - Next1(t) ELSE Owed(t)
  <1> DEFINE n    == Least(OpBytes, t.remaining)
             over == IF t.prepaid > n THEN t.prepaid - n ELSE 0
             v    == Submit(t, "read", acc)
             w    == RefundBytes(v, over)
             sub  == [w EXCEPT !.requested = n, !.prepaid = 0, !.issuedRead = TRUE]
             ref  == [RefundBytes(sub, n) EXCEPT !.requested = 0]
  <1>1. /\ t.held \in Int /\ t.bytes \in Nat /\ t.prepaid \in Nat /\ t.remaining \in Nat
        /\ t.pend \in [Ops -> Nat] /\ "read" \in Ops
    BY DEF Session, Ops
  <1>2. n \in Nat /\ n <= OpBytes /\ n > 0 /\ OpBytes \in Nat
    BY <1>1, SessionOptions DEF Least
  <1>3. /\ acc => SubmitRead(t, acc) = sub
        /\ ~acc => SubmitRead(t, acc) = Complete(ref, "error")
    BY DEF SubmitRead
  <1>4. /\ v \in Session
        /\ v = [t EXCEPT !.pend = v.pend, !.deadline = v.deadline]
        /\ acc => v.pend = [t.pend EXCEPT !["read"] = t.pend["read"] + 1]
        /\ ~acc => v.pend = t.pend
    BY ONLY <1>1, t \in Session, acc \in BOOLEAN, SubmitFields, ZenonT(60) DEF v
  <1> HIDE DEF v, n
  <1>5. over \in Nat /\ (t.prepaid = 0 => over = 0)
        /\ (t.prepaid # 0 => over = t.prepaid - n)
    BY <1>1, <1>2
  <1>6. /\ v.held = t.held /\ v.bytes = t.bytes /\ v.completed = t.completed
        /\ v.timedOut = t.timedOut /\ v.closeReq = t.closeReq /\ v.budgetSet = t.budgetSet
    BY <1>4 DEF Session
  <1> HIDE DEF over
  <1> DEFINE h == t.held - over
  <1>7. h \in Int /\ w = [v EXCEPT !.held = h]
    BY <1>1, <1>5, <1>6 DEF RefundBytes
  <1> HIDE DEF w
  <1>8. w \in Session /\ w.held = h /\ w.bytes = t.bytes /\ w.pend = v.pend
        /\ w.completed = t.completed /\ w.timedOut = t.timedOut
        /\ w.closeReq = t.closeReq /\ w.budgetSet = t.budgetSet
    BY <1>4, <1>6, <1>7 DEF Session
  <1>9. sub \in Session /\ sub.held = h /\ sub.bytes = t.bytes /\ sub.pend = v.pend
        /\ sub.completed = t.completed /\ sub.timedOut = t.timedOut
        /\ sub.closeReq = t.closeReq /\ sub.budgetSet = t.budgetSet
        /\ sub.requested = n /\ sub.prepaid = 0 /\ sub.issuedRead
    BY <1>2, <1>8 DEF Session
  <1> HIDE DEF sub
  <1>10. v.pend["open"] + v.pend["stat"] = 0
    <2>1. /\ t.pend["open"] \in Nat /\ t.pend["stat"] \in Nat /\ t.pend["read"] \in Nat
          /\ t.pend["open"] + t.pend["stat"] + t.pend["read"] = 0
      BY <1>1 DEF Busy, Ops
    <2>2. v.pend["open"] = t.pend["open"] /\ v.pend["stat"] = t.pend["stat"]
      BY <1>1, <1>4 DEF Ops
    <2> QED
      BY <2>1, <2>2
  <1>11. acc => v.pend["read"] > 0
    BY <1>1, <1>4
  <1>12. Owed(sub) = IF t.prepaid = 0 THEN Owed(t) - n ELSE Owed(t)
    BY <1>1, <1>2, <1>5, <1>9 DEF Owed, h
  <1>13. CASE acc
    <2>1. Ledger(sub)
      BY <1>9, <1>10, <1>11, <1>13 DEF Ledger
    <2> QED
      BY <1>3, <1>9, <1>12, <1>13, <2>1 DEF n, Next1
  <1>14. CASE ~acc
    <2> DEFINE g == h - n
    <2>1. g \in Int /\ RefundBytes(sub, n) = [sub EXCEPT !.held = g]
      BY <1>2, <1>7, <1>9 DEF RefundBytes
    <2> HIDE DEF h, g
    <2>2. ref \in Session /\ ref.held = g /\ ref.bytes = t.bytes /\ ref.pend = v.pend
          /\ ref.completed = t.completed /\ ref.timedOut = t.timedOut
          /\ ref.closeReq = t.closeReq /\ ref.budgetSet = t.budgetSet
          /\ ref.requested = 0 /\ ref.prepaid = 0 /\ ref.issuedRead
      <3>1. ref \in Session
        BY <1>9, <2>1 DEF Session
      <3>2. /\ ref.held = g /\ ref.bytes = sub.bytes /\ ref.pend = sub.pend
            /\ ref.completed = sub.completed /\ ref.timedOut = sub.timedOut
            /\ ref.closeReq = sub.closeReq /\ ref.budgetSet = sub.budgetSet
            /\ ref.requested = 0 /\ ref.prepaid = sub.prepaid
            /\ ref.issuedRead = sub.issuedRead
        BY <1>9, <2>1 DEF Session
      <3> QED
        BY <1>9, <3>1, <3>2
    <2> HIDE DEF ref
    <2>3. Owed(ref) = Owed(sub)
      BY <1>1, <1>2, <1>7, <1>9, <2>1, <2>2 DEF Owed, g
    <2>4. Ledger(ref) /\ Clear(ref)
      BY <1>10, <2>2 DEF Ledger, Clear
    <2>5. /\ Ledger(Complete(ref, "error")) /\ Owed(Complete(ref, "error")) = Owed(ref)
          /\ Complete(ref, "error").timedOut = ref.timedOut
      BY <2>2, <2>4, CompleteLedger
    <2> QED
      BY <1>3, <1>12, <1>14, <2>2, <2>3, <2>5 DEF n, Next1
  <1> QED
    BY <1>13, <1>14

\* With neither Open nor Stat out and nothing asked for, IssueNext ends the
\* session or submits its next Read.
LEMMA IssueNextLedger ==
    ASSUME Paced, NEW t \in Session, NEW acc \in BOOLEAN, Busy(t) = 0, Ledger(t),
           t.closeReq => t.timedOut,
           ~t.completed => t.budgetSet /\ t.prepaid \in {0, OpBytes}
    PROVE  LET u == IssueNext(t, acc)
           IN  /\ Ledger(u) /\ u.timedOut = t.timedOut
               /\ Owed(u) = IF /\ ~t.completed /\ ~t.timedOut
                               /\ t.remaining > 0 /\ t.prepaid = 0
                            THEN Owed(t) - Next1(t) ELSE Owed(t)
  <1> DEFINE z == [t EXCEPT !.remaining = 0]
  <1>1. t.remaining \in Nat /\ t.pend \in [Ops -> Nat]
    BY DEF Session
  <1>2. t.pend["open"] + t.pend["stat"] = 0 /\ t.pend["read"] = 0
    BY <1>1 DEF Busy, Ops
  <1>3. CASE t.completed
    BY <1>3 DEF IssueNext
  <1>4. ASSUME NEW x \in Session, SameBytes(x, t), x.pend = t.pend,
               x.completed = t.completed, x.timedOut = t.timedOut,
               x.closeReq = t.closeReq, ~t.completed,
               IssueNext(t, acc) = SubmitClose(RefundPrepaid(x), acc)
        PROVE  LET u == IssueNext(t, acc)
               IN  Ledger(u) /\ u.timedOut = t.timedOut /\ Owed(u) = Owed(t)
    <2>1. Ledger(x) /\ Owed(x) = Owed(t)
      BY <1>4, SameBytesKeep
    <2>2. x.requested = 0 /\ x.pend["open"] + x.pend["stat"] = 0
      BY <1>2, <1>4 DEF Ledger, SameBytes
    <2> DEFINE r == RefundPrepaid(x)
    <2>3. r \in Session /\ Ledger(r) /\ Clear(r) /\ Owed(r) = Owed(x) /\ r.timedOut = x.timedOut
      BY <2>1, <2>2, RefundClears
    <2> HIDE DEF r
    <2>4. /\ Ledger(SubmitClose(r, acc)) /\ Owed(SubmitClose(r, acc)) = Owed(r)
          /\ SubmitClose(r, acc).timedOut = r.timedOut
      BY <2>3, SubmitCloseLedger
    <2> QED
      BY <1>4, <2>1, <2>3, <2>4 DEF r
  <1>5. CASE ~t.completed /\ t.timedOut
    <2>1. IssueNext(t, acc) = SubmitClose(RefundPrepaid(z), acc)
      <3>1. z.remaining = 0
        BY DEF Session
      <3> QED
        BY <1>5, <3>1 DEF IssueNext
    <2>2. z \in Session /\ SameBytes(z, t) /\ z.pend = t.pend
          /\ z.completed = t.completed /\ z.timedOut = t.timedOut
          /\ z.closeReq = t.closeReq
      BY DEF Session, SameBytes
    <2> HIDE DEF z
    <2> QED
      BY <1>4, <1>5, <2>1, <2>2
  <1>6. CASE ~t.completed /\ ~t.timedOut /\ t.remaining = 0
    <2>1. IssueNext(t, acc) = SubmitClose(RefundPrepaid(t), acc)
      BY <1>6 DEF IssueNext
    <2>2. SameBytes(t, t)
      BY DEF SameBytes
    <2> QED
      BY <1>4, <1>6, <2>1, <2>2
  <1>7. CASE ~t.completed /\ ~t.timedOut /\ t.remaining > 0
    <2>1. IssueNext(t, acc) = SubmitRead(t, acc)
      BY <1>1, <1>7 DEF IssueNext
    <2>2. t.requested = 0 /\ ~t.closeReq
      BY <1>2, <1>7 DEF Ledger
    <2>3. /\ Ledger(SubmitRead(t, acc)) /\ SubmitRead(t, acc).timedOut = t.timedOut
          /\ Owed(SubmitRead(t, acc)) =
                 IF t.prepaid = 0 THEN Owed(t) - Next1(t) ELSE Owed(t)
      BY <1>7, <2>2, SubmitReadLedger
    <2> QED
      BY <1>7, <2>1, <2>3
  <1> QED
    BY <1>1, <1>3, <1>5, <1>6, <1>7

-----------------------------------------------------------------------------
(* The entry points. *)

\* What striking off an answered operation leaves of the session.
LEMMA AnsweredFields ==
    ASSUME NEW t, Sound(t), NEW op \in Ops, t.pend[op] > 0
    PROVE  LET a == Answered(t, op)
           IN  /\ a \in Session /\ SameBytes(a, t) /\ a.remaining = t.remaining
               /\ a.completed = t.completed /\ a.timedOut = t.timedOut
               /\ a.closeReq = t.closeReq
               /\ a.pend = [t.pend EXCEPT ![op] = t.pend[op] - 1]
               /\ op # "close" => /\ Busy(a) = 0 /\ a.pend["open"] + a.pend["stat"] = 0
                                  /\ a.pend["read"] = 0
                                  /\ t.closeReq => t.timedOut
  <1> DEFINE a == Answered(t, op)
             q == [t.pend EXCEPT ![op] = t.pend[op] - 1]
  <1>1. t \in Session /\ t.pend \in [Ops -> Nat] /\ a = [t EXCEPT !.pend = q]
    BY DEF Sound, Session, Answered
  <1>2. Sound(a) /\ (op # "close" => Busy(a) = 0 /\ Busy(t) = 1)
    BY ONLY Sound(t), op \in Ops, t.pend[op] > 0, AnsweredSound, ZenonT(60) DEF a
  <1> HIDE DEF q
  <1>3. /\ a \in Session /\ SameBytes(a, t) /\ a.remaining = t.remaining
        /\ a.completed = t.completed /\ a.timedOut = t.timedOut
        /\ a.closeReq = t.closeReq /\ a.pend = q
    BY <1>1, <1>2 DEF Sound, Session, SameBytes
  <1> HIDE DEF a
  <1>4. a.pend["open"] \in Nat /\ a.pend["stat"] \in Nat /\ a.pend["read"] \in Nat
    BY <1>3, Counts DEF Ops
  <1>5. Busy(a) = 0 => a.pend["open"] + a.pend["stat"] = 0 /\ a.pend["read"] = 0
    BY <1>4 DEF Busy
  <1>6. Busy(t) = 1 /\ t.closeReq => t.timedOut
    BY <1>1 DEF Sound, CloseSound, Session
  <1> QED
    BY <1>2, <1>3, <1>5, <1>6 DEF a, q

\* Of a session that waits for Open or Stat.
LEMMA EarlyLedger ==
    ASSUME NEW t, Sound(t), Ledger(t), NEW op \in {"open", "stat"}, t.pend[op] > 0
    PROVE  LET a == Answered(t, op)
           IN  /\ Ledger(a) /\ Owed(a) = Owed(t)
               /\ ~a.completed => a.prepaid = OpBytes /\ ~a.issuedRead /\ a.requested = 0
  <1> DEFINE a == Answered(t, op)
  <1>0. op \in Ops /\ op # "close"
    BY DEF Ops
  <1>1. /\ a \in Session /\ SameBytes(a, t)
        /\ a.completed = t.completed /\ a.timedOut = t.timedOut
        /\ a.closeReq = t.closeReq
        /\ a.pend["open"] + a.pend["stat"] = 0 /\ a.pend["read"] = 0
    BY ONLY <1>0, Sound(t), t.pend[op] > 0, AnsweredFields, ZenonT(60) DEF a
  <1>2. t.pend["open"] \in Nat /\ t.pend["stat"] \in Nat /\ t.pend["read"] \in Nat
    BY Counts DEF Ops, Sound
  <1>3. t.pend["open"] + t.pend["stat"] > 0 /\ t.pend["read"] = 0
    <2>1. Busy(t) <= 1
      BY DEF Sound, ReadSound
    <2> QED
      BY <1>2, <2>1 DEF Busy
  <1> HIDE DEF a
  <1>4. ~t.completed => t.prepaid = OpBytes /\ ~t.issuedRead /\ t.requested = 0
    BY <1>3 DEF Ledger
  <1>5. Ledger(a) /\ Owed(a) = Owed(t)
    BY <1>1, <1>3, <1>4 DEF Ledger, SameBytes, Owed
  <1> QED
    BY <1>1, <1>4, <1>5 DEF a, SameBytes

\* Fail after anything but a Read returns what was prepaid.
LEMMA FailEarlyLedger ==
    ASSUME Paced, NEW t \in Session, Ledger(t), NEW stage \in {"open", "stat", "close"},
           t.pend["open"] + t.pend["stat"] = 0, t.requested = 0
    PROVE  LET u == Fail(t, stage)
           IN  Ledger(u) /\ Owed(u) = Owed(t) /\ u.timedOut = t.timedOut
  <1> DEFINE r == RefundPrepaid(t)
  <1>1. Fail(t, stage) = Complete(r, "error")
    BY DEF Fail
  <1>2. r \in Session /\ Ledger(r) /\ Clear(r) /\ Owed(r) = Owed(t) /\ r.timedOut = t.timedOut
    BY RefundClears
  <1> HIDE DEF r
  <1>3. /\ Ledger(Complete(r, "error")) /\ Owed(Complete(r, "error")) = Owed(r)
        /\ Complete(r, "error").timedOut = r.timedOut
    BY <1>2, CompleteLedger
  <1> QED
    BY <1>1, <1>2, <1>3

\* OnOpen: the session stats the file, or ends.
LEMMA OnOpenLedger ==
    ASSUME Paced, NEW t, Sound(t), Ledger(t), t.pend["open"] > 0,
           NEW ok \in BOOLEAN, NEW acc \in BOOLEAN
    PROVE  LET u == OnOpen(t, ok, acc)
           IN  Ledger(u) /\ Owed(u) = Owed(t) /\ u.timedOut = t.timedOut
  <1> DEFINE a   == Answered(t, "open")
             sub == Submit(a, "stat", acc)
             r   == RefundPrepaid(sub)
  <1>1. /\ a \in Session /\ a.completed = t.completed /\ a.timedOut = t.timedOut
        /\ a.closeReq = t.closeReq
        /\ Busy(a) = 0 /\ a.pend["open"] + a.pend["stat"] = 0 /\ a.pend["read"] = 0
        /\ t.closeReq => t.timedOut
    BY AnsweredFields DEF Ops
  <1>2. /\ Ledger(a) /\ Owed(a) = Owed(t)
        /\ ~a.completed => a.prepaid = OpBytes /\ ~a.issuedRead /\ a.requested = 0
    BY EarlyLedger
  <1>3. /\ a.completed => OnOpen(t, ok, acc) = a
        /\ ~a.completed /\ ~ok => OnOpen(t, ok, acc) = Fail(a, "open")
        /\ ~a.completed /\ ok /\ a.timedOut => OnOpen(t, ok, acc) = SubmitClose(a, acc)
        /\ ~a.completed /\ ok /\ ~a.timedOut /\ acc => OnOpen(t, ok, acc) = sub
        /\ ~a.completed /\ ok /\ ~a.timedOut /\ ~acc
              => OnOpen(t, ok, acc) = Complete(r, "error")
    BY DEF OnOpen
  <1> HIDE DEF a
  <1>4. CASE a.completed
    BY <1>1, <1>2, <1>3, <1>4
  <1>5. CASE ~a.completed /\ ~ok
    <2>1. LET u == Fail(a, "open")
          IN  Ledger(u) /\ Owed(u) = Owed(a) /\ u.timedOut = a.timedOut
      BY <1>1, <1>2, <1>5, FailEarlyLedger
    <2> QED
      BY <1>1, <1>2, <1>3, <1>5, <2>1
  <1>6. CASE ~a.completed /\ ok /\ a.timedOut
    <2>1. Clear(a)
      BY <1>6 DEF Clear
    <2>2. LET u == SubmitClose(a, acc)
          IN  Ledger(u) /\ Owed(u) = Owed(a) /\ u.timedOut = a.timedOut
      BY <1>1, <1>2, <2>1, SubmitCloseLedger
    <2> QED
      BY <1>1, <1>2, <1>3, <1>6, <2>2
  <1>7. CASE ~a.completed /\ ok /\ ~a.timedOut
    <2>0. a \in Session
      BY <1>1
    <2>1. "stat" \in Ops /\ a.pend \in [Ops -> Nat]
      BY <2>0 DEF Ops, Session
    <2>2. /\ sub \in Session
          /\ sub = [a EXCEPT !.pend = sub.pend, !.deadline = sub.deadline]
          /\ acc => sub.pend = [a.pend EXCEPT !["stat"] = a.pend["stat"] + 1]
          /\ ~acc => sub.pend = a.pend
      BY ONLY <2>0, <2>1, acc \in BOOLEAN, SubmitFields, ZenonT(60) DEF sub
    <2> HIDE DEF sub
    <2>3. /\ SameBytes(sub, a) /\ sub.completed = a.completed
          /\ sub.timedOut = a.timedOut /\ sub.closeReq = a.closeReq
      BY <1>1, <2>2 DEF Session, SameBytes
    <2>4. sub.pend["read"] = 0
      BY <1>1, <2>1, <2>2 DEF Ops
    <2>5. Ledger(sub) /\ Owed(sub) = Owed(a)
      BY <1>1, <1>2, <1>7, <2>3, <2>4 DEF Ledger, SameBytes, Owed
    <2>6. CASE acc
      BY <1>1, <1>2, <1>3, <1>7, <2>3, <2>5, <2>6
    <2>7. CASE ~acc
      <3>1. sub.pend["open"] + sub.pend["stat"] = 0 /\ sub.requested = 0
        BY <1>1, <1>2, <1>7, <2>2, <2>3, <2>7 DEF SameBytes
      <3>2. r \in Session /\ Ledger(r) /\ Clear(r) /\ Owed(r) = Owed(sub)
            /\ r.timedOut = sub.timedOut
        BY <2>2, <2>5, <3>1, RefundClears
      <3> HIDE DEF r
      <3>3. /\ Ledger(Complete(r, "error")) /\ Owed(Complete(r, "error")) = Owed(r)
            /\ Complete(r, "error").timedOut = r.timedOut
        BY <3>2, CompleteLedger
      <3> QED
        BY <1>1, <1>2, <1>3, <1>7, <2>3, <2>5, <2>7, <3>2, <3>3
    <2> QED
      BY <2>6, <2>7
  <1> QED
    BY <1>4, <1>5, <1>6, <1>7

\* OnStat: the prepayment goes into the first Read or back to the bucket.
LEMMA OnStatLedger ==
    ASSUME Paced, NEW t, Sound(t), Ledger(t), t.pend["stat"] > 0,
           NEW ok \in BOOLEAN, NEW size \in Nat, NEW acc \in BOOLEAN
    PROVE  LET u == OnStat(t, ok, size, acc)
           IN  Ledger(u) /\ Owed(u) = Owed(t) /\ u.timedOut = t.timedOut
  <1> DEFINE a == Answered(t, "stat")
             b == Budget(size)
             x == [a EXCEPT !.remaining = b, !.budgetSet = TRUE]
             r == RefundPrepaid(a)
  <1>1. /\ a \in Session /\ a.completed = t.completed /\ a.timedOut = t.timedOut
        /\ a.closeReq = t.closeReq
        /\ Busy(a) = 0 /\ a.pend["open"] + a.pend["stat"] = 0 /\ a.pend["read"] = 0
        /\ t.closeReq => t.timedOut
    BY AnsweredFields DEF Ops
  <1>2. /\ Ledger(a) /\ Owed(a) = Owed(t)
        /\ ~a.completed => a.prepaid = OpBytes /\ ~a.issuedRead /\ a.requested = 0
    BY EarlyLedger
  <1>3. /\ a.completed => OnStat(t, ok, size, acc) = a
        /\ ~a.completed /\ ~ok => OnStat(t, ok, size, acc) = Fail(a, "stat")
        /\ ~a.completed /\ ok /\ BeyondEnd(size)
              => OnStat(t, ok, size, acc) = Complete(r, "error")
        /\ ~a.completed /\ ok /\ ~BeyondEnd(size)
              => OnStat(t, ok, size, acc) = IssueNext(x, acc)
    BY DEF OnStat
  <1> HIDE DEF a
  <1>4. CASE a.completed
    BY <1>1, <1>2, <1>3, <1>4
  <1>5. CASE ~a.completed /\ ~ok
    <2>1. LET u == Fail(a, "stat")
          IN  Ledger(u) /\ Owed(u) = Owed(a) /\ u.timedOut = a.timedOut
      BY <1>1, <1>2, <1>5, FailEarlyLedger
    <2> QED
      BY <1>1, <1>2, <1>3, <1>5, <2>1
  <1>6. CASE ~a.completed /\ ok /\ BeyondEnd(size)
    <2>1. r \in Session /\ Ledger(r) /\ Clear(r) /\ Owed(r) = Owed(a)
          /\ r.timedOut = a.timedOut
      BY <1>1, <1>2, <1>6, RefundClears
    <2> HIDE DEF r
    <2>2. /\ Ledger(Complete(r, "error")) /\ Owed(Complete(r, "error")) = Owed(r)
          /\ Complete(r, "error").timedOut = r.timedOut
      BY <2>1, CompleteLedger
    <2> QED
      BY <1>1, <1>2, <1>3, <1>6, <2>1, <2>2
  <1>7. CASE ~a.completed /\ ok /\ ~BeyondEnd(size)
    <2>1. b \in Nat
      BY <1>7, BudgetType
    <2> HIDE DEF b
    <2>2. /\ x \in Session /\ x.pend = a.pend /\ x.budgetSet
          /\ x.held = a.held /\ x.bytes = a.bytes /\ x.requested = a.requested
          /\ x.prepaid = a.prepaid /\ x.issuedRead = a.issuedRead
          /\ x.completed = a.completed /\ x.timedOut = a.timedOut
          /\ x.closeReq = a.closeReq
      BY <1>1, <2>1 DEF Session
    <2> HIDE DEF x
    <2>3. Ledger(x) /\ Owed(x) = Owed(a) /\ Busy(x) = 0
      BY <1>1, <1>2, <1>7, <2>2 DEF Ledger, Owed, Busy
    <2>4. OpBytes # 0
      BY SessionOptions
    <2>5. (x.closeReq => x.timedOut) /\ x.prepaid = OpBytes
      BY <1>1, <1>2, <1>7, <2>2
    <2>6. LET u == IssueNext(x, acc)
          IN  Ledger(u) /\ Owed(u) = Owed(x) /\ u.timedOut = x.timedOut
      BY <2>2, <2>3, <2>4, <2>5, IssueNextLedger
    <2> QED
      BY <1>1, <1>2, <1>3, <1>7, <2>2, <2>3, <2>6
  <1> QED
    BY <1>4, <1>5, <1>6, <1>7

\* A Read that returns turns what was asked for into bytes and a refund.
LEMMA ReadCountedLedger ==
    ASSUME Paced, NEW t, Sound(t), Ledger(t), t.pend["read"] > 0,
           NEW got \in Nat, got <= t.requested
    PROVE  LET c == ReadCounted(t, got)
           IN  /\ c \in Session /\ Ledger(c) /\ Owed(c) = Owed(t) /\ Busy(c) = 0
               /\ c.prepaid = 0 /\ c.requested = 0 /\ c.issuedRead /\ c.budgetSet
               /\ c.completed = t.completed /\ c.timedOut = t.timedOut
               /\ c.closeReq => c.timedOut
  <1> DEFINE a     == Answered(t, "read")
             short == t.requested - got
             h     == a.held - short
             left  == IF short > 0 THEN 0 ELSE a.remaining - got
             sum   == a.bytes + got
             v     == [a EXCEPT !.held = h]
             c     == [v EXCEPT !.bytes = sum, !.requested = 0, !.remaining = left]
  <1>1. /\ a \in Session /\ SameBytes(a, t) /\ a.completed = t.completed
        /\ a.timedOut = t.timedOut /\ a.closeReq = t.closeReq
        /\ Busy(a) = 0 /\ a.pend["open"] + a.pend["stat"] = 0 /\ a.pend["read"] = 0
        /\ t.closeReq => t.timedOut
    BY AnsweredFields DEF Ops
  <1>2. t.issuedRead /\ t.prepaid = 0 /\ t.budgetSet
    BY DEF Ledger
  <1>3. ReadCounted(t, got) \in Session
    BY ReadCountedSound DEF Sound
  <1> HIDE DEF a
  <1>4. /\ short \in Int /\ h \in Int /\ sum \in Int /\ a.held \in Int /\ a.bytes \in Int
        /\ t.requested \in Int
    <2>1. a.held \in Int /\ a.bytes \in Int
      BY <1>1 DEF Session
    <2>2. t.requested \in Int
      BY DEF Sound, Session
    <2> QED
      BY <2>1, <2>2
  <1>5. v.remaining = a.remaining /\ v.bytes = a.bytes
    BY <1>1 DEF Session
  <1>6. ReadCounted(t, got) = c
    BY <1>5 DEF ReadCounted, RefundBytes, a
  <1> HIDE DEF left
  <1>7. /\ c.held = h /\ c.bytes = sum /\ c.requested = 0 /\ c.pend = a.pend
        /\ c.prepaid = a.prepaid /\ c.issuedRead = a.issuedRead
        /\ c.budgetSet = a.budgetSet /\ c.completed = a.completed
        /\ c.timedOut = a.timedOut /\ c.closeReq = a.closeReq
    BY <1>1 DEF Session
  <1> HIDE DEF c
  <1>8. c.prepaid = 0 /\ c.issuedRead /\ c.budgetSet
    BY <1>1, <1>2, <1>7 DEF SameBytes
  <1>9. Owed(c) = Owed(t)
    <2>1. t.held = a.held /\ t.bytes = a.bytes
      BY <1>1 DEF SameBytes
    <2> QED
      BY <1>2, <1>4, <1>7, <1>8, <2>1 DEF Owed
  <1>10. Ledger(c) /\ Busy(c) = 0
    BY <1>1, <1>7, <1>8 DEF Ledger, Busy
  <1> QED
    BY <1>1, <1>3, <1>6, <1>7, <1>8, <1>9, <1>10

\* OnRead: the session is parked, or ends; no token is spent unseen.
LEMMA OnReadLedger ==
    ASSUME Paced, NEW t, Sound(t), Ledger(t), t.pend["read"] > 0, NEW ok \in BOOLEAN,
           NEW got \in Nat, got <= t.requested, NEW acc \in BOOLEAN
    PROVE  LET u == OnRead(t, ok, got, acc)
           IN  /\ Ledger(u) /\ Owed(u) = Owed(t) /\ u.timedOut = t.timedOut
               /\ Parks(t, ok, got) => u.issuedRead /\ ~u.completed
  <1> DEFINE a == Answered(t, "read")
             c == ReadCounted(t, got)
             q == [c EXCEPT !.deadline = "none"]
             f == Fail(a, "read")
  <1>1. /\ a \in Session /\ SameBytes(a, t) /\ a.completed = t.completed
        /\ a.timedOut = t.timedOut /\ a.closeReq = t.closeReq
        /\ a.pend["open"] + a.pend["stat"] = 0 /\ a.pend["read"] = 0
        /\ t.closeReq => t.timedOut
    BY AnsweredFields DEF Ops
  <1>2. t.issuedRead /\ t.prepaid = 0 /\ t.budgetSet
    BY DEF Ledger
  <1>3. /\ c \in Session /\ Ledger(c) /\ Owed(c) = Owed(t) /\ Busy(c) = 0
        /\ c.prepaid = 0 /\ c.requested = 0 /\ c.issuedRead /\ c.budgetSet
        /\ c.completed = t.completed /\ c.timedOut = t.timedOut
        /\ c.closeReq => c.timedOut
    BY ReadCountedLedger
  <1>4. Parks(t, ok, got) <=> ok /\ ~t.completed /\ c.remaining > 0
    BY DEF Parks
  <1>5. /\ a.completed => OnRead(t, ok, got, acc) = a
        /\ ~a.completed /\ ~ok => OnRead(t, ok, got, acc) = f
        /\ Parks(t, ok, got) => OnRead(t, ok, got, acc) = q
        /\ ~a.completed /\ ok /\ ~Parks(t, ok, got)
              => OnRead(t, ok, got, acc) = IssueNext(c, acc)
    BY <1>1, <1>4 DEF OnRead, Disarmed
  <1> HIDE DEF c
  <1>6. CASE a.completed
    <2>1. Ledger(a) /\ Owed(a) = Owed(t)
      BY <1>1, <1>2, <1>6 DEF Ledger, SameBytes, Owed
    <2> QED
      BY <1>1, <1>4, <1>5, <1>6, <2>1
  <1>7. CASE ~a.completed /\ ~ok
    <2> DEFINE n == a.requested
               h == a.held - n
               v == [a EXCEPT !.held = h]
               w == [v EXCEPT !.requested = 0]
    <2>1. f = Complete(w, "error")
      BY DEF Fail, RefundBytes
    <2>2. /\ h \in Int /\ n \in Int /\ a.held \in Int /\ a.bytes \in Int
      BY <1>1 DEF Session
    <2> HIDE DEF h, a, f
    <2>3. /\ w \in Session /\ w.held = h /\ w.bytes = a.bytes /\ w.requested = 0
          /\ w.prepaid = a.prepaid /\ w.issuedRead = a.issuedRead
          /\ w.budgetSet = a.budgetSet /\ w.pend = a.pend
          /\ w.timedOut = a.timedOut /\ w.closeReq = a.closeReq
      BY <1>1, <2>2 DEF Session
    <2> HIDE DEF w
    <2>4. w.prepaid = 0 /\ w.issuedRead /\ w.budgetSet
      BY <1>1, <1>2, <2>3 DEF SameBytes
    <2>5. Ledger(w) /\ Clear(w)
      BY <1>1, <2>3, <2>4 DEF Ledger, Clear
    <2>6. Owed(w) = Owed(t)
      <3>1. t.held = a.held /\ t.bytes = a.bytes /\ t.requested = n
        BY <1>1 DEF SameBytes
      <3> QED
        BY <1>2, <2>2, <2>3, <2>4, <3>1 DEF Owed, h
    <2>7. /\ Ledger(Complete(w, "error")) /\ Owed(Complete(w, "error")) = Owed(w)
          /\ Complete(w, "error").timedOut = w.timedOut
      BY <2>3, <2>5, CompleteLedger
    <2> QED
      BY <1>1, <1>4, <1>5, <1>7, <2>1, <2>3, <2>6, <2>7
  <1>8. CASE Parks(t, ok, got)
    <2>1. /\ SameBytes(q, c) /\ q.pend = c.pend /\ q.completed = c.completed
          /\ q.timedOut = c.timedOut /\ q.closeReq = c.closeReq
      BY <1>3 DEF Session, SameBytes
    <2> HIDE DEF q
    <2>2. Ledger(q) /\ Owed(q) = Owed(c) /\ q.issuedRead
      BY <1>3, <2>1, SameBytesKeep DEF SameBytes
    <2> QED
      BY <1>3, <1>4, <1>5, <1>8, <2>1, <2>2
  <1>9. CASE ~a.completed /\ ok /\ ~Parks(t, ok, got)
    <2>1. ~(c.remaining > 0)
      BY <1>1, <1>4, <1>9
    <2>2. LET u == IssueNext(c, acc)
          IN  Ledger(u) /\ Owed(u) = Owed(c) /\ u.timedOut = c.timedOut
      BY <1>3, <2>1, IssueNextLedger
    <2> QED
      BY <1>3, <1>5, <1>9, <2>2
  <1> QED
    BY <1>1, <1>6, <1>7, <1>8, <1>9

\* OnClose ends a session that had nothing left to return.
LEMMA OnCloseLedger ==
    ASSUME Paced, NEW t, Sound(t), Ledger(t), t.pend["close"] > 0, NEW ok \in BOOLEAN
    PROVE  LET u == OnClose(t, ok)
           IN  /\ Ledger(u) /\ Owed(u) = Owed(t) /\ u.timedOut = t.timedOut
               /\ u.issuedRead = t.issuedRead
  <1> DEFINE a == Answered(t, "close")
             r == RefundPrepaid(a)
  <1>0. "close" \in Ops /\ t \in Session
    BY DEF Ops, Sound
  <1>1. /\ a \in Session /\ SameBytes(a, t) /\ a.completed = t.completed
        /\ a.timedOut = t.timedOut /\ a.closeReq = t.closeReq
        /\ a.pend = [t.pend EXCEPT !["close"] = t.pend["close"] - 1]
    BY ONLY <1>0, Sound(t), t.pend["close"] > 0, AnsweredFields, ZenonT(60) DEF a
  <1>2. t.closeReq /\ Clear(t)
    BY DEF Sound, CloseSound, Ledger, Clear
  <1>3. /\ a.completed => OnClose(t, ok) = a
        /\ ~a.completed /\ a.timedOut => OnClose(t, ok) = Complete(a, "timeout")
        /\ ~a.completed /\ ~a.timedOut /\ ~ok => OnClose(t, ok) = Complete(r, "error")
        /\ ~a.completed /\ ~a.timedOut /\ ok => OnClose(t, ok) = Complete(a, "ok")
    BY DEF OnClose, Fail
  <1> HIDE DEF a
  <1>4. /\ a.pend["open"] = t.pend["open"] /\ a.pend["stat"] = t.pend["stat"]
        /\ a.pend["read"] = t.pend["read"]
    BY <1>0, <1>1 DEF Session, Ops
  <1>5. Ledger(a) /\ Clear(a) /\ Owed(a) = Owed(t)
    BY <1>1, <1>2, <1>4 DEF Ledger, Clear, SameBytes, Owed
  <1>6. ASSUME NEW x \in Session, Ledger(x), Clear(x), Owed(x) = Owed(t),
               x.timedOut = t.timedOut, x.issuedRead = t.issuedRead, NEW out
        PROVE  LET u == Complete(x, out)
               IN  /\ Ledger(u) /\ Owed(u) = Owed(t) /\ u.timedOut = t.timedOut
                   /\ u.issuedRead = t.issuedRead
    <2>1. Complete(x, out).issuedRead = x.issuedRead
      BY DEF Complete, Session
    <2>2. LET u == Complete(x, out)
          IN  Ledger(u) /\ Owed(u) = Owed(x) /\ u.timedOut = x.timedOut
      BY <1>6, CompleteLedger
    <2> QED
      BY <1>6, <2>1, <2>2
  <1>7. a.issuedRead = t.issuedRead
    BY <1>1 DEF SameBytes
  <1>8. CASE a.completed
    BY <1>1, <1>3, <1>5, <1>7, <1>8
  <1>9. CASE ~a.completed /\ (a.timedOut \/ ok)
    BY <1>1, <1>3, <1>5, <1>6, <1>7, <1>9
  <1>10. CASE ~a.completed /\ ~a.timedOut /\ ~ok
    <2>1. a.issuedRead => a.prepaid = 0
      BY <1>5 DEF Ledger
    <2>2. /\ r \in Session /\ r.prepaid = 0 /\ Owed(r) = Owed(a)
          /\ r.requested = a.requested /\ r.pend = a.pend
          /\ r.completed = a.completed /\ r.timedOut = a.timedOut
          /\ r.closeReq = a.closeReq /\ r.issuedRead = a.issuedRead
          /\ r.budgetSet = a.budgetSet
      BY <1>1, <2>1, RefundPrepaidLedger
    <2> HIDE DEF r
    <2>3. a.prepaid = 0
      BY <1>5, <1>10 DEF Clear
    <2>4. Ledger(r) /\ Clear(r)
      BY <1>5, <2>2, <2>3 DEF Ledger, Clear
    <2>5. Owed(r) = Owed(t) /\ r.timedOut = t.timedOut /\ r.issuedRead = t.issuedRead
      BY <1>1, <1>5, <1>7, <2>2
    <2>6. OnClose(t, ok) = Complete(r, "error")
      BY <1>3, <1>10
    <2> QED
      BY <1>6, <2>2, <2>4, <2>5, <2>6
  <1> QED
    BY <1>8, <1>9, <1>10

\* A Close leaves the rest of the session to itself.
LEMMA SubmitCloseFields ==
    ASSUME NEW t \in Session, NEW acc \in BOOLEAN
    PROVE  LET u == SubmitClose(t, acc)
           IN  u.issuedRead = t.issuedRead /\ u.remaining = t.remaining
  <1> DEFINE taken == CloseAccepted(t, acc)
             v   == Submit(t, "close", taken)
             sub == [v EXCEPT !.closeReq = TRUE]
             out == IF t.timedOut THEN "timeout" ELSE "error"
  <1>1. taken \in BOOLEAN /\ "close" \in Ops
    BY DEF CloseAccepted, Ops
  <1>2. \/ SubmitClose(t, acc) = t
        \/ SubmitClose(t, acc) = sub
        \/ SubmitClose(t, acc) = [sub EXCEPT !.closeReq = FALSE]
        \/ SubmitClose(t, acc) = Complete(sub, out)
    <2>1. Pending(t) \in Nat
      BY Counts
    <2> HIDE DEF sub, out
    <2>2. Pending(t) = 0 \/ Pending(t) > 0
      BY <2>1
    <2> QED
      BY <1>1, <2>2 DEF SubmitClose, sub, out
  <1> HIDE DEF taken
  <1>3. v \in Session /\ v = [t EXCEPT !.pend = v.pend, !.deadline = v.deadline]
    BY ONLY <1>1, t \in Session, SubmitFields, ZenonT(60) DEF v
  <1> HIDE DEF v, out
  <1>4. sub \in Session /\ sub.issuedRead = t.issuedRead /\ sub.remaining = t.remaining
    BY <1>3 DEF Session
  <1> HIDE DEF sub
  <1>5. /\ [sub EXCEPT !.closeReq = FALSE].issuedRead = t.issuedRead
        /\ [sub EXCEPT !.closeReq = FALSE].remaining = t.remaining
    BY <1>4 DEF Session
  <1>6. /\ Complete(sub, out).issuedRead = t.issuedRead
        /\ Complete(sub, out).remaining = t.remaining
    BY <1>4 DEF Complete, Session
  <1> QED
    BY <1>2, <1>4, <1>5, <1>6

\* The wall timeout takes nothing: a late refund or a late Read settles.
LEMMA RequestWallTimeoutLedger ==
    ASSUME NEW t \in Session, Ledger(t), NEW acc \in BOOLEAN
    PROVE  LET u == RequestWallTimeout(t, acc)
           IN  /\ Ledger(u) /\ Owed(u) = Owed(t)
               /\ u.issuedRead = t.issuedRead /\ u.remaining = t.remaining
               /\ u = t \/ u.timedOut
  <1> DEFINE x == [t EXCEPT !.timedOut = TRUE]
  <1>1. CASE t.completed \/ t.closeReq
    BY <1>1 DEF RequestWallTimeout
  <1>2. CASE ~t.completed /\ ~t.closeReq
    <2>1. RequestWallTimeout(t, acc) = SubmitClose(x, acc)
      BY <1>2 DEF RequestWallTimeout
    <2>2. /\ x \in Session /\ SameBytes(x, t) /\ x.pend = t.pend /\ x.timedOut
          /\ x.completed = t.completed /\ x.closeReq = t.closeReq
          /\ x.remaining = t.remaining
      BY DEF Session, SameBytes
    <2> HIDE DEF x
    <2>3. Ledger(x) /\ Clear(x) /\ Owed(x) = Owed(t) /\ x.issuedRead = t.issuedRead
      BY <2>2 DEF Ledger, Clear, SameBytes, Owed
    <2>4. LET u == SubmitClose(x, acc)
          IN  Ledger(u) /\ Owed(u) = Owed(x) /\ u.timedOut = x.timedOut
      BY <2>2, <2>3, SubmitCloseLedger
    <2>5. LET u == SubmitClose(x, acc)
          IN  u.issuedRead = x.issuedRead /\ u.remaining = x.remaining
      BY <2>2, SubmitCloseFields
    <2> QED
      BY <2>1, <2>2, <2>3, <2>4, <2>5
  <1> QED
    BY <1>1, <1>2

\* The owner closes a parked session, which had its first Read.
LEMMA CloseNowLedger ==
    ASSUME NEW t \in Session, Ledger(t), t.issuedRead, Busy(t) = 0, NEW acc \in BOOLEAN
    PROVE  LET u == CloseNow(t, acc)
           IN  Ledger(u) /\ Owed(u) = Owed(t) /\ u.timedOut = t.timedOut
  <1> DEFINE x == [t EXCEPT !.remaining = 0]
  <1>1. CASE t.completed
    BY <1>1 DEF CloseNow
  <1>2. CASE ~t.completed
    <2>1. CloseNow(t, acc) = SubmitClose(x, acc)
      BY <1>2 DEF CloseNow
    <2>2. /\ x \in Session /\ SameBytes(x, t) /\ x.pend = t.pend
          /\ x.completed = t.completed /\ x.timedOut = t.timedOut
          /\ x.closeReq = t.closeReq
      BY DEF Session, SameBytes
    <2> HIDE DEF x
    <2>3. t.pend["read"] = 0
      <3>1. /\ t.pend["open"] \in Nat /\ t.pend["stat"] \in Nat /\ t.pend["read"] \in Nat
        BY Counts DEF Ops
      <3> QED
        BY <3>1 DEF Busy
    <2>4. Clear(t)
      BY <1>2, <2>3 DEF Ledger, Clear
    <2>5. Ledger(x) /\ Clear(x) /\ Owed(x) = Owed(t)
      BY <2>2, <2>4, SameBytesKeep
    <2>6. LET u == SubmitClose(x, acc)
          IN  Ledger(u) /\ Owed(u) = Owed(x) /\ u.timedOut = x.timedOut
      BY <2>2, <2>5, SubmitCloseLedger
    <2> QED
      BY <2>1, <2>2, <2>5, <2>6
  <1> QED
    BY <1>1, <1>2

\* A session starts with its prepayment, and owes nothing.
LEMMA StartLedger ==
    ASSUME Paced, NEW acc \in BOOLEAN
    PROVE  Ledger(Start(Blank, OpBytes, acc)) /\ Owed(Start(Blank, OpBytes, acc)) = 0
  <1> DEFINE v   == Submit(Blank, "open", acc)
             sub == [v EXCEPT !.keep = TRUE, !.prepaid = OpBytes, !.held = OpBytes]
             r   == RefundPrepaid(sub)
  <1>1. "open" \in Ops /\ OpBytes \in Nat
    BY SessionOptions DEF Ops
  <1>2. /\ Blank \in Session /\ Blank.pend = [o \in Ops |-> 0]
        /\ Blank.completed = FALSE /\ Blank.closeReq = FALSE
        /\ Blank.requested = 0 /\ Blank.bytes = 0 /\ Blank.issuedRead = FALSE
    BY DEF Blank, Session, Outcomes
  <1>3. /\ v \in Session
        /\ v = [Blank EXCEPT !.pend = v.pend, !.deadline = v.deadline]
        /\ acc => v.pend = [Blank.pend EXCEPT !["open"] = Blank.pend["open"] + 1]
        /\ ~acc => v.pend = Blank.pend
    BY ONLY <1>1, <1>2, acc \in BOOLEAN, SubmitFields, ZenonT(60) DEF v
  <1>4. /\ acc => Start(Blank, OpBytes, acc) = sub
        /\ ~acc => Start(Blank, OpBytes, acc) = Complete(r, "error")
    BY DEF Start
  <1> HIDE DEF v
  <1>10. /\ v.completed = FALSE /\ v.closeReq = FALSE /\ v.requested = 0
         /\ v.bytes = 0 /\ v.issuedRead = FALSE
    BY <1>2, <1>3 DEF Session
  <1>11. OpBytes \in Int
    BY <1>1
  <1>5. /\ sub \in Session /\ sub.pend = v.pend
        /\ sub.completed = FALSE /\ sub.closeReq = FALSE
        /\ sub.requested = 0 /\ sub.bytes = 0 /\ sub.issuedRead = FALSE
        /\ sub.prepaid = OpBytes /\ sub.held = OpBytes
    BY <1>1, <1>3, <1>10, <1>11 DEF Session
  <1> HIDE DEF sub
  <1>6. sub.pend["read"] = 0 /\ sub.pend["stat"] = 0
    BY <1>2, <1>3, <1>5 DEF Ops
  <1>7. Ledger(sub) /\ Owed(sub) = 0
    BY <1>1, <1>5, <1>6 DEF Ledger, Owed
  <1>8. CASE acc
    BY <1>4, <1>7, <1>8
  <1>9. CASE ~acc
    <2>1. sub.pend["open"] + sub.pend["stat"] = 0
      BY <1>2, <1>3, <1>5, <1>9 DEF Ops
    <2>2. r \in Session /\ Ledger(r) /\ Clear(r) /\ Owed(r) = Owed(sub)
      BY <1>5, <1>7, <2>1, RefundClears
    <2> HIDE DEF r
    <2>3. Ledger(Complete(r, "error")) /\ Owed(Complete(r, "error")) = Owed(r)
      BY <2>2, CompleteLedger
    <2> QED
      BY <1>4, <1>7, <1>9, <2>2, <2>3
  <1> QED
    BY <1>8, <1>9

-----------------------------------------------------------------------------
(* What an outcome leaves behind.  The ledger above says it of a session     *)
(* that never expired; this says it of every one.                            *)

\* At most one op is in a session's prepayment or its request, and none once
\* it has reported anything but a timeout.
Tidy(t) ==
    /\ t.requested <= OpBytes /\ t.prepaid <= OpBytes
    /\ t.requested = 0 \/ t.prepaid = 0
    /\ t.completed /\ t.result # "timeout" => t.prepaid = 0 /\ t.requested = 0

\* Neither is left, and a timeout is all there is to report.
Empty(t) ==
    /\ t.requested = 0 /\ t.prepaid = 0
    /\ t.completed => t.result = "timeout"

\* The two depend on a few fields only.
LEMMA TidyKeep ==
    ASSUME NEW t, NEW u, u.requested = t.requested, u.prepaid = t.prepaid,
           u.completed = t.completed, u.result = t.result
    PROVE  (Tidy(t) => Tidy(u)) /\ (Empty(t) => Empty(u))
  BY DEF Tidy, Empty

\* An outcome other than a timeout finds nothing left.
LEMMA CompleteTidy ==
    ASSUME NEW t \in Session, Tidy(t), NEW r,
           r = "timeout" \/ (t.prepaid = 0 /\ t.requested = 0)
    PROVE  Tidy(Complete(t, r)) /\ (Empty(t) /\ r = "timeout" => Empty(Complete(t, r)))
  <1>1. CASE t.completed
    BY <1>1 DEF Complete
  <1>2. CASE ~t.completed
    <2> DEFINE d == t.dones + 1
               u == [t EXCEPT !.completed = TRUE, !.result = r, !.dones = d]
    <2>1. Complete(t, r) = u
      BY <1>2 DEF Complete
    <2> HIDE DEF d
    <2>2. u.requested = t.requested /\ u.prepaid = t.prepaid /\ u.completed /\ u.result = r
      BY DEF Session
    <2> HIDE DEF u
    <2> QED
      BY <2>1, <2>2 DEF Tidy, Empty
  <1> QED
    BY <1>1, <1>2

\* A refused Close of an expired session reports the timeout.
LEMMA SubmitCloseTidy ==
    ASSUME NEW t \in Session, Tidy(t), Clear(t), NEW acc \in BOOLEAN
    PROVE  LET u == SubmitClose(t, acc)
           IN  Tidy(u) /\ (Empty(t) /\ t.timedOut => Empty(u))
  <1> DEFINE taken == CloseAccepted(t, acc)
             v   == Submit(t, "close", taken)
             sub == [v EXCEPT !.closeReq = TRUE]
             back == [sub EXCEPT !.closeReq = FALSE]
             out == IF t.timedOut THEN "timeout" ELSE "error"
  <1>1. taken \in BOOLEAN /\ "close" \in Ops
    BY DEF CloseAccepted, Ops
  <1>2. \/ SubmitClose(t, acc) = t
        \/ SubmitClose(t, acc) = sub
        \/ SubmitClose(t, acc) = back
        \/ SubmitClose(t, acc) = Complete(sub, out)
    <2>1. Pending(t) \in Nat
      BY Counts
    <2> HIDE DEF sub, out
    <2>2. Pending(t) = 0 \/ Pending(t) > 0
      BY <2>1
    <2> QED
      BY <1>1, <2>2 DEF SubmitClose, sub, out
  <1> HIDE DEF taken
  <1>3. v \in Session /\ v = [t EXCEPT !.pend = v.pend, !.deadline = v.deadline]
    BY ONLY <1>1, t \in Session, SubmitFields, ZenonT(60) DEF v
  <1> HIDE DEF v
  <1>4. /\ sub \in Session /\ sub.requested = t.requested /\ sub.prepaid = t.prepaid
        /\ sub.completed = t.completed /\ sub.result = t.result
    BY <1>3 DEF Session
  <1> HIDE DEF sub
  <1>5. /\ back.requested = t.requested /\ back.prepaid = t.prepaid
        /\ back.completed = t.completed /\ back.result = t.result
    BY <1>4 DEF Session
  <1> HIDE DEF back
  <1>6. Tidy(sub) /\ (Empty(t) => Empty(sub)) /\ Tidy(back) /\ (Empty(t) => Empty(back))
    BY <1>4, <1>5, TidyKeep
  <1>7. out = "timeout" \/ (sub.prepaid = 0 /\ sub.requested = 0)
    BY <1>4 DEF Clear
  <1>8. Tidy(Complete(sub, out))
        /\ (Empty(sub) /\ out = "timeout" => Empty(Complete(sub, out)))
    <2> HIDE DEF out
    <2> QED
      BY <1>4, <1>6, <1>7, CompleteTidy
  <1> QED
    BY <1>2, <1>6, <1>8

\* The prepayment returned, nothing is left to return.
LEMMA RefundTidy ==
    ASSUME Paced, NEW t \in Session, ~t.completed, t.requested = 0,
           t.issuedRead => t.prepaid = 0
    PROVE  LET r == RefundPrepaid(t)
           IN  /\ r \in Session /\ Tidy(r) /\ Clear(r) /\ Empty(r)
               /\ r.timedOut = t.timedOut /\ Tidy(Complete(r, "error"))
  <1> DEFINE r == RefundPrepaid(t)
  <1>1. /\ r \in Session /\ r.prepaid = 0 /\ r.requested = 0
        /\ r.completed = FALSE /\ r.timedOut = t.timedOut
    <2>1. t.completed = FALSE
      BY DEF Session
    <2> QED
      BY <2>1, RefundPrepaidLedger
  <1> HIDE DEF r
  <1>2. OpBytes \in Nat
    BY SessionOptions
  <1>3. Tidy(r) /\ Clear(r) /\ Empty(r)
    BY <1>1, <1>2 DEF Tidy, Clear, Empty
  <1>4. Tidy(Complete(r, "error"))
    BY <1>1, <1>3, CompleteTidy
  <1> QED
    BY <1>1, <1>3, <1>4 DEF r

\* IssueNext: an expired session's Close, or a Read of one op.
LEMMA IssueNextTidy ==
    ASSUME Paced, NEW t \in Session, Tidy(t), NEW acc \in BOOLEAN,
           t.completed \/ t.requested = 0, t.issuedRead => t.prepaid = 0
    PROVE  LET u == IssueNext(t, acc)
           IN  Tidy(u) /\ (Empty(t) /\ t.timedOut => Empty(u))
  <1> DEFINE z == [t EXCEPT !.remaining = 0]
             u == IssueNext(t, acc)
  <1> SUFFICES Tidy(u) /\ (Empty(t) /\ t.timedOut => Empty(u))
    OBVIOUS
  <1>1. CASE t.completed
    BY <1>1 DEF IssueNext
  <1>2. ASSUME ~t.completed, NEW x \in Session, ~x.completed, x.requested = 0,
               x.issuedRead => x.prepaid = 0, x.timedOut = t.timedOut,
               u = SubmitClose(RefundPrepaid(x), acc)
        PROVE  Tidy(u) /\ (Empty(t) /\ t.timedOut => Empty(u))
    <2> DEFINE r == RefundPrepaid(x)
    <2>1. /\ r \in Session /\ Tidy(r) /\ Clear(r) /\ Empty(r)
          /\ r.timedOut = x.timedOut
      BY <1>2, RefundTidy
    <2> HIDE DEF r
    <2>2. /\ Tidy(SubmitClose(r, acc))
          /\ Empty(r) /\ r.timedOut => Empty(SubmitClose(r, acc))
      BY <2>1, SubmitCloseTidy
    <2>3. u = SubmitClose(r, acc)
      BY <1>2 DEF r
    <2> HIDE DEF u
    <2> QED
      BY <1>2, <2>1, <2>2, <2>3
  <1>3. CASE ~t.completed /\ t.timedOut
    <2>1. /\ z \in Session /\ z.completed = t.completed /\ z.requested = t.requested
          /\ z.issuedRead = t.issuedRead /\ z.prepaid = t.prepaid
          /\ z.timedOut = t.timedOut /\ z.remaining = 0
      BY DEF Session
    <2>2. u = SubmitClose(RefundPrepaid(z), acc)
      BY <1>3, <2>1 DEF IssueNext
    <2> HIDE DEF z, u
    <2> QED
      BY <1>2, <1>3, <2>1, <2>2
  <1>4. CASE ~t.completed /\ ~t.timedOut /\ t.remaining = 0
    <2>1. u = SubmitClose(RefundPrepaid(t), acc)
      BY <1>4 DEF IssueNext
    <2> HIDE DEF u
    <2> QED
      BY <1>2, <1>4, <2>1
  <1>5. CASE ~t.completed /\ ~t.timedOut /\ t.remaining # 0
    <2> DEFINE n    == Least(OpBytes, t.remaining)
               over == IF t.prepaid > n THEN t.prepaid - n ELSE 0
               v    == Submit(t, "read", acc)
               w    == RefundBytes(v, over)
               sub  == [w EXCEPT !.requested = n, !.prepaid = 0, !.issuedRead = TRUE]
               b    == RefundBytes(sub, n)
               c    == [b EXCEPT !.requested = 0]
    <2>1. "read" \in Ops
      BY DEF Ops
    <2>2. OpBytes \in Nat /\ n \in Int /\ n \in Nat /\ n <= OpBytes /\ over \in Int
      <3>1. OpBytes \in Nat /\ t.remaining \in Nat /\ t.prepaid \in Nat
        BY SessionOptions DEF Session
      <3>2. n \in Nat /\ n <= OpBytes
        BY <3>1 DEF Least
      <3> HIDE DEF n
      <3> QED
        BY <3>1, <3>2
    <2>3. u = IF acc THEN sub ELSE Complete(c, "error")
      BY <1>5 DEF IssueNext, SubmitRead
    <2> HIDE DEF u, n, over
    <2>4. v \in Session /\ v = [t EXCEPT !.pend = v.pend, !.deadline = v.deadline]
      BY ONLY <2>1, t \in Session, acc \in BOOLEAN, SubmitFields, ZenonT(60) DEF v
    <2> HIDE DEF v
    <2>5. w \in Session /\ w = [v EXCEPT !.held = w.held]
      BY <2>2, <2>4, RefundBytesFields
    <2> HIDE DEF w
    <2>6. w.completed = FALSE
      BY <1>5, <2>4, <2>5 DEF Session
    <2>7. /\ sub \in Session /\ sub.requested = n /\ sub.prepaid = 0
          /\ sub.completed = FALSE
      BY <2>2, <2>5, <2>6 DEF Session
    <2> HIDE DEF sub
    <2>8. Tidy(sub)
      BY <2>2, <2>7 DEF Tidy
    <2>9. b \in Session /\ b = [sub EXCEPT !.held = b.held]
      BY <2>2, <2>7, RefundBytesFields
    <2> HIDE DEF b
    <2>10. b.prepaid = 0 /\ b.completed = FALSE
      BY <2>7, <2>9 DEF Session
    <2>11. c \in Session /\ c.requested = 0 /\ c.prepaid = 0 /\ c.completed = FALSE
      BY <2>9, <2>10 DEF Session
    <2> HIDE DEF c
    <2>12. Tidy(c)
      BY <2>2, <2>11 DEF Tidy
    <2>13. Tidy(Complete(c, "error"))
      BY <2>11, <2>12, CompleteTidy
    <2> QED
      BY <1>5, <2>3, <2>8, <2>13
  <1> QED
    BY <1>1, <1>3, <1>4, <1>5

\* Striking off an answered operation touches neither.
LEMMA AnsweredTidy ==
    ASSUME NEW t, Sound(t), NEW op \in Ops, t.pend[op] > 0
    PROVE  LET a == Answered(t, op)
           IN  /\ a \in Session /\ (Tidy(t) => Tidy(a)) /\ (Empty(t) => Empty(a))
               /\ a.completed = t.completed /\ a.timedOut = t.timedOut
  <1> DEFINE a == Answered(t, op)
  <1>1. Sound(a) /\ a = [t EXCEPT !.pend = a.pend]
    BY ONLY Sound(t), op \in Ops, t.pend[op] > 0, AnsweredSound, ZenonT(60) DEF a
  <1> HIDE DEF a
  <1>2. /\ a \in Session /\ a.requested = t.requested /\ a.prepaid = t.prepaid
        /\ a.completed = t.completed /\ a.result = t.result /\ a.timedOut = t.timedOut
    BY <1>1 DEF Sound, Session
  <1>3. (Tidy(t) => Tidy(a)) /\ (Empty(t) => Empty(a))
    BY <1>2, TidyKeep
  <1> QED
    BY <1>2, <1>3 DEF a

\* A session whose Open is answered.
LEMMA OnOpenTidy ==
    ASSUME Paced, NEW t, Sound(t), Ledger(t), Tidy(t), t.pend["open"] > 0,
           NEW ok \in BOOLEAN, NEW acc \in BOOLEAN
    PROVE  Tidy(OnOpen(t, ok, acc))
  <1> DEFINE a   == Answered(t, "open")
             sub == Submit(a, "stat", acc)
  <1>1. a \in Session /\ Tidy(a)
    <2>1. "open" \in Ops
      BY DEF Ops
    <2> QED
      BY ONLY <2>1, Sound(t), Tidy(t), t.pend["open"] > 0, AnsweredTidy, ZenonT(60) DEF a
  <1>2. ~a.completed => ~a.issuedRead /\ a.requested = 0
    BY EarlyLedger
  <1>3. /\ a.completed => OnOpen(t, ok, acc) = a
        /\ ~a.completed /\ ~ok => OnOpen(t, ok, acc) = Complete(RefundPrepaid(a), "error")
        /\ ~a.completed /\ ok /\ a.timedOut => OnOpen(t, ok, acc) = SubmitClose(a, acc)
        /\ ~a.completed /\ ok /\ ~a.timedOut /\ acc => OnOpen(t, ok, acc) = sub
        /\ ~a.completed /\ ok /\ ~a.timedOut /\ ~acc
              => OnOpen(t, ok, acc) = Complete(RefundPrepaid(sub), "error")
    BY DEF OnOpen, Fail
  <1> HIDE DEF a
  <1>4. CASE ~a.completed /\ ~ok
    BY <1>1, <1>2, <1>3, <1>4, RefundTidy
  <1>5. CASE ~a.completed /\ ok /\ a.timedOut
    <2>1. Clear(a)
      BY <1>5 DEF Clear
    <2> QED
      BY <1>1, <1>3, <1>5, <2>1, SubmitCloseTidy
  <1>6. CASE ~a.completed /\ ok /\ ~a.timedOut
    <2>1. "stat" \in Ops
      BY DEF Ops
    <2>2. sub \in Session /\ sub = [a EXCEPT !.pend = sub.pend, !.deadline = sub.deadline]
      BY ONLY <1>1, <2>1, acc \in BOOLEAN, SubmitFields, ZenonT(60) DEF sub
    <2> HIDE DEF sub
    <2>3. /\ sub.requested = a.requested /\ sub.prepaid = a.prepaid
          /\ sub.completed = a.completed /\ sub.result = a.result
          /\ sub.issuedRead = a.issuedRead
      BY <1>1, <2>2 DEF Session
    <2>4. Tidy(sub)
      BY <1>1, <2>3, TidyKeep
    <2>5. Tidy(Complete(RefundPrepaid(sub), "error"))
      BY <1>2, <1>6, <2>2, <2>3, RefundTidy
    <2> QED
      BY <1>3, <1>6, <2>4, <2>5
  <1> QED
    BY <1>1, <1>3, <1>4, <1>5, <1>6

\* A session whose Stat is answered.
LEMMA OnStatTidy ==
    ASSUME Paced, NEW t, Sound(t), Ledger(t), Tidy(t), t.pend["stat"] > 0,
           NEW ok \in BOOLEAN, NEW size \in Nat, NEW acc \in BOOLEAN
    PROVE  Tidy(OnStat(t, ok, size, acc))
  <1> DEFINE a == Answered(t, "stat")
             b == Budget(size)
             x == [a EXCEPT !.remaining = b, !.budgetSet = TRUE]
  <1>1. a \in Session /\ Tidy(a)
    <2>1. "stat" \in Ops
      BY DEF Ops
    <2> QED
      BY ONLY <2>1, Sound(t), Tidy(t), t.pend["stat"] > 0, AnsweredTidy, ZenonT(60) DEF a
  <1>2. ~a.completed => ~a.issuedRead /\ a.requested = 0
    BY EarlyLedger
  <1>3. /\ a.completed => OnStat(t, ok, size, acc) = a
        /\ ~a.completed /\ (~ok \/ BeyondEnd(size))
              => OnStat(t, ok, size, acc) = Complete(RefundPrepaid(a), "error")
        /\ ~a.completed /\ ok /\ ~BeyondEnd(size)
              => OnStat(t, ok, size, acc) = IssueNext(x, acc)
    <2> HIDE DEF x
    <2> QED
      BY DEF OnStat, Fail, x
  <1> HIDE DEF a
  <1>4. CASE ~a.completed /\ (~ok \/ BeyondEnd(size))
    BY <1>1, <1>2, <1>3, <1>4, RefundTidy
  <1>5. CASE ~a.completed /\ ok /\ ~BeyondEnd(size)
    <2>1. b \in Nat
      BY <1>5, BudgetType
    <2> HIDE DEF b
    <2>2. /\ x \in Session /\ x.requested = a.requested /\ x.prepaid = a.prepaid
          /\ x.completed = a.completed /\ x.result = a.result
          /\ x.issuedRead = a.issuedRead
      BY <1>1, <2>1 DEF Session
    <2> HIDE DEF x
    <2>3. Tidy(x)
      BY <1>1, <2>2, TidyKeep
    <2>4. Tidy(IssueNext(x, acc))
      BY <1>2, <1>5, <2>2, <2>3, IssueNextTidy
    <2> QED
      BY <1>3, <1>5, <2>4
  <1> QED
    BY <1>1, <1>3, <1>4, <1>5

\* A session whose Read is answered: parked, it has spent what it asked for.
LEMMA OnReadTidy ==
    ASSUME Paced, NEW t, Sound(t), Ledger(t), Tidy(t), t.pend["read"] > 0,
           NEW ok \in BOOLEAN, NEW got \in Nat, got <= t.requested, NEW acc \in BOOLEAN
    PROVE  LET u == OnRead(t, ok, got, acc)
           IN  Tidy(u) /\ (Parks(t, ok, got) => Empty(u))
  <1> DEFINE a == Answered(t, "read")
             c == ReadCounted(t, got)
             q == [c EXCEPT !.deadline = "none"]
             f == Fail(a, "read")
  <1>0. "read" \in Ops
    BY DEF Ops
  <1>1. a \in Session /\ Tidy(a) /\ a.completed = t.completed
    BY ONLY <1>0, Sound(t), Tidy(t), t.pend["read"] > 0, AnsweredTidy, ZenonT(60) DEF a
  <1>2. a.prepaid = 0
    <2>1. SameBytes(a, t)
      BY ONLY <1>0, Sound(t), t.pend["read"] > 0, AnsweredFields, ZenonT(60) DEF a
    <2> HIDE DEF a
    <2> QED
      BY <2>1 DEF SameBytes, Ledger
  <1>3. /\ c \in Session /\ c.prepaid = 0 /\ c.requested = 0
        /\ c.completed = t.completed
    BY ReadCountedLedger
  <1>4. OpBytes \in Nat
    BY SessionOptions
  <1>5. Parks(t, ok, got) => ok /\ ~t.completed
    BY DEF Parks
  <1>6. /\ a.completed => OnRead(t, ok, got, acc) = a
        /\ ~a.completed /\ ~ok => OnRead(t, ok, got, acc) = f
        /\ Parks(t, ok, got) => OnRead(t, ok, got, acc) = q
        /\ ~a.completed /\ ok /\ ~Parks(t, ok, got)
              => OnRead(t, ok, got, acc) = IssueNext(c, acc)
    BY <1>1, <1>5 DEF OnRead, Disarmed
  <1> HIDE DEF c
  <1>7. CASE ~a.completed /\ ~ok
    <2> DEFINE n == a.requested
               v == RefundBytes(a, n)
               w == [v EXCEPT !.requested = 0]
    <2>1. f = Complete(w, "error")
      BY DEF Fail
    <2> HIDE DEF a, f
    <2>2. n \in Int
      BY <1>1 DEF Session
    <2> HIDE DEF n
    <2>3. v \in Session /\ v = [a EXCEPT !.held = v.held]
      BY <1>1, <2>2, RefundBytesFields
    <2> HIDE DEF v
    <2>4. v.prepaid = 0 /\ v.completed = FALSE
      BY <1>1, <1>2, <1>7, <2>3 DEF Session
    <2>5. w \in Session /\ w.requested = 0 /\ w.prepaid = 0 /\ w.completed = FALSE
      BY <2>3, <2>4 DEF Session
    <2> HIDE DEF w
    <2>6. Tidy(w)
      BY <1>4, <2>5 DEF Tidy
    <2>7. Tidy(Complete(w, "error"))
      BY <2>5, <2>6, CompleteTidy
    <2> QED
      BY <1>5, <1>6, <1>7, <2>1, <2>7
  <1> HIDE DEF a, f
  <1>8. CASE Parks(t, ok, got)
    <2>1. /\ q.requested = 0 /\ q.prepaid = 0 /\ q.completed = c.completed
      BY <1>3 DEF Session
    <2> HIDE DEF q
    <2>2. Tidy(q) /\ Empty(q)
      BY <1>3, <1>4, <1>5, <1>8, <2>1 DEF Tidy, Empty
    <2> QED
      BY <1>6, <1>8, <2>2
  <1>9. CASE ~a.completed /\ ok /\ ~Parks(t, ok, got)
    <2>1. Tidy(c)
      BY <1>3, <1>4 DEF Tidy
    <2>2. Tidy(IssueNext(c, acc))
      BY <1>3, <2>1, IssueNextTidy
    <2> QED
      BY <1>6, <1>9, <2>2
  <1> QED
    BY <1>1, <1>5, <1>6, <1>7, <1>8, <1>9

\* A session whose Close is answered.
LEMMA OnCloseTidy ==
    ASSUME Paced, NEW t, Sound(t), Ledger(t), Tidy(t), t.pend["close"] > 0,
           NEW ok \in BOOLEAN
    PROVE  LET u == OnClose(t, ok)
           IN  Tidy(u) /\ (Empty(t) /\ t.timedOut => Empty(u))
  <1> DEFINE a == Answered(t, "close")
             r == RefundPrepaid(a)
  <1>0. "close" \in Ops
    BY DEF Ops
  <1>1. /\ a \in Session /\ Tidy(a) /\ (Empty(t) => Empty(a))
        /\ a.completed = t.completed /\ a.timedOut = t.timedOut
    BY ONLY <1>0, Sound(t), Tidy(t), t.pend["close"] > 0, AnsweredTidy, ZenonT(60) DEF a
  <1>2. SameBytes(a, t)
    BY ONLY <1>0, Sound(t), t.pend["close"] > 0, AnsweredFields, ZenonT(60) DEF a
  <1>3. /\ a.completed => OnClose(t, ok) = a
        /\ ~a.completed /\ a.timedOut => OnClose(t, ok) = Complete(a, "timeout")
        /\ ~a.completed /\ ~a.timedOut /\ ~ok => OnClose(t, ok) = Complete(r, "error")
        /\ ~a.completed /\ ~a.timedOut /\ ok => OnClose(t, ok) = Complete(a, "ok")
    BY DEF OnClose, Fail
  <1> HIDE DEF a
  <1>4. ~a.timedOut => a.prepaid = 0 /\ a.requested = 0
    <2>1. t.closeReq
      BY DEF Sound, CloseSound
    <2> QED
      BY <1>1, <1>2, <2>1 DEF Ledger, SameBytes
  <1>5. CASE ~a.completed /\ a.timedOut
    BY <1>1, <1>3, <1>5, CompleteTidy
  <1>6. CASE ~a.completed /\ ~a.timedOut /\ ~ok
    BY <1>1, <1>3, <1>4, <1>6, RefundTidy
  <1>7. CASE ~a.completed /\ ~a.timedOut /\ ok
    <2>1. Tidy(Complete(a, "ok"))
      BY <1>1, <1>4, <1>7, CompleteTidy
    <2> QED
      BY <1>1, <1>3, <1>7, <2>1
  <1> QED
    BY <1>1, <1>3, <1>5, <1>6, <1>7

\* The wall timeout reports nothing but itself.
LEMMA RequestWallTimeoutTidy ==
    ASSUME NEW t \in Session, Tidy(t), NEW acc \in BOOLEAN
    PROVE  LET u == RequestWallTimeout(t, acc)
           IN  Tidy(u) /\ (Empty(t) => Empty(u))
  <1> DEFINE x == [t EXCEPT !.timedOut = TRUE]
  <1>1. CASE t.completed \/ t.closeReq
    BY <1>1 DEF RequestWallTimeout
  <1>2. CASE ~t.completed /\ ~t.closeReq
    <2>1. RequestWallTimeout(t, acc) = SubmitClose(x, acc)
      BY <1>2 DEF RequestWallTimeout
    <2>2. /\ x \in Session /\ x.requested = t.requested /\ x.prepaid = t.prepaid
          /\ x.completed = t.completed /\ x.result = t.result /\ x.timedOut
      BY DEF Session
    <2> HIDE DEF x
    <2>3. Tidy(x) /\ (Empty(t) => Empty(x)) /\ Clear(x)
      BY <2>2, TidyKeep DEF Clear
    <2> QED
      BY <2>1, <2>2, <2>3, SubmitCloseTidy
  <1> QED
    BY <1>1, <1>2

\* The owner closes a parked session.
LEMMA CloseNowTidy ==
    ASSUME NEW t \in Session, Tidy(t), Empty(t), NEW acc \in BOOLEAN
    PROVE  Tidy(CloseNow(t, acc))
  <1> DEFINE x == [t EXCEPT !.remaining = 0]
  <1>1. CASE t.completed
    BY <1>1 DEF CloseNow
  <1>2. CASE ~t.completed
    <2>1. CloseNow(t, acc) = SubmitClose(x, acc)
      BY <1>2 DEF CloseNow
    <2>2. /\ x \in Session /\ x.requested = t.requested /\ x.prepaid = t.prepaid
          /\ x.completed = t.completed /\ x.result = t.result
      BY DEF Session
    <2> HIDE DEF x
    <2>3. Tidy(x) /\ Clear(x)
      BY <2>2, TidyKeep DEF Clear, Empty
    <2> QED
      BY <2>1, <2>2, <2>3, SubmitCloseTidy
  <1> QED
    BY <1>1, <1>2

\* A session starts with one op prepaid.
LEMMA StartTidy ==
    ASSUME Paced, NEW acc \in BOOLEAN
    PROVE  Tidy(Start(Blank, OpBytes, acc))
  <1> DEFINE v   == Submit(Blank, "open", acc)
             sub == [v EXCEPT !.keep = TRUE, !.prepaid = OpBytes, !.held = OpBytes]
  <1>1. "open" \in Ops /\ OpBytes \in Nat
    BY SessionOptions DEF Ops
  <1>2. /\ Blank \in Session /\ Blank.completed = FALSE
        /\ Blank.requested = 0 /\ Blank.issuedRead = FALSE
    BY DEF Blank, Session, Outcomes
  <1>3. /\ v \in Session
        /\ v = [Blank EXCEPT !.pend = v.pend, !.deadline = v.deadline]
    BY ONLY <1>1, <1>2, acc \in BOOLEAN, SubmitFields, ZenonT(60) DEF v
  <1>4. Start(Blank, OpBytes, acc)
            = IF acc THEN sub ELSE Complete(RefundPrepaid(sub), "error")
    BY DEF Start
  <1> HIDE DEF v
  <1>5. v.completed = FALSE /\ v.requested = 0 /\ v.issuedRead = FALSE
    BY <1>2, <1>3 DEF Session
  <1>6. OpBytes \in Int
    BY <1>1
  <1>7. /\ sub \in Session /\ sub.completed = FALSE /\ sub.requested = 0
        /\ sub.issuedRead = FALSE /\ sub.prepaid = OpBytes
    BY <1>1, <1>3, <1>5, <1>6 DEF Session
  <1> HIDE DEF sub
  <1>8. Tidy(sub)
    BY <1>1, <1>7 DEF Tidy
  <1>9. Tidy(Complete(RefundPrepaid(sub), "error"))
    BY <1>7, RefundTidy
  <1> QED
    BY <1>4, <1>8, <1>9

-----------------------------------------------------------------------------
(* The invariant. *)

\* What was taken for a session is in the owner's hand while it is parked.
\* Outside, tokens are owed only where an op was paid for a session that had
\* expired meanwhile, which submits nothing any more.
Account ==
    /\ place # "new" => Ledger(s)
    /\ place \in Parked => /\ Owed(s) = InHand /\ s.issuedRead
                           /\ s.completed => s.timedOut
    /\ place \in {"priced", "paid"} =>
           /\ 0 < quote /\ quote <= OpBytes
           /\ ~s.timedOut => quote = Next1(s)
    /\ place = "out" => /\ 0 <= Owed(s) /\ Owed(s) <= OpBytes
                        /\ Owed(s) # 0 => s.timedOut /\ Busy(s) = 0

\* u differs from t in its lifetime or its deadline only.
Alike(u, t) ==
    /\ SameBytes(u, t) /\ u.pend = t.pend /\ u.remaining = t.remaining
    /\ u.completed = t.completed /\ u.timedOut = t.timedOut /\ u.closeReq = t.closeReq

\* The account does not depend on lifetime and deadline.
LEMMA AlikeKeeps ==
    ASSUME NEW t, NEW u, Alike(u, t)
    PROVE  /\ Owed(u) = Owed(t) /\ (Ledger(t) => Ledger(u)) /\ Busy(u) = Busy(t)
           /\ u.timedOut = t.timedOut /\ u.completed = t.completed
           /\ u.issuedRead = t.issuedRead /\ Next1(u) = Next1(t)
  BY SameBytesKeep DEF Alike, SameBytes, Busy, Next1

\* Returning from an entry point touches no ledger.
LEMMA SettledAlike ==
    ASSUME NEW t \in Session
    PROVE  Alike(Settled(t), t)
  <1> DEFINE d == IF stopping THEN [t EXCEPT !.deadline = "none"] ELSE t
             k == [d EXCEPT !.keep = FALSE]
  <1>1. d \in Session /\ Alike(d, t)
    BY DEF Session, Alike, SameBytes
  <1>2. Settled(t) = d \/ Settled(t) = k
    BY DEF Settled, ReleaseIfIdle
  <1> HIDE DEF d
  <1>3. Alike(k, d)
    BY <1>1 DEF Session, Alike, SameBytes
  <1> HIDE DEF k
  <1> QED
    BY <1>1, <1>2, <1>3 DEF Alike, SameBytes

\* Nor does arming or disarming the watchdog.
LEMMA DeadlineAlike ==
    ASSUME NEW t \in Session, NEW e
    PROVE  Alike([t EXCEPT !.deadline = e], t)
  BY DEF Session, Alike, SameBytes

\* An expired or ended session submits no Read.
LEMMA IssueNextIdle ==
    ASSUME NEW t, Sound(t), Busy(t) = 0, t.timedOut \/ t.completed, NEW acc \in BOOLEAN
    PROVE  Busy(IssueNext(t, acc)) = 0
  <1> DEFINE z == [t EXCEPT !.remaining = 0]
             r == RefundPrepaid(z)
  <1>1. CASE t.completed
    BY <1>1 DEF IssueNext
  <1>2. CASE ~t.completed
    <2>1. t \in Session /\ t.keep
      BY <1>2 DEF Sound, Kept
    <2>2. /\ z \in Session
          /\ z.keep = t.keep /\ z.pend = t.pend /\ z.completed = t.completed
          /\ z.timedOut = t.timedOut /\ z.closeReq = t.closeReq
          /\ z.result = t.result /\ z.dones = t.dones /\ z.remaining = 0
      BY <2>1 DEF Session
    <2>3. IssueNext(t, acc) = SubmitClose(r, acc)
      BY <1>2, <2>2 DEF IssueNext
    <2> HIDE DEF z
    <2>4. Busy(z) = 0 /\ Pending(z) = Pending(t) /\ z.pend["read"] = 0
      <3>1. z.pend["open"] \in Nat /\ z.pend["stat"] \in Nat /\ z.pend["read"] \in Nat
        BY <2>2, Counts DEF Ops
      <3>2. Busy(z) = 0 /\ Pending(z) = Pending(t)
        BY <2>2 DEF Busy, Pending
      <3> QED
        BY <3>1, <3>2 DEF Busy
    <2>5. ReadSound(z) /\ CloseSound(z) /\ OutcomeSound(z) /\ Kept(z)
      BY <1>2, <2>2, <2>4 DEF Sound, ReadSound, CloseSound, OutcomeSound, Kept
    <2>6. Sound(z)
      BY <2>2, <2>5 DEF Sound
    <2>7. Sound(r) /\ Busy(r) = 0 /\ r.keep
      BY <2>1, <2>2, <2>4, <2>6, RefundPrepaidSound
    <2> HIDE DEF r
    <2>8. Busy(SubmitClose(r, acc)) = Busy(r)
      BY <2>7, SubmitCloseSound
    <2> QED
      BY <2>3, <2>7, <2>8
  <1> QED
    BY <1>1, <1>2

\* An entry point that leaves a session out, with nothing owed,
LEMMA OutBalanced ==
    ASSUME Paced, NEW t \in Session, Ledger(t), Owed(t) = 0,
           s' = Settled(t), place' = "out"
    PROVE  Account'
  <1>1. Alike(s', t)
    BY SettledAlike
  <1>2. Owed(s') = 0 /\ Ledger(s')
    BY <1>1, AlikeKeeps
  <1>3. OpBytes \in Nat
    BY SessionOptions
  <1> QED
    BY <1>2, <1>3 DEF Account, Parked

\* and steps that leave the ledger alone, wherever the session is.
LEMMA AlikeAccount ==
    ASSUME Inv, Account, Alike(s', s), place' = place, quote' = quote
    PROVE  Account'
  <1>1. /\ Owed(s') = Owed(s) /\ (Ledger(s) => Ledger(s')) /\ Busy(s') = Busy(s)
        /\ s'.timedOut = s.timedOut /\ s'.completed = s.completed
        /\ s'.issuedRead = s.issuedRead /\ Next1(s') = Next1(s)
    BY AlikeKeeps
  <1>2. InHand' = InHand
    BY DEF InHand
  <1> QED
    BY <1>1, <1>2 DEF Account

\* A new session owes nothing.
LEMMA InitAccount == Init => Account
  BY DEF Init, Account, Parked

\* An answer to anything but a Close finds the session out and even.
LEMMA EvenWhenBusy ==
    ASSUME Inv, Account, NEW op \in {"open", "stat", "read"}, s.pend[op] > 0
    PROVE  place = "out" /\ Sound(s) /\ Ledger(s) /\ Owed(s) = 0
  <1>1. place = "out" /\ Sound(s)
    BY OutWhenBusy
  <1>2. s.pend["open"] \in Nat /\ s.pend["stat"] \in Nat /\ s.pend["read"] \in Nat
    BY <1>1, Counts DEF Ops, Sound
  <1>3. s.pend["open"] > 0 \/ s.pend["stat"] > 0 \/ s.pend["read"] > 0
    OBVIOUS
  <1>4. Busy(s) # 0
    BY <1>2, <1>3 DEF Busy
  <1> QED
    BY <1>1, <1>4 DEF Account

\* Every step keeps the account.
LEMMA StepAccount == ASSUME Paced, Inv, Account, [Next]_vars PROVE Account'
  <1>0. s \in Session /\ quote \in Nat /\ SizesAreNat /\ OpBytes \in Nat
    BY SizesAreNat, SessionOptions DEF Inv, TypeOK
  <1>1. ASSUME NEW acc \in BOOLEAN, Open(acc) PROVE Account'
    <2> DEFINE t == Start(Blank, OpBytes, acc)
    <2>1. s' = Settled(t) /\ place' = "out"
      BY <1>1 DEF Open, Inv
    <2>2. Ledger(t) /\ Owed(t) = 0
      BY StartLedger
    <2>3. t \in Session
      BY <1>0, StartSound DEF Sound
    <2> HIDE DEF t
    <2> QED
      BY <2>1, <2>2, <2>3, OutBalanced
  <1>2. ASSUME NEW ok \in BOOLEAN, NEW acc \in BOOLEAN, OpenDone(ok, acc) PROVE Account'
    <2> DEFINE t == OnOpen(s, ok, acc)
    <2>1. s.pend["open"] > 0 /\ s' = Settled(t) /\ place' = place
      BY <1>2 DEF OpenDone
    <2>2. place = "out" /\ Sound(s) /\ Ledger(s) /\ Owed(s) = 0
      BY <2>1, EvenWhenBusy
    <2>3. t \in Session
      BY <2>1, <2>2, OnOpenSound DEF Sound
    <2>4. Ledger(t) /\ Owed(t) = 0
      BY <2>1, <2>2, OnOpenLedger
    <2> HIDE DEF t
    <2> QED
      BY <2>1, <2>2, <2>3, <2>4, OutBalanced
  <1>3. ASSUME NEW ok \in BOOLEAN, NEW acc \in BOOLEAN, NEW size \in Sizes,
               StatDone(ok, size, acc)
        PROVE  Account'
    <2> DEFINE t == OnStat(s, ok, size, acc)
    <2>1. s.pend["stat"] > 0 /\ s' = Settled(t) /\ place' = place /\ size \in Nat
      BY <1>0, <1>3, SizesAreNat DEF StatDone
    <2>2. place = "out" /\ Sound(s) /\ Ledger(s) /\ Owed(s) = 0
      BY <2>1, EvenWhenBusy
    <2>3. t \in Session
      BY <2>1, <2>2, OnStatSound DEF Sound
    <2>4. Ledger(t) /\ Owed(t) = 0
      BY <2>1, <2>2, OnStatLedger
    <2> HIDE DEF t
    <2> QED
      BY <2>1, <2>2, <2>3, <2>4, OutBalanced
  <1>4. ASSUME NEW ok \in BOOLEAN, NEW acc \in BOOLEAN, NEW got \in 0 .. OpBytes,
               ReadDone(ok, got, acc)
        PROVE  Account'
    <2> DEFINE t == OnRead(s, ok, got, acc)
    <2>1. /\ s.pend["read"] > 0 /\ got \in Nat /\ got <= s.requested /\ s' = Settled(t)
          /\ place' = IF Parks(s, ok, got) THEN "entering" ELSE place
      BY <1>4 DEF ReadDone
    <2>2. place = "out" /\ Sound(s) /\ Ledger(s) /\ Owed(s) = 0
      BY <2>1, EvenWhenBusy
    <2>3. t \in Session
      BY <2>1, <2>2, OnReadSound DEF Sound
    <2>4. /\ Ledger(t) /\ Owed(t) = 0
          /\ Parks(s, ok, got) => t.issuedRead /\ ~t.completed
      BY <2>1, <2>2, OnReadLedger
    <2> HIDE DEF t
    <2>5. CASE Parks(s, ok, got)
      <3>1. Owed(s') = 0 /\ Ledger(s') /\ s'.issuedRead /\ ~s'.completed
        BY <2>1, <2>3, <2>4, <2>5, SettledAlike, AlikeKeeps
      <3>2. InHand' = 0
        BY <2>1, <2>5 DEF InHand
      <3> QED
        BY <2>1, <2>5, <3>1, <3>2 DEF Account, Parked
    <2>6. CASE ~Parks(s, ok, got)
      BY <2>1, <2>2, <2>3, <2>4, <2>6, OutBalanced
    <2> QED
      BY <2>5, <2>6
  <1>5. ASSUME NEW t \in Session, place # "new", s' = Settled(t), place' = place, quote' = quote,
               Ledger(t), Owed(t) = Owed(s), t.issuedRead = s.issuedRead, Busy(t) = Busy(s),
               \/ t.timedOut
               \/ /\ t.completed = s.completed /\ t.timedOut = s.timedOut
                  /\ t.remaining = s.remaining
        PROVE  Account'
    <2>1. /\ Owed(s') = Owed(t) /\ Ledger(s') /\ Busy(s') = Busy(t)
          /\ s'.timedOut = t.timedOut /\ s'.completed = t.completed
          /\ s'.issuedRead = t.issuedRead /\ Next1(s') = Next1(t)
      BY <1>5, SettledAlike, AlikeKeeps
    <2>2. InHand' = InHand
      BY <1>5 DEF InHand
    <2>3. CASE t.timedOut
      BY <1>5, <2>1, <2>2, <2>3 DEF Account
    <2>4. CASE ~t.timedOut
      <3>1. Next1(t) = Next1(s) /\ t.completed = s.completed /\ t.timedOut = s.timedOut
        BY <1>5, <2>4 DEF Next1
      <3> QED
        BY <1>5, <2>1, <2>2, <3>1 DEF Account
    <2> QED
      BY <2>3, <2>4
  <1>6. ASSUME NEW ok \in BOOLEAN, CloseDone(ok) PROVE Account'
    <2> DEFINE t == OnClose(s, ok)
    <2>1. s.pend["close"] > 0 /\ s' = Settled(t) /\ place' = place /\ quote' = quote
      BY <1>6 DEF CloseDone
    <2>2. place # "new"
      <3>1. SUFFICES ASSUME place = "new" PROVE FALSE
        OBVIOUS
      <3>2. s.pend = [o \in Ops |-> 0]
        BY <3>1 DEF Inv, Blank
      <3> QED
        BY <2>1, <3>2 DEF Ops
    <2>3. Sound(s) /\ Ledger(s)
      BY <2>2 DEF Inv, Account
    <2>4. t \in Session /\ Busy(t) = Busy(s)
      BY <2>1, <2>3, OnCloseSound DEF Sound
    <2>5. /\ Ledger(t) /\ Owed(t) = Owed(s) /\ t.timedOut = s.timedOut
          /\ t.issuedRead = s.issuedRead
      BY <2>1, <2>3, OnCloseLedger
    <2> HIDE DEF t
    <2>6. CASE s.timedOut
      BY <1>5, <2>1, <2>2, <2>4, <2>5, <2>6
    <2>7. CASE ~s.timedOut
      <3>1. place = "out"
        <4>1. s.closeReq
          BY <2>1, <2>3 DEF Sound, CloseSound
        <4>2. place \notin Parked
          BY <2>7, <4>1 DEF Inv, Handed
        <4> QED
          BY <2>2, <4>2 DEF Inv, TypeOK, Places, Parked
      <3>2. Owed(t) = 0
        BY <2>5, <2>7, <3>1 DEF Account
      <3> QED
        BY <2>1, <2>4, <2>5, <3>1, <3>2, OutBalanced
    <2> QED
      BY <2>6, <2>7
  <1>7. ASSUME NEW acc \in BOOLEAN, Fire(acc) PROVE Account'
    <2> DEFINE t == RequestWallTimeout(s, acc)
    <2>1. caught /\ s' = Settled(t) /\ place' = place /\ quote' = quote
      BY <1>7 DEF Fire
    <2>2. place # "new" /\ Sound(s) /\ Ledger(s)
      BY <2>1 DEF Inv, Account
    <2>3. t \in Session /\ Busy(t) = Busy(s)
      BY <2>2, RequestWallTimeoutSound DEF Sound
    <2>4. /\ Ledger(t) /\ Owed(t) = Owed(s)
          /\ t.issuedRead = s.issuedRead /\ t.remaining = s.remaining
          /\ t = s \/ t.timedOut
      BY <1>0, <2>2, RequestWallTimeoutLedger
    <2> HIDE DEF t
    <2> QED
      BY <1>5, <2>1, <2>2, <2>3, <2>4
  <1>8. CASE Enqueue
    BY <1>8 DEF Enqueue, Account, Parked, InHand, Next1, Owed, Ledger, Busy
  <1>9. ASSUME NEW acc \in BOOLEAN, CloseOnEntry(acc) \/ CloseQueued(acc) PROVE Account'
    <2> DEFINE t == CloseNow(s, acc)
    <2>1. place \in {"entering", "queued"} /\ s' = Settled(t) /\ place' = "out"
      BY <1>9 DEF CloseOnEntry, CloseQueued
    <2>2. Sound(s) /\ Busy(s) = 0 /\ Ledger(s) /\ s.issuedRead /\ Owed(s) = 0
      BY <2>1 DEF Inv, Handed, Account, Parked, InHand
    <2>3. t \in Session
      BY <2>2, CloseNowSound DEF Sound
    <2>4. Ledger(t) /\ Owed(t) = 0
      BY <1>0, <2>2, CloseNowLedger
    <2> HIDE DEF t
    <2> QED
      BY <2>1, <2>3, <2>4, OutBalanced
  <1>10. CASE OnReadyReturns \/ Join \/ UNCHANGED vars
    BY <1>10 DEF OnReadyReturns, Join, vars, Account, Parked, InHand, Next1, Owed,
                 Ledger, Busy
  <1>11. CASE Price
    <2>1. /\ place = "queued" /\ place' = "priced" /\ s' = s
          /\ quote' = NextOpBytes(s) /\ quote' > 0
      BY <1>11 DEF Price
    <2>2. Ledger(s) /\ s.issuedRead /\ Owed(s) = 0 /\ (s.completed => s.timedOut)
      BY <2>1 DEF Account, Parked, InHand
    <2>3. quote' = Next1(s)
      BY <2>1, <2>2 DEF Ledger, NextOpBytes, Next1
    <2>4. quote' <= OpBytes
      BY <1>0, <2>3 DEF Next1, Least, Session
    <2>5. InHand' = 0
      BY <2>1 DEF InHand
    <2> QED
      BY <2>1, <2>2, <2>3, <2>4, <2>5 DEF Account, Parked, Ledger, Owed, Next1
  <1>12. CASE Pay
    <2> DEFINE h == s.held + quote
    <2>1. /\ place = "priced" /\ place' = "paid" /\ quote' = quote
          /\ s' = [s EXCEPT !.held = h]
      BY <1>12 DEF Pay
    <2>2. /\ Ledger(s) /\ s.issuedRead /\ Owed(s) = 0 /\ (s.completed => s.timedOut)
          /\ 0 < quote /\ quote <= OpBytes /\ (~s.timedOut => quote = Next1(s))
      BY <2>1 DEF Account, Parked, InHand
    <2>3. h \in Int /\ h = s.held + quote /\ s.held \in Int /\ s.bytes \in Int
          /\ s.requested \in Int /\ s.prepaid \in Int
      BY <1>0 DEF Session
    <2> HIDE DEF h
    <2>4. /\ s'.held = h /\ s'.bytes = s.bytes /\ s'.requested = s.requested
          /\ s'.prepaid = s.prepaid /\ s'.issuedRead = s.issuedRead
          /\ s'.budgetSet = s.budgetSet /\ s'.pend = s.pend
          /\ s'.completed = s.completed /\ s'.timedOut = s.timedOut
          /\ s'.closeReq = s.closeReq /\ s'.remaining = s.remaining
      BY <1>0, <2>1 DEF Session
    <2>5. Owed(s') = quote /\ InHand' = quote
      BY <1>0, <2>1, <2>2, <2>3, <2>4 DEF Owed, InHand
    <2>6. Ledger(s') /\ Next1(s') = Next1(s)
      BY <2>2, <2>4 DEF Ledger, Next1
    <2> QED
      BY <2>1, <2>2, <2>4, <2>5, <2>6 DEF Account, Parked
  <1>13. CASE Requeue
    BY <1>13 DEF Requeue, Account, Parked, InHand, Next1, Owed, Ledger, Busy
  <1>14. ASSUME NEW acc \in BOOLEAN, Issue(acc) PROVE Account'
    <2> DEFINE t == IssueNext(s, acc)
    <2>1. place = "paid" /\ s' = Settled(t) /\ place' = "out"
      BY <1>14 DEF Issue
    <2>2. Sound(s) /\ Busy(s) = 0 /\ (s.closeReq => s.timedOut)
      BY <2>1 DEF Inv, Parked, Handed
    <2>3. /\ Ledger(s) /\ s.issuedRead /\ Owed(s) = quote /\ (s.completed => s.timedOut)
          /\ 0 < quote /\ quote <= OpBytes /\ (~s.timedOut => quote = Next1(s))
      BY <2>1 DEF Account, Parked, InHand
    <2>4. s.prepaid = 0 /\ s.budgetSet
      BY <2>3 DEF Ledger
    <2>5. t \in Session
      BY <2>2, IssueNextSound DEF Sound
    <2>6. /\ Ledger(t) /\ t.timedOut = s.timedOut
          /\ Owed(t) = IF ~s.completed /\ ~s.timedOut /\ s.remaining > 0 /\ s.prepaid = 0
                       THEN Owed(s) - Next1(s) ELSE Owed(s)
      BY <1>0, <2>2, <2>3, <2>4, IssueNextLedger
    <2>7. s.timedOut => Busy(t) = 0
      BY <2>2, IssueNextIdle
    <2> HIDE DEF t
    <2>8. CASE s.timedOut
      <3>1. Owed(s') = quote /\ Ledger(s') /\ s'.timedOut /\ Busy(s') = 0
        BY <2>1, <2>3, <2>5, <2>6, <2>7, <2>8, SettledAlike, AlikeKeeps
      <3> QED
        BY <1>0, <2>1, <2>3, <3>1 DEF Account, Parked
    <2>9. CASE ~s.timedOut
      <3>1. s.remaining > 0
        BY <1>0, <2>3, <2>9 DEF Next1, Least, Session
      <3>2. Owed(t) = 0
        BY <1>0, <2>3, <2>4, <2>6, <2>9, <3>1
      <3> QED
        BY <2>1, <2>5, <2>6, <3>2, OutBalanced
    <2> QED
      BY <2>8, <2>9
  <1>15. CASE DeadlinePasses \/ Collect \/ ShutDown
    <2>1. /\ place' = place /\ quote' = quote
          /\ s' = [s EXCEPT !.deadline = "due"] \/ s' = [s EXCEPT !.deadline = "none"]
      BY <1>15 DEF DeadlinePasses, Collect, ShutDown
    <2>2. Alike(s', s)
      BY <1>0, <2>1, DeadlineAlike
    <2> QED
      BY <2>1, <2>2, AlikeAccount
  <1> QED
    BY <1>1, <1>2, <1>3, <1>4, <1>6, <1>7, <1>8, <1>9, <1>10, <1>11, <1>12, <1>13,
       <1>14, <1>15 DEF Next, XrdClAnswers, OwnerSteps, WatchdogSteps

-----------------------------------------------------------------------------
(* What completed sessions leave. *)

\* A session that is parked, or whose paid op was given up, has nothing asked
\* for or prepaid and can report nothing but a timeout.
Purse ==
    /\ place # "new" => Tidy(s)
    /\ place \in Parked \/ (place = "out" /\ Owed(s) # 0) => Empty(s)

\* Returning from an entry point touches none of it.
LEMMA SettledTidy ==
    ASSUME NEW t \in Session
    PROVE  /\ Tidy(t) => Tidy(Settled(t))
           /\ Empty(t) => Empty(Settled(t))
           /\ Owed(Settled(t)) = Owed(t)
  <1>1. Owed(Settled(t)) = Owed(t)
    BY SettledAlike, AlikeKeeps
  <1> DEFINE d == IF stopping THEN [t EXCEPT !.deadline = "none"] ELSE t
             k == [d EXCEPT !.keep = FALSE]
  <1>2. /\ d \in Session /\ d.requested = t.requested /\ d.prepaid = t.prepaid
        /\ d.completed = t.completed /\ d.result = t.result
    BY DEF Session
  <1>3. Settled(t) = d \/ Settled(t) = k
    BY DEF Settled, ReleaseIfIdle
  <1> HIDE DEF d
  <1>4. /\ k.requested = d.requested /\ k.prepaid = d.prepaid
        /\ k.completed = d.completed /\ k.result = d.result
    BY <1>2 DEF Session
  <1> HIDE DEF k
  <1>5. /\ Tidy(t) => Tidy(d) /\ Tidy(k)
        /\ Empty(t) => Empty(d) /\ Empty(k)
    BY <1>2, <1>4, TidyKeep
  <1> QED
    BY <1>1, <1>3, <1>5

\* An entry point that leaves a session out, with nothing owed.
LEMMA OutTidy ==
    ASSUME NEW t \in Session, Tidy(t), Owed(t) = 0, s' = Settled(t), place' = "out"
    PROVE  Purse'
  <1>1. Tidy(s') /\ Owed(s') = 0
    BY SettledTidy
  <1> QED
    BY <1>1 DEF Purse, Parked

LEMMA InitPurse == Init => Purse
  BY DEF Init, Purse, Parked

\* Every step keeps it.
LEMMA StepPurse == ASSUME Paced, Inv, Account, Purse, [Next]_vars PROVE Purse'
  <1>0. s \in Session /\ quote \in Nat /\ SizesAreNat /\ OpBytes \in Nat
    BY SizesAreNat, SessionOptions DEF Inv, TypeOK
  <1>1. ASSUME NEW acc \in BOOLEAN, Open(acc) PROVE Purse'
    <2> DEFINE t == Start(Blank, OpBytes, acc)
    <2>1. s' = Settled(t) /\ place' = "out"
      BY <1>1 DEF Open, Inv
    <2>2. Tidy(t) /\ Owed(t) = 0
      BY StartLedger, StartTidy
    <2>3. t \in Session
      BY <1>0, StartSound DEF Sound
    <2> HIDE DEF t
    <2> QED
      BY <2>1, <2>2, <2>3, OutTidy
  <1>2. ASSUME NEW ok \in BOOLEAN, NEW acc \in BOOLEAN, OpenDone(ok, acc) PROVE Purse'
    <2> DEFINE t == OnOpen(s, ok, acc)
    <2>1. s.pend["open"] > 0 /\ s' = Settled(t) /\ place' = place
      BY <1>2 DEF OpenDone
    <2>2. place = "out" /\ Sound(s) /\ Ledger(s) /\ Owed(s) = 0 /\ Tidy(s)
      BY <2>1, EvenWhenBusy DEF Purse
    <2>3. t \in Session
      BY <2>1, <2>2, OnOpenSound DEF Sound
    <2>4. Tidy(t) /\ Owed(t) = 0
      BY <2>1, <2>2, OnOpenLedger, OnOpenTidy
    <2> HIDE DEF t
    <2> QED
      BY <2>1, <2>2, <2>3, <2>4, OutTidy
  <1>3. ASSUME NEW ok \in BOOLEAN, NEW acc \in BOOLEAN, NEW size \in Sizes,
               StatDone(ok, size, acc)
        PROVE  Purse'
    <2> DEFINE t == OnStat(s, ok, size, acc)
    <2>1. s.pend["stat"] > 0 /\ s' = Settled(t) /\ place' = place /\ size \in Nat
      BY <1>0, <1>3, SizesAreNat DEF StatDone
    <2>2. place = "out" /\ Sound(s) /\ Ledger(s) /\ Owed(s) = 0 /\ Tidy(s)
      BY <2>1, EvenWhenBusy DEF Purse
    <2>3. t \in Session
      BY <2>1, <2>2, OnStatSound DEF Sound
    <2>4. Tidy(t) /\ Owed(t) = 0
      BY <2>1, <2>2, OnStatLedger, OnStatTidy
    <2> HIDE DEF t
    <2> QED
      BY <2>1, <2>2, <2>3, <2>4, OutTidy
  <1>4. ASSUME NEW ok \in BOOLEAN, NEW acc \in BOOLEAN, NEW got \in 0 .. OpBytes,
               ReadDone(ok, got, acc)
        PROVE  Purse'
    <2> DEFINE t == OnRead(s, ok, got, acc)
    <2>1. /\ s.pend["read"] > 0 /\ got \in Nat /\ got <= s.requested /\ s' = Settled(t)
          /\ place' = IF Parks(s, ok, got) THEN "entering" ELSE place
      BY <1>4 DEF ReadDone
    <2>2. place = "out" /\ Sound(s) /\ Ledger(s) /\ Owed(s) = 0 /\ Tidy(s)
      BY <2>1, EvenWhenBusy DEF Purse
    <2>3. t \in Session
      BY <2>1, <2>2, OnReadSound DEF Sound
    <2>4. Owed(t) = 0 /\ Tidy(t) /\ (Parks(s, ok, got) => Empty(t))
      BY <2>1, <2>2, OnReadLedger, OnReadTidy
    <2> HIDE DEF t
    <2>5. CASE Parks(s, ok, got)
      <3>1. Tidy(s') /\ Empty(s')
        BY <2>1, <2>3, <2>4, <2>5, SettledTidy
      <3> QED
        BY <3>1 DEF Purse
    <2>6. CASE ~Parks(s, ok, got)
      BY <2>1, <2>2, <2>3, <2>4, <2>6, OutTidy
    <2> QED
      BY <2>5, <2>6
  <1>5. ASSUME NEW t \in Session, place # "new", s' = Settled(t), place' = place,
               Tidy(t), Owed(t) = Owed(s), Empty(s) => Empty(t)
        PROVE  Purse'
    <2>1. Tidy(s') /\ (Empty(s) => Empty(s')) /\ Owed(s') = Owed(s)
      BY <1>5, SettledTidy
    <2> QED
      BY <1>5, <2>1 DEF Purse
  <1>6. ASSUME NEW ok \in BOOLEAN, CloseDone(ok) PROVE Purse'
    <2> DEFINE t == OnClose(s, ok)
    <2>1. s.pend["close"] > 0 /\ s' = Settled(t) /\ place' = place
      BY <1>6 DEF CloseDone
    <2>2. place # "new"
      <3>1. SUFFICES ASSUME place = "new" PROVE FALSE
        OBVIOUS
      <3>2. s.pend = [o \in Ops |-> 0]
        BY <3>1 DEF Inv, Blank
      <3> QED
        BY <2>1, <3>2 DEF Ops
    <2>3. Sound(s) /\ Ledger(s) /\ Tidy(s)
      BY <2>2 DEF Inv, Account, Purse
    <2>4. t \in Session
      BY <2>1, <2>3, OnCloseSound DEF Sound
    <2>5. Owed(t) = Owed(s) /\ Tidy(t) /\ (Empty(s) /\ s.timedOut => Empty(t))
      BY <2>1, <2>3, OnCloseLedger, OnCloseTidy
    <2> HIDE DEF t
    <2>6. CASE s.timedOut
      BY <1>5, <2>1, <2>2, <2>4, <2>5, <2>6
    <2>7. CASE ~s.timedOut
      <3>1. place = "out"
        <4>1. s.closeReq
          BY <2>1, <2>3 DEF Sound, CloseSound
        <4>2. place \notin Parked
          BY <2>7, <4>1 DEF Inv, Handed
        <4> QED
          BY <2>2, <4>2 DEF Inv, TypeOK, Places, Parked
      <3>2. Owed(t) = 0
        BY <2>5, <2>7, <3>1 DEF Account
      <3> QED
        BY <2>1, <2>4, <2>5, <3>1, <3>2, OutTidy
    <2> QED
      BY <2>6, <2>7
  <1>7. ASSUME NEW acc \in BOOLEAN, Fire(acc) PROVE Purse'
    <2> DEFINE t == RequestWallTimeout(s, acc)
    <2>1. caught /\ s' = Settled(t) /\ place' = place
      BY <1>7 DEF Fire
    <2>2. place # "new" /\ Sound(s) /\ Ledger(s) /\ Tidy(s)
      BY <2>1 DEF Inv, Account, Purse
    <2>3. t \in Session
      BY <2>2, RequestWallTimeoutSound DEF Sound
    <2>4. Owed(t) = Owed(s) /\ Tidy(t) /\ (Empty(s) => Empty(t))
      BY <1>0, <2>2, RequestWallTimeoutLedger, RequestWallTimeoutTidy
    <2> HIDE DEF t
    <2> QED
      BY <1>5, <2>1, <2>2, <2>3, <2>4
  <1>8. ASSUME NEW acc \in BOOLEAN, CloseOnEntry(acc) \/ CloseQueued(acc) PROVE Purse'
    <2> DEFINE t == CloseNow(s, acc)
    <2>1. place \in {"entering", "queued"} /\ s' = Settled(t) /\ place' = "out"
      BY <1>8 DEF CloseOnEntry, CloseQueued
    <2>2. Sound(s) /\ Busy(s) = 0 /\ Ledger(s) /\ s.issuedRead /\ Owed(s) = 0
      BY <2>1 DEF Inv, Handed, Account, Parked, InHand
    <2>3. t \in Session
      BY <2>2, CloseNowSound DEF Sound
    <2>4. Tidy(s) /\ Empty(s)
      BY <2>1 DEF Purse, Parked
    <2>5. Tidy(t) /\ Owed(t) = 0
      BY <1>0, <2>2, <2>4, CloseNowLedger, CloseNowTidy
    <2> HIDE DEF t
    <2> QED
      BY <2>1, <2>3, <2>5, OutTidy
  <1>9. CASE Enqueue \/ Price \/ Requeue \/ OnReadyReturns \/ Join \/ UNCHANGED vars
    <2>1. s' = s /\ (place' = place \/ {place, place'} \subseteq Parked)
      BY <1>9 DEF Enqueue, Price, Requeue, OnReadyReturns, Join, vars, Parked
    <2> QED
      BY <2>1 DEF Purse, Parked
  <1>10. CASE Pay
    <2> DEFINE h == s.held + quote
    <2>1. place = "priced" /\ place' = "paid" /\ s' = [s EXCEPT !.held = h]
      BY <1>10 DEF Pay
    <2> HIDE DEF h
    <2>2. /\ s'.requested = s.requested /\ s'.prepaid = s.prepaid
          /\ s'.completed = s.completed /\ s'.result = s.result
      BY <1>0, <2>1 DEF Session
    <2> QED
      BY <2>1, <2>2, TidyKeep DEF Purse, Parked
  <1>11. ASSUME NEW acc \in BOOLEAN, Issue(acc) PROVE Purse'
    <2> DEFINE t == IssueNext(s, acc)
    <2>1. place = "paid" /\ s' = Settled(t) /\ place' = "out"
      BY <1>11 DEF Issue
    <2>2. Sound(s) /\ Busy(s) = 0 /\ (s.closeReq => s.timedOut)
      BY <2>1 DEF Inv, Parked, Handed
    <2>3. /\ Ledger(s) /\ s.issuedRead /\ Owed(s) = quote /\ (s.completed => s.timedOut)
          /\ 0 < quote /\ quote <= OpBytes /\ (~s.timedOut => quote = Next1(s))
      BY <2>1 DEF Account, Parked, InHand
    <2>4. s.prepaid = 0 /\ s.budgetSet /\ Tidy(s) /\ Empty(s) /\ s.requested = 0
      BY <2>1, <2>3 DEF Ledger, Purse, Parked, Empty
    <2>5. t \in Session
      BY <2>2, IssueNextSound DEF Sound
    <2>6. Owed(t) = IF ~s.completed /\ ~s.timedOut /\ s.remaining > 0 /\ s.prepaid = 0
                    THEN Owed(s) - Next1(s) ELSE Owed(s)
      BY <1>0, <2>2, <2>3, <2>4, IssueNextLedger
    <2>7. Tidy(t) /\ (Empty(s) /\ s.timedOut => Empty(t))
      BY <1>0, <2>4, IssueNextTidy
    <2> HIDE DEF t
    <2>8. CASE s.timedOut
      <3>1. Tidy(s') /\ Empty(s')
        BY <2>1, <2>4, <2>5, <2>7, <2>8, SettledTidy
      <3> QED
        BY <3>1 DEF Purse
    <2>9. CASE ~s.timedOut
      <3>1. s.remaining > 0
        BY <1>0, <2>3, <2>9 DEF Next1, Least, Session
      <3>2. Owed(t) = 0
        BY <1>0, <2>3, <2>4, <2>6, <2>9, <3>1
      <3> QED
        BY <2>1, <2>5, <2>7, <3>2, OutTidy
    <2> QED
      BY <2>8, <2>9
  <1>12. CASE DeadlinePasses \/ Collect \/ ShutDown
    <2>1. /\ place' = place
          /\ s' = [s EXCEPT !.deadline = "due"] \/ s' = [s EXCEPT !.deadline = "none"]
      BY <1>12 DEF DeadlinePasses, Collect, ShutDown
    <2>2. Owed(s') = Owed(s)
      BY <1>0, <2>1, DeadlineAlike, AlikeKeeps
    <2>3. /\ s'.requested = s.requested /\ s'.prepaid = s.prepaid
          /\ s'.completed = s.completed /\ s'.result = s.result
      BY <1>0, <2>1 DEF Session
    <2> QED
      BY <2>1, <2>2, <2>3, TidyKeep DEF Purse
  <1> QED
    BY <1>1, <1>2, <1>3, <1>4, <1>6, <1>7, <1>8, <1>9, <1>10, <1>11, <1>12
       DEF Next, XrdClAnswers, OwnerSteps, WatchdogSteps

-----------------------------------------------------------------------------

\* The account of a paced session holds in every state it reaches.
THEOREM Accounted == Spec => [](Paced => Account /\ Purse)
  <1>1. Init => (Paced => Account /\ Purse)
    BY InitAccount, InitPurse
  <1>2. Inv /\ (Paced => Account /\ Purse) /\ [Next]_vars => (Paced => Account /\ Purse)'
    BY StepAccount, StepPurse
  <1> QED
    BY <1>1, <1>2, Invariance, PTL DEF Spec

\* No op is read unpaid and none refunded twice, and a session loses at most
\* the one op that was paid for or asked for when it expired (file_session.cc
\* Fail, RefundPrepaid, IssueNext and OnRead; run_command.cc's owner).
THEOREM LossBounded == Spec => []LosesAtMostOneOp
  <1>1. Inv /\ (Paced => Account /\ Purse) => LosesAtMostOneOp
    <2> SUFFICES ASSUME Inv, Account, Purse, Paced
                 PROVE  /\ Lost >= 0 /\ Lost <= OpBytes
                        /\ s.completed => Lost + s.requested + s.prepaid <= OpBytes
      BY DEF LosesAtMostOneOp
    <2>1. /\ s.held \in Int /\ s.bytes \in Int /\ s.requested \in Int /\ s.prepaid \in Int
          /\ quote \in Int /\ OpBytes \in Nat
      BY SessionOptions DEF Inv, TypeOK, Session
    <2>2. Lost = Owed(s) - InHand
      BY <2>1 DEF Lost, Owed, InHand
    <2>3. CASE place = "new"
      <3>1. Owed(s) = 0 /\ InHand = 0 /\ ~s.completed
        BY <2>3 DEF Inv, Blank, Owed, InHand
      <3> QED
        BY <2>1, <2>2, <3>1
    <2>4. CASE place \in Parked
      <3>1. Owed(s) = InHand /\ InHand \in Int
        BY <2>1, <2>4 DEF Account, InHand
      <3>2. s.requested = 0 /\ s.prepaid = 0
        BY <2>4 DEF Purse, Empty
      <3> QED
        BY <2>1, <2>2, <3>1, <3>2
    <2>5. CASE place = "out"
      <3>1. InHand = 0 /\ Owed(s) \in Int /\ 0 <= Owed(s) /\ Owed(s) <= OpBytes
        BY <2>1, <2>5 DEF Account, InHand, Owed
      <3>2. Owed(s) # 0 => s.requested = 0 /\ s.prepaid = 0
        BY <2>5 DEF Purse, Empty
      <3>3. s.requested + s.prepaid <= OpBytes
        BY <2>1, <2>5 DEF Purse, Tidy
      <3> QED
        BY <2>1, <2>2, <3>1, <3>2, <3>3
    <2> QED
      BY <2>3, <2>4, <2>5 DEF Inv, TypeOK, Places, Parked
  <1> QED
    BY <1>1, Invariance, Accounted, PTL

\* A session that reports anything but a timeout settles exactly: the tokens
\* it kept are the bytes it read, also where it had expired before.
THEOREM Settles == Spec => []SettledLedger
  <1>1. Inv /\ (Paced => Account /\ Purse) => SettledLedger
    <2> SUFFICES ASSUME Inv, Account, Purse, Paced, s.completed, s.result # "timeout"
                 PROVE  s.held - InHand = s.bytes
      BY DEF SettledLedger
    <2>1. s.held \in Int /\ s.bytes \in Int
      BY DEF Inv, TypeOK, Session
    <2>2. place # "new" /\ place \notin Parked
      BY DEF Inv, Blank, Purse, Empty
    <2>3. place = "out"
      BY <2>2 DEF Inv, TypeOK, Places, Parked
    <2>4. Owed(s) = 0 /\ InHand = 0 /\ s.requested = 0 /\ s.prepaid = 0
      BY <2>2, <2>3 DEF Purse, InHand, Tidy, Empty
    <2> QED
      BY <2>1, <2>4 DEF Owed
  <1> QED
    BY <1>1, Invariance, Accounted, PTL

=============================================================================
