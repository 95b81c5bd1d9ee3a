--------------------------- MODULE SessionOpsProofs ---------------------------
(***************************************************************************)
(* What every entry point of a FileSession preserves, for every value of    *)
(* the constants.  Sound(s) is the part of the inductive invariant of       *)
(* FileSession that speaks of the session alone; there is one lemma per     *)
(* helper of file_session.cc and one per entry point.                       *)
(***************************************************************************)
EXTENDS SessionOps, TLAPS

\* Operations in flight other than the Close.
Busy(s) == s.pend["open"] + s.pend["stat"] + s.pend["read"]

\* A session that gave up its self-reference is completed and owed nothing.
Kept(s) == s.keep \/ (s.completed /\ Pending(s) = 0)

\* A Close is outstanding only when requested, and while it is requested no
\* other operation is in flight -- unless the wall timeout asked for it and
\* XrdCl does not insist.
CloseSound(s) ==
    /\ s.pend["close"] <= 1
    /\ s.pend["close"] > 0 => s.closeReq
    /\ s.closeReq /\ (StrictClose \/ ~s.timedOut) => Busy(s) = 0

ReadSound(s) ==
    /\ Busy(s) <= 1
    /\ s.pend["read"] > 0 => s.requested <= s.remaining

OutcomeSound(s) ==
    /\ s.completed <=> s.result # "none"
    /\ s.dones = IF s.completed THEN 1 ELSE 0

Sound(s) ==
    s \in Session /\ Kept(s) /\ CloseSound(s) /\ ReadSound(s) /\ OutcomeSound(s)

\* In the owner's hands, with at most the watchdog's Close in flight.
Handed(t) == Busy(t) = 0 /\ (t.closeReq => t.timedOut)

-----------------------------------------------------------------------------
(* Fields and frames. *)

\* The two counts of callbacks owed, and how they relate.
LEMMA Counts ==
    ASSUME NEW s \in Session
    PROVE  /\ \A o \in Ops : s.pend[o] \in Nat
           /\ Busy(s) \in Nat /\ Pending(s) \in Nat
           /\ Pending(s) = Busy(s) + s.pend["close"]
  <1>1. s.pend \in [Ops -> Nat]
    BY DEF Session
  <1>2. QED
    BY <1>1 DEF Ops, Busy, Pending

\* With nothing but a Close in flight, every other count is zero.
LEMMA IdleCounts ==
    ASSUME NEW t \in Session, Busy(t) = 0
    PROVE  t.pend["open"] = 0 /\ t.pend["stat"] = 0 /\ t.pend["read"] = 0
  <1>1. \A o \in Ops : t.pend[o] \in Nat
    BY Counts
  <1>2. t.pend["open"] \in Nat /\ t.pend["stat"] \in Nat /\ t.pend["read"] \in Nat
    BY <1>1 DEF Ops
  <1>3. t.pend["open"] + t.pend["stat"] + t.pend["read"] = 0
    BY DEF Busy
  <1> QED
    BY <1>2, <1>3

\* Sound does not look at the byte ledger or the deadline.
LEMMA LedgerFrame ==
    ASSUME NEW s, Sound(s), NEW t \in Session,
           t.keep = s.keep, t.pend = s.pend, t.completed = s.completed,
           t.timedOut = s.timedOut, t.closeReq = s.closeReq,
           t.result = s.result, t.dones = s.dones,
           t.requested = s.requested, t.remaining = s.remaining
    PROVE  /\ Sound(t)
           /\ Busy(t) = Busy(s)
  BY DEF Sound, Kept, CloseSound, ReadSound, OutcomeSound, Busy, Pending

\* Changing only the deadline, or the tokens held, keeps them as well.
LEMMA DeadlineSound ==
    ASSUME NEW t, Sound(t), NEW e \in {"none", "armed", "due"}
    PROVE  LET u == [t EXCEPT !.deadline = e]
           IN  Sound(u) /\ u \in Session /\ (Handed(t) => Handed(u))
  <1> DEFINE u == [t EXCEPT !.deadline = e]
  <1>1. t \in Session
    BY DEF Sound
  <1>2. /\ u \in Session
        /\ u.keep = t.keep /\ u.pend = t.pend /\ u.completed = t.completed
        /\ u.timedOut = t.timedOut /\ u.closeReq = t.closeReq
        /\ u.result = t.result /\ u.dones = t.dones
        /\ u.requested = t.requested /\ u.remaining = t.remaining
    BY <1>1 DEF Session
  <1> HIDE DEF u
  <1>3. Sound(u) /\ Busy(u) = Busy(t)
    BY <1>2, LedgerFrame
  <1>4. QED
    BY <1>2, <1>3 DEF Handed, u

\* So does changing only what the session holds of the bucket.
LEMMA HeldSound ==
    ASSUME NEW t, Sound(t), NEW h \in Int
    PROVE  LET u == [t EXCEPT !.held = h]
           IN  Sound(u) /\ u \in Session /\ (Handed(t) => Handed(u))
  <1> DEFINE u == [t EXCEPT !.held = h]
  <1>1. t \in Session
    BY DEF Sound
  <1>2. /\ u \in Session
        /\ u.keep = t.keep /\ u.pend = t.pend /\ u.completed = t.completed
        /\ u.timedOut = t.timedOut /\ u.closeReq = t.closeReq
        /\ u.result = t.result /\ u.dones = t.dones
        /\ u.requested = t.requested /\ u.remaining = t.remaining
    BY <1>1 DEF Session
  <1> HIDE DEF u
  <1>3. Sound(u) /\ Busy(u) = Busy(t)
    BY <1>2, LedgerFrame
  <1>4. QED
    BY <1>2, <1>3 DEF Handed, u

-----------------------------------------------------------------------------
(* The private helpers. *)

\* Submit raises one count, if XrdCl took the operation, and arms the deadline.
LEMMA SubmitFields ==
    ASSUME NEW s \in Session, NEW op \in Ops, NEW acc \in BOOLEAN
    PROVE  LET t == Submit(s, op, acc)
           IN  /\ t \in Session
               /\ t = [s EXCEPT !.pend = t.pend, !.deadline = t.deadline]
               /\ acc => t.pend = [s.pend EXCEPT ![op] = s.pend[op] + 1]
               /\ ~acc => t.pend = s.pend
  <1> DEFINE p == [s.pend EXCEPT ![op] = IF acc THEN @ + 1 ELSE @]
             d == IF HasTimeout THEN "armed" ELSE s.deadline
  <1>1. s.pend \in [Ops -> Nat] /\ s.deadline \in {"none", "armed", "due"}
    BY DEF Session
  <1>2. p \in [Ops -> Nat] /\ d \in {"none", "armed", "due"}
    BY <1>1
  <1>3. /\ acc => p = [s.pend EXCEPT ![op] = s.pend[op] + 1]
        /\ ~acc => p = s.pend
    BY <1>1
  <1>4. Submit(s, op, acc) = [s EXCEPT !.pend = p, !.deadline = d]
    BY DEF Submit, Session
  <1> HIDE DEF p, d
  <1>5. [s EXCEPT !.pend = p, !.deadline = d] \in Session
    BY <1>2 DEF Session
  <1>6. /\ [s EXCEPT !.pend = p, !.deadline = d].pend = p
        /\ [s EXCEPT !.pend = p, !.deadline = d].deadline = d
    BY DEF Session
  <1>7. QED
    BY <1>3, <1>4, <1>5, <1>6

\* RefundBytes touches the ledger only.
LEMMA RefundBytesFields ==
    ASSUME NEW s \in Session, NEW n \in Int
    PROVE  /\ RefundBytes(s, n) \in Session
           /\ RefundBytes(s, n) = [s EXCEPT !.held = RefundBytes(s, n).held]
  <1> DEFINE h == s.held - n
  <1>1. h \in Int
    BY DEF Session
  <1>2. Paced => RefundBytes(s, n) = [s EXCEPT !.held = h]
    BY DEF RefundBytes
  <1>3. ~Paced => RefundBytes(s, n) = [s EXCEPT !.held = s.held]
    BY DEF RefundBytes, Session
  <1> HIDE DEF h
  <1>4. [s EXCEPT !.held = h] \in Session /\ [s EXCEPT !.held = h].held = h
    BY <1>1 DEF Session
  <1>5. [s EXCEPT !.held = s.held] = s
    BY DEF Session
  <1>6. QED
    BY <1>2, <1>3, <1>4, <1>5

\* RefundPrepaid leaves all but the ledger alone.
LEMMA RefundPrepaidFields ==
    ASSUME NEW s \in Session
    PROVE  /\ RefundPrepaid(s) \in Session
           /\ RefundPrepaid(s) = [s EXCEPT !.held = RefundPrepaid(s).held,
                                           !.prepaid = RefundPrepaid(s).prepaid]
  <1> DEFINE r == RefundBytes(s, s.prepaid)
  <1>1. s.prepaid \in Int
    BY DEF Session
  <1>2. r \in Session /\ r = [s EXCEPT !.held = r.held]
    BY <1>1, RefundBytesFields
  <1>3. CASE s.issuedRead
    <2>1. RefundPrepaid(s) = s
      BY <1>3 DEF RefundPrepaid
    <2>2. s = [s EXCEPT !.held = s.held, !.prepaid = s.prepaid]
      BY DEF Session
    <2>3. QED
      BY <2>1, <2>2
  <1>4. CASE ~s.issuedRead
    <2>1. RefundPrepaid(s) = [r EXCEPT !.prepaid = 0]
      BY <1>4 DEF RefundPrepaid
    <2> HIDE DEF r
    <2>2. [r EXCEPT !.prepaid = 0] \in Session
      BY <1>2 DEF Session
    <2>3. [r EXCEPT !.prepaid = 0] = [s EXCEPT !.held = r.held, !.prepaid = 0]
      BY <1>2 DEF Session
    <2>4. [r EXCEPT !.prepaid = 0].held = r.held /\ [r EXCEPT !.prepaid = 0].prepaid = 0
      BY <1>2 DEF Session
    <2>5. QED
      BY <2>1, <2>2, <2>3, <2>4
  <1>5. QED
    BY <1>3, <1>4

\* RefundPrepaid keeps a session sound, and what decides its next operation.
LEMMA RefundPrepaidSound ==
    ASSUME NEW s, Sound(s)
    PROVE  LET t == RefundPrepaid(s)
           IN  /\ Sound(t) /\ Busy(t) = Busy(s)
               /\ t.keep = s.keep /\ t.timedOut = s.timedOut
               /\ t.closeReq = s.closeReq
  <1> DEFINE t == RefundPrepaid(s)
  <1>1. s \in Session
    BY DEF Sound
  <1>2. t \in Session /\ t = [s EXCEPT !.held = t.held, !.prepaid = t.prepaid]
    BY <1>1, RefundPrepaidFields
  <1> HIDE DEF t
  <1>3. /\ t.keep = s.keep /\ t.pend = s.pend /\ t.completed = s.completed
        /\ t.timedOut = s.timedOut /\ t.closeReq = s.closeReq
        /\ t.result = s.result /\ t.dones = s.dones
        /\ t.requested = s.requested /\ t.remaining = s.remaining
    BY <1>1, <1>2 DEF Session
  <1>4. Sound(t) /\ Busy(t) = Busy(s)
    BY <1>2, <1>3, LedgerFrame
  <1>5. QED
    BY <1>3, <1>4 DEF t

\* Complete reports an outcome at most once.
LEMMA CompleteSound ==
    ASSUME NEW s, Sound(s), NEW r \in Outcomes \ {"none"}
    PROVE  LET t == Complete(s, r)
           IN  /\ Sound(t) /\ Busy(t) = Busy(s)
               /\ t.completed /\ t.keep = s.keep /\ t.timedOut = s.timedOut
               /\ t.closeReq = s.closeReq
  <1>1. CASE s.completed
    BY <1>1 DEF Complete
  <1>2. CASE ~s.completed
    <2> DEFINE d == s.dones + 1
               t == [s EXCEPT !.completed = TRUE, !.result = r, !.dones = d]
    <2>1. Complete(s, r) = t
      BY <1>2 DEF Complete
    <2>2. s \in Session /\ s.dones = 0
      BY <1>2 DEF Sound, OutcomeSound
    <2>3. d \in Nat /\ d = 1 /\ r \in Outcomes
      BY <2>2
    <2> HIDE DEF d
    <2>4. t \in Session
      BY <2>2, <2>3 DEF Session
    <2>5. /\ t.keep = s.keep /\ t.pend = s.pend /\ t.closeReq = s.closeReq
          /\ t.timedOut = s.timedOut /\ t.requested = s.requested
          /\ t.remaining = s.remaining /\ t.completed /\ t.result = r
          /\ t.dones = d
      BY <2>2 DEF Session
    <2> HIDE DEF t
    <2>6. Kept(t) /\ Busy(t) = Busy(s)
      BY <1>2, <2>5 DEF Sound, Kept, Pending, Busy
    <2>7. CloseSound(t) /\ ReadSound(t)
      BY <2>5, <2>6 DEF Sound, CloseSound, ReadSound
    <2>8. OutcomeSound(t)
      BY <2>3, <2>5 DEF OutcomeSound
    <2>9. QED
      BY <2>1, <2>4, <2>5, <2>6, <2>7, <2>8 DEF Sound
  <1>3. QED
    BY <1>1, <1>2

\* A response handler starts by striking the answered operation off.
LEMMA AnsweredSound ==
    ASSUME NEW s, Sound(s), NEW op \in Ops, s.pend[op] > 0
    PROVE  LET t == Answered(s, op)
           IN  /\ Sound(t) /\ t.keep
               /\ t = [s EXCEPT !.pend = t.pend]
               /\ op = "close" => Busy(t) = Busy(s)
               /\ op # "close" => Busy(t) = 0 /\ Busy(s) = 1
  <1> DEFINE p == [s.pend EXCEPT ![op] = @ - 1]
             t == [s EXCEPT !.pend = p]
  <1>1. s \in Session /\ s.pend \in [Ops -> Nat]
    BY DEF Sound, Session
  <1>2. p \in [Ops -> Nat]
    BY <1>1
  <1>3. \A o \in Ops : p[o] = IF o = op THEN s.pend[o] - 1 ELSE s.pend[o]
    BY <1>1
  <1>4. Answered(s, op) = t
    BY DEF Answered
  <1> HIDE DEF p
  <1>5. t \in Session
    BY <1>1, <1>2 DEF Session
  <1>6. /\ t.keep = s.keep /\ t.pend = p /\ t.closeReq = s.closeReq
        /\ t.timedOut = s.timedOut /\ t.requested = s.requested
        /\ t.remaining = s.remaining /\ t.completed = s.completed
        /\ t.result = s.result /\ t.dones = s.dones
    BY <1>1 DEF Session
  <1>7. t = [s EXCEPT !.pend = t.pend]
    BY <1>6
  <1> HIDE DEF t
  <1>8. /\ Busy(s) \in Nat /\ Busy(s) <= 1
        /\ Pending(s) = Busy(s) + s.pend["close"] /\ Pending(s) \in Nat
    BY <1>1, Counts DEF Sound, ReadSound
  <1>9. /\ op = "close" => Busy(t) = Busy(s)
        /\ op # "close" => Busy(t) = 0 /\ Busy(s) = 1
        /\ Pending(s) > 0
    <2>1. /\ s.pend["open"] \in Nat /\ s.pend["stat"] \in Nat
          /\ s.pend["read"] \in Nat /\ s.pend["close"] \in Nat
      BY <1>1 DEF Ops
    <2>2. \A o \in {"open", "stat", "read"} :
             p[o] = IF o = op THEN s.pend[o] - 1 ELSE s.pend[o]
      BY <1>3 DEF Ops
    <2>3. /\ Busy(t) = p["open"] + p["stat"] + p["read"]
          /\ Busy(s) = s.pend["open"] + s.pend["stat"] + s.pend["read"]
      BY <1>6 DEF Busy
    <2>4. op \in {"open", "stat", "read", "close"}
      BY DEF Ops
    <2>5. CASE op = "open"
      <3>1. /\ p["open"] = s.pend["open"] - 1
            /\ p["stat"] = s.pend["stat"] /\ p["read"] = s.pend["read"]
        BY <2>2, <2>5
      <3>2. s.pend["open"] > 0
        BY <2>5
      <3>3. /\ Busy(s) = 1 /\ s.pend["open"] = 1
            /\ s.pend["stat"] = 0 /\ s.pend["read"] = 0
        BY <1>8, <2>1, <2>3, <3>2
      <3>4. Busy(t) = 0
        BY <2>3, <3>1, <3>3
      <3>5. Pending(s) > 0
        BY <1>8, <2>1, <3>3
      <3>6. QED
        BY <2>5, <3>3, <3>4, <3>5
    <2>6. CASE op = "stat"
      <3>1. /\ p["stat"] = s.pend["stat"] - 1
            /\ p["open"] = s.pend["open"] /\ p["read"] = s.pend["read"]
        BY <2>2, <2>6
      <3>2. s.pend["stat"] > 0
        BY <2>6
      <3>3. /\ Busy(s) = 1 /\ s.pend["stat"] = 1
            /\ s.pend["open"] = 0 /\ s.pend["read"] = 0
        BY <1>8, <2>1, <2>3, <3>2
      <3>4. Busy(t) = 0
        BY <2>3, <3>1, <3>3
      <3>5. Pending(s) > 0
        BY <1>8, <2>1, <3>3
      <3>6. QED
        BY <2>6, <3>3, <3>4, <3>5
    <2>7. CASE op = "read"
      <3>1. /\ p["read"] = s.pend["read"] - 1
            /\ p["open"] = s.pend["open"] /\ p["stat"] = s.pend["stat"]
        BY <2>2, <2>7
      <3>2. s.pend["read"] > 0
        BY <2>7
      <3>3. /\ Busy(s) = 1 /\ s.pend["read"] = 1
            /\ s.pend["open"] = 0 /\ s.pend["stat"] = 0
        BY <1>8, <2>1, <2>3, <3>2
      <3>4. Busy(t) = 0
        BY <2>3, <3>1, <3>3
      <3>5. Pending(s) > 0
        BY <1>8, <2>1, <3>3
      <3>6. QED
        BY <2>7, <3>3, <3>4, <3>5
    <2>8. CASE op = "close"
      BY <1>8, <2>1, <2>2, <2>3, <2>8
    <2>9. QED
      BY <2>4, <2>5, <2>6, <2>7, <2>8
  <1>11. t.keep
    BY <1>6, <1>9 DEF Sound, Kept
  <1>12. CloseSound(t)
    BY <1>1, <1>2, <1>3, <1>6, <1>8, <1>9 DEF Sound, CloseSound, Ops
  <1>13. ReadSound(t)
    BY <1>1, <1>2, <1>3, <1>6, <1>8, <1>9 DEF Sound, ReadSound, Ops
  <1>14. OutcomeSound(t)
    BY <1>6 DEF Sound, OutcomeSound
  <1>15. QED
    BY <1>4, <1>5, <1>7, <1>9, <1>11, <1>12, <1>13, <1>14 DEF Sound, Kept

\* SubmitClose may be called with an operation in flight only on a session
\* whose wall timeout was requested.
LEMMA SubmitCloseSound ==
    ASSUME NEW s, Sound(s), s.keep, NEW acc \in BOOLEAN,
           s.timedOut \/ Busy(s) = 0
    PROVE  LET t == SubmitClose(s, acc)
           IN  /\ Sound(t) /\ Busy(t) = Busy(s)
               /\ t.keep /\ t.timedOut = s.timedOut
  <1> DEFINE taken == CloseAccepted(s, acc)
             u   == Submit(s, "close", taken)
             sub == [u EXCEPT !.closeReq = TRUE]
             out == IF s.timedOut THEN "timeout" ELSE "error"
  <1>1. s \in Session /\ out \in Outcomes \ {"none"}
    BY DEF Sound, Outcomes
  <1>2. taken \in BOOLEAN /\ "close" \in Ops
    BY DEF CloseAccepted, Ops
  <1>3. /\ \A o \in Ops : s.pend[o] \in Nat
        /\ Busy(s) \in Nat /\ Pending(s) \in Nat
        /\ Pending(s) = Busy(s) + s.pend["close"]
    BY <1>1, Counts
  <1>5. taken => (StrictClose => Pending(s) = 0)
    BY DEF CloseAccepted
  <1> HIDE DEF taken
  <1>4. /\ u \in Session
        /\ u = [s EXCEPT !.pend = u.pend, !.deadline = u.deadline]
        /\ taken => u.pend = [s.pend EXCEPT !["close"] = s.pend["close"] + 1]
        /\ ~taken => u.pend = s.pend
    <2>1. s \in Session /\ "close" \in Ops /\ taken \in BOOLEAN
      BY <1>1, <1>2
    <2>2. QED
      BY ONLY <2>1, SubmitFields, ZenonT(60) DEF u
  <1>6. /\ s.closeReq => SubmitClose(s, acc) = s
        /\ ~s.closeReq /\ taken => SubmitClose(s, acc) = sub
        /\ ~s.closeReq /\ ~taken /\ Pending(s) > 0
              => SubmitClose(s, acc) = [sub EXCEPT !.closeReq = FALSE]
        /\ ~s.closeReq /\ ~taken /\ Pending(s) = 0
              => SubmitClose(s, acc) = Complete(sub, out)
    BY DEF SubmitClose, taken
  <1> HIDE DEF u, out
  <1>7. sub \in Session /\ [sub EXCEPT !.closeReq = FALSE] = [u EXCEPT !.closeReq = FALSE]
    BY <1>4 DEF Session
  <1>8. /\ sub.keep = s.keep /\ sub.pend = u.pend /\ sub.closeReq
        /\ sub.timedOut = s.timedOut /\ sub.requested = s.requested
        /\ sub.remaining = s.remaining /\ sub.completed = s.completed
        /\ sub.result = s.result /\ sub.dones = s.dones
    BY <1>1, <1>4 DEF Session
  <1> HIDE DEF sub
  <1>9. /\ Busy(sub) = Busy(s) /\ sub.pend["read"] = s.pend["read"]
        /\ sub.pend["close"] = IF taken THEN s.pend["close"] + 1 ELSE s.pend["close"]
    <2>1. s.pend \in [Ops -> Nat]
      BY <1>1 DEF Session
    <2>2. CASE taken
      BY <1>4, <1>8, <2>1, <2>2 DEF Busy, Ops
    <2>3. CASE ~taken
      BY <1>4, <1>8, <2>3 DEF Busy
    <2>4. QED
      BY <2>2, <2>3
  <1>10. s.closeReq => Sound(s) /\ s.keep
    OBVIOUS
  <1>11. ASSUME ~s.closeReq, taken \/ Pending(s) = 0
         PROVE  Sound(sub)
    <2>1. s.pend["close"] = 0
      BY <1>3, <1>11, <1>2 DEF Sound, CloseSound
    <2>2. sub.pend["close"] <= 1 /\ sub.pend["read"] = s.pend["read"]
      BY <1>9, <2>1
    <2>3. StrictClose \/ ~s.timedOut => Busy(s) = 0
      <3>1. CASE Pending(s) = 0
        BY <1>2, <1>3, <3>1
      <3>2. CASE taken
        <4>1. CASE StrictClose
          BY <1>2, <1>3, <1>5, <3>1, <3>2, <4>1
        <4>2. CASE ~StrictClose
          BY <4>2
        <4>3. QED
          BY <4>1, <4>2
      <3>3. QED
        BY <1>11, <3>1, <3>2
    <2>4. CloseSound(sub)
      BY <1>8, <1>9, <2>2, <2>3 DEF CloseSound
    <2>5. ReadSound(sub) /\ OutcomeSound(sub) /\ Kept(sub)
      BY <1>8, <1>9, <2>2 DEF Sound, ReadSound, OutcomeSound, Kept
    <2>6. QED
      BY <1>7, <2>4, <2>5 DEF Sound
  <1>12. CASE s.closeReq
    BY <1>6, <1>12
  <1>13. CASE ~s.closeReq /\ taken
    BY <1>6, <1>8, <1>9, <1>11, <1>13
  <1>14. CASE ~s.closeReq /\ ~taken /\ Pending(s) = 0
    <2>1. Sound(sub)
      BY <1>11, <1>14
    <2>2. SubmitClose(s, acc) = Complete(sub, out)
      BY <1>6, <1>14
    <2>3. QED
      BY <1>1, <1>8, <1>9, <2>1, <2>2, CompleteSound
  <1>15. CASE ~s.closeReq /\ ~taken /\ Pending(s) > 0
    <2> DEFINE t == [u EXCEPT !.closeReq = FALSE]
    <2>1. t \in Session
      BY <1>4 DEF Session
    <2>2. /\ t.keep = s.keep /\ t.pend = u.pend /\ t.closeReq = s.closeReq
          /\ t.timedOut = s.timedOut /\ t.requested = s.requested
          /\ t.remaining = s.remaining /\ t.completed = s.completed
          /\ t.result = s.result /\ t.dones = s.dones
      BY <1>1, <1>4, <1>15 DEF Session
    <2> HIDE DEF t
    <2>3. u.pend = s.pend
      BY <1>4, <1>15
    <2>4. Sound(t) /\ Busy(t) = Busy(s)
      BY <2>1, <2>2, <2>3, LedgerFrame
    <2>5. QED
      BY <1>6, <1>7, <1>15, <2>2, <2>4 DEF t
  <1>16. QED
    BY <1>3, <1>12, <1>13, <1>14, <1>15

\* SubmitRead asks for no more than the budget left, with nothing in flight.
LEMMA SubmitReadSound ==
    ASSUME NEW s, Sound(s), s.keep, NEW acc \in BOOLEAN,
           Busy(s) = 0, ~s.closeReq, s.remaining > 0
    PROVE  Sound(SubmitRead(s, acc))
  <1> DEFINE n    == Least(OpBytes, s.remaining)
             over == IF s.prepaid > n THEN s.prepaid - n ELSE 0
             u    == Submit(s, "read", acc)
             v    == RefundBytes(u, over)
             sub  == [v EXCEPT !.requested = n, !.prepaid = 0, !.issuedRead = TRUE]
             w    == RefundBytes(sub, n)
             ref  == [w EXCEPT !.requested = 0]
  <1>1. /\ s \in Session /\ s.remaining \in Nat /\ s.prepaid \in Nat
        /\ s.pend \in [Ops -> Nat]
    BY DEF Sound, Session
  <1>2. n \in Nat /\ n <= s.remaining
    BY <1>1, SessionOptions DEF Least
  <1>3. over \in Int
    BY <1>1, <1>2
  <1>4. /\ acc => SubmitRead(s, acc) = sub
        /\ ~acc => SubmitRead(s, acc) = Complete(ref, "error")
    BY DEF SubmitRead
  <1>5. /\ u \in Session
        /\ u = [s EXCEPT !.pend = u.pend, !.deadline = u.deadline]
        /\ acc => u.pend = [s.pend EXCEPT !["read"] = s.pend["read"] + 1]
        /\ ~acc => u.pend = s.pend
    <2>1. s \in Session /\ "read" \in Ops /\ acc \in BOOLEAN
      BY <1>1 DEF Ops
    <2>2. QED
      BY ONLY <2>1, SubmitFields, ZenonT(60) DEF u
  <1> HIDE DEF n, over, u
  <1>6. v \in Session /\ v = [u EXCEPT !.held = v.held]
    BY <1>3, <1>5, RefundBytesFields
  <1> HIDE DEF v
  <1>7. sub \in Session
    BY <1>2, <1>6 DEF Session
  <1>8. /\ sub.keep = s.keep /\ sub.pend = u.pend /\ sub.completed = s.completed
        /\ sub.timedOut = s.timedOut /\ sub.closeReq = s.closeReq
        /\ sub.result = s.result /\ sub.dones = s.dones
        /\ sub.requested = n /\ sub.remaining = s.remaining
    <2>1. /\ u.keep = s.keep /\ u.completed = s.completed
          /\ u.timedOut = s.timedOut /\ u.closeReq = s.closeReq
          /\ u.result = s.result /\ u.dones = s.dones /\ u.remaining = s.remaining
      BY ONLY <1>1, <1>5 DEF Session
    <2>2. /\ v.keep = u.keep /\ v.pend = u.pend /\ v.completed = u.completed
          /\ v.timedOut = u.timedOut /\ v.closeReq = u.closeReq
          /\ v.result = u.result /\ v.dones = u.dones /\ v.remaining = u.remaining
      BY ONLY <1>5, <1>6 DEF Session
    <2>3. /\ sub.keep = v.keep /\ sub.pend = v.pend /\ sub.completed = v.completed
          /\ sub.timedOut = v.timedOut /\ sub.closeReq = v.closeReq
          /\ sub.result = v.result /\ sub.dones = v.dones
          /\ sub.requested = n /\ sub.remaining = v.remaining
      BY ONLY <1>6 DEF sub, Session
    <2>4. QED
      BY ONLY <2>1, <2>2, <2>3
  <1> HIDE DEF sub
  <1>9. CASE acc
    <2>1. /\ sub.pend["close"] = s.pend["close"] /\ sub.pend["open"] = s.pend["open"]
          /\ sub.pend["stat"] = s.pend["stat"]
          /\ sub.pend["read"] = s.pend["read"] + 1
      BY <1>1, <1>5, <1>8, <1>9 DEF Ops
    <2>2. Busy(sub) = 1
      BY <1>1, <2>1 DEF Busy, Ops
    <2>3. ReadSound(sub)
      BY <1>2, <1>8, <2>2 DEF ReadSound
    <2>4. CloseSound(sub) /\ OutcomeSound(sub) /\ Kept(sub)
      BY <1>8, <2>1 DEF Sound, CloseSound, OutcomeSound, Kept
    <2>5. QED
      BY <1>4, <1>7, <1>9, <2>3, <2>4 DEF Sound
  <1>10. CASE ~acc
    <2>1. w \in Session /\ w = [sub EXCEPT !.held = w.held]
      BY <1>2, <1>7, RefundBytesFields
    <2> HIDE DEF w
    <2>2. ref \in Session
      BY <2>1 DEF Session
    <2>3. /\ ref.keep = s.keep /\ ref.pend = s.pend /\ ref.completed = s.completed
          /\ ref.timedOut = s.timedOut /\ ref.closeReq = s.closeReq
          /\ ref.result = s.result /\ ref.dones = s.dones
          /\ ref.requested = 0 /\ ref.remaining = s.remaining
      <3>1. /\ ref.keep = sub.keep /\ ref.pend = sub.pend /\ ref.completed = sub.completed
            /\ ref.timedOut = sub.timedOut /\ ref.closeReq = sub.closeReq
            /\ ref.result = sub.result /\ ref.dones = sub.dones
            /\ ref.requested = 0 /\ ref.remaining = sub.remaining
        BY ONLY <1>7, <2>1 DEF ref, Session
      <3> QED
        BY <1>5, <1>8, <1>10, <3>1
    <2> HIDE DEF ref
    <2>4. Busy(ref) = 0 /\ Pending(ref) = Pending(s)
      BY <2>3 DEF Busy, Pending
    <2>5. ReadSound(ref) /\ CloseSound(ref) /\ OutcomeSound(ref) /\ Kept(ref)
      BY <1>1, <2>3, <2>4 DEF Sound, ReadSound, CloseSound, OutcomeSound, Kept
    <2>6. Sound(ref) /\ "error" \in Outcomes \ {"none"}
      BY <2>2, <2>5 DEF Sound, Outcomes
    <2>7. QED
      BY <1>4, <1>10, <2>6, CompleteSound
  <1>11. QED
    BY <1>9, <1>10

\* IssueNext is called with nothing in flight, and after a Close was requested
\* only on a session whose wall timeout was.
LEMMA IssueNextSound ==
    ASSUME NEW s, Sound(s), NEW acc \in BOOLEAN,
           Busy(s) = 0, s.closeReq => s.timedOut
    PROVE  Sound(IssueNext(s, acc))
  <1> DEFINE t == IF s.timedOut THEN [s EXCEPT !.remaining = 0] ELSE s
             r == RefundPrepaid(t)
  <1>1. s \in Session /\ s.remaining \in Nat
    BY DEF Sound, Session
  <1>2. /\ s.completed => IssueNext(s, acc) = s
        /\ ~s.completed /\ t.remaining = 0 => IssueNext(s, acc) = SubmitClose(r, acc)
        /\ ~s.completed /\ t.remaining > 0 => IssueNext(s, acc) = SubmitRead(t, acc)
    BY DEF IssueNext
  <1>3. /\ t \in Session
        /\ t.keep = s.keep /\ t.pend = s.pend /\ t.completed = s.completed
        /\ t.timedOut = s.timedOut /\ t.closeReq = s.closeReq
        /\ t.result = s.result /\ t.dones = s.dones
        /\ t.remaining = IF s.timedOut THEN 0 ELSE s.remaining
    <2>1. CASE s.timedOut
      <3>1. t = [s EXCEPT !.remaining = 0]
        BY <2>1
      <3>2. QED
        BY <1>1, <2>1, <3>1 DEF Session
    <2>2. CASE ~s.timedOut
      BY <1>1, <2>2
    <2>3. QED
      BY <2>1, <2>2
  <1> HIDE DEF t, r
  <1>4. t.remaining \in Nat
    BY <1>1, <1>3
  <1>5. Busy(t) = 0 /\ Pending(t) = Pending(s) /\ t.pend["read"] = 0
    <2>1. \A o \in Ops : s.pend[o] \in Nat
      BY <1>1, Counts
    <2>2. QED
      BY <1>3, <2>1 DEF Busy, Pending, Ops
  <1>6. Sound(t)
    <2>1. Kept(t) /\ OutcomeSound(t) /\ CloseSound(t)
      BY <1>3, <1>5 DEF Sound, Kept, OutcomeSound, CloseSound
    <2>2. ReadSound(t)
      BY <1>5 DEF ReadSound
    <2>3. QED
      BY <1>3, <2>1, <2>2 DEF Sound
  <1>7. CASE s.completed
    BY <1>2, <1>7
  <1>8. CASE ~s.completed /\ t.remaining = 0
    <2>1. Sound(r) /\ Busy(r) = 0 /\ r.keep = s.keep
      BY <1>3, <1>5, <1>6, RefundPrepaidSound DEF r
    <2>2. s.keep
      BY <1>8 DEF Sound, Kept
    <2>3. QED
      BY <1>2, <1>8, <2>1, <2>2, SubmitCloseSound
  <1>9. CASE ~s.completed /\ t.remaining > 0
    <2>1. ~s.closeReq /\ s.keep
      BY <1>3, <1>9 DEF Sound, Kept
    <2>2. QED
      BY <1>2, <1>3, <1>5, <1>6, <1>9, <2>1, SubmitReadSound
  <1>10. QED
    BY <1>4, <1>7, <1>8, <1>9

\* Fail settles a failed operation and keeps the session sound.
LEMMA FailSound ==
    ASSUME NEW s, Sound(s), NEW stage
    PROVE  LET t == Fail(s, stage)
           IN  /\ Sound(t) /\ Busy(t) = Busy(s)
               /\ t.closeReq = s.closeReq /\ t.timedOut = s.timedOut
  <1> DEFINE r == RefundBytes(s, s.requested)
             t == [r EXCEPT !.requested = 0]
  <1>1. s \in Session /\ s.requested \in Int /\ s.remaining \in Nat
    BY DEF Sound, Session
  <1>2. "error" \in Outcomes \ {"none"}
    BY DEF Outcomes
  <1>3. r \in Session /\ r = [s EXCEPT !.held = r.held]
    BY <1>1, RefundBytesFields
  <1>4. /\ stage = "read" => Fail(s, stage) = Complete(t, "error")
        /\ stage # "read" => Fail(s, stage) = Complete(RefundPrepaid(s), "error")
    BY DEF Fail
  <1> HIDE DEF r
  <1>5. /\ t \in Session
        /\ t.keep = s.keep /\ t.pend = s.pend /\ t.completed = s.completed
        /\ t.timedOut = s.timedOut /\ t.closeReq = s.closeReq
        /\ t.result = s.result /\ t.dones = s.dones
        /\ t.requested = 0 /\ t.remaining = s.remaining
    BY <1>1, <1>3 DEF Session
  <1> HIDE DEF t
  <1>6. Busy(t) = Busy(s) /\ Pending(t) = Pending(s)
    BY <1>5 DEF Busy, Pending
  <1>7. Kept(t) /\ CloseSound(t) /\ ReadSound(t) /\ OutcomeSound(t)
    BY <1>1, <1>5, <1>6 DEF Sound, Kept, CloseSound, ReadSound, OutcomeSound
  <1>8. Sound(t)
    BY <1>5, <1>7 DEF Sound
  <1>9. LET p == RefundPrepaid(s)
        IN  /\ Sound(p) /\ Busy(p) = Busy(s)
            /\ p.closeReq = s.closeReq /\ p.timedOut = s.timedOut
    BY RefundPrepaidSound
  <1>10. CASE stage = "read"
    BY <1>2, <1>4, <1>5, <1>6, <1>8, <1>10, CompleteSound
  <1>11. CASE stage # "read"
    BY <1>2, <1>4, <1>9, <1>11, CompleteSound
  <1>12. QED
    BY <1>10, <1>11

-----------------------------------------------------------------------------
(* The entry points. *)

\* OnOpen submits the Stat only on a session nobody asked to close.
LEMMA OnOpenSound ==
    ASSUME NEW s, Sound(s), s.pend["open"] > 0, NEW ok \in BOOLEAN, NEW acc \in BOOLEAN
    PROVE  Sound(OnOpen(s, ok, acc))
  <1> DEFINE a == Answered(s, "open")
             u == Submit(a, "stat", acc)
  <1>1. "open" \in Ops /\ "stat" \in Ops /\ "error" \in Outcomes \ {"none"}
    BY DEF Ops, Outcomes
  <1>2. Sound(a) /\ a.keep /\ a = [s EXCEPT !.pend = a.pend] /\ Busy(a) = 0 /\ Busy(s) = 1
    BY ONLY <1>1, Sound(s), s.pend["open"] > 0, AnsweredSound, ZenonT(60)
  <1>3. /\ a.completed => OnOpen(s, ok, acc) = a
        /\ ~a.completed /\ ~ok => OnOpen(s, ok, acc) = Fail(a, "open")
        /\ ~a.completed /\ ok /\ a.timedOut => OnOpen(s, ok, acc) = SubmitClose(a, acc)
        /\ ~a.completed /\ ok /\ ~a.timedOut /\ acc => OnOpen(s, ok, acc) = u
        /\ ~a.completed /\ ok /\ ~a.timedOut /\ ~acc
              => OnOpen(s, ok, acc) = Complete(RefundPrepaid(u), "error")
    BY DEF OnOpen
  <1> HIDE DEF a
  <1>4. CASE a.completed
    BY <1>2, <1>3, <1>4
  <1>5. CASE ~a.completed /\ ~ok
    BY <1>2, <1>3, <1>5, FailSound
  <1>6. CASE ~a.completed /\ ok /\ a.timedOut
    BY <1>2, <1>3, <1>6, SubmitCloseSound
  <1>7. CASE ~a.completed /\ ok /\ ~a.timedOut
    <2>1. a \in Session /\ s \in Session
      BY <1>2 DEF Sound
    <2>2. ~s.timedOut /\ s.closeReq = a.closeReq
      BY <1>2, <1>7, <2>1 DEF Session
    <2>3. ~a.closeReq
      BY <1>2, <2>2 DEF Sound, CloseSound
    <2>4. /\ u \in Session
          /\ u = [a EXCEPT !.pend = u.pend, !.deadline = u.deadline]
          /\ acc => u.pend = [a.pend EXCEPT !["stat"] = a.pend["stat"] + 1]
          /\ ~acc => u.pend = a.pend
      BY ONLY <1>1, <2>1, acc \in BOOLEAN, SubmitFields, ZenonT(60) DEF u
    <2> HIDE DEF u
    <2>5. /\ u.keep = a.keep /\ u.completed = a.completed
          /\ u.timedOut = a.timedOut /\ u.closeReq = a.closeReq
          /\ u.result = a.result /\ u.dones = a.dones
          /\ u.requested = a.requested /\ u.remaining = a.remaining
      BY <2>1, <2>4 DEF Session
    <2>6. a.pend \in [Ops -> Nat]
      BY <2>1 DEF Session
    <2>7. CASE acc
      <3>1. /\ u.pend["close"] = a.pend["close"] /\ u.pend["open"] = a.pend["open"]
            /\ u.pend["read"] = a.pend["read"]
            /\ u.pend["stat"] = a.pend["stat"] + 1
        BY <2>4, <2>6, <2>7 DEF Ops
      <3>2. Busy(u) = 1 /\ u.pend["read"] = 0
        BY <1>2, <2>6, <3>1 DEF Busy, Ops
      <3>3. ReadSound(u)
        BY <3>2 DEF ReadSound
      <3>4. CloseSound(u) /\ OutcomeSound(u) /\ Kept(u)
        BY <1>2, <2>3, <2>5, <3>1 DEF Sound, CloseSound, OutcomeSound, Kept
      <3>5. QED
        BY <1>3, <1>7, <2>4, <2>7, <3>3, <3>4 DEF Sound
    <2>8. CASE ~acc
      <3>1. Sound(u)
        BY <1>2, <2>4, <2>5, <2>8, LedgerFrame
      <3>2. Sound(Complete(RefundPrepaid(u), "error"))
        BY <1>1, <3>1, RefundPrepaidSound, CompleteSound
      <3>3. QED
        BY <1>3, <1>7, <2>8, <3>2
    <2>9. QED
      BY <2>7, <2>8
  <1>8. QED
    BY <1>4, <1>5, <1>6, <1>7

\* Budget is a byte count whenever the offset lies within the file.
LEMMA BudgetType ==
    ASSUME NEW size \in Nat, ~BeyondEnd(size)
    PROVE  Budget(size) \in Nat
  <1> DEFINE cap == IF MaxBytes > 0 THEN Least(size, MaxBytes) ELSE size
  <1>1. cap \in Nat
    BY SessionOptions DEF Least
  <1>2. CASE RandomOffset
    BY <1>1, <1>2 DEF Budget
  <1>3. CASE ~RandomOffset
    <2>1. size - Offset \in Nat
      BY <1>3, SessionOptions DEF BeyondEnd
    <2>2. Budget(size) = Least(size - Offset, cap)
      BY <1>3 DEF Budget
    <2> HIDE DEF cap
    <2>3. QED
      BY <1>1, <2>1, <2>2 DEF Least
  <1>4. QED
    BY <1>2, <1>3

\* OnStat sets the budget and issues the first operation.
LEMMA OnStatSound ==
    ASSUME NEW s, Sound(s), s.pend["stat"] > 0, NEW ok \in BOOLEAN,
           NEW size \in Nat, NEW acc \in BOOLEAN
    PROVE  Sound(OnStat(s, ok, size, acc))
  <1> DEFINE a == Answered(s, "stat")
             b == Budget(size)
             t == [a EXCEPT !.remaining = b, !.budgetSet = TRUE]
  <1>1. "stat" \in Ops /\ "error" \in Outcomes \ {"none"}
    BY DEF Ops, Outcomes
  <1>2. Sound(a) /\ a.keep /\ a = [s EXCEPT !.pend = a.pend] /\ Busy(a) = 0 /\ Busy(s) = 1
    BY ONLY <1>1, Sound(s), s.pend["stat"] > 0, AnsweredSound, ZenonT(60)
  <1>3. /\ a.completed => OnStat(s, ok, size, acc) = a
        /\ ~a.completed /\ ~ok => OnStat(s, ok, size, acc) = Fail(a, "stat")
        /\ ~a.completed /\ ok /\ BeyondEnd(size)
              => OnStat(s, ok, size, acc) = Complete(RefundPrepaid(a), "error")
        /\ ~a.completed /\ ok /\ ~BeyondEnd(size)
              => OnStat(s, ok, size, acc) = IssueNext(t, acc)
    BY DEF OnStat
  <1> HIDE DEF a
  <1>4. CASE a.completed
    BY <1>2, <1>3, <1>4
  <1>5. CASE ~a.completed /\ ~ok
    BY <1>2, <1>3, <1>5, FailSound
  <1>6. CASE ~a.completed /\ ok /\ BeyondEnd(size)
    <2>1. Sound(Complete(RefundPrepaid(a), "error"))
      BY <1>1, <1>2, RefundPrepaidSound, CompleteSound
    <2>2. QED
      BY <1>3, <1>6, <2>1
  <1>7. CASE ~a.completed /\ ok /\ ~BeyondEnd(size)
    <2>1. a \in Session /\ s \in Session
      BY <1>2 DEF Sound
    <2>2. b \in Nat
      BY <1>7, BudgetType
    <2> HIDE DEF b
    <2>3. /\ t \in Session
          /\ t.keep = a.keep /\ t.pend = a.pend /\ t.completed = a.completed
          /\ t.timedOut = a.timedOut /\ t.closeReq = a.closeReq
          /\ t.result = a.result /\ t.dones = a.dones
      BY <2>1, <2>2 DEF Session
    <2>4. s.closeReq = a.closeReq /\ s.timedOut = a.timedOut
      BY <1>2, <2>1 DEF Session
    <2> HIDE DEF t
    <2>5. t.closeReq => t.timedOut
      BY <1>2, <2>3, <2>4 DEF Sound, CloseSound
    <2>6. Busy(t) = 0 /\ Pending(t) = Pending(a) /\ t.pend["read"] = 0
      <3>1. a.pend \in [Ops -> Nat]
        BY <2>1 DEF Session
      <3>2. QED
        BY <1>2, <2>3, <3>1 DEF Busy, Pending, Ops
    <2>7. ReadSound(t) /\ CloseSound(t) /\ OutcomeSound(t) /\ Kept(t)
      BY <1>2, <2>3, <2>6 DEF Sound, ReadSound, CloseSound, OutcomeSound, Kept
    <2>8. Sound(t)
      BY <2>3, <2>7 DEF Sound
    <2>9. QED
      BY <1>3, <1>7, <2>5, <2>6, <2>8, IssueNextSound
  <1>8. QED
    BY <1>4, <1>5, <1>6, <1>7

\* A Read that returns leaves the session sound and nothing but perhaps a
\* Close in flight.
LEMMA ReadCountedSound ==
    ASSUME NEW s, Sound(s), s.pend["read"] > 0, NEW got \in Nat, got <= s.requested
    PROVE  LET t == ReadCounted(s, got)
           IN  /\ Sound(t) /\ Busy(t) = 0
               /\ t.closeReq = s.closeReq /\ t.timedOut = s.timedOut
  <1> DEFINE a     == Answered(s, "read")
             short == s.requested - got
             r     == RefundBytes(a, short)
             left  == IF short > 0 THEN 0 ELSE s.remaining - got
             sum   == s.bytes + got
             t     == [r EXCEPT !.bytes = sum, !.requested = 0, !.remaining = left]
  <1>1. "read" \in Ops
    BY DEF Ops
  <1>2. Sound(a) /\ a.keep /\ a = [s EXCEPT !.pend = a.pend] /\ Busy(a) = 0
    BY ONLY <1>1, Sound(s), s.pend["read"] > 0, AnsweredSound, ZenonT(60)
  <1> HIDE DEF a
  <1>3. /\ a \in Session /\ s \in Session
        /\ s.requested \in Nat /\ s.remaining \in Nat /\ s.bytes \in Nat
        /\ s.requested <= s.remaining
    BY <1>2 DEF Sound, ReadSound, Session
  <1>4. short \in Int /\ left \in Nat /\ sum \in Nat
    BY <1>3
  <1>5. a.bytes = s.bytes /\ a.remaining = s.remaining /\ a.requested = s.requested
    BY <1>2, <1>3 DEF Session
  <1> HIDE DEF short
  <1>6. r \in Session /\ r = [a EXCEPT !.held = r.held]
    BY <1>3, <1>4, RefundBytesFields
  <1>7. r.bytes = s.bytes /\ r.remaining = s.remaining
    BY <1>3, <1>5, <1>6 DEF Session
  <1>8. ReadCounted(s, got) = t
    BY <1>7 DEF ReadCounted, a, short
  <1> HIDE DEF r, left, sum
  <1>9. /\ t \in Session
        /\ t.keep = s.keep /\ t.pend = a.pend /\ t.completed = s.completed
        /\ t.timedOut = s.timedOut /\ t.closeReq = s.closeReq
        /\ t.result = s.result /\ t.dones = s.dones
        /\ t.requested = 0 /\ t.remaining = left
    <2>1. /\ t \in Session
          /\ t.keep = r.keep /\ t.pend = r.pend /\ t.completed = r.completed
          /\ t.timedOut = r.timedOut /\ t.closeReq = r.closeReq
          /\ t.result = r.result /\ t.dones = r.dones
          /\ t.requested = 0 /\ t.remaining = left
      BY ONLY <1>4, <1>6 DEF t, Session
    <2>2. /\ r.keep = a.keep /\ r.pend = a.pend /\ r.completed = a.completed
          /\ r.timedOut = a.timedOut /\ r.closeReq = a.closeReq
          /\ r.result = a.result /\ r.dones = a.dones
      BY ONLY <1>3, <1>6 DEF Session
    <2>3. /\ a.keep = s.keep /\ a.completed = s.completed /\ a.timedOut = s.timedOut
          /\ a.closeReq = s.closeReq /\ a.result = s.result /\ a.dones = s.dones
      BY ONLY <1>2, <1>3 DEF Session
    <2> QED
      BY <2>1, <2>2, <2>3
  <1>10. /\ a.keep = s.keep /\ a.completed = s.completed /\ a.timedOut = s.timedOut
         /\ a.closeReq = s.closeReq /\ a.result = s.result /\ a.dones = s.dones
    BY <1>2, <1>3 DEF Session
  <1> HIDE DEF t
  <1>11. Busy(t) = 0 /\ Pending(t) = Pending(a)
    BY <1>2, <1>9 DEF Busy, Pending
  <1>12. ReadSound(t)
    BY <1>4, <1>9, <1>11 DEF ReadSound
  <1>13. CloseSound(t) /\ OutcomeSound(t) /\ Kept(t)
    BY <1>2, <1>9, <1>10, <1>11 DEF Sound, CloseSound, OutcomeSound, Kept
  <1>14. QED
    BY <1>8, <1>9, <1>11, <1>12, <1>13 DEF Sound

\* OnRead parks the session, with nothing in flight and not asked to close
\* except by the watchdog, or issues the next operation.
LEMMA OnReadSound ==
    ASSUME NEW s, Sound(s), s.pend["read"] > 0, NEW ok \in BOOLEAN,
           NEW got \in Nat, got <= s.requested, NEW acc \in BOOLEAN
    PROVE  LET t == OnRead(s, ok, got, acc)
           IN  /\ Sound(t)
               /\ Parks(s, ok, got) => Busy(t) = 0 /\ (t.closeReq => t.timedOut)
  <1> DEFINE a == Answered(s, "read")
             c == ReadCounted(s, got)
             q == [c EXCEPT !.deadline = "none"]
  <1>1. "read" \in Ops
    BY DEF Ops
  <1>2. Sound(a) /\ a.keep /\ a = [s EXCEPT !.pend = a.pend] /\ Busy(a) = 0 /\ Busy(s) = 1
    BY ONLY <1>1, Sound(s), s.pend["read"] > 0, AnsweredSound, ZenonT(60)
  <1>3. /\ Sound(c) /\ Busy(c) = 0
        /\ c.closeReq = s.closeReq /\ c.timedOut = s.timedOut
    BY ReadCountedSound
  <1>4. s \in Session /\ c \in Session /\ a.completed = s.completed
    <2>1. s \in Session /\ c \in Session
      BY <1>3 DEF Sound
    <2>2. a.completed = s.completed
      BY <2>1 DEF Answered, Session
    <2>3. QED
      BY <2>1, <2>2
  <1>5. Parks(s, ok, got) => ok /\ ~s.completed
    BY DEF Parks
  <1>6. /\ a.completed => OnRead(s, ok, got, acc) = a
        /\ ~a.completed /\ ~ok => OnRead(s, ok, got, acc) = Fail(a, "read")
        /\ Parks(s, ok, got) => OnRead(s, ok, got, acc) = q
        /\ ~a.completed /\ ok /\ ~Parks(s, ok, got)
              => OnRead(s, ok, got, acc) = IssueNext(c, acc)
    BY <1>4, <1>5 DEF OnRead, Disarmed
  <1>7. c.closeReq => c.timedOut
    BY <1>2, <1>3 DEF Sound, CloseSound
  <1> HIDE DEF a, c
  <1>8. /\ q \in Session
        /\ q.keep = c.keep /\ q.pend = c.pend /\ q.completed = c.completed
        /\ q.timedOut = c.timedOut /\ q.closeReq = c.closeReq
        /\ q.result = c.result /\ q.dones = c.dones
        /\ q.requested = c.requested /\ q.remaining = c.remaining
    BY <1>4 DEF Session
  <1> HIDE DEF q
  <1>9. CASE Parks(s, ok, got)
    <2>1. Sound(q) /\ Busy(q) = 0
      BY <1>3, <1>8, LedgerFrame
    <2>2. QED
      BY <1>6, <1>7, <1>8, <1>9, <2>1
  <1>10. CASE ~Parks(s, ok, got) /\ a.completed
    BY <1>2, <1>6, <1>10
  <1>11. CASE ~Parks(s, ok, got) /\ ~a.completed /\ ~ok
    BY <1>2, <1>6, <1>11, FailSound
  <1>12. CASE ~Parks(s, ok, got) /\ ~a.completed /\ ok
    BY <1>3, <1>6, <1>7, <1>12, IssueNextSound
  <1>13. QED
    BY <1>9, <1>10, <1>11, <1>12

\* OnClose ends the session.
LEMMA OnCloseSound ==
    ASSUME NEW s, Sound(s), s.pend["close"] > 0, NEW ok \in BOOLEAN
    PROVE  LET t == OnClose(s, ok)
           IN  /\ Sound(t) /\ Busy(t) = Busy(s)
               /\ t.closeReq = s.closeReq /\ t.timedOut = s.timedOut
  <1> DEFINE a == Answered(s, "close")
  <1>1. /\ "close" \in Ops
        /\ "ok" \in Outcomes \ {"none"} /\ "timeout" \in Outcomes \ {"none"}
    BY DEF Ops, Outcomes
  <1>2. Sound(a) /\ a = [s EXCEPT !.pend = a.pend] /\ Busy(a) = Busy(s)
    BY ONLY <1>1, Sound(s), s.pend["close"] > 0, AnsweredSound, ZenonT(60)
  <1>3. \/ OnClose(s, ok) = a
        \/ OnClose(s, ok) = Complete(a, "timeout")
        \/ OnClose(s, ok) = Fail(a, "close")
        \/ OnClose(s, ok) = Complete(a, "ok")
    BY DEF OnClose
  <1> HIDE DEF a
  <1>4. a.closeReq = s.closeReq /\ a.timedOut = s.timedOut
    BY <1>2 DEF Sound, Session
  <1>5. CASE OnClose(s, ok) = a
    BY <1>2, <1>4, <1>5
  <1>6. CASE OnClose(s, ok) = Complete(a, "timeout")
    BY <1>1, <1>2, <1>4, <1>6, CompleteSound
  <1>7. CASE OnClose(s, ok) = Fail(a, "close")
    BY <1>2, <1>4, <1>7, FailSound
  <1>8. CASE OnClose(s, ok) = Complete(a, "ok")
    BY <1>1, <1>2, <1>4, <1>8, CompleteSound
  <1>9. QED
    BY <1>3, <1>5, <1>6, <1>7, <1>8

\* The watchdog's request may come at any time, with any operation in flight.
LEMMA RequestWallTimeoutSound ==
    ASSUME NEW s, Sound(s), NEW acc \in BOOLEAN
    PROVE  LET t == RequestWallTimeout(s, acc)
           IN  /\ Sound(t) /\ Busy(t) = Busy(s)
               /\ t = s \/ t.timedOut
  <1> DEFINE u == [s EXCEPT !.timedOut = TRUE]
  <1>1. CASE s.completed \/ s.closeReq
    BY <1>1 DEF RequestWallTimeout
  <1>2. CASE ~s.completed /\ ~s.closeReq
    <2>1. s \in Session /\ s.keep
      BY <1>2 DEF Sound, Kept
    <2>2. /\ u \in Session
          /\ u.keep = s.keep /\ u.pend = s.pend /\ u.completed = s.completed
          /\ u.timedOut /\ u.closeReq = s.closeReq
          /\ u.result = s.result /\ u.dones = s.dones
          /\ u.requested = s.requested /\ u.remaining = s.remaining
      BY <2>1 DEF Session
    <2>3. RequestWallTimeout(s, acc) = SubmitClose(u, acc)
      BY <1>2 DEF RequestWallTimeout
    <2> HIDE DEF u
    <2>4. Busy(u) = Busy(s) /\ Pending(u) = Pending(s)
      BY <2>2 DEF Busy, Pending
    <2>5. ReadSound(u) /\ CloseSound(u) /\ OutcomeSound(u) /\ Kept(u)
      BY <1>2, <2>2, <2>4 DEF Sound, ReadSound, CloseSound, OutcomeSound, Kept
    <2>6. Sound(u)
      BY <2>2, <2>5 DEF Sound
    <2>7. QED
      BY <2>1, <2>2, <2>3, <2>4, <2>6, SubmitCloseSound
  <1>3. QED
    BY <1>1, <1>2

\* CloseNow is called on a parked session.
LEMMA CloseNowSound ==
    ASSUME NEW s, Sound(s), Busy(s) = 0, NEW acc \in BOOLEAN
    PROVE  Sound(CloseNow(s, acc))
  <1> DEFINE u == [s EXCEPT !.remaining = 0]
  <1>1. CASE s.completed
    BY <1>1 DEF CloseNow
  <1>2. CASE ~s.completed
    <2>1. s \in Session /\ s.keep
      BY <1>2 DEF Sound, Kept
    <2>2. /\ u \in Session
          /\ u.keep = s.keep /\ u.pend = s.pend /\ u.completed = s.completed
          /\ u.timedOut = s.timedOut /\ u.closeReq = s.closeReq
          /\ u.result = s.result /\ u.dones = s.dones
      BY <2>1 DEF Session
    <2>3. CloseNow(s, acc) = SubmitClose(u, acc)
      BY <1>2 DEF CloseNow
    <2> HIDE DEF u
    <2>4. Busy(u) = 0 /\ Pending(u) = Pending(s) /\ u.pend["read"] = 0
      <3>1. s.pend \in [Ops -> Nat]
        BY <2>1 DEF Session
      <3>2. QED
        BY <2>2, <3>1 DEF Busy, Pending, Ops
    <2>5. ReadSound(u) /\ CloseSound(u) /\ OutcomeSound(u) /\ Kept(u)
      BY <1>2, <2>2, <2>4 DEF Sound, ReadSound, CloseSound, OutcomeSound, Kept
    <2>6. Sound(u)
      BY <2>2, <2>5 DEF Sound
    <2>7. QED
      BY <2>1, <2>2, <2>3, <2>4, <2>6, SubmitCloseSound
  <1>3. QED
    BY <1>1, <1>2

\* Start takes its own reference before it submits the Open.
LEMMA StartSound ==
    ASSUME NEW paid \in Nat, NEW acc \in BOOLEAN
    PROVE  Sound(Start(Blank, paid, acc))
  <1> DEFINE u   == Submit(Blank, "open", acc)
             sub == [u EXCEPT !.keep = TRUE, !.prepaid = paid, !.held = paid]
  <1>1. "open" \in Ops /\ "error" \in Outcomes \ {"none"} /\ paid \in Int
    BY DEF Ops, Outcomes
  <1>2. /\ Blank \in Session /\ Blank.pend = [o \in Ops |-> 0]
        /\ Blank.completed = FALSE /\ Blank.closeReq = FALSE
        /\ Blank.result = "none" /\ Blank.dones = 0
        /\ Blank.requested = 0 /\ Blank.remaining = 0
    BY DEF Blank, Session, Outcomes
  <1>3. /\ u \in Session
        /\ u = [Blank EXCEPT !.pend = u.pend, !.deadline = u.deadline]
        /\ acc => u.pend = [Blank.pend EXCEPT !["open"] = Blank.pend["open"] + 1]
        /\ ~acc => u.pend = Blank.pend
    BY ONLY <1>1, <1>2, acc \in BOOLEAN, SubmitFields, ZenonT(60) DEF u
  <1>4. /\ acc => Start(Blank, paid, acc) = sub
        /\ ~acc => Start(Blank, paid, acc) = Complete(RefundPrepaid(sub), "error")
    BY DEF Start
  <1> HIDE DEF u
  <1>5. /\ sub \in Session
        /\ sub.keep /\ sub.pend = u.pend
        /\ sub.completed = FALSE /\ sub.closeReq = FALSE
        /\ sub.result = "none" /\ sub.dones = 0
        /\ sub.requested = 0 /\ sub.remaining = 0
    BY <1>1, <1>2, <1>3 DEF Session
  <1> HIDE DEF sub
  <1>6. /\ sub.pend["close"] = 0 /\ sub.pend["stat"] = 0 /\ sub.pend["read"] = 0
        /\ sub.pend["open"] \in {0, 1}
    <2>1. CASE acc
      BY <1>2, <1>3, <1>5, <2>1 DEF Ops
    <2>2. CASE ~acc
      BY <1>2, <1>3, <1>5, <2>2 DEF Ops
    <2>3. QED
      BY <2>1, <2>2
  <1>7. Busy(sub) <= 1
    BY <1>6 DEF Busy
  <1>8. ReadSound(sub) /\ CloseSound(sub) /\ OutcomeSound(sub) /\ Kept(sub)
    BY <1>5, <1>6, <1>7 DEF ReadSound, CloseSound, OutcomeSound, Kept
  <1>9. Sound(sub)
    BY <1>5, <1>8 DEF Sound
  <1>10. Sound(Complete(RefundPrepaid(sub), "error"))
    BY <1>1, <1>9, RefundPrepaidSound, CompleteSound
  <1>11. QED
    BY <1>4, <1>9, <1>10

\* An entry point returns: the deadline may have been dropped, and the
\* self-reference is released exactly when the session is idle.
LEMMA ReleaseSound ==
    ASSUME NEW s, Sound(s), NEW e \in {"none", "armed", "due"}
    PROVE  LET t == ReleaseIfIdle([s EXCEPT !.deadline = e])
           IN  /\ Sound(t) /\ Busy(t) = Busy(s)
               /\ t.closeReq = s.closeReq /\ t.timedOut = s.timedOut
  <1> DEFINE d == [s EXCEPT !.deadline = e]
             t == [d EXCEPT !.keep = FALSE]
  <1>1. s \in Session
    BY DEF Sound
  <1>2. /\ d \in Session
        /\ d.keep = s.keep /\ d.pend = s.pend /\ d.completed = s.completed
        /\ d.timedOut = s.timedOut /\ d.closeReq = s.closeReq
        /\ d.result = s.result /\ d.dones = s.dones
        /\ d.requested = s.requested /\ d.remaining = s.remaining
    BY <1>1 DEF Session
  <1>3. /\ Pending(d) = 0 /\ d.completed => ReleaseIfIdle(d) = t
        /\ ~(Pending(d) = 0 /\ d.completed) => ReleaseIfIdle(d) = d
    BY DEF ReleaseIfIdle
  <1> HIDE DEF d
  <1>4. Sound(d) /\ Busy(d) = Busy(s)
    BY <1>2, LedgerFrame
  <1>5. CASE Pending(d) = 0 /\ d.completed
    <2>1. /\ t \in Session
          /\ t.pend = d.pend /\ t.completed = d.completed
          /\ t.timedOut = d.timedOut /\ t.closeReq = d.closeReq
          /\ t.result = d.result /\ t.dones = d.dones
          /\ t.requested = d.requested /\ t.remaining = d.remaining
      BY <1>2 DEF Session
    <2> HIDE DEF t
    <2>2. Busy(t) = Busy(d) /\ Pending(t) = Pending(d)
      BY <2>1 DEF Busy, Pending
    <2>3. ReadSound(t) /\ CloseSound(t) /\ OutcomeSound(t) /\ Kept(t)
      BY <1>4, <1>5, <2>1, <2>2 DEF Sound, ReadSound, CloseSound, OutcomeSound, Kept
    <2>4. QED
      BY <1>2, <1>3, <1>4, <1>5, <2>1, <2>2, <2>3 DEF Sound, d
  <1>6. CASE ~(Pending(d) = 0 /\ d.completed)
    BY <1>2, <1>3, <1>4, <1>6 DEF d
  <1>7. QED
    BY <1>5, <1>6


-----------------------------------------------------------------------------
(* What an entry point may do to a session, whichever it is. *)

\* Once the Close was requested it stays so, and nothing more is submitted.
Quiet(t, u) == t.closeReq => u.closeReq /\ \A o \in Ops : u.pend[o] <= t.pend[o]

\* A reported outcome is final; a new one is an error, or the timeout's.
Ends(t, u) ==
    IF t.completed THEN u.completed /\ u.result = t.result
    ELSE u.completed => u.result = "error" \/ (u.result = "timeout" /\ t.timedOut)

\* What a helper may do: it gives tokens back and takes none, counts no bytes,
\* widens no budget, submits a Read only where one is left to submit, and
\* leaves what the watchdog asked for.
Onward(t, u) ==
    /\ u \in Session
    /\ u.bytes = t.bytes /\ u.timedOut = t.timedOut /\ u.budgetSet = t.budgetSet
    /\ u.held <= t.held /\ u.remaining <= t.remaining
    /\ u.pend["open"] <= t.pend["open"]
    /\ t.budgetSet => u.pend["stat"] <= t.pend["stat"]
    /\ t.issuedRead => u.issuedRead
    /\ t.remaining = 0 \/ t.timedOut
          => u.pend["read"] <= t.pend["read"] /\ u.issuedRead = t.issuedRead
    /\ t.completed => u.deadline = t.deadline
    /\ Quiet(t, u) /\ Ends(t, u)

\* Helpers compose.
LEMMA OnwardTrans ==
    ASSUME NEW t \in Session, NEW u, NEW v, Onward(t, u), Onward(u, v)
    PROVE  Onward(t, v)
  <1>1. /\ \A o \in Ops : t.pend[o] \in Nat
        /\ \A o \in Ops : u.pend[o] \in Nat
        /\ \A o \in Ops : v.pend[o] \in Nat
    BY Counts DEF Onward
  <1>2. /\ t.held \in Int /\ u.held \in Int /\ v.held \in Int
        /\ t.remaining \in Nat /\ u.remaining \in Nat /\ v.remaining \in Nat
    BY DEF Onward, Session
  <1>3. Quiet(t, v)
    BY <1>1 DEF Onward, Quiet
  <1>4. Ends(t, v)
    BY DEF Onward, Ends
  <1>5. v.pend["open"] <= t.pend["open"] /\ (t.budgetSet => v.pend["stat"] <= t.pend["stat"])
    BY <1>1 DEF Onward, Ops
  <1>6. t.completed => v.deadline = t.deadline
    BY DEF Onward, Ends
  <1>7. t.remaining = 0 \/ t.timedOut
          => v.pend["read"] <= t.pend["read"] /\ v.issuedRead = t.issuedRead
    BY <1>1, <1>2 DEF Onward, Ops
  <1> QED
    BY <1>2, <1>3, <1>4, <1>5, <1>6, <1>7 DEF Onward

\* A change of what Onward does not look at, or of what it lets decrease.
LEMMA OnwardFrame ==
    ASSUME NEW t \in Session, NEW u \in Session,
           u.pend = t.pend, u.bytes = t.bytes, u.timedOut = t.timedOut,
           u.budgetSet = t.budgetSet, t.closeReq => u.closeReq,
           u.completed = t.completed, u.result = t.result, u.deadline = t.deadline,
           u.held <= t.held, u.remaining <= t.remaining,
           t.issuedRead => u.issuedRead,
           t.remaining = 0 \/ t.timedOut => u.issuedRead = t.issuedRead
    PROVE  Onward(t, u)
  <1>1. \A o \in Ops : t.pend[o] \in Nat /\ t.pend[o] <= t.pend[o]
    BY Counts
  <1>2. /\ Quiet(t, u) /\ u.pend["open"] <= t.pend["open"]
        /\ u.pend["stat"] <= t.pend["stat"] /\ u.pend["read"] <= t.pend["read"]
    BY <1>1 DEF Quiet, Ops
  <1>3. Ends(t, u)
    BY DEF Ends, Session
  <1> QED
    BY <1>2, <1>3 DEF Onward

\* Doing nothing is allowed.
LEMMA OnwardSelf == ASSUME NEW t \in Session PROVE Onward(t, t)
  <1>1. t.held <= t.held /\ t.remaining <= t.remaining
    BY DEF Session
  <1> QED
    BY <1>1, OnwardFrame

\* A refund of any count.
LEMMA RefundOnward ==
    ASSUME NEW t \in Session, NEW n \in Nat
    PROVE  Onward(t, RefundBytes(t, n))
  <1> DEFINE u == RefundBytes(t, n)
  <1>1. u \in Session /\ u = [t EXCEPT !.held = u.held]
    BY RefundBytesFields
  <1>2. t.held \in Int /\ t.remaining \in Nat
    BY DEF Session
  <1>3. u.held <= t.held
    <2>1. CASE Paced
      <3>1. u = [t EXCEPT !.held = t.held - n]
        BY <2>1 DEF RefundBytes
      <3>2. u.held = t.held - n
        BY <3>1 DEF Session
      <3> QED
        BY <1>2, <3>2
    <2>2. CASE ~Paced
      BY <1>2, <2>2 DEF RefundBytes
    <2> QED
      BY <2>1, <2>2
  <1> HIDE DEF u
  <1>4. /\ u.pend = t.pend /\ u.bytes = t.bytes /\ u.timedOut = t.timedOut
        /\ u.budgetSet = t.budgetSet /\ u.closeReq = t.closeReq
        /\ u.completed = t.completed /\ u.result = t.result /\ u.deadline = t.deadline
        /\ u.remaining <= t.remaining /\ u.issuedRead = t.issuedRead
    BY <1>1, <1>2 DEF Session
  <1>5. Onward(t, u)
    BY <1>1, <1>3, <1>4, OnwardFrame
  <1> QED
    BY <1>5 DEF u

\* The refund of an unused prepayment.
LEMMA RefundPrepaidOnward ==
    ASSUME NEW t \in Session
    PROVE  Onward(t, RefundPrepaid(t))
  <1> DEFINE r == RefundBytes(t, t.prepaid)
             u == [r EXCEPT !.prepaid = 0]
  <1>1. t.prepaid \in Nat
    BY DEF Session
  <1>2. Onward(t, r)
    BY <1>1, RefundOnward
  <1>3. RefundPrepaid(t) = t \/ RefundPrepaid(t) = u
    BY DEF RefundPrepaid
  <1> HIDE DEF r
  <1>4. r \in Session
    BY <1>2 DEF Onward
  <1>5. /\ u \in Session
        /\ u.pend = r.pend /\ u.bytes = r.bytes /\ u.timedOut = r.timedOut
        /\ u.budgetSet = r.budgetSet /\ u.closeReq = r.closeReq
        /\ u.completed = r.completed /\ u.result = r.result /\ u.deadline = r.deadline
        /\ u.held <= r.held /\ u.remaining <= r.remaining /\ u.issuedRead = r.issuedRead
    BY <1>4 DEF Session
  <1> HIDE DEF u
  <1>6. Onward(t, u)
    BY <1>2, <1>4, <1>5, OnwardFrame, OnwardTrans
  <1> QED
    BY <1>3, <1>6, OnwardSelf

\* An outcome, if none was reported yet.
LEMMA CompleteOnward ==
    ASSUME NEW t \in Session, NEW r \in {"error", "timeout"}, r = "timeout" => t.timedOut
    PROVE  Onward(t, Complete(t, r))
  <1>1. CASE t.completed
    BY <1>1, OnwardSelf DEF Complete
  <1>2. CASE ~t.completed
    <2> DEFINE d == t.dones + 1
               u == [t EXCEPT !.completed = TRUE, !.result = r, !.dones = d]
    <2>1. Complete(t, r) = u
      BY <1>2 DEF Complete
    <2>2. d \in Nat /\ r \in Outcomes
      BY DEF Session, Outcomes
    <2> HIDE DEF d
    <2>3. /\ u \in Session /\ u.pend = t.pend /\ u.bytes = t.bytes
          /\ u.timedOut = t.timedOut /\ u.budgetSet = t.budgetSet
          /\ u.closeReq = t.closeReq /\ u.completed /\ u.result = r
          /\ u.held = t.held /\ u.remaining = t.remaining /\ u.issuedRead = t.issuedRead
      <3>1. u \in Session
        BY <2>2 DEF Session
      <3> QED
        BY <3>1 DEF Session
    <2>7. u.held <= t.held /\ u.remaining <= t.remaining
      <3>1. t.held \in Int /\ t.remaining \in Nat
        BY DEF Session
      <3> QED
        BY <2>3, <3>1
    <2> HIDE DEF u
    <2>4. \A o \in Ops : u.pend[o] <= t.pend[o]
      BY <2>3, Counts
    <2>5. Quiet(t, u) /\ Ends(t, u)
      BY <1>2, <2>3, <2>4 DEF Quiet, Ends
    <2>6. /\ u.pend["open"] <= t.pend["open"] /\ u.pend["stat"] <= t.pend["stat"]
          /\ u.pend["read"] <= t.pend["read"]
      BY <2>4 DEF Ops
    <2> QED
      BY <1>2, <2>1, <2>3, <2>5, <2>6, <2>7 DEF Onward
  <1> QED
    BY <1>1, <1>2

\* A callback answers the operation it was owed for.
LEMMA AnsweredOnward ==
    ASSUME NEW t, Sound(t), NEW op \in Ops, t.pend[op] > 0
    PROVE  Onward(t, Answered(t, op))
  <1> DEFINE p == [t.pend EXCEPT ![op] = t.pend[op] - 1]
             a == [t EXCEPT !.pend = p]
  <1>1. t \in Session /\ t.pend \in [Ops -> Nat]
    BY DEF Sound, Session
  <1>2. Answered(t, op) = a /\ p \in [Ops -> Nat]
    BY <1>1 DEF Answered
  <1>3. \A o \in Ops : p[o] <= t.pend[o]
    BY <1>1
  <1> HIDE DEF p
  <1>4. /\ a \in Session /\ a.pend = p /\ a.bytes = t.bytes
        /\ a.timedOut = t.timedOut /\ a.budgetSet = t.budgetSet
        /\ a.closeReq = t.closeReq /\ a.completed = t.completed /\ a.result = t.result
        /\ a.held <= t.held /\ a.remaining <= t.remaining /\ a.issuedRead = t.issuedRead
        /\ a.deadline = t.deadline
    BY <1>1, <1>2 DEF Session
  <1> HIDE DEF a
  <1>5. Quiet(t, a) /\ Ends(t, a)
    BY <1>1, <1>3, <1>4 DEF Quiet, Ends, Session
  <1>6. /\ a.pend["open"] <= t.pend["open"] /\ a.pend["stat"] <= t.pend["stat"]
        /\ a.pend["read"] <= t.pend["read"]
    BY <1>3, <1>4 DEF Ops
  <1> QED
    BY <1>2, <1>4, <1>5, <1>6 DEF Onward

\* Submitting another operation than an Open, a Stat only before the size is
\* known and a Read only where one is left.
LEMMA SubmitOnward ==
    ASSUME NEW t \in Session, ~t.completed, ~t.closeReq, NEW op \in Ops \ {"open"},
           op = "stat" => ~t.budgetSet,
           op = "read" => t.remaining # 0 /\ ~t.timedOut, NEW acc \in BOOLEAN
    PROVE  Onward(t, Submit(t, op, acc))
  <1> DEFINE u == Submit(t, op, acc)
  <1>1. op \in Ops /\ "open" \in Ops /\ "stat" \in Ops /\ "read" \in Ops
    BY DEF Ops
  <1>2. /\ u \in Session
        /\ u = [t EXCEPT !.pend = u.pend, !.deadline = u.deadline]
        /\ acc => u.pend = [t.pend EXCEPT ![op] = t.pend[op] + 1]
        /\ ~acc => u.pend = t.pend
    BY ONLY <1>1, t \in Session, acc \in BOOLEAN, SubmitFields, ZenonT(60)
  <1> HIDE DEF u
  <1>3. t.pend \in [Ops -> Nat]
    BY DEF Session
  <1>4. /\ u.pend["open"] <= t.pend["open"]
        /\ op # "stat" => u.pend["stat"] <= t.pend["stat"]
        /\ op # "read" => u.pend["read"] <= t.pend["read"]
    BY <1>1, <1>2, <1>3
  <1>5. /\ u.bytes = t.bytes /\ u.timedOut = t.timedOut /\ u.budgetSet = t.budgetSet
        /\ u.closeReq = t.closeReq /\ u.completed = t.completed /\ u.result = t.result
        /\ u.held <= t.held /\ u.remaining <= t.remaining /\ u.issuedRead = t.issuedRead
    <2>1. /\ u.bytes = t.bytes /\ u.timedOut = t.timedOut /\ u.budgetSet = t.budgetSet
          /\ u.closeReq = t.closeReq /\ u.completed = t.completed /\ u.result = t.result
          /\ u.held = t.held /\ u.remaining = t.remaining /\ u.issuedRead = t.issuedRead
      BY <1>2 DEF Session
    <2>2. t.held \in Int /\ t.remaining \in Nat
      BY DEF Session
    <2> QED
      BY <2>1, <2>2
  <1>6. Quiet(t, u) /\ Ends(t, u)
    BY <1>5 DEF Quiet, Ends
  <1>7. Onward(t, u)
    BY <1>2, <1>4, <1>5, <1>6 DEF Onward
  <1> QED
    BY <1>7 DEF u

\* SubmitClose, accepted, refused or rolled back; if it ends the session, the
\* outcome follows timed_out_.
LEMMA SubmitCloseOnward ==
    ASSUME NEW t \in Session, ~t.completed, NEW acc \in BOOLEAN
    PROVE  LET v == SubmitClose(t, acc)
           IN  /\ Onward(t, v)
               /\ v.completed => v.result = IF t.timedOut THEN "timeout" ELSE "error"
  <1> DEFINE taken == CloseAccepted(t, acc)
             u   == Submit(t, "close", taken)
             sub == [u EXCEPT !.closeReq = TRUE]
             out == IF t.timedOut THEN "timeout" ELSE "error"
  <1>1. taken \in BOOLEAN /\ "close" \in Ops \ {"open"} /\ Pending(t) \in Nat
    BY Counts DEF CloseAccepted, Ops
  <1>2. /\ t.closeReq => SubmitClose(t, acc) = t
        /\ ~t.closeReq /\ taken => SubmitClose(t, acc) = sub
        /\ ~t.closeReq /\ ~taken /\ Pending(t) > 0
              => SubmitClose(t, acc) = [sub EXCEPT !.closeReq = FALSE]
        /\ ~t.closeReq /\ ~taken /\ Pending(t) = 0
              => SubmitClose(t, acc) = Complete(sub, out)
    BY DEF SubmitClose
  <1> HIDE DEF taken
  <1>3. CASE t.closeReq
    BY <1>2, <1>3, OnwardSelf
  <1>4. CASE ~t.closeReq
    <2>1. Onward(t, u)
      BY ONLY t \in Session, ~t.completed, <1>1, <1>4, SubmitOnward, ZenonT(60)
    <2>2. u \in Session /\ u.timedOut = t.timedOut
      BY <2>1 DEF Onward
    <2>3. u.closeReq = FALSE
      <3>1. u.closeReq = t.closeReq
        BY DEF Submit, Session
      <3> QED
        BY <1>4, <3>1, <2>2 DEF Session
    <2> HIDE DEF u
    <2>4. [sub EXCEPT !.closeReq = FALSE] = u
      BY <2>2, <2>3 DEF Session
    <2>5. u.held \in Int /\ u.remaining \in Nat
      BY <2>2 DEF Session
    <2>6. /\ sub \in Session
          /\ sub.pend = u.pend /\ sub.bytes = u.bytes /\ sub.timedOut = u.timedOut
          /\ sub.budgetSet = u.budgetSet /\ sub.closeReq
          /\ sub.completed = u.completed /\ sub.result = u.result
          /\ sub.deadline = u.deadline /\ sub.held = u.held
          /\ sub.remaining = u.remaining /\ sub.issuedRead = u.issuedRead
      BY <2>2 DEF Session
    <2> HIDE DEF sub
    <2>7. Onward(u, sub)
      <3>1. sub.held <= u.held /\ sub.remaining <= u.remaining
        BY <2>5, <2>6
      <3> QED
        BY <2>2, <2>6, <3>1, OnwardFrame
    <2>8. Onward(t, sub)
      BY <2>1, <2>7, OnwardTrans
    <2>12. u.completed = FALSE /\ sub.completed = FALSE
      <3>1. u.completed = t.completed
        BY DEF u, Submit, Session
      <3> QED
        BY <2>6, <3>1, <2>2 DEF Session
    <2>9. CASE taken
      BY <1>2, <1>4, <2>8, <2>9, <2>12
    <2>10. CASE ~taken /\ Pending(t) > 0
      BY <1>2, <1>4, <2>1, <2>4, <2>10, <2>12
    <2>11. CASE ~taken /\ Pending(t) = 0
      <3>1. out \in {"error", "timeout"} /\ (out = "timeout" => sub.timedOut)
        BY <2>2, <2>6
      <3>3. Complete(sub, out).result = out
        <4>1. Complete(sub, out) =
                [sub EXCEPT !.completed = TRUE, !.result = out, !.dones = sub.dones + 1]
          BY <2>12 DEF Complete
        <4> HIDE DEF out
        <4> QED
          BY <2>6, <4>1 DEF Session
      <3>2. Onward(sub, Complete(sub, out))
        <4> HIDE DEF out
        <4> QED
          BY <2>6, <3>1, CompleteOnward
      <3> QED
        BY <1>2, <1>4, <2>8, <2>11, <3>2, <3>3, OnwardTrans
    <2> QED
      BY <1>1, <2>9, <2>10, <2>11
  <1> QED
    BY <1>3, <1>4

\* SubmitRead, accepted or refused.
LEMMA SubmitReadOnward ==
    ASSUME NEW t \in Session, ~t.completed, ~t.closeReq, ~t.timedOut,
           t.remaining # 0, NEW acc \in BOOLEAN
    PROVE  Onward(t, SubmitRead(t, acc))
  <1> DEFINE n    == Least(OpBytes, t.remaining)
             over == IF t.prepaid > n THEN t.prepaid - n ELSE 0
             u    == Submit(t, "read", acc)
             v    == RefundBytes(u, over)
             sub  == [v EXCEPT !.requested = n, !.prepaid = 0, !.issuedRead = TRUE]
             w    == RefundBytes(sub, n)
             ref  == [w EXCEPT !.requested = 0]
  <1>1. t.remaining \in Nat /\ t.prepaid \in Nat
    BY DEF Session
  <1>2. n \in Nat
    BY <1>1, SessionOptions DEF Least
  <1>3. over \in Nat
    BY <1>1, <1>2
  <1>4. /\ acc => SubmitRead(t, acc) = sub
        /\ ~acc => SubmitRead(t, acc) = Complete(ref, "error")
    BY DEF SubmitRead
  <1>5. "read" \in Ops \ {"open"}
    BY DEF Ops
  <1>6. Onward(t, u)
    BY ONLY <1>5, t \in Session, ~t.completed, ~t.closeReq, ~t.timedOut,
            t.remaining # 0, acc \in BOOLEAN, SubmitOnward, ZenonT(60)
  <1>7. u.remaining = t.remaining /\ u.timedOut = t.timedOut
    BY DEF Submit, Session
  <1> HIDE DEF n, over, u
  <1>8. u \in Session
    BY <1>6 DEF Onward
  <1>9. Onward(u, v) /\ v = [u EXCEPT !.held = v.held]
    BY <1>3, <1>8, RefundOnward, RefundBytesFields
  <1> HIDE DEF v
  <1>10. v \in Session /\ v.remaining = t.remaining /\ v.timedOut = t.timedOut
    BY <1>7, <1>8, <1>9 DEF Onward, Session
  <1>11. v.held \in Int /\ v.remaining \in Nat
    BY <1>10 DEF Session
  <1>12. /\ sub \in Session
         /\ sub.pend = v.pend /\ sub.bytes = v.bytes /\ sub.timedOut = v.timedOut
         /\ sub.budgetSet = v.budgetSet /\ sub.closeReq = v.closeReq
         /\ sub.completed = v.completed /\ sub.result = v.result
         /\ sub.deadline = v.deadline /\ sub.held = v.held
         /\ sub.remaining = v.remaining /\ sub.issuedRead
    BY <1>2, <1>10 DEF Session
  <1> HIDE DEF sub
  <1>13. Onward(v, sub)
    <2>1. sub.held <= v.held /\ sub.remaining <= v.remaining
      BY <1>11, <1>12
    <2> QED
      BY <1>10, <1>12, <2>1, OnwardFrame
  <1>14. Onward(t, sub)
    BY <1>6, <1>8, <1>9, <1>10, <1>13, OnwardTrans
  <1>15. Onward(sub, w)
    BY <1>2, <1>12, RefundOnward
  <1> HIDE DEF w
  <1>16. w \in Session
    BY <1>15 DEF Onward
  <1>17. Onward(w, ref)
    <2>1. w.held \in Int /\ w.remaining \in Nat
      BY <1>16 DEF Session
    <2>2. /\ ref \in Session
          /\ ref.pend = w.pend /\ ref.bytes = w.bytes /\ ref.timedOut = w.timedOut
          /\ ref.budgetSet = w.budgetSet /\ ref.closeReq = w.closeReq
          /\ ref.completed = w.completed /\ ref.result = w.result
          /\ ref.deadline = w.deadline /\ ref.held = w.held
          /\ ref.remaining = w.remaining /\ ref.issuedRead = w.issuedRead
      BY <1>16 DEF Session
    <2> HIDE DEF ref
    <2>3. ref.held <= w.held /\ ref.remaining <= w.remaining
      BY <2>1, <2>2
    <2> QED
      BY <1>16, <2>2, <2>3, OnwardFrame
  <1>18. ref \in Session
    BY <1>17 DEF Onward
  <1> HIDE DEF ref
  <1>19. Onward(ref, Complete(ref, "error"))
    BY <1>18, CompleteOnward
  <1>20. Onward(sub, Complete(ref, "error"))
    BY <1>12, <1>15, <1>16, <1>17, <1>18, <1>19, OnwardTrans
  <1> QED
    BY <1>4, <1>12, <1>14, <1>20, OnwardTrans

\* IssueNext and CloseNow drop the rest of the budget first.
LEMMA SpentOnward ==
    ASSUME NEW t \in Session
    PROVE  LET u == [t EXCEPT !.remaining = 0]
           IN  /\ Onward(t, u) /\ u.completed = t.completed
               /\ u.timedOut = t.timedOut /\ u.closeReq = t.closeReq /\ u.remaining = 0
  <1> DEFINE u == [t EXCEPT !.remaining = 0]
  <1>1. t.held \in Int /\ t.remaining \in Nat
    BY DEF Session
  <1>2. /\ u \in Session
        /\ u.pend = t.pend /\ u.bytes = t.bytes /\ u.timedOut = t.timedOut
        /\ u.budgetSet = t.budgetSet /\ u.closeReq = t.closeReq
        /\ u.completed = t.completed /\ u.result = t.result
        /\ u.deadline = t.deadline /\ u.held = t.held
        /\ u.remaining = 0 /\ u.issuedRead = t.issuedRead
    BY DEF Session
  <1> HIDE DEF u
  <1>3. u.held <= t.held /\ u.remaining <= t.remaining
    BY <1>1, <1>2
  <1>4. Onward(t, u)
    BY <1>2, <1>3, OnwardFrame
  <1> QED
    BY <1>2, <1>4 DEF u

\* IssueNext: a Read, or the Close.
LEMMA IssueNextOnward ==
    ASSUME NEW t \in Session, t.closeReq => t.timedOut, NEW acc \in BOOLEAN
    PROVE  Onward(t, IssueNext(t, acc))
  <1> DEFINE u == IF t.timedOut THEN [t EXCEPT !.remaining = 0] ELSE t
             r == RefundPrepaid(u)
  <1>1. /\ t.completed => IssueNext(t, acc) = t
        /\ ~t.completed /\ u.remaining = 0 => IssueNext(t, acc) = SubmitClose(r, acc)
        /\ ~t.completed /\ u.remaining # 0 => IssueNext(t, acc) = SubmitRead(u, acc)
    BY DEF IssueNext
  <1>2. /\ Onward(t, u) /\ u.completed = t.completed
        /\ u.timedOut = t.timedOut /\ u.closeReq = t.closeReq
        /\ t.timedOut => u.remaining = 0
    BY SpentOnward, OnwardSelf
  <1> HIDE DEF u
  <1>3. u \in Session
    BY <1>2 DEF Onward
  <1>4. Onward(u, r) /\ r.completed = u.completed
    <2>1. r = [u EXCEPT !.held = r.held, !.prepaid = r.prepaid]
      BY <1>3, RefundPrepaidFields
    <2> HIDE DEF r
    <2>2. r.completed = u.completed
      BY <1>3, <2>1 DEF Session
    <2> QED
      BY <1>3, <2>2, RefundPrepaidOnward DEF r
  <1> HIDE DEF r
  <1>5. r \in Session
    BY <1>4 DEF Onward
  <1>6. CASE t.completed
    BY <1>1, <1>6, OnwardSelf
  <1>7. CASE ~t.completed /\ u.remaining = 0
    <2>1. Onward(r, SubmitClose(r, acc))
      BY <1>2, <1>4, <1>5, <1>7, SubmitCloseOnward
    <2> QED
      BY <1>1, <1>2, <1>3, <1>4, <1>5, <1>7, <2>1, OnwardTrans
  <1>8. CASE ~t.completed /\ u.remaining # 0
    <2>1. Onward(u, SubmitRead(u, acc))
      BY <1>2, <1>3, <1>8, SubmitReadOnward
    <2> QED
      BY <1>1, <1>2, <1>3, <1>8, <2>1, OnwardTrans
  <1> QED
    BY <1>6, <1>7, <1>8

\* Fail settles the ledger and ends the session in an error.
LEMMA FailOnward ==
    ASSUME NEW t \in Session, NEW stage
    PROVE  Onward(t, Fail(t, stage))
  <1> DEFINE r == RefundBytes(t, t.requested)
             u == [r EXCEPT !.requested = 0]
             p == RefundPrepaid(t)
  <1>1. t.requested \in Nat
    BY DEF Session
  <1>2. Onward(t, r) /\ Onward(t, p)
    BY <1>1, RefundOnward, RefundPrepaidOnward
  <1>3. \/ Fail(t, stage) = Complete(u, "error")
        \/ Fail(t, stage) = Complete(p, "error")
    BY DEF Fail
  <1> HIDE DEF r, p
  <1>4. r \in Session /\ p \in Session
    BY <1>2 DEF Onward
  <1>5. Onward(r, u)
    <2>1. r.held \in Int /\ r.remaining \in Nat
      BY <1>4 DEF Session
    <2>2. /\ u \in Session
          /\ u.pend = r.pend /\ u.bytes = r.bytes /\ u.timedOut = r.timedOut
          /\ u.budgetSet = r.budgetSet /\ u.closeReq = r.closeReq
          /\ u.completed = r.completed /\ u.result = r.result
          /\ u.deadline = r.deadline /\ u.held = r.held
          /\ u.remaining = r.remaining /\ u.issuedRead = r.issuedRead
      BY <1>4 DEF Session
    <2> HIDE DEF u
    <2>3. u.held <= r.held /\ u.remaining <= r.remaining
      BY <2>1, <2>2
    <2> QED
      BY <1>4, <2>2, <2>3, OnwardFrame
  <1>6. u \in Session
    BY <1>5 DEF Onward
  <1> HIDE DEF u
  <1>7. Onward(u, Complete(u, "error")) /\ Onward(p, Complete(p, "error"))
    BY <1>4, <1>6, CompleteOnward
  <1> QED
    BY <1>2, <1>3, <1>4, <1>5, <1>6, <1>7, OnwardTrans

\* CloseNow submits no Read.
LEMMA CloseNowOnward ==
    ASSUME NEW t \in Session, NEW acc \in BOOLEAN
    PROVE  Onward(t, CloseNow(t, acc)) /\ CloseNow(t, acc).pend["read"] <= t.pend["read"]
  <1> DEFINE u == [t EXCEPT !.remaining = 0]
             v == SubmitClose(u, acc)
  <1>1. /\ t.completed => CloseNow(t, acc) = t
        /\ ~t.completed => CloseNow(t, acc) = v
    BY DEF CloseNow
  <1>2. Onward(t, u) /\ u.completed = t.completed /\ u.remaining = 0
    BY SpentOnward
  <1>3. u.pend = t.pend
    BY DEF Session
  <1> HIDE DEF u
  <1>4. u \in Session
    BY <1>2 DEF Onward
  <1>5. CASE t.completed
    BY <1>1, <1>5, OnwardSelf, Counts DEF Ops
  <1>6. CASE ~t.completed
    <2>1. Onward(u, v)
      BY <1>2, <1>4, <1>6, SubmitCloseOnward
    <2>2. v.pend["read"] <= t.pend["read"]
      BY <1>2, <1>3, <2>1 DEF Onward
    <2> QED
      BY <1>1, <1>2, <1>4, <1>6, <2>1, <2>2, OnwardTrans
  <1> QED
    BY <1>5, <1>6

\* OnOpen submits the Stat, or the Close of a session that timed out.
LEMMA OnOpenOnward ==
    ASSUME NEW t, Sound(t), t.pend["open"] > 0, ~t.budgetSet,
           NEW ok \in BOOLEAN, NEW acc \in BOOLEAN
    PROVE  Onward(t, OnOpen(t, ok, acc))
  <1> DEFINE a == Answered(t, "open")
             u == Submit(a, "stat", acc)
             r == RefundPrepaid(u)
  <1>1. /\ a.completed => OnOpen(t, ok, acc) = a
        /\ ~a.completed /\ ~ok => OnOpen(t, ok, acc) = Fail(a, "open")
        /\ ~a.completed /\ ok /\ a.timedOut => OnOpen(t, ok, acc) = SubmitClose(a, acc)
        /\ ~a.completed /\ ok /\ ~a.timedOut /\ acc => OnOpen(t, ok, acc) = u
        /\ ~a.completed /\ ok /\ ~a.timedOut /\ ~acc
              => OnOpen(t, ok, acc) = Complete(r, "error")
    BY DEF OnOpen
  <1>2. "open" \in Ops /\ "stat" \in Ops \ {"open"}
    BY DEF Ops
  <1>3. Onward(t, a)
    BY ONLY Sound(t), <1>2, t.pend["open"] > 0, AnsweredOnward, ZenonT(60)
  <1>4. Busy(t) = 1 /\ a.closeReq = t.closeReq
    BY ONLY Sound(t), <1>2, t.pend["open"] > 0, AnsweredSound, SMT DEF Sound, Session
  <1>5. t \in Session /\ (t.closeReq => t.timedOut)
    BY <1>4 DEF Sound, CloseSound
  <1> HIDE DEF a
  <1>6. a \in Session /\ a.timedOut = t.timedOut /\ ~a.budgetSet
    BY <1>3 DEF Onward
  <1>7. CASE a.completed
    BY <1>1, <1>3, <1>7
  <1>8. CASE ~a.completed /\ ~ok
    BY <1>1, <1>3, <1>5, <1>6, <1>8, FailOnward, OnwardTrans
  <1>9. CASE ~a.completed /\ ok /\ a.timedOut
    BY <1>1, <1>3, <1>5, <1>6, <1>9, SubmitCloseOnward, OnwardTrans
  <1>10. CASE ~a.completed /\ ok /\ ~a.timedOut
    <2>1. ~a.completed /\ ~a.closeReq
      BY <1>4, <1>5, <1>6, <1>10
    <2>2. Onward(a, u)
      BY ONLY <1>2, <1>6, <2>1, acc \in BOOLEAN, SubmitOnward, ZenonT(60)
    <2> HIDE DEF u
    <2>3. u \in Session
      BY <2>2 DEF Onward
    <2>4. Onward(u, r)
      BY <2>3, RefundPrepaidOnward
    <2> HIDE DEF r
    <2>5. r \in Session
      BY <2>4 DEF Onward
    <2>6. Onward(r, Complete(r, "error"))
      BY <2>5, CompleteOnward
    <2>7. Onward(t, u)
      BY <1>3, <1>5, <1>6, <2>2, <2>3, OnwardTrans
    <2>8. Onward(t, Complete(r, "error"))
      BY <1>5, <2>3, <2>4, <2>5, <2>6, <2>7, OnwardTrans
    <2> QED
      BY <1>1, <1>10, <2>7, <2>8
  <1> QED
    BY <1>7, <1>8, <1>9, <1>10

-----------------------------------------------------------------------------
(* The budget: what Stat allowed bounds what is read. *)

\* The bytes a file of this size may contribute.
Cap(size) == IF MaxBytes > 0 THEN Least(size, MaxBytes) ELSE size

\* Before the size is known nothing is read or budgeted, and no Read is issued;
\* afterwards no Open or Stat is in flight, and what was read and what is left
\* to read stay within one file's allowance.
Sized(t, Z) ==
    IF t.budgetSet
    THEN /\ t.pend["open"] = 0 /\ t.pend["stat"] = 0
         /\ \E z \in Z : t.bytes + t.remaining <= Cap(z)
    ELSE t.bytes = 0 /\ t.remaining = 0 /\ ~t.issuedRead

\* Helpers stay within the budget.
LEMMA OnwardSized ==
    ASSUME NEW t \in Session, NEW u, Onward(t, u), NEW Z \in SUBSET Nat, Sized(t, Z)
    PROVE  Sized(u, Z)
  <1>1. /\ u \in Session /\ u.bytes = t.bytes /\ u.budgetSet = t.budgetSet
        /\ u.remaining <= t.remaining
        /\ u.pend["open"] <= t.pend["open"]
        /\ t.budgetSet => u.pend["stat"] <= t.pend["stat"]
    BY DEF Onward
  <1>2. /\ t.remaining \in Nat /\ u.remaining \in Nat /\ t.bytes \in Nat
        /\ \A o \in Ops : t.pend[o] \in Nat /\ u.pend[o] \in Nat
    BY <1>1, Counts DEF Session
  <1>3. CASE t.budgetSet
    <2>1. PICK z \in Z : t.bytes + t.remaining <= Cap(z)
      BY <1>3 DEF Sized
    <2>2. Cap(z) \in Nat
      BY SessionOptions DEF Cap, Least
    <2>3. u.bytes + u.remaining <= Cap(z)
      BY <1>1, <1>2, <2>1, <2>2
    <2> QED
      BY <1>1, <1>2, <1>3, <2>3 DEF Sized, Ops
  <1>4. CASE ~t.budgetSet
    <2>1. t.bytes = 0 /\ t.remaining = 0 /\ ~t.issuedRead
      BY <1>4 DEF Sized
    <2>2. u.remaining = 0 /\ ~u.issuedRead
      BY <1>1, <1>2, <2>1 DEF Onward
    <2> QED
      BY <1>1, <1>4, <2>1, <2>2 DEF Sized
  <1> QED
    BY <1>3, <1>4

-----------------------------------------------------------------------------
(* What an entry point may do. *)

\* A reported session is final.  "ok" is reported only of one whose timeout
\* was not requested and "timeout" only of one whose timeout was.
Reports(t, u) ==
    IF t.completed
    THEN /\ u.completed /\ u.result = t.result /\ u.bytes = t.bytes
         /\ u.timedOut = t.timedOut /\ u.deadline \in {t.deadline, "none"}
    ELSE u.completed =>
            \/ u.result = "ok" /\ ~u.timedOut /\ u.bytes = t.bytes
            \/ u.result = "error" /\ u.timedOut = t.timedOut
            \/ u.result = "timeout" /\ u.timedOut

\* Bytes only grow, and not in the step that notes the timeout; tokens are
\* only given back.
Advance(t, u) ==
    /\ u \in Session
    /\ u.held <= t.held /\ t.bytes <= u.bytes
    /\ t.timedOut => u.timedOut
    /\ u.timedOut # t.timedOut => u.bytes = t.bytes
    /\ Quiet(t, u) /\ Reports(t, u)

\* Every helper advances the session.
LEMMA OnwardAdvance ==
    ASSUME NEW t \in Session, NEW u, Onward(t, u)
    PROVE  Advance(t, u)
  <1>1. u.bytes = t.bytes /\ t.bytes \in Nat
    BY DEF Onward, Session
  <1>2. t.bytes <= u.bytes
    BY <1>1
  <1>3. Reports(t, u)
    BY DEF Onward, Ends, Reports
  <1> QED
    BY <1>2, <1>3 DEF Onward, Advance

\* An entry point goes on with helpers.
LEMMA AdvanceOnward ==
    ASSUME NEW t \in Session, NEW u, NEW v, Advance(t, u), Onward(u, v),
           u.timedOut = t.timedOut
    PROVE  Advance(t, v)
  <1>1. /\ \A o \in Ops : t.pend[o] \in Nat
        /\ \A o \in Ops : u.pend[o] \in Nat
        /\ \A o \in Ops : v.pend[o] \in Nat
    BY Counts DEF Onward, Advance
  <1>2. /\ t.held \in Int /\ u.held \in Int /\ v.held \in Int
        /\ t.bytes \in Nat /\ u.bytes \in Nat
    BY DEF Onward, Advance, Session
  <1>3. Quiet(t, v)
    BY <1>1 DEF Advance, Onward, Quiet
  <1>4. Reports(t, v)
    BY DEF Advance, Onward, Ends, Reports
  <1>5. v.held <= t.held /\ t.bytes <= v.bytes
    BY <1>2 DEF Advance, Onward
  <1> QED
    BY <1>3, <1>4, <1>5 DEF Advance, Onward

\* Counting bytes and giving back tokens, on a session not yet reported.
LEMMA AdvanceFrame ==
    ASSUME NEW t \in Session, NEW u \in Session, ~t.completed, ~u.completed,
           \A o \in Ops : u.pend[o] <= t.pend[o],
           u.closeReq = t.closeReq, u.timedOut = t.timedOut,
           u.held <= t.held, t.bytes <= u.bytes
    PROVE  Advance(t, u)
  <1>1. Quiet(t, u)
    BY DEF Quiet
  <1>2. Reports(t, u)
    BY DEF Reports
  <1> QED
    BY <1>1, <1>2 DEF Advance

-----------------------------------------------------------------------------
(* One lemma per entry point: it advances, stays within the budget, and gives  *)
(* a session that has read no further Read unless it is IssueNext, or OnRead   *)
(* of a session that is not paced.                                             *)

\* OnOpen, which comes before the size is known.
LEMMA OnOpenAdvance ==
    ASSUME NEW t, Sound(t), t.pend["open"] > 0, NEW Z \in SUBSET Nat, Sized(t, Z),
           NEW ok \in BOOLEAN, NEW acc \in BOOLEAN
    PROVE  LET v == OnOpen(t, ok, acc)
           IN  Advance(t, v) /\ Sized(v, Z) /\ ~t.issuedRead
  <1>1. t \in Session
    BY DEF Sound
  <1>2. ~t.budgetSet /\ ~t.issuedRead
    <2>1. t.pend["open"] # 0
      BY <1>1, Counts DEF Ops
    <2> QED
      BY <2>1 DEF Sized
  <1>3. Onward(t, OnOpen(t, ok, acc))
    BY <1>2, OnOpenOnward
  <1> QED
    BY <1>1, <1>2, <1>3, OnwardAdvance, OnwardSized

\* OnStat sets the budget, within the allowance of the size reported.
LEMMA OnStatAdvance ==
    ASSUME NEW t, Sound(t), t.pend["stat"] > 0, NEW Z \in SUBSET Nat, Sized(t, Z),
           NEW ok \in BOOLEAN, NEW size \in Z, NEW acc \in BOOLEAN
    PROVE  LET v == OnStat(t, ok, size, acc)
           IN  Advance(t, v) /\ Sized(v, Z) /\ ~t.issuedRead
  <1> DEFINE a == Answered(t, "stat")
             r == RefundPrepaid(a)
             b == Budget(size)
             u == [a EXCEPT !.remaining = b, !.budgetSet = TRUE]
             v == IssueNext(u, acc)
  <1>1. t \in Session /\ "stat" \in Ops
    BY DEF Sound, Ops
  <1>2. /\ t.budgetSet = FALSE /\ t.issuedRead = FALSE /\ t.bytes = 0
    <2>1. t.pend["stat"] # 0 /\ t.budgetSet \in BOOLEAN /\ t.issuedRead \in BOOLEAN
      BY <1>1, Counts DEF Session
    <2> QED
      BY <2>1 DEF Sized
  <1>3. /\ a.completed => OnStat(t, ok, size, acc) = a
        /\ ~a.completed /\ ~ok => OnStat(t, ok, size, acc) = Fail(a, "stat")
        /\ ~a.completed /\ ok /\ BeyondEnd(size)
              => OnStat(t, ok, size, acc) = Complete(r, "error")
        /\ ~a.completed /\ ok /\ ~BeyondEnd(size)
              => OnStat(t, ok, size, acc) = v
    BY DEF OnStat
  <1>4. Onward(t, a)
    BY ONLY Sound(t), <1>1, t.pend["stat"] > 0, AnsweredOnward, ZenonT(60)
  <1>5. Busy(t) = 1 /\ Busy(a) = 0
    BY ONLY Sound(t), <1>1, t.pend["stat"] > 0, AnsweredSound, SMT
  <1>6. a = [t EXCEPT !.pend = a.pend]
    BY ONLY Sound(t), <1>1, t.pend["stat"] > 0, AnsweredSound, SMT
  <1>13. \A o \in Ops : a.pend[o] <= t.pend[o]
    BY <1>1, Counts DEF Answered, Session
  <1> HIDE DEF a
  <1>7. /\ a \in Session /\ a.closeReq = t.closeReq /\ a.timedOut = t.timedOut
        /\ a.bytes = 0 /\ a.held = t.held /\ a.completed = t.completed
    BY <1>1, <1>2, <1>4, <1>6 DEF Onward, Session
  <1>8. a.closeReq => a.timedOut
    BY <1>5, <1>7 DEF Sound, CloseSound
  <1>9. CASE a.completed
    BY <1>1, <1>2, <1>3, <1>4, <1>9, OnwardAdvance, OnwardSized
  <1>10. CASE ~a.completed /\ ~ok
    <2>1. Onward(t, Fail(a, "stat"))
      BY <1>1, <1>4, <1>7, FailOnward, OnwardTrans
    <2> QED
      BY <1>1, <1>2, <1>3, <1>10, <2>1, OnwardAdvance, OnwardSized
  <1>11. CASE ~a.completed /\ ok /\ BeyondEnd(size)
    <2>1. Onward(a, r)
      BY <1>7, RefundPrepaidOnward
    <2> HIDE DEF r
    <2>2. r \in Session
      BY <2>1 DEF Onward
    <2>3. Onward(r, Complete(r, "error"))
      BY <2>2, CompleteOnward
    <2>4. Onward(t, Complete(r, "error"))
      BY <1>1, <1>4, <1>7, <2>1, <2>2, <2>3, OnwardTrans
    <2> QED
      BY <1>1, <1>2, <1>3, <1>11, <2>4, OnwardAdvance, OnwardSized
  <1>12. CASE ~a.completed /\ ok /\ ~BeyondEnd(size)
    <2>1. b \in Nat /\ b <= Cap(size)
      <3>1. b \in Nat
        BY <1>12, BudgetType
      <3>2. b <= Cap(size)
        <4>1. size \in Nat /\ Cap(size) \in Nat
          BY SessionOptions DEF Cap, Least
        <4>2. b = IF RandomOffset THEN Cap(size) ELSE Least(size - Offset, Cap(size))
          BY DEF Budget, Cap
        <4>3. size - Offset \in Int
          BY <4>1, SessionOptions
        <4> QED
          BY <4>1, <4>2, <4>3 DEF Least
      <3> QED
        BY <3>1, <3>2
    <2> HIDE DEF b
    <2>2. /\ u \in Session /\ u.pend = a.pend /\ u.closeReq = a.closeReq
          /\ u.timedOut = a.timedOut /\ u.bytes = 0 /\ u.held = a.held
          /\ u.completed = a.completed /\ u.remaining = b /\ u.budgetSet
      BY <1>7, <2>1 DEF Session
    <2> HIDE DEF u
    <2>3. Advance(t, u)
      <3>1. \A o \in Ops : u.pend[o] <= t.pend[o]
        BY <1>13, <2>2
      <3>2. u.held <= t.held /\ t.bytes <= u.bytes
        <4>1. t.held \in Int
          BY <1>1 DEF Session
        <4> QED
          BY <1>2, <1>7, <2>2, <4>1
      <3> QED
        BY <1>1, <1>7, <1>12, <2>2, <3>1, <3>2, AdvanceFrame
    <2>4. Sized(u, Z)
      <3>1. u.pend["open"] = 0 /\ u.pend["stat"] = 0
        BY <1>5, <1>7, <2>2, IdleCounts
      <3>2. u.bytes + u.remaining <= Cap(size)
        BY <2>1, <2>2
      <3> QED
        BY <2>2, <3>1, <3>2 DEF Sized
    <2>5. Onward(u, v)
      BY <1>8, <2>2, IssueNextOnward
    <2> HIDE DEF v
    <2>6. u.timedOut = t.timedOut
      BY <1>7, <2>2
    <2>7. Advance(t, v) /\ Sized(v, Z)
      BY <1>1, <2>2, <2>3, <2>4, <2>5, <2>6, AdvanceOnward, OnwardSized
    <2> QED
      BY <1>2, <1>3, <1>12, <2>7
  <1> QED
    BY <1>9, <1>10, <1>11, <1>12

\* The counters of a Read that returned.
LEMMA ReadCountedFields ==
    ASSUME NEW t, Sound(t), t.pend["read"] > 0, NEW got \in Nat, got <= t.requested
    PROVE  LET c == ReadCounted(t, got)
               a == Answered(t, "read")
           IN  /\ c \in Session /\ c.pend = a.pend /\ c.bytes = t.bytes + got
               /\ c.remaining = IF got < t.requested THEN 0 ELSE t.remaining - got
               /\ c.held <= t.held
               /\ c.closeReq = t.closeReq /\ c.timedOut = t.timedOut
               /\ c.completed = t.completed /\ c.budgetSet = t.budgetSet
               /\ c.issuedRead = t.issuedRead
  <1> DEFINE a     == Answered(t, "read")
             short == t.requested - got
             r     == RefundBytes(a, short)
             left  == IF short > 0 THEN 0 ELSE t.remaining - got
             sum   == t.bytes + got
             c     == [r EXCEPT !.bytes = sum, !.requested = 0, !.remaining = left]
  <1>1. "read" \in Ops /\ t \in Session /\ t.requested <= t.remaining
    BY DEF Ops, Sound, ReadSound
  <1>2. Onward(t, a)
    BY ONLY <1>1, Sound(t), t.pend["read"] > 0, AnsweredOnward, ZenonT(60)
  <1>3. a = [t EXCEPT !.pend = a.pend]
    BY ONLY <1>1, Sound(t), t.pend["read"] > 0, AnsweredSound, SMT
  <1> HIDE DEF a
  <1>4. /\ a \in Session /\ t.requested \in Nat /\ t.remaining \in Nat /\ t.bytes \in Nat
        /\ t.held \in Int
    BY <1>1, <1>2 DEF Onward, Session
  <1>5. short \in Nat /\ left \in Nat /\ sum \in Nat
    BY <1>1, <1>4
  <1>6. /\ a.bytes = t.bytes /\ a.remaining = t.remaining /\ a.requested = t.requested
        /\ a.held = t.held /\ a.closeReq = t.closeReq /\ a.timedOut = t.timedOut
        /\ a.completed = t.completed /\ a.budgetSet = t.budgetSet
        /\ a.issuedRead = t.issuedRead
    BY <1>1, <1>3 DEF Session
  <1>7. left = IF got < t.requested THEN 0 ELSE t.remaining - got
    BY <1>4
  <1> HIDE DEF short
  <1>8. r \in Session /\ r = [a EXCEPT !.held = r.held] /\ r.held <= a.held
    <2>1. short \in Int
      BY <1>5
    <2>2. r \in Session /\ r = [a EXCEPT !.held = r.held]
      BY <1>4, <2>1, RefundBytesFields
    <2>3. Onward(a, r)
      BY <1>4, <1>5, RefundOnward
    <2> QED
      BY <2>2, <2>3 DEF Onward
  <1>9. r.bytes = t.bytes /\ r.remaining = t.remaining
    BY <1>4, <1>6, <1>8 DEF Session
  <1>10. ReadCounted(t, got) = c
    BY <1>9 DEF ReadCounted, a, short
  <1> HIDE DEF r, left, sum
  <1>11. /\ c \in Session /\ c.pend = r.pend /\ c.bytes = sum /\ c.remaining = left
         /\ c.held = r.held /\ c.closeReq = r.closeReq /\ c.timedOut = r.timedOut
         /\ c.completed = r.completed /\ c.budgetSet = r.budgetSet
         /\ c.issuedRead = r.issuedRead
    BY <1>5, <1>8 DEF Session
  <1>12. /\ r.pend = a.pend /\ r.closeReq = a.closeReq /\ r.timedOut = a.timedOut
         /\ r.completed = a.completed /\ r.budgetSet = a.budgetSet
         /\ r.issuedRead = a.issuedRead
    BY <1>4, <1>8 DEF Session
  <1> HIDE DEF c
  <1> QED
    BY <1>6, <1>7, <1>8, <1>10, <1>11, <1>12 DEF a, sum

\* OnRead counts what it got against the budget; a parked session is not
\* reported.
LEMMA OnReadAdvance ==
    ASSUME NEW t, Sound(t), t.pend["read"] > 0, NEW Z \in SUBSET Nat, Sized(t, Z),
           NEW ok \in BOOLEAN, NEW got \in Nat, got <= t.requested, NEW acc \in BOOLEAN
    PROVE  LET v == OnRead(t, ok, got, acc)
           IN  /\ Advance(t, v) /\ Sized(v, Z)
               /\ Paced => v.pend["read"] <= t.pend["read"]
               /\ Parks(t, ok, got) => ~v.completed
  <1> DEFINE a == Answered(t, "read")
             c == ReadCounted(t, got)
             q == [c EXCEPT !.deadline = "none"]
             n == IssueNext(c, acc)
             f == Fail(a, "read")
  <1>1. /\ t \in Session /\ "read" \in Ops
        /\ t.remaining \in Nat /\ t.requested \in Nat /\ t.bytes \in Nat
        /\ t.requested <= t.remaining
    BY DEF Sound, Ops, Session, ReadSound
  <1>2. Onward(t, a)
    BY ONLY <1>1, Sound(t), t.pend["read"] > 0, AnsweredOnward, ZenonT(60)
  <1>3. Busy(t) = 1 /\ Busy(a) = 0
    BY ONLY <1>1, Sound(t), t.pend["read"] > 0, AnsweredSound, SMT
  <1>4. /\ a.completed = t.completed /\ a.pend["read"] <= t.pend["read"]
        /\ \A o \in Ops : a.pend[o] <= t.pend[o]
    BY <1>1, Counts DEF Answered, Session
  <1>5. /\ a.completed => OnRead(t, ok, got, acc) = a
        /\ ~a.completed /\ ~ok => OnRead(t, ok, got, acc) = f
        /\ Parks(t, ok, got) => OnRead(t, ok, got, acc) = q
        /\ ~a.completed /\ ok /\ ~Parks(t, ok, got) => OnRead(t, ok, got, acc) = n
    BY <1>4 DEF OnRead, Disarmed, Parks
  <1>6. /\ c \in Session /\ c.pend = a.pend /\ c.bytes = t.bytes + got
        /\ c.remaining = IF got < t.requested THEN 0 ELSE t.remaining - got
        /\ c.held <= t.held
        /\ c.closeReq = t.closeReq /\ c.timedOut = t.timedOut
        /\ c.completed = t.completed /\ c.budgetSet = t.budgetSet
        /\ c.issuedRead = t.issuedRead
    BY ReadCountedFields
  <1>7. Paced /\ ok /\ ~t.completed /\ ~Parks(t, ok, got) => c.remaining = 0
    <2>1. c.remaining \in Nat
      BY <1>6 DEF Session
    <2> QED
      BY <2>1 DEF Parks
  <1>8. Parks(t, ok, got) => ok /\ ~t.completed
    BY DEF Parks
  <1> HIDE DEF c
  <1>9. Sized(c, Z)
    <2>1. CASE t.budgetSet
      <3>1. PICK z \in Z : t.bytes + t.remaining <= Cap(z)
        BY <2>1 DEF Sized
      <3>2. Cap(z) \in Nat
        BY SessionOptions DEF Cap, Least
      <3>3. c.bytes + c.remaining <= Cap(z)
        BY <1>1, <1>6, <3>1, <3>2
      <3>4. c.pend["open"] = 0 /\ c.pend["stat"] = 0
        <4>1. a \in Session
          BY <1>2 DEF Onward
        <4> QED
          BY <1>3, <1>6, <4>1, IdleCounts
      <3> QED
        BY <1>6, <2>1, <3>3, <3>4 DEF Sized
    <2>2. CASE ~t.budgetSet
      <3>1. t.bytes = 0 /\ t.remaining = 0 /\ ~t.issuedRead
        BY <2>2 DEF Sized
      <3>2. got = 0 /\ t.requested = 0
        BY <1>1, <3>1
      <3> QED
        BY <1>6, <2>2, <3>1, <3>2 DEF Sized
    <2> QED
      BY <2>1, <2>2
  <1>10. a \in Session
    BY <1>2 DEF Onward
  <1> HIDE DEF a
  <1>11. CASE a.completed
    <2>1. ~Parks(t, ok, got)
      BY <1>4, <1>8, <1>11
    <2> QED
      BY <1>1, <1>2, <1>4, <1>5, <1>11, <2>1, OnwardAdvance, OnwardSized
  <1>12. CASE ~a.completed /\ ~ok
    <2>1. Onward(t, f) /\ f.pend["read"] <= a.pend["read"]
      <3>1. Onward(a, f)
        BY <1>10, FailOnward
      <3>2. f.pend = a.pend
        <4>1. RefundBytes(a, a.requested).pend = a.pend
          <5>1. a.requested \in Int
            BY <1>10 DEF Session
          <5>2. RefundBytes(a, a.requested)
                  = [a EXCEPT !.held = RefundBytes(a, a.requested).held]
            BY <1>10, <5>1, RefundBytesFields
          <5> QED
            BY <1>10, <5>2 DEF Session
        <4> DEFINE r == RefundBytes(a, a.requested)
                   w == [r EXCEPT !.requested = 0]
        <4>2. f = Complete(w, "error")
          BY DEF Fail
        <4>3. w.pend = a.pend /\ Complete(w, "error").pend = w.pend
          <5>1. r \in Session
            BY <1>10, RefundBytesFields DEF Session
          <5> HIDE DEF r
          <5>2. w \in Session /\ w.pend = r.pend
            BY <5>1 DEF Session
          <5> HIDE DEF w
          <5>3. Complete(w, "error").pend = w.pend
            BY <5>2 DEF Complete, Session
          <5> QED
            BY <4>1, <5>2, <5>3 DEF r
        <4> QED
          BY <4>2, <4>3
      <3>3. a.pend["read"] \in Nat
        BY <1>1, <1>10, Counts
      <3> QED
        BY <1>1, <1>2, <1>10, <3>1, <3>2, <3>3, OnwardTrans
    <2>2. ~Parks(t, ok, got) /\ f.pend["read"] <= t.pend["read"]
      <3>1. f \in Session /\ a.pend["read"] \in Nat /\ t.pend["read"] \in Nat
        BY <1>1, <1>10, <2>1, Counts DEF Onward
      <3>2. f.pend["read"] \in Nat
        BY <1>1, <3>1, Counts
      <3> QED
        BY <1>4, <1>8, <1>12, <2>1, <3>1, <3>2
    <2> HIDE DEF f
    <2> QED
      BY <1>1, <1>5, <1>12, <2>1, <2>2, OnwardAdvance, OnwardSized
  <1>13. CASE ~a.completed /\ ok
    <2>0. ~t.completed
      BY <1>4, <1>13
    <2>1. Advance(t, c)
      <3>1. t.bytes <= c.bytes
        BY <1>1, <1>6
      <3> QED
        BY <1>1, <1>4, <1>6, <2>0, <3>1, AdvanceFrame
    <2>2. CASE Parks(t, ok, got)
      <3>1. /\ q \in Session /\ q.pend = c.pend /\ q.bytes = c.bytes
            /\ q.remaining = c.remaining /\ q.held = c.held
            /\ q.closeReq = c.closeReq /\ q.timedOut = c.timedOut
            /\ q.completed = c.completed /\ q.budgetSet = c.budgetSet
            /\ q.issuedRead = c.issuedRead
        BY <1>6 DEF Session
      <3> HIDE DEF q
      <3>2. Sized(q, Z)
        BY <1>9, <3>1 DEF Sized
      <3>3. Advance(t, q)
        <4>1. t.bytes <= q.bytes /\ q.held <= t.held
          BY <1>1, <1>6, <3>1
        <4> QED
          BY <1>1, <1>4, <1>6, <2>0, <3>1, <4>1, AdvanceFrame
      <3> QED
        BY <1>4, <1>5, <1>6, <2>0, <2>2, <3>1, <3>2, <3>3
    <2>3. CASE ~Parks(t, ok, got)
      <3>1. c.closeReq => c.timedOut
        BY <1>3, <1>6 DEF Sound, CloseSound
      <3>2. Onward(c, n)
        BY <1>6, <3>1, IssueNextOnward
      <3> HIDE DEF n
      <3>3. Advance(t, n) /\ Sized(n, Z)
        BY <1>1, <1>6, <1>9, <2>1, <3>2, AdvanceOnward, OnwardSized
      <3>4. Paced => n.pend["read"] <= t.pend["read"]
        <4>1. SUFFICES ASSUME Paced PROVE n.pend["read"] <= t.pend["read"]
          OBVIOUS
        <4>2. n.pend["read"] <= c.pend["read"]
          BY <1>7, <1>13, <2>0, <2>3, <3>2, <4>1 DEF Onward
        <4>3. /\ n.pend["read"] \in Nat /\ c.pend["read"] \in Nat
              /\ t.pend["read"] \in Nat
          BY <1>1, <1>6, <3>3, Counts DEF Advance
        <4> QED
          BY <1>4, <1>6, <4>2, <4>3
      <3> QED
        BY <1>5, <1>13, <2>3, <3>3, <3>4
    <2> QED
      BY <2>2, <2>3
  <1> QED
    BY <1>11, <1>12, <1>13

\* OnClose reports "ok" only of a session whose timeout was not requested.
LEMMA OnCloseAdvance ==
    ASSUME NEW t, Sound(t), t.pend["close"] > 0, NEW Z \in SUBSET Nat, Sized(t, Z),
           NEW ok \in BOOLEAN
    PROVE  LET v == OnClose(t, ok)
           IN  /\ Advance(t, v) /\ Sized(v, Z)
               /\ v.pend["read"] <= t.pend["read"]
  <1> DEFINE a == Answered(t, "close")
             r == RefundPrepaid(a)
             e == Complete(r, "error")
             k == Complete(a, "ok")
             m == Complete(a, "timeout")
  <1>1. t \in Session /\ "close" \in Ops /\ "read" \in Ops
    BY DEF Sound, Ops
  <1>2. Onward(t, a)
    BY ONLY Sound(t), <1>1, t.pend["close"] > 0, AnsweredOnward, ZenonT(60)
  <1>3. a.pend["read"] = t.pend["read"] /\ a.completed = t.completed
    BY <1>1 DEF Answered, Session
  <1>4. /\ a.completed => OnClose(t, ok) = a
        /\ ~a.completed /\ a.timedOut => OnClose(t, ok) = m
        /\ ~a.completed /\ ~a.timedOut /\ ~ok => OnClose(t, ok) = e
        /\ ~a.completed /\ ~a.timedOut /\ ok => OnClose(t, ok) = k
    BY DEF OnClose, Fail
  <1>5. \A o \in Ops : a.pend[o] <= t.pend[o]
    BY <1>1, Counts DEF Answered, Session
  <1>6. t.pend["read"] \in Nat
    BY <1>1, Counts
  <1> HIDE DEF a
  <1>7. a \in Session /\ a.timedOut = t.timedOut
    BY <1>2 DEF Onward
  <1>8. a.closeReq = t.closeReq
    <2>1. a = [t EXCEPT !.pend = a.pend]
      BY ONLY Sound(t), <1>1, t.pend["close"] > 0, AnsweredSound, SMT DEF a
    <2> QED
      BY <1>1, <2>1 DEF Session
  <1>9. CASE a.completed
    BY <1>1, <1>2, <1>3, <1>4, <1>6, <1>9, OnwardAdvance, OnwardSized
  <1>10. CASE ~a.completed /\ a.timedOut
    <2>1. Onward(a, m)
      BY <1>7, <1>10, CompleteOnward
    <2>2. m.pend = a.pend
      BY <1>7 DEF Complete, Session
    <2> HIDE DEF m
    <2>3. m \in Session
      BY <2>1 DEF Onward
    <2>4. Onward(t, m)
      BY <1>1, <1>2, <1>7, <2>1, <2>3, OnwardTrans
    <2> QED
      BY <1>1, <1>3, <1>4, <1>6, <1>10, <2>2, <2>4, OnwardAdvance, OnwardSized
  <1>11. CASE ~a.completed /\ ~a.timedOut /\ ~ok
    <2>1. Onward(a, r) /\ r.pend = a.pend
      <3>1. r \in Session /\ r = [a EXCEPT !.held = r.held, !.prepaid = r.prepaid]
        BY <1>7, RefundPrepaidFields
      <3>2. Onward(a, r)
        BY <1>7, RefundPrepaidOnward
      <3> HIDE DEF r
      <3> QED
        BY <1>7, <3>1, <3>2 DEF Session
    <2> HIDE DEF r
    <2>2. r \in Session
      BY <2>1 DEF Onward
    <2>3. Onward(r, e)
      BY <2>2, CompleteOnward
    <2>4. e.pend = r.pend
      BY <2>2 DEF Complete, Session
    <2> HIDE DEF e
    <2>5. Onward(t, e)
      <3>1. e \in Session
        BY <2>3 DEF Onward
      <3> QED
        BY <1>1, <1>2, <1>7, <2>1, <2>2, <2>3, <3>1, OnwardTrans
    <2> QED
      BY <1>1, <1>3, <1>4, <1>6, <1>11, <2>1, <2>4, <2>5, OnwardAdvance, OnwardSized
  <1>12. CASE ~a.completed /\ ~a.timedOut /\ ok
    <2> DEFINE d == a.dones + 1
               u == [a EXCEPT !.completed = TRUE, !.result = "ok", !.dones = d]
    <2>1. k = u
      BY <1>12 DEF Complete
    <2>2. d \in Nat /\ "ok" \in Outcomes
      BY <1>7 DEF Session, Outcomes
    <2> HIDE DEF d
    <2>3. /\ u \in Session /\ u.pend = a.pend /\ u.bytes = a.bytes
          /\ u.timedOut = a.timedOut /\ u.budgetSet = a.budgetSet
          /\ u.closeReq = a.closeReq /\ u.completed /\ u.result = "ok"
          /\ u.held = a.held /\ u.remaining = a.remaining
          /\ u.issuedRead = a.issuedRead
      BY <1>7, <2>2 DEF Session
    <2> HIDE DEF u
    <2>4. Sized(a, Z)
      BY <1>1, <1>2, OnwardSized
    <2>5. Sized(u, Z)
      BY <2>3, <2>4 DEF Sized
    <2>6. Quiet(t, u)
      BY <1>5, <1>8, <2>3 DEF Quiet
    <2>7. /\ a.bytes = t.bytes /\ a.held <= t.held /\ t.bytes \in Nat
          /\ a.held \in Int /\ t.held \in Int
      BY <1>1, <1>2, <1>7 DEF Onward, Session
    <2>8. Reports(t, u)
      <3>1. ~t.completed /\ ~u.timedOut /\ u.bytes = t.bytes
        BY <1>3, <1>12, <2>3, <2>7
      <3> QED
        BY <2>3, <3>1 DEF Reports
    <2>9. u.held <= t.held /\ t.bytes <= u.bytes
      BY <2>3, <2>7
    <2>10. Advance(t, u)
      BY <1>7, <2>3, <2>6, <2>7, <2>8, <2>9 DEF Advance
    <2>11. OnClose(t, ok) = u
      BY <1>4, <1>12, <2>1
    <2>12. u.pend["read"] <= t.pend["read"]
      BY <1>3, <1>6, <2>3
    <2> QED
      BY <2>5, <2>10, <2>11, <2>12
  <1> QED
    BY <1>9, <1>10, <1>11, <1>12

\* The watchdog's request counts no bytes, and reports nothing but the timeout.
LEMMA RequestWallTimeoutAdvance ==
    ASSUME NEW t \in Session, NEW Z \in SUBSET Nat, Sized(t, Z), NEW acc \in BOOLEAN
    PROVE  LET v == RequestWallTimeout(t, acc)
           IN  /\ Advance(t, v) /\ Sized(v, Z)
               /\ v.pend["read"] <= t.pend["read"]
  <1> DEFINE u == [t EXCEPT !.timedOut = TRUE]
             v == SubmitClose(u, acc)
  <1>1. /\ t.completed \/ t.closeReq => RequestWallTimeout(t, acc) = t
        /\ ~t.completed /\ ~t.closeReq => RequestWallTimeout(t, acc) = v
    BY DEF RequestWallTimeout
  <1>2. t.pend["read"] \in Nat /\ t.bytes \in Nat /\ t.held \in Int
    BY Counts DEF Session, Ops
  <1>3. CASE t.completed \/ t.closeReq
    BY <1>1, <1>2, <1>3, OnwardSelf, OnwardAdvance
  <1>4. CASE ~t.completed /\ ~t.closeReq
    <2>1. /\ u \in Session /\ u.pend = t.pend /\ u.bytes = t.bytes /\ u.timedOut
          /\ u.budgetSet = t.budgetSet /\ u.completed = t.completed
          /\ u.held = t.held /\ u.remaining = t.remaining
          /\ u.issuedRead = t.issuedRead
      BY DEF Session
    <2> HIDE DEF u
    <2>2. Sized(u, Z)
      BY <2>1 DEF Sized
    <2>3. Onward(u, v) /\ (v.completed => v.result = "timeout")
      BY <1>4, <2>1, SubmitCloseOnward
    <2> HIDE DEF v
    <2>4. Sized(v, Z)
      BY <2>1, <2>2, <2>3, OnwardSized
    <2>5. /\ v \in Session /\ v.bytes = t.bytes /\ v.timedOut /\ v.held <= t.held
          /\ v.pend["read"] <= t.pend["read"]
      BY <2>1, <2>3 DEF Onward
    <2>6. Quiet(t, v) /\ Reports(t, v)
      BY <1>4, <2>3, <2>5 DEF Quiet, Reports
    <2>7. Advance(t, v)
      BY <1>2, <2>5, <2>6 DEF Advance
    <2> QED
      BY <1>1, <1>4, <2>4, <2>5, <2>7
  <1> QED
    BY <1>3, <1>4

\* The owner's IssueNext.
LEMMA IssueNextAdvance ==
    ASSUME NEW t \in Session, t.closeReq => t.timedOut,
           NEW Z \in SUBSET Nat, Sized(t, Z), NEW acc \in BOOLEAN
    PROVE  LET v == IssueNext(t, acc) IN Advance(t, v) /\ Sized(v, Z)
  BY IssueNextOnward, OnwardAdvance, OnwardSized

\* The owner's CloseNow.
LEMMA CloseNowAdvance ==
    ASSUME NEW t \in Session, NEW Z \in SUBSET Nat, Sized(t, Z), NEW acc \in BOOLEAN
    PROVE  LET v == CloseNow(t, acc)
           IN  /\ Advance(t, v) /\ Sized(v, Z)
               /\ v.pend["read"] <= t.pend["read"]
  BY CloseNowOnward, OnwardAdvance, OnwardSized

\* A session begins with its prepayment and nothing read; one whose Open was
\* refused has ended in an error.
LEMMA StartAdvance ==
    ASSUME NEW paid \in Nat, NEW Z \in SUBSET Nat, NEW acc \in BOOLEAN
    PROVE  LET v == Start(Blank, paid, acc)
           IN  /\ v \in Session /\ v.held <= paid /\ Sized(v, Z)
               /\ v.bytes = 0 /\ v.timedOut = FALSE /\ v.closeReq = FALSE
               /\ v.completed => v.result = "error"
  <1> DEFINE u   == Submit(Blank, "open", acc)
             sub == [u EXCEPT !.keep = TRUE, !.prepaid = paid, !.held = paid]
             r   == RefundPrepaid(sub)
             e   == Complete(r, "error")
  <1>1. /\ "open" \in Ops /\ paid \in Int /\ Blank \in Session
        /\ Blank.completed = FALSE /\ Blank.closeReq = FALSE /\ Blank.timedOut = FALSE
        /\ Blank.budgetSet = FALSE /\ Blank.issuedRead = FALSE
        /\ Blank.bytes = 0 /\ Blank.remaining = 0
    BY DEF Blank, Session, Outcomes, Ops
  <1>2. u \in Session /\ u = [Blank EXCEPT !.pend = u.pend, !.deadline = u.deadline]
    BY ONLY <1>1, acc \in BOOLEAN, SubmitFields, ZenonT(60)
  <1>3. Start(Blank, paid, acc) = IF acc THEN sub ELSE e
    BY DEF Start
  <1> HIDE DEF u
  <1>4. /\ sub \in Session /\ sub.held = paid /\ sub.bytes = 0 /\ sub.timedOut = FALSE
        /\ sub.closeReq = FALSE /\ sub.completed = FALSE /\ sub.budgetSet = FALSE
        /\ sub.issuedRead = FALSE /\ sub.remaining = 0
    <2>1. /\ u.completed = FALSE /\ u.closeReq = FALSE /\ u.timedOut = FALSE
          /\ u.budgetSet = FALSE /\ u.issuedRead = FALSE
          /\ u.bytes = 0 /\ u.remaining = 0
      BY <1>1, <1>2 DEF Session
    <2> QED
      BY <1>1, <1>2, <2>1 DEF Session
  <1> HIDE DEF sub
  <1>5. Sized(sub, Z)
    BY <1>4 DEF Sized
  <1>6. Onward(sub, r) /\ r.closeReq = FALSE /\ r.completed = FALSE
    <2>1. r \in Session /\ r = [sub EXCEPT !.held = r.held, !.prepaid = r.prepaid]
      BY <1>4, RefundPrepaidFields
    <2>2. Onward(sub, r)
      BY <1>4, RefundPrepaidOnward
    <2> HIDE DEF r
    <2> QED
      BY <1>4, <2>1, <2>2 DEF Session
  <1> HIDE DEF r
  <1>7. r \in Session
    BY <1>6 DEF Onward
  <1>8. Onward(r, e) /\ e.closeReq = FALSE
    <2>1. e.closeReq = r.closeReq
      BY <1>7 DEF Complete, Session
    <2> QED
      BY <1>6, <1>7, <2>1, CompleteOnward
  <1> HIDE DEF e
  <1>9. e \in Session
    BY <1>8 DEF Onward
  <1>10. Onward(sub, e)
    BY <1>4, <1>6, <1>7, <1>8, <1>9, OnwardTrans
  <1>11. Sized(e, Z)
    BY <1>4, <1>5, <1>10, OnwardSized
  <1>12. /\ e.held <= paid /\ e.bytes = 0 /\ e.timedOut = FALSE
         /\ e.completed => e.result = "error"
    BY <1>4, <1>10 DEF Onward, Ends
  <1>13. sub.held <= paid
    BY <1>4
  <1> QED
    BY <1>3, <1>4, <1>5, <1>8, <1>9, <1>11, <1>12, <1>13

-----------------------------------------------------------------------------
(* The end of an entry point. *)

\* The deadline may have been dropped, and the self-reference is released when
\* the session is idle.
LEMMA ReleaseAdvance ==
    ASSUME NEW t \in Session, NEW u, Advance(t, u), NEW Z \in SUBSET Nat, Sized(u, Z),
           NEW e \in {u.deadline, "none"}
    PROVE  LET v == [u EXCEPT !.deadline = e]
               w == ReleaseIfIdle(v)
           IN  /\ Advance(t, v) /\ Sized(v, Z) /\ v.pend = u.pend
               /\ v.completed = u.completed /\ v.deadline = e
               /\ Advance(t, w) /\ Sized(w, Z) /\ w.pend = u.pend
               /\ w.completed = u.completed /\ w.deadline = e
  <1> DEFINE v == [u EXCEPT !.deadline = e]
             k == [v EXCEPT !.keep = FALSE]
  <1>1. u \in Session
    BY DEF Advance
  <1>2. ReleaseIfIdle(v) = v \/ ReleaseIfIdle(v) = k
    BY DEF ReleaseIfIdle
  <1>3. /\ v \in Session /\ v.pend = u.pend /\ v.bytes = u.bytes
        /\ v.timedOut = u.timedOut /\ v.budgetSet = u.budgetSet
        /\ v.closeReq = u.closeReq /\ v.completed = u.completed
        /\ v.result = u.result /\ v.held = u.held /\ v.remaining = u.remaining
        /\ v.issuedRead = u.issuedRead /\ v.deadline = e
    BY <1>1 DEF Session
  <1> HIDE DEF v
  <1>4. /\ k \in Session /\ k.pend = v.pend /\ k.bytes = v.bytes
        /\ k.timedOut = v.timedOut /\ k.budgetSet = v.budgetSet
        /\ k.closeReq = v.closeReq /\ k.completed = v.completed
        /\ k.result = v.result /\ k.held = v.held /\ k.remaining = v.remaining
        /\ k.issuedRead = v.issuedRead /\ k.deadline = v.deadline
    BY <1>3 DEF Session
  <1> HIDE DEF k
  <1>5. Sized(v, Z) /\ Sized(k, Z)
    BY <1>3, <1>4 DEF Sized
  <1>6. Advance(t, v)
    BY <1>3 DEF Advance, Quiet, Reports
  <1>7. Advance(t, k)
    BY <1>4, <1>6 DEF Advance, Quiet, Reports
  <1>8. /\ Advance(t, ReleaseIfIdle(v)) /\ Sized(ReleaseIfIdle(v), Z)
        /\ ReleaseIfIdle(v).pend = u.pend
        /\ ReleaseIfIdle(v).completed = u.completed /\ ReleaseIfIdle(v).deadline = e
    BY <1>2, <1>3, <1>4, <1>5, <1>6, <1>7
  <1> QED
    BY <1>3, <1>5, <1>6, <1>8 DEF v

-----------------------------------------------------------------------------
(* The steps that are not an entry point. *)

\* Somebody pays for the session, or its deadline moves.
Stays(t, u) ==
    \E h \in Int, e \in {"none", "armed", "due"} :
        u = [t EXCEPT !.held = h, !.deadline = e]

\* What paying for a session or moving its deadline leaves alone.
LEMMA StaysFields ==
    ASSUME NEW t \in Session, NEW u, Stays(t, u)
    PROVE  /\ u \in Session /\ u.pend = t.pend /\ u.keep = t.keep
           /\ u.closeReq = t.closeReq /\ u.completed = t.completed
           /\ u.result = t.result /\ u.bytes = t.bytes /\ u.timedOut = t.timedOut
           /\ u.budgetSet = t.budgetSet /\ u.remaining = t.remaining
           /\ u.issuedRead = t.issuedRead
  <1>1. PICK h \in Int, e \in {"none", "armed", "due"} :
            u = [t EXCEPT !.held = h, !.deadline = e]
    BY DEF Stays
  <1> QED
    BY <1>1 DEF Session

\* It stays sound, within the budget and in its owner's hands.
LEMMA StaysSound ==
    ASSUME NEW t \in Session, NEW u, Stays(t, u), NEW Z \in SUBSET Nat
    PROVE  /\ Sound(t) => Sound(u)
           /\ Sized(t, Z) => Sized(u, Z)
           /\ Handed(t) => Handed(u)
  <1>1. PICK h \in Int, e \in {"none", "armed", "due"} :
            u = [t EXCEPT !.held = h, !.deadline = e]
    BY DEF Stays
  <1>2. /\ u \in Session
        /\ u.keep = t.keep /\ u.pend = t.pend /\ u.completed = t.completed
        /\ u.timedOut = t.timedOut /\ u.closeReq = t.closeReq
        /\ u.result = t.result /\ u.dones = t.dones
        /\ u.requested = t.requested /\ u.remaining = t.remaining
        /\ u.bytes = t.bytes /\ u.budgetSet = t.budgetSet
        /\ u.issuedRead = t.issuedRead
    BY <1>1 DEF Session
  <1>3. Sized(t, Z) => Sized(u, Z)
    BY <1>2 DEF Sized
  <1>4. Handed(t) => Handed(u)
    BY <1>2 DEF Handed, Busy
  <1> QED
    BY <1>2, <1>3, <1>4, LedgerFrame

=============================================================================
