--------------------------- MODULE RunEngineProofs ---------------------------
(***************************************************************************)
(* Safety of the run engine for every value of the constants: any number of *)
(* sessions, in-flight limit, op size and file sizes, capped or not, with   *)
(* or without a session timeout, whatever XrdCl answers or refuses.         *)
(*                                                                          *)
(* The invariants come in layers, each proved from the ones before it.      *)
(* Base says that a session not yet started is blank and any other one      *)
(* Sound (SessionOpsProofs), that one in the engine's hands has nothing in  *)
(* flight except perhaps the watchdog's Close, and where the run thread and *)
(* the ready queue hold sessions.  EngineStep sorts the steps by what they  *)
(* do to sessions, slots and totals; Tallies, which counts the sessions     *)
(* against live, the semaphore and the totals, and Ended, what is over once *)
(* the load, the drain or the watchdog is, follow from it.                  *)
(*                                                                          *)
(* The last parts prove that each session implements FileSession under the  *)
(* mapping of RunEngine (here Seen, Quoted and OwnerPlace): every step is,  *)
(* for every session, a step of FileSession or none (Faithful).  It needs   *)
(* Base and Tidy: a session outside its entry points has been released if   *)
(* it may be.  The theorems of FileSessionProofs then hold of each session  *)
(* of a run, its ledger, lifetime, outcome and contract.                    *)
(***************************************************************************)
EXTENDS RunEngine, SessionOpsProofs, FiniteSetTheorems, SequenceTheorems

\* TypeOK without the counters, which need the layers above.
Types ==
    /\ sess \in [Sessions -> Session]
    /\ place \in [Sessions -> Places]
    /\ stage \in [Sessions -> Stages]
    /\ runner \in [Sessions -> Threads]
    /\ ready \in Seq(Sessions)
    /\ nudges \in [Sessions -> Nat]
    /\ pc \in Labels
    /\ cont \in Sessions \cup {NoSession}
    /\ quote \in Nat
    /\ {timeUp, stopPace, drainTimedOut, wdStarted, wdStop} \subseteq BOOLEAN
    /\ caught \subseteq Sessions

\* StartSession has not run for x.
Unstarted(x) == place[x] = "new" \/ (place[x] = "held" /\ pc = "start")

\* on_ready, the queue or the run thread has x, to issue or close it.
InHands(x) ==
    \/ place[x] \in {"entering", "pushing", "queued"}
    \/ place[x] = "held" /\ pc # "start"

SessionOK(x) ==
    /\ Sized(sess[x], Sizes)
    /\ Unstarted(x) => sess[x] = Blank /\ stage[x] = "none" /\ x \notin caught
    /\ ~Unstarted(x) => Sound(sess[x])
    /\ InHands(x) => Handed(sess[x])
    /\ stage[x] # "none" => sess[x].completed

Holding == {"popped", "pay", "requeue", "issue", "start"}

\* The run thread holds a session exactly at these statements, and only one.
HandsOK ==
    /\ cont # NoSession <=> pc \in Holding
    /\ \A x \in Sessions : place[x] = "held" <=> cont = x

\* No session is in the queue twice, or there and elsewhere.
QueueOK ==
    /\ \A i \in 1 .. Len(ready) : place[ready[i]] = "queued"
    /\ \A i, j \in 1 .. Len(ready) : ready[i] = ready[j] => i = j

Base == Types /\ (\A x \in Sessions : SessionOK(x)) /\ HandsOK /\ QueueOK

-----------------------------------------------------------------------------
(* What one session's step does. *)

\* An entry point that leaves x in the state new: session_done follows exactly
\* if new reports, and else the release.
LEMMA HandleFacts ==
    ASSUME Types, NEW x \in Sessions, NEW t \in Threads, NEW charged, NEW new,
           Sound(new), Sized(new, Sizes), Handle(t, x, charged, new)
    PROVE  /\ sess' \in [Sessions -> Session] /\ stage' \in [Sessions -> Stages]
           /\ runner' \in [Sessions -> Threads] /\ wdStarted' \in BOOLEAN
           /\ \A y \in Sessions \ {x} : sess'[y] = sess[y] /\ stage'[y] = stage[y]
           /\ Sound(sess'[x]) /\ Sized(sess'[x], Sizes)
           /\ Handed(new) => Handed(sess'[x])
           /\ sess'[x].completed = new.completed /\ sess'[x].pend = new.pend
           /\ stage[x] = "none"
           /\ stage'[x] = IF new.completed /\ ~sess[x].completed THEN "observe" ELSE "none"
           /\ Advance(sess[x], new) => Advance(sess[x], sess'[x])
           /\ sess'[x].deadline \in {new.deadline, "none"}
           /\ wdStarted' => wdStarted \/ sess'[x].deadline = "armed"
           /\ tokens' = Least(Capacity, tokens + charged - new.held)
  <1> DEFINE done  == new.completed /\ ~sess[x].completed
             e     == IF wdStop THEN "none" ELSE new.deadline
             v     == [new EXCEPT !.deadline = e]
             w     == ReleaseIfIdle(v)
  <1>1. new \in Session /\ sess[x] \in Session
    <2>1. new \in Session
      BY DEF Sound
    <2>2. sess[x] \in Session
      BY DEF Types
    <2> QED
      BY <2>1, <2>2
  <1>2. e \in {new.deadline, "none"} /\ e \in {"none", "armed", "due"}
    BY <1>1 DEF Session
  <1>3. (IF wdStop THEN [new EXCEPT !.deadline = "none"] ELSE new) = v
    BY <1>1 DEF Session
  <1>4. /\ stage[x] = "none"
        /\ sess' = [sess EXCEPT ![x] = IF done THEN v ELSE w]
        /\ stage' = [stage EXCEPT ![x] = IF done THEN "observe" ELSE "none"]
        /\ runner' = [runner EXCEPT ![x] = IF done THEN t ELSE runner[x]]
        /\ wdStarted' = (wdStarted \/ v.deadline = "armed")
        /\ tokens' = Least(Capacity, tokens + charged - new.held)
    BY <1>3 DEF Handle, Unlocked
  <1> HIDE DEF done, e
  <1>5. Sound(v) /\ (Handed(new) => Handed(v))
    BY <1>2, DeadlineSound
  <1>6. Sound(w) /\ (Handed(new) => Handed(w))
    <2>1. /\ Sound(w) /\ Busy(w) = Busy(new)
          /\ w.closeReq = new.closeReq /\ w.timedOut = new.timedOut
      BY <1>2, ReleaseSound
    <2> QED
      BY <2>1 DEF Handed
  <1>7. Sizes \in SUBSET Nat
    BY EngineOptions
  <1>8. /\ Sized(v, Sizes) /\ v.pend = new.pend
        /\ v.completed = new.completed /\ v.deadline = e
        /\ Sized(w, Sizes) /\ w.pend = new.pend
        /\ w.completed = new.completed /\ w.deadline = e
    <2>1. Advance(new, new)
      BY <1>1, OnwardSelf, OnwardAdvance
    <2> QED
      BY ONLY <1>1, <1>2, <1>7, <2>1, Sized(new, Sizes), ReleaseAdvance, ZenonT(60) DEF v, w
  <1>9. Advance(sess[x], new) => Advance(sess[x], v) /\ Advance(sess[x], w)
    BY ONLY <1>1, <1>2, <1>7, Sized(new, Sizes), ReleaseAdvance, ZenonT(60) DEF v, w
  <1> HIDE DEF v, w
  <1>10. v \in Session /\ w \in Session
    BY <1>5, <1>6 DEF Sound
  <1>11. sess'[x] = IF done THEN v ELSE w
    BY <1>4 DEF Types
  <1>12. stage'[x] = IF done THEN "observe" ELSE "none"
    BY <1>4 DEF Types
  <1>13. /\ sess' \in [Sessions -> Session] /\ stage' \in [Sessions -> Stages]
         /\ runner' \in [Sessions -> Threads]
         /\ \A y \in Sessions \ {x} : sess'[y] = sess[y] /\ stage'[y] = stage[y]
    BY <1>4, <1>10 DEF Types, Stages
  <1>14. wdStarted' \in BOOLEAN
    BY <1>4 DEF Types
  <1>15. CASE done
    BY <1>2, <1>4, <1>5, <1>8, <1>9, <1>11, <1>12, <1>13, <1>14, <1>15 DEF done
  <1>16. CASE ~done
    BY <1>2, <1>4, <1>6, <1>8, <1>9, <1>11, <1>12, <1>13, <1>14, <1>16 DEF done
  <1> QED
    BY <1>15, <1>16

-----------------------------------------------------------------------------
(* What a step does to the accounts of a session. *)

\* x is as far as it was, or its session_done returns; if it has ended, its
\* deadline is not armed anew.
Settled(x) ==
    /\ stage'[x] = stage[x] \/ (stage[x] = "notify" /\ stage'[x] = "none")
    /\ sess'[x].completed = sess[x].completed
    /\ sess'[x].result = sess[x].result
    /\ sess[x].completed => sess'[x].deadline \in {sess[x].deadline, "none"}

\* x ends, and session_done begins.
Ending(x) ==
    /\ stage[x] = "none" /\ ~sess[x].completed /\ place[x] # "new"
    /\ stage'[x] = "observe" /\ sess'[x].completed

\* No Read is submitted for x once it has read.
Rests(x) == sess[x].issuedRead => sess'[x].pend["read"] <= sess[x].pend["read"]

Same(x) ==
    /\ place'[x] = "new" <=> place[x] = "new"
    /\ Settled(x) \/ Ending(x)
    /\ Rests(x) \/ pc = "issue"

\* The bucket stays within its bounds; only an armed deadline starts the
\* watchdog's thread.
Bounded ==
    /\ tokens \in 0 .. Capacity => tokens' \in 0 .. Capacity
    /\ wdStarted' => wdStarted \/ \E x \in Sessions : sess'[x].deadline = "armed"

\* What the engine relies on when it, or a callback, takes x to `new`.
Entry(x, charged, new) ==
    /\ Sound(new) /\ Sized(new, Sizes)
    /\ Advance(sess[x], new) \/ sess[x] = Blank
    /\ charged \in Int /\ new.held <= charged
    /\ sess[x].issuedRead => new.pend["read"] <= sess[x].pend["read"] \/ pc = "issue"

\* Such a step settles the accounts of all sessions but x, and either those
\* of x or it ends x.
LEMMA ServeSame ==
    ASSUME Base, NEW x \in Sessions, NEW t \in Threads, NEW charged, NEW new,
           Entry(x, charged, new), Handle(t, x, charged, new), place[x] # "new",
           NEW p \in Places \ {"new"}, place' = [place EXCEPT ![x] = p]
    PROVE  (\A y \in Sessions : Same(y)) /\ Bounded
  <1>1. /\ \A y \in Sessions \ {x} : sess'[y] = sess[y] /\ stage'[y] = stage[y]
        /\ Sound(sess'[x]) /\ sess' \in [Sessions -> Session]
        /\ sess'[x].completed = new.completed /\ sess'[x].pend = new.pend
        /\ stage[x] = "none"
        /\ stage'[x] = IF new.completed /\ ~sess[x].completed THEN "observe" ELSE "none"
        /\ Advance(sess[x], new) => Advance(sess[x], sess'[x])
        /\ wdStarted' => wdStarted \/ sess'[x].deadline = "armed"
        /\ tokens' = Least(Capacity, tokens + charged - new.held)
    BY HandleFacts DEF Base, Entry
  <1>2. place'[x] = p /\ \A y \in Sessions \ {x} : place'[y] = place[y]
    BY DEF Base, Types
  <1>3. sess[x].result = IF sess[x].completed THEN sess[x].result ELSE "none"
    <2>1. CASE Unstarted(x)
      <3>1. sess[x] = Blank
        BY <2>1 DEF Base, SessionOK
      <3>2. Blank.result = "none"
        BY DEF Blank
      <3> QED
        BY <3>1, <3>2
    <2>2. CASE ~Unstarted(x)
      BY <2>2 DEF Base, SessionOK, Sound, OutcomeSound
    <2> QED
      BY <2>1, <2>2
  <1>4. sess'[x].result = IF sess'[x].completed THEN sess'[x].result ELSE "none"
    BY <1>1 DEF Sound, OutcomeSound
  <1>5. sess[x].completed => /\ sess'[x].completed /\ sess'[x].result = sess[x].result
                             /\ sess'[x].deadline \in {sess[x].deadline, "none"}
    <2>1. Blank.completed = FALSE
      BY DEF Blank
    <2> QED
      BY <1>1, <2>1 DEF Entry, Advance, Reports
  <1>6. Settled(x) \/ Ending(x)
    <2>1. CASE new.completed /\ ~sess[x].completed
      BY <1>1, <2>1 DEF Ending
    <2>2. CASE ~(new.completed /\ ~sess[x].completed)
      <3>1. sess'[x].completed = sess[x].completed
        <4>1. sess'[x].completed \in BOOLEAN /\ sess[x].completed \in BOOLEAN
          BY <1>1 DEF Base, Types, Session
        <4> QED
          BY <1>1, <1>5, <2>2, <4>1
      <3> QED
        BY <1>1, <1>3, <1>4, <1>5, <2>2, <3>1 DEF Settled
    <2> QED
      BY <2>1, <2>2
  <1>7. Same(x)
    BY <1>1, <1>2, <1>6 DEF Same, Rests, Entry
  <1>8. ASSUME NEW y \in Sessions \ {x} PROVE Same(y)
    <2>1. sess[y].pend["read"] \in Nat
      <3>1. sess \in [Sessions -> Session] /\ y \in Sessions
        BY DEF Base, Types
      <3>2. sess[y].pend \in [Ops -> Nat] /\ "read" \in Ops
        BY ONLY <3>1 DEF Session, Ops
      <3> QED
        BY ONLY <3>2
    <2> QED
      BY <1>1, <1>2, <2>1 DEF Same, Settled, Rests
  <1>9. Bounded
    <2>1. new.held \in Int
      BY DEF Entry, Sound, Session
    <2>2. Capacity \in Nat
      BY SessionOptions DEF Capacity
    <2>3. tokens \in 0 .. Capacity => tokens' \in 0 .. Capacity
      BY <1>1, <2>1, <2>2 DEF Least, Entry
    <2> QED
      BY <1>1, <2>3 DEF Bounded
  <1> QED
    BY <1>7, <1>8, <1>9

\* Such a step keeps every session OK, provided it puts x where it may be.
LEMMA ServeOK ==
    ASSUME Base, NEW x \in Sessions, NEW t \in Threads, NEW charged, NEW new,
           Entry(x, charged, new), Handle(t, x, charged, new),
           NEW p \in Places \ {"new"}, place' = [place EXCEPT ![x] = p],
           p = "held" => pc' # "start",
           p # "out" => Handed(new),
           caught' \subseteq caught,
           (pc' = "start" <=> pc = "start") \/ cont = x
    PROVE  \A y \in Sessions : SessionOK(y)'
  <1>1. /\ \A y \in Sessions \ {x} : sess'[y] = sess[y] /\ stage'[y] = stage[y]
        /\ Sound(sess'[x]) /\ Sized(sess'[x], Sizes)
        /\ Handed(new) => Handed(sess'[x])
        /\ sess'[x].completed = new.completed
        /\ stage'[x] = IF new.completed /\ ~sess[x].completed THEN "observe" ELSE "none"
    BY HandleFacts DEF Base, Entry
  <1>2. place'[x] = p /\ \A y \in Sessions \ {x} : place'[y] = place[y]
    BY DEF Base, Types
  <1>3. SessionOK(x)'
    <2>1. ~Unstarted(x)'
      BY <1>2 DEF Unstarted
    <2>2. InHands(x)' => Handed(sess'[x])
      BY <1>1, <1>2 DEF InHands, Places
    <2>3. stage'[x] # "none" => sess'[x].completed
      BY <1>1
    <2> QED
      BY <1>1, <2>1, <2>2, <2>3 DEF SessionOK
  <1>4. ASSUME NEW y \in Sessions \ {x} PROVE SessionOK(y)'
    <2>1. sess'[y] = sess[y] /\ stage'[y] = stage[y] /\ place'[y] = place[y]
      BY <1>1, <1>2
    <2>2. (Unstarted(y)' <=> Unstarted(y)) /\ (InHands(y)' <=> InHands(y))
      <3>1. CASE cont = x
        <4>1. place[y] # "held"
          BY <3>1 DEF Base, HandsOK
        <4> QED
          BY <2>1, <4>1 DEF Unstarted, InHands
      <3>2. CASE pc' = "start" <=> pc = "start"
        BY <2>1, <3>2 DEF Unstarted, InHands
      <3> QED
        BY <3>1, <3>2
    <2>3. y \notin caught => y \notin caught'
      OBVIOUS
    <2>4. SessionOK(y)
      BY DEF Base
    <2> QED
      BY <2>1, <2>2, <2>3, <2>4 DEF SessionOK
  <1> QED
    BY <1>3, <1>4

\* In the two statements between TryAcquire and launch the run thread holds a
\* slot of its own.
Slotted == {"charge", "launch"}

\* No account changes, except that sessions may end.
Even ==
    /\ \A x \in Sessions : Same(x)
    /\ UNCHANGED <<slotVars, okCount, failCount>>
    /\ pc' \in Slotted <=> pc \in Slotted

\* notify_one moves the run thread between two statements of its wait.
LEMMA NotifiedFacts ==
    ASSUME Base, pc' \in {pc, Notified}
    PROVE  /\ pc' \in Labels /\ (pc' \in Holding <=> pc \in Holding)
           /\ pc' = "start" <=> pc = "start"
           /\ pc' \in Slotted <=> pc \in Slotted
  BY DEF Base, Types, Notified, Labels, Holding, Slotted

-----------------------------------------------------------------------------
(* XrdCl's threads, the watchdog and on_ready. *)

\* A handler on a thread that is not the run thread.
LEMMA ElsewhereOK ==
    ASSUME Base, NEW x \in Sessions, ~Unstarted(x), NEW t \in Threads, NEW new,
           Entry(x, sess[x].held, new), HandleElsewhere(t, x, new),
           NEW p \in Places \ {"new"}, place' = [place EXCEPT ![x] = p],
           p = place[x] \/ {p, place[x]} \cap {"held", "queued"} = {},
           p # "out" => Handed(new),
           UNCHANGED <<queueVars, slotVars, totalVars, stopVars, wdStop>>,
           caught' \subseteq caught
    PROVE  Base' /\ Bounded /\ Even
  <1>1. Handle(t, x, sess[x].held, new) /\ pc' \in {pc, Notified} /\ UNCHANGED <<cont, quote>>
    BY DEF HandleElsewhere
  <1>2. /\ pc' \in Labels /\ (pc' \in Holding <=> pc \in Holding)
        /\ pc' = "start" <=> pc = "start"
        /\ pc' \in Slotted <=> pc \in Slotted
    BY <1>1, NotifiedFacts
  <1>3. /\ sess' \in [Sessions -> Session] /\ stage' \in [Sessions -> Stages]
        /\ runner' \in [Sessions -> Threads] /\ wdStarted' \in BOOLEAN
    BY <1>1, HandleFacts DEF Entry, Base
  <1>4. place'[x] = p /\ \A y \in Sessions \ {x} : place'[y] = place[y]
    BY DEF Base, Types
  <1>5. Types'
    BY <1>1, <1>2, <1>3 DEF Base, Types, queueVars, stopVars
  <1>6. place[x] # "new" /\ (p = "held" => pc' # "start")
    BY <1>2 DEF Unstarted
  <1>7. \A y \in Sessions : SessionOK(y)'
    BY <1>1, <1>2, <1>6, ServeOK
  <1>8. HandsOK'
    BY <1>1, <1>2, <1>4 DEF Base, HandsOK
  <1>9. QueueOK'
    <2>1. ready' = ready
      BY DEF queueVars
    <2>2. \A i \in 1 .. Len(ready) : ready[i] \in Sessions
      BY DEF Base, Types
    <2> QED
      BY <1>4, <2>1, <2>2 DEF Base, QueueOK
  <1>10. (\A y \in Sessions : Same(y)) /\ Bounded
    BY <1>1, <1>6, ServeSame
  <1> QED
    BY <1>2, <1>5, <1>7, <1>8, <1>9, <1>10 DEF Base, Even, slotVars, totalVars

\* A session for which XrdCl owes something other than a Close was started and
\* is nowhere else.
LEMMA BusyIsOut ==
    ASSUME Base, NEW x \in Sessions, NEW op \in Ops, sess[x].pend[op] > 0
    PROVE  /\ ~Unstarted(x) /\ Sound(sess[x]) /\ Sized(sess[x], Sizes)
           /\ sess[x] \in Session /\ sess[x].held \in Int /\ Sizes \in SUBSET Nat
           /\ op # "close" => place[x] = "out"
  <1>1. Blank.pend[op] = 0
    BY DEF Blank
  <1>2. ~Unstarted(x) /\ Sound(sess[x]) /\ Sized(sess[x], Sizes)
    BY <1>1 DEF Base, SessionOK
  <1>3. sess[x] \in Session /\ sess[x].held \in Int
    BY DEF Base, Types, Session
  <1>4. Sizes \in SUBSET Nat
    BY EngineOptions
  <1>5. ASSUME op # "close" PROVE place[x] = "out"
    <2>1. Busy(sess[x]) # 0
      BY <1>3, <1>5, IdleCounts DEF Ops
    <2>2. ~InHands(x)
      BY <2>1 DEF Base, SessionOK, Handed
    <2> QED
      BY <1>2, <2>2 DEF Base, Types, Places, InHands, Unstarted
  <1> QED
    BY <1>2, <1>3, <1>4, <1>5

\* OnOpen.
LEMMA OpenDoneOK ==
    ASSUME Base, NEW x \in Sessions, NEW ok \in BOOLEAN, NEW acc \in BOOLEAN,
           OpenDone(x, ok, acc)
    PROVE  Base' /\ Bounded /\ Even
  <1> DEFINE new == OnOpen(sess[x], ok, acc)
  <1>1. /\ sess[x].pend["open"] > 0 /\ HandleElsewhere("xrdcl", x, new)
        /\ UNCHANGED <<place, queueVars, slotVars, totalVars, stopVars, caught, wdStop>>
    BY DEF OpenDone
  <1>2. "open" \in Ops /\ "open" # "close" /\ "xrdcl" \in Threads /\ "out" \in Places \ {"new"}
    BY DEF Ops, Threads, Places
  <1>3. /\ ~Unstarted(x) /\ Sound(sess[x]) /\ Sized(sess[x], Sizes)
        /\ sess[x] \in Session /\ sess[x].held \in Int /\ Sizes \in SUBSET Nat
        /\ place[x] = "out"
    BY <1>1, <1>2, BusyIsOut
  <1>4. Sound(new)
    BY <1>1, <1>3, OnOpenSound
  <1>5. Advance(sess[x], new) /\ Sized(new, Sizes) /\ ~sess[x].issuedRead
    BY ONLY <1>1, <1>3, ok \in BOOLEAN, acc \in BOOLEAN, OnOpenAdvance, ZenonT(60) DEF new
  <1> HIDE DEF new
  <1>6. Entry(x, sess[x].held, new)
    BY <1>3, <1>4, <1>5 DEF Entry, Advance
  <1>7. place' = [place EXCEPT ![x] = "out"]
    BY <1>1, <1>3 DEF Base, Types
  <1> QED
    BY <1>1, <1>2, <1>3, <1>6, <1>7, ElsewhereOK

\* OnStat.
LEMMA StatDoneOK ==
    ASSUME Base, NEW x \in Sessions, NEW ok \in BOOLEAN, NEW size \in Sizes,
           NEW acc \in BOOLEAN, StatDone(x, ok, size, acc)
    PROVE  Base' /\ Bounded /\ Even
  <1> DEFINE new == OnStat(sess[x], ok, size, acc)
  <1>1. /\ sess[x].pend["stat"] > 0 /\ HandleElsewhere("xrdcl", x, new)
        /\ UNCHANGED <<place, queueVars, slotVars, totalVars, stopVars, caught, wdStop>>
    BY DEF StatDone
  <1>2. "stat" \in Ops /\ "stat" # "close" /\ "xrdcl" \in Threads /\ "out" \in Places \ {"new"}
    BY DEF Ops, Threads, Places
  <1>3. /\ ~Unstarted(x) /\ Sound(sess[x]) /\ Sized(sess[x], Sizes)
        /\ sess[x] \in Session /\ sess[x].held \in Int /\ Sizes \in SUBSET Nat
        /\ place[x] = "out"
    BY <1>1, <1>2, BusyIsOut
  <1>4. size \in Nat
    BY EngineOptions
  <1>5. Sound(new)
    BY <1>1, <1>3, <1>4, OnStatSound
  <1>6. Advance(sess[x], new) /\ Sized(new, Sizes) /\ ~sess[x].issuedRead
    BY ONLY <1>1, <1>3, ok \in BOOLEAN, size \in Sizes, acc \in BOOLEAN, OnStatAdvance,
            ZenonT(60) DEF new
  <1> HIDE DEF new
  <1>7. Entry(x, sess[x].held, new)
    BY <1>3, <1>5, <1>6 DEF Entry, Advance
  <1>8. place' = [place EXCEPT ![x] = "out"]
    BY <1>1, <1>3 DEF Base, Types
  <1> QED
    BY <1>1, <1>2, <1>3, <1>7, <1>8, ElsewhereOK

\* OnRead, which hands a session with bytes left to on_ready.
LEMMA ReadDoneOK ==
    ASSUME Base, NEW x \in Sessions, NEW ok \in BOOLEAN, NEW acc \in BOOLEAN,
           NEW got \in 0 .. OpBytes, ReadDone(x, ok, got, acc)
    PROVE  Base' /\ Bounded /\ Even
  <1> DEFINE new == OnRead(sess[x], ok, got, acc)
             p   == IF Parks(sess[x], ok, got) THEN "entering" ELSE "out"
  <1>1. /\ sess[x].pend["read"] > 0 /\ got <= sess[x].requested
        /\ HandleElsewhere("xrdcl", x, new)
        /\ place' = [place EXCEPT ![x] = IF Parks(sess[x], ok, got) THEN "entering"
                                         ELSE place[x]]
        /\ UNCHANGED <<queueVars, slotVars, totalVars, stopVars, caught, wdStop>>
    BY DEF ReadDone
  <1>2. /\ "read" \in Ops /\ "read" # "close" /\ "xrdcl" \in Threads
        /\ p \in Places \ {"new", "held", "queued"}
    BY DEF Ops, Threads, Places
  <1>3. /\ ~Unstarted(x) /\ Sound(sess[x]) /\ Sized(sess[x], Sizes)
        /\ sess[x] \in Session /\ sess[x].held \in Int /\ Sizes \in SUBSET Nat
        /\ place[x] = "out"
    BY <1>1, <1>2, BusyIsOut
  <1>4. got \in Nat /\ Paced
    BY SessionOptions, EngineOptions
  <1>5. Sound(new) /\ (Parks(sess[x], ok, got) => Busy(new) = 0 /\ (new.closeReq => new.timedOut))
    BY ONLY <1>1, <1>3, <1>4, ok \in BOOLEAN, acc \in BOOLEAN, OnReadSound, ZenonT(60) DEF new
  <1>6. Advance(sess[x], new) /\ Sized(new, Sizes) /\ new.pend["read"] <= sess[x].pend["read"]
    BY ONLY <1>1, <1>3, <1>4, ok \in BOOLEAN, acc \in BOOLEAN, OnReadAdvance, ZenonT(60) DEF new
  <1> HIDE DEF new
  <1>7. Entry(x, sess[x].held, new)
    BY <1>3, <1>5, <1>6 DEF Entry, Advance
  <1>8. place' = [place EXCEPT ![x] = p]
    BY <1>1, <1>3
  <1>9. p # "out" => Handed(new)
    BY <1>5 DEF Handed
  <1> HIDE DEF p
  <1>10. p \in Places \ {"new"} /\ {p, place[x]} \cap {"held", "queued"} = {}
    BY <1>2, <1>3
  <1>11. /\ HandleElsewhere("xrdcl", x, new) /\ "xrdcl" \in Threads
         /\ UNCHANGED <<queueVars, slotVars, totalVars, stopVars, wdStop>>
         /\ caught' \subseteq caught /\ ~Unstarted(x)
    BY <1>1, <1>2, <1>3
  <1> QED
    BY <1>7, <1>8, <1>9, <1>10, <1>11, ElsewhereOK

\* A handler that leaves x where it is, and as busy as it was.
LEMMA ElsewhereStays ==
    ASSUME Base, NEW x \in Sessions, ~Unstarted(x), NEW t \in Threads, NEW new,
           Entry(x, sess[x].held, new), HandleElsewhere(t, x, new),
           Handed(sess[x]) => Handed(new),
           UNCHANGED <<place, queueVars, slotVars, totalVars, stopVars, wdStop>>,
           caught' \subseteq caught
    PROVE  Base' /\ Bounded /\ Even
  <1>1. place[x] \in Places \ {"new"}
    BY DEF Base, Types, Unstarted
  <1>2. place' = [place EXCEPT ![x] = place[x]]
    BY DEF Base, Types
  <1>3. place[x] # "out" => Handed(new)
    BY <1>1 DEF Base, SessionOK, InHands, Unstarted, Places
  <1> QED
    BY <1>1, <1>2, <1>3, ElsewhereOK

\* OnClose, which may come while somebody has the session in hand.
LEMMA CloseDoneOK ==
    ASSUME Base, NEW x \in Sessions, NEW ok \in BOOLEAN, CloseDone(x, ok)
    PROVE  Base' /\ Bounded /\ Even
  <1> DEFINE new == OnClose(sess[x], ok)
  <1>1. /\ sess[x].pend["close"] > 0 /\ HandleElsewhere("xrdcl", x, new)
        /\ UNCHANGED <<place, queueVars, slotVars, totalVars, stopVars, caught, wdStop>>
    BY DEF CloseDone
  <1>2. "close" \in Ops /\ "xrdcl" \in Threads
    BY DEF Ops, Threads
  <1>3. /\ ~Unstarted(x) /\ Sound(sess[x]) /\ Sized(sess[x], Sizes)
        /\ sess[x] \in Session /\ sess[x].held \in Int /\ Sizes \in SUBSET Nat
    BY <1>1, <1>2, BusyIsOut
  <1>4. /\ Sound(new) /\ Busy(new) = Busy(sess[x])
        /\ new.closeReq = sess[x].closeReq /\ new.timedOut = sess[x].timedOut
    BY ONLY <1>1, <1>3, ok \in BOOLEAN, OnCloseSound, ZenonT(60) DEF new
  <1>5. Advance(sess[x], new) /\ Sized(new, Sizes) /\ new.pend["read"] <= sess[x].pend["read"]
    BY ONLY <1>1, <1>3, ok \in BOOLEAN, OnCloseAdvance, ZenonT(60) DEF new
  <1> HIDE DEF new
  <1>6. Entry(x, sess[x].held, new)
    BY <1>3, <1>4, <1>5 DEF Entry, Advance
  <1>7. Handed(sess[x]) => Handed(new)
    BY <1>4 DEF Handed
  <1> QED
    BY <1>1, <1>2, <1>3, <1>6, <1>7, ElsewhereStays

\* The watchdog's request may come at any time.
LEMMA FireOK ==
    ASSUME Base, NEW x \in Sessions, NEW acc \in BOOLEAN, Fire(x, acc)
    PROVE  Base' /\ Bounded /\ Even
  <1> DEFINE new == RequestWallTimeout(sess[x], acc)
  <1>1. /\ x \in caught /\ HandleElsewhere("watchdog", x, new) /\ caught' = caught \ {x}
        /\ UNCHANGED <<place, queueVars, slotVars, totalVars, stopVars, wdStop>>
    BY DEF Fire
  <1>2. "watchdog" \in Threads /\ Sizes \in SUBSET Nat
    BY EngineOptions DEF Threads
  <1>3. ~Unstarted(x) /\ Sound(sess[x]) /\ Sized(sess[x], Sizes)
    BY <1>1 DEF Base, SessionOK
  <1>4. sess[x] \in Session /\ sess[x].held \in Int
    BY DEF Base, Types, Session
  <1>5. Sound(new) /\ Busy(new) = Busy(sess[x]) /\ (new = sess[x] \/ new.timedOut)
    BY ONLY <1>3, acc \in BOOLEAN, RequestWallTimeoutSound, ZenonT(60) DEF new
  <1>6. Advance(sess[x], new) /\ Sized(new, Sizes) /\ new.pend["read"] <= sess[x].pend["read"]
    BY ONLY <1>2, <1>3, <1>4, acc \in BOOLEAN, RequestWallTimeoutAdvance, ZenonT(60) DEF new
  <1> HIDE DEF new
  <1>7. Entry(x, sess[x].held, new)
    BY <1>4, <1>5, <1>6 DEF Entry, Advance
  <1>8. Handed(sess[x]) => Handed(new)
    BY <1>5 DEF Handed
  <1> QED
    BY <1>1, <1>2, <1>3, <1>7, <1>8, ElsewhereStays

\* on_ready closes a session that comes back after the stop.
LEMMA CloseOnEntryOK ==
    ASSUME Base, NEW x \in Sessions, NEW acc \in BOOLEAN, CloseOnEntry(x, acc)
    PROVE  Base' /\ Bounded /\ Even
  <1> DEFINE new == CloseNow(sess[x], acc)
  <1>1. /\ place[x] = "entering" /\ HandleElsewhere("xrdcl", x, new)
        /\ place' = [place EXCEPT ![x] = "out"]
        /\ UNCHANGED <<queueVars, slotVars, totalVars, stopVars, caught, wdStop>>
    BY DEF CloseOnEntry
  <1>2. "xrdcl" \in Threads /\ Sizes \in SUBSET Nat /\ "out" \in Places \ {"new"}
    BY EngineOptions DEF Threads, Places
  <1>3. ~Unstarted(x) /\ Sound(sess[x]) /\ Sized(sess[x], Sizes) /\ Busy(sess[x]) = 0
    BY <1>1 DEF Base, SessionOK, Unstarted, InHands, Handed
  <1>4. sess[x] \in Session /\ sess[x].held \in Int
    BY DEF Base, Types, Session
  <1>5. Sound(new)
    BY <1>3, CloseNowSound
  <1>6. Advance(sess[x], new) /\ Sized(new, Sizes) /\ new.pend["read"] <= sess[x].pend["read"]
    BY ONLY <1>2, <1>3, <1>4, acc \in BOOLEAN, CloseNowAdvance, ZenonT(60) DEF new
  <1> HIDE DEF new
  <1>7. Entry(x, sess[x].held, new)
    BY <1>4, <1>5, <1>6 DEF Entry, Advance
  <1> QED
    BY <1>1, <1>2, <1>3, <1>7, ElsewhereOK

-----------------------------------------------------------------------------
(* Steps that run no handler. *)

\* x changes hands.
LEMMA MoveOK ==
    ASSUME Base, NEW x \in Sessions, ~Unstarted(x), NEW p \in Places \ {"new"},
           place' = [place EXCEPT ![x] = p],
           p # "out" => InHands(x), p = "held" => pc' # "start",
           UNCHANGED <<sess, stage, runner, caught>>,
           (pc' = "start" <=> pc = "start") \/ cont = x
    PROVE  /\ \A y \in Sessions : SessionOK(y)' /\ Same(y)
           /\ place' \in [Sessions -> Places]
           /\ place'[x] = p /\ \A y \in Sessions \ {x} : place'[y] = place[y]
  <1>1. /\ place' \in [Sessions -> Places]
        /\ place'[x] = p /\ \A y \in Sessions \ {x} : place'[y] = place[y]
    BY DEF Base, Types
  <1>2. ASSUME NEW y \in Sessions PROVE Same(y)
    <2>1. sess[y].pend["read"] \in Nat
      <3>1. sess[y] \in Session
        BY DEF Base, Types
      <3> QED
        BY ONLY <3>1 DEF Session, Ops
    <2>2. place'[y] = "new" <=> place[y] = "new"
      BY <1>1 DEF Unstarted
    <2> QED
      BY <2>1, <2>2 DEF Same, Settled, Rests
  <1>3. SessionOK(x)'
    <2>1. SessionOK(x) /\ ~Unstarted(x)' /\ (InHands(x)' => InHands(x))
      BY <1>1 DEF Base, Unstarted, InHands
    <2> QED
      BY <2>1 DEF SessionOK
  <1>4. ASSUME NEW y \in Sessions \ {x} PROVE SessionOK(y)'
    <2>1. (Unstarted(y)' <=> Unstarted(y)) /\ (InHands(y)' <=> InHands(y))
      <3>1. place[y] # "held" \/ (pc' = "start" <=> pc = "start")
        BY DEF Base, HandsOK
      <3> QED
        BY <1>1, <3>1 DEF Unstarted, InHands
    <2>2. SessionOK(y)
      BY DEF Base
    <2> QED
      BY <2>1, <2>2 DEF SessionOK
  <1> QED
    BY <1>1, <1>2, <1>3, <1>4

\* The sessions stay where they are; at most somebody pays for them, or their
\* deadlines move.
LEMMA QuietOK ==
    ASSUME Base, UNCHANGED <<place, runner, ready, cont>>,
           \A x \in Sessions : sess'[x] = sess[x] \/ (~Unstarted(x) /\ Stays(sess[x], sess'[x])),
           sess' \in [Sessions -> Session], stage' \in [Sessions -> Stages],
           \A x \in Sessions : stage'[x] # "none" => stage[x] # "none",
           caught' \subseteq Sessions,
           \A x \in caught' : x \in caught \/ ~Unstarted(x),
           nudges' \in [Sessions -> Nat], pc' \in Labels, quote' \in Nat,
           pc' \in Holding <=> pc \in Holding, pc' = "start" <=> pc = "start",
           {timeUp', stopPace', drainTimedOut', wdStarted', wdStop'} \subseteq BOOLEAN
    PROVE  Base'
  <1>1. Types'
    BY DEF Base, Types
  <1>2. ASSUME NEW x \in Sessions PROVE SessionOK(x)'
    <2>1. (Unstarted(x)' <=> Unstarted(x)) /\ (InHands(x)' <=> InHands(x))
      BY DEF Unstarted, InHands
    <2>2. SessionOK(x) /\ sess[x] \in Session /\ Sizes \in SUBSET Nat
      BY EngineOptions DEF Base, Types
    <2>3. CASE sess'[x] = sess[x]
      BY <2>1, <2>2, <2>3 DEF SessionOK
    <2>4. CASE ~Unstarted(x) /\ Stays(sess[x], sess'[x])
      <3>1. sess'[x].completed = sess[x].completed
        BY <2>2, <2>4, StaysFields
      <3>2. /\ Sound(sess[x]) => Sound(sess'[x])
            /\ Sized(sess[x], Sizes) => Sized(sess'[x], Sizes)
            /\ Handed(sess[x]) => Handed(sess'[x])
        BY <2>2, <2>4, StaysSound
      <3> QED
        BY <2>1, <2>2, <2>4, <3>1, <3>2 DEF SessionOK
    <2> QED
      BY <2>3, <2>4
  <1>3. HandsOK' /\ QueueOK'
    BY DEF Base, HandsOK, QueueOK
  <1> QED
    BY <1>1, <1>2, <1>3 DEF Base

\* Of those, the ones that are no part of session_done change no account.
LEMMA QuietSame ==
    ASSUME Base, UNCHANGED <<place, stage>>,
           \A x \in Sessions :
              /\ sess'[x] = sess[x] \/ Stays(sess[x], sess'[x])
              /\ sess[x].completed => sess'[x].deadline \in {sess[x].deadline, "none"}
    PROVE  \A x \in Sessions : Same(x)
  <1> SUFFICES ASSUME NEW x \in Sessions PROVE Same(x)
    OBVIOUS
  <1>1. sess[x] \in Session /\ sess[x].pend["read"] \in Nat
    BY DEF Base, Types, Session, Ops
  <1>2. /\ sess'[x].completed = sess[x].completed /\ sess'[x].result = sess[x].result
        /\ sess'[x].pend = sess[x].pend
    BY <1>1, StaysFields
  <1> QED
    BY <1>1, <1>2 DEF Same, Settled, Rests

\* Tokens are only added up to the capacity and taken when they are there.
LEMMA TakingBounded ==
    ASSUME NEW n \in Nat, CanTake(n), tokens' = TokensAfterTaking(n)
    PROVE  tokens \in 0 .. Capacity => tokens' \in 0 .. Capacity
  <1>1. Capacity \in Nat
    BY SessionOptions DEF Capacity
  <1> QED
    BY <1>1 DEF CanTake, TokensAfterTaking

\* Only the run thread's position, its counters and its flags change.
LEMMA FrozenOK ==
    ASSUME Base, UNCHANGED <<sess, place, stage, runner, ready, cont, caught>>,
           nudges' \in [Sessions -> Nat], pc' \in Labels, quote' \in Nat,
           pc' \in Holding <=> pc \in Holding, pc' = "start" <=> pc = "start",
           {timeUp', stopPace', drainTimedOut', wdStarted', wdStop'} \subseteq BOOLEAN
    PROVE  Base' /\ \A x \in Sessions : Same(x)
  <1>1. sess' \in [Sessions -> Session] /\ stage' \in [Sessions -> Stages] /\ caught' \subseteq Sessions
    BY DEF Base, Types
  <1>2. /\ \A x \in Sessions : stage'[x] # "none" => stage[x] # "none"
        /\ \A x \in Sessions : sess'[x] = sess[x]
        /\ UNCHANGED <<place, runner, ready, cont>> /\ UNCHANGED <<place, stage>>
    OBVIOUS
  <1>3. \A x \in Sessions :
           sess'[x] = sess[x] \/ (~Unstarted(x) /\ Stays(sess[x], sess'[x]))
    OBVIOUS
  <1>4. \A x \in caught' : x \in caught \/ ~Unstarted(x)
    OBVIOUS
  <1>5. Base'
    BY <1>1, <1>2, <1>3, <1>4, QuietOK
  <1>6. \A x \in Sessions : Same(x)
    BY <1>2, QuietSame
  <1> QED
    BY <1>5, <1>6

\* The steps of the callbacks, the clock and the bucket that move no session.
LEMMA ClockOK ==
    ASSUME Base, (\E x \in Sessions : Nudge(x)) \/ RunDeadline \/ Refill
    PROVE  Base' /\ Bounded /\ Even
  <1>1. ASSUME NEW x \in Sessions, Nudge(x) PROVE Base' /\ Bounded /\ Even
    <2>1. /\ UNCHANGED <<sess, place, stage, runner, ready, cont, caught>>
          /\ pc' \in {pc, Notified}
          /\ UNCHANGED <<slotVars, okCount, failCount, tokens, quote>>
          /\ UNCHANGED <<timeUp, stopPace, drainTimedOut, wdStarted, wdStop>>
          /\ nudges[x] > 0 /\ nudges' = [nudges EXCEPT ![x] = nudges[x] - 1]
      BY <1>1 DEF Nudge, sessionVars, totalVars, stopVars, watchdogVars
    <2>2. nudges' \in [Sessions -> Nat]
      BY <2>1 DEF Base, Types
    <2>3. /\ pc' \in Labels /\ (pc' \in Holding <=> pc \in Holding)
          /\ pc' = "start" <=> pc = "start"
          /\ pc' \in Slotted <=> pc \in Slotted
      BY <2>1, NotifiedFacts
    <2>4. quote' \in Nat /\ {timeUp', stopPace', drainTimedOut', wdStarted', wdStop'} \subseteq BOOLEAN
      BY <2>1 DEF Base, Types
    <2>5. Base' /\ \A y \in Sessions : Same(y)
      BY <2>1, <2>2, <2>3, <2>4, FrozenOK
    <2> QED
      BY <2>1, <2>3, <2>5 DEF Bounded, Even
  <1>2. CASE RunDeadline \/ Refill
    <2>1. /\ UNCHANGED <<sess, place, stage, runner, ready, cont, caught>>
          /\ UNCHANGED <<slotVars, okCount, failCount, quote, nudges, pc>>
          /\ timeUp' \in {timeUp, TRUE}
          /\ UNCHANGED <<stopPace, drainTimedOut, wdStarted, wdStop>>
          /\ tokens \in 0 .. Capacity => tokens' \in 0 .. Capacity
      <3>1. CASE RunDeadline
        BY <3>1 DEF RunDeadline, sessionVars, queueVars, totalVars, threadVars, watchdogVars
      <3>2. CASE Refill
        <4>1. PICK more \in 1 .. Capacity : tokens + more <= Capacity /\ tokens' = tokens + more
          BY <3>2 DEF Refill
        <4>2. tokens \in 0 .. Capacity => tokens' \in 0 .. Capacity
          BY <4>1, SessionOptions DEF Capacity
        <4>3. UNCHANGED <<sessionVars, queueVars, slotVars, totalVars, threadVars,
                          stopVars, watchdogVars>>
          BY <3>2 DEF Refill
        <4> QED
          BY <4>2, <4>3 DEF sessionVars, queueVars, totalVars, threadVars, stopVars, watchdogVars
      <3> QED
        BY <1>2, <3>1, <3>2
    <2>2. /\ nudges' \in [Sessions -> Nat] /\ pc' \in Labels /\ quote' \in Nat
          /\ {timeUp', stopPace', drainTimedOut', wdStarted', wdStop'} \subseteq BOOLEAN
      BY <2>1 DEF Base, Types
    <2>3. Base' /\ \A y \in Sessions : Same(y)
      BY <2>1, <2>2, FrozenOK
    <2> QED
      BY <2>1, <2>3 DEF Bounded, Even
  <1> QED
    BY <1>1, <1>2

\* The watchdog and the clock: deadlines pass, and the scan collects them.
LEMMA DeadlinesOK ==
    ASSUME Base, (\E x \in Sessions : DeadlinePasses(x)) \/ Collect \/ ShutDown
    PROVE  Base' /\ Bounded /\ Even
  <1>1. /\ UNCHANGED <<place, stage, runner, ready, cont, nudges, quote>>
        /\ UNCHANGED <<slotVars, okCount, failCount, tokens>>
        /\ UNCHANGED <<timeUp, stopPace, drainTimedOut, wdStarted>>
        /\ wdStop' \in {wdStop, TRUE}
        /\ pc' = pc \/ (pc = "shutdown" /\ pc' = "join")
    BY DEF DeadlinePasses, Collect, ShutDown, queueVars, totalVars, threadVars,
           stopVars, watchdogVars, At, Goto
  <1>2. /\ nudges' \in [Sessions -> Nat] /\ pc' \in Labels /\ quote' \in Nat
        /\ stage' \in [Sessions -> Stages]
        /\ {timeUp', stopPace', drainTimedOut', wdStarted', wdStop'} \subseteq BOOLEAN
    BY <1>1 DEF Base, Types, Labels
  <1>3. /\ pc' \in Holding <=> pc \in Holding
        /\ pc' = "start" <=> pc = "start"
        /\ pc' \in Slotted <=> pc \in Slotted
    BY <1>1 DEF Holding, Slotted
  <1>4. Blank.deadline = "none"
    BY DEF Blank
  <1>5. \A y \in Sessions : Unstarted(y) => sess[y] = Blank
    BY DEF Base, SessionOK
  <1>6. ASSUME NEW y \in Sessions, NEW e \in {"none", "armed", "due"}
        PROVE  /\ Stays(sess[y], [sess[y] EXCEPT !.deadline = e])
               /\ [sess[y] EXCEPT !.deadline = e].deadline = e
               /\ sess[y].deadline = e => [sess[y] EXCEPT !.deadline = e] = sess[y]
    <2>1. sess[y] \in Session /\ sess[y].held \in Int
      BY DEF Base, Types, Session
    <2>2. [sess[y] EXCEPT !.deadline = e] = [sess[y] EXCEPT !.held = sess[y].held, !.deadline = e]
      BY <2>1 DEF Session
    <2>3. Stays(sess[y], [sess[y] EXCEPT !.deadline = e])
      BY <2>1, <2>2 DEF Stays
    <2> QED
      BY <2>1, <2>3 DEF Session
  <1>7. ASSUME NEW y \in Sessions
        PROVE  /\ sess'[y] = sess[y] \/ (~Unstarted(y) /\ Stays(sess[y], sess'[y]))
               /\ sess[y].completed => sess'[y].deadline \in {sess[y].deadline, "none"}
    <2>1. ASSUME NEW x \in Sessions, DeadlinePasses(x)
          PROVE  /\ sess'[y] = sess[y] \/ (~Unstarted(y) /\ Stays(sess[y], sess'[y]))
                 /\ sess[y].completed => sess'[y].deadline \in {sess[y].deadline, "none"}
      <3>1. /\ sess[x].deadline = "armed" /\ ~sess[x].completed
            /\ sess' = [sess EXCEPT ![x] = [sess[x] EXCEPT !.deadline = "due"]]
        BY <2>1 DEF DeadlinePasses
      <3>2. ~Unstarted(x)
        BY <1>4, <1>5, <3>1
      <3>3. Stays(sess[x], [sess[x] EXCEPT !.deadline = "due"])
        BY <1>6
      <3>4. sess'[x] = [sess[x] EXCEPT !.deadline = "due"] /\ \A z \in Sessions \ {x} : sess'[z] = sess[z]
        BY <3>1 DEF Base, Types
      <3>5. Stays(sess[x], sess'[x])
        BY <3>3, <3>4
      <3>6. CASE y = x
        BY ONLY <3>1, <3>2, <3>5, <3>6 DEF Unstarted
      <3>7. CASE y # x
        <4>1. sess'[y] = sess[y]
          BY <3>4, <3>7
        <4> QED
          BY ONLY <4>1
      <3> QED
        BY <3>6, <3>7
    <2>2. CASE Collect \/ ShutDown
      <3>1. sess'[y] = sess[y] \/ sess'[y] = [sess[y] EXCEPT !.deadline = "none"]
        BY <2>2 DEF Collect, ShutDown
      <3>2. /\ Stays(sess[y], [sess[y] EXCEPT !.deadline = "none"])
            /\ [sess[y] EXCEPT !.deadline = "none"].deadline = "none"
            /\ sess[y].deadline = "none" => [sess[y] EXCEPT !.deadline = "none"] = sess[y]
        BY <1>6
      <3> DEFINE d == [sess[y] EXCEPT !.deadline = "none"]
      <3> HIDE DEF d
      <3>3. /\ sess'[y] = sess[y] \/ sess'[y] = d
            /\ Stays(sess[y], d) /\ d.deadline = "none"
            /\ sess[y].deadline = "none" => d = sess[y]
        BY <3>1, <3>2 DEF d
      <3>4. Unstarted(y) => sess[y].deadline = "none"
        BY <1>4, <1>5
      <3>5. sess'[y] = sess[y] \/ (~Unstarted(y) /\ Stays(sess[y], sess'[y]))
        BY ONLY <3>3, <3>4
      <3>6. sess'[y].deadline \in {sess[y].deadline, "none"}
        BY ONLY <3>3
      <3> QED
        BY ONLY <3>5, <3>6
    <2> QED
      BY <2>1, <2>2
  <1>8. sess' \in [Sessions -> Session]
    <2>1. \A y \in Sessions : sess[y] \in Session
      BY DEF Base, Types
    <2>2. \A y \in Sessions : sess'[y] \in Session
      BY <1>7, <2>1, StaysFields
    <2>3. DOMAIN sess' = Sessions /\ sess' = [y \in Sessions |-> sess'[y]]
      BY DEF DeadlinePasses, Collect, ShutDown, Base, Types
    <2> QED
      BY <2>2, <2>3
  <1>9. caught' \subseteq Sessions /\ \A y \in caught' : y \in caught \/ ~Unstarted(y)
    <2>1. caught' = caught \/ caught' \subseteq {y \in Sessions : sess[y].deadline = "due"}
      BY DEF DeadlinePasses, Collect, ShutDown, watchdogVars
    <2> QED
      BY <1>4, <1>5, <2>1 DEF Base, Types
  <1>10. Base'
    BY <1>1, <1>2, <1>3, <1>7, <1>8, <1>9, QuietOK
  <1>11. \A y \in Sessions : Same(y)
    BY <1>1, <1>7, QuietSame
  <1> QED
    BY <1>1, <1>3, <1>10, <1>11 DEF Bounded, Even

-----------------------------------------------------------------------------
(* on_ready and session_done. *)

\* on_ready takes the session to the queue.
LEMMA OnReadyOK ==
    ASSUME Base, NEW x \in Sessions, CheckStop(x) \/ Push(x)
    PROVE  Base' /\ Bounded /\ Even
  <1> DEFINE p == IF place[x] = "entering" THEN "pushing" ELSE "queued"
  <1>1. /\ place[x] \in {"entering", "pushing"} /\ place' = [place EXCEPT ![x] = p]
        /\ UNCHANGED <<sess, stage, runner, caught>>
        /\ UNCHANGED <<tokens, slotVars, okCount, failCount, pc, cont, quote>>
        /\ UNCHANGED <<timeUp, stopPace, drainTimedOut, wdStarted, wdStop>>
    BY DEF CheckStop, Push, totalVars, threadVars, stopVars, watchdogVars
  <1>2. \/ ready' = ready /\ place[x] = "entering"
        \/ ready' = Append(ready, x) /\ place[x] = "pushing"
    BY DEF CheckStop, Push, queueVars
  <1>3. nudges' = nudges \/ nudges' = [nudges EXCEPT ![x] = nudges[x] + 1]
    BY DEF CheckStop, Push, queueVars
  <1>4. p \in Places \ {"new", "held", "out"} /\ ~Unstarted(x) /\ InHands(x)
    BY <1>1 DEF Places, Unstarted, InHands
  <1>5. /\ \A y \in Sessions : SessionOK(y)' /\ Same(y)
        /\ place' \in [Sessions -> Places]
        /\ place'[x] = p /\ \A y \in Sessions \ {x} : place'[y] = place[y]
    BY <1>1, <1>4, MoveOK
  <1>6. ready \in Seq(Sessions) /\ ready' \in Seq(Sessions)
    <2>1. ready \in Seq(Sessions)
      BY DEF Base, Types
    <2>2. Append(ready, x) \in Seq(Sessions)
      BY <2>1
    <2> QED
      BY <1>2, <2>1, <2>2
  <1>7. Types'
    <2>1. nudges' \in [Sessions -> Nat]
      BY <1>3 DEF Base, Types
    <2> QED
      BY <1>1, <1>5, <1>6, <2>1 DEF Base, Types
  <1>8. HandsOK'
    BY <1>1, <1>4, <1>5 DEF Base, HandsOK
  <1>9. QueueOK'
    <2>1. \A i \in 1 .. Len(ready) : ready[i] \in Sessions /\ ready[i] # x
      BY <1>1, <1>6 DEF Base, QueueOK
    <2>2. CASE ready' = ready
      BY <1>5, <2>1, <2>2 DEF Base, QueueOK
    <2>3. CASE ready' = Append(ready, x) /\ place[x] = "pushing"
      <3>1. /\ Len(ready') = Len(ready) + 1 /\ Len(ready) \in Nat
            /\ \A i \in 1 .. Len(ready) : ready'[i] = ready[i]
            /\ ready'[Len(ready) + 1] = x
        BY <1>6, <2>3
      <3>2. \A i \in 1 .. Len(ready') : i \in 1 .. Len(ready) \/ i = Len(ready) + 1
        BY <3>1
      <3>3. place'[x] = "queued"
        BY <1>5, <2>3
      <3> QED
        BY <1>5, <2>1, <3>1, <3>2, <3>3 DEF Base, QueueOK
    <2> QED
      BY <1>2, <2>2, <2>3
  <1> QED
    BY <1>1, <1>5, <1>7, <1>8, <1>9 DEF Base, Bounded, Even

\* The first three effects of session_done change nothing but the counts.
LEMMA SessionDoneOK ==
    ASSUME Base, NEW x \in Sessions, Observe(x) \/ LeaveLive(x) \/ ReleaseSlot(x)
    PROVE  Base' /\ Bounded
  <1>1. /\ UNCHANGED <<sess, place, runner, ready, cont, caught>>
        /\ UNCHANGED <<nudges, tokens, pc, quote>>
        /\ UNCHANGED <<timeUp, stopPace, drainTimedOut, wdStarted, wdStop>>
        /\ stage[x] # "none"
        /\ \E l \in Stages : stage' = [stage EXCEPT ![x] = l]
    BY DEF Observe, LeaveLive, ReleaseSlot, queueVars, threadVars, stopVars,
           watchdogVars, Stages
  <1>2. /\ sess' \in [Sessions -> Session] /\ stage' \in [Sessions -> Stages]
        /\ caught' \subseteq Sessions /\ nudges' \in [Sessions -> Nat]
        /\ pc' \in Labels /\ quote' \in Nat
        /\ {timeUp', stopPace', drainTimedOut', wdStarted', wdStop'} \subseteq BOOLEAN
    BY <1>1 DEF Base, Types
  <1>3. \A y \in Sessions : stage'[y] # "none" => stage[y] # "none"
    BY <1>1 DEF Base, Types
  <1>4. \A y \in Sessions :
           sess'[y] = sess[y] \/ (~Unstarted(y) /\ Stays(sess[y], sess'[y]))
    BY <1>1
  <1>5. \A y \in caught' : y \in caught \/ ~Unstarted(y)
    BY <1>1
  <1>6. Base'
    BY <1>1, <1>2, <1>3, <1>4, <1>5, QuietOK
  <1> QED
    BY <1>1, <1>6 DEF Bounded

\* Its last one ends the handler, which may give up the session.
LEMMA DoneReturnsOK ==
    ASSUME Base, NEW x \in Sessions, DoneReturns(x)
    PROVE  Base' /\ Bounded /\ Even
  <1> DEFINE t == sess[x]
             w == ReleaseIfIdle(t)
  <1>1. /\ stage[x] = "notify" /\ stage' = [stage EXCEPT ![x] = "none"]
        /\ sess' = [sess EXCEPT ![x] = w] /\ pc' \in {pc, Notified}
        /\ UNCHANGED <<place, runner, ready, nudges, cont, quote, caught>>
        /\ UNCHANGED <<tokens, slotVars, okCount, failCount>>
        /\ UNCHANGED <<timeUp, stopPace, drainTimedOut, wdStarted, wdStop>>
    BY DEF DoneReturns, queueVars, totalVars, stopVars, watchdogVars
  <1>2. t \in Session /\ t.deadline \in {"none", "armed", "due"} /\ Sizes \in SUBSET Nat
    BY EngineOptions DEF Base, Types, Session
  <1>3. ~Unstarted(x) /\ Sound(t) /\ Sized(t, Sizes) /\ t.completed
    BY <1>1 DEF Base, SessionOK
  <1>4. [t EXCEPT !.deadline = t.deadline] = t
    BY <1>2 DEF Session
  <1>5. /\ Sound(w) /\ Busy(w) = Busy(t)
        /\ w.closeReq = t.closeReq /\ w.timedOut = t.timedOut
    <2>1. LET u == ReleaseIfIdle([t EXCEPT !.deadline = t.deadline])
          IN  /\ Sound(u) /\ Busy(u) = Busy(t)
              /\ u.closeReq = t.closeReq /\ u.timedOut = t.timedOut
      BY ONLY <1>2, <1>3, ReleaseSound, ZenonT(60)
    <2> QED
      BY <1>4, <2>1 DEF w
  <1>6. /\ Advance(t, w) /\ Sized(w, Sizes) /\ w.pend = t.pend
        /\ w.completed = t.completed /\ w.deadline = t.deadline
    <2>1. Advance(t, t)
      BY <1>2, OnwardSelf, OnwardAdvance
    <2>2. LET u == ReleaseIfIdle([t EXCEPT !.deadline = t.deadline])
          IN  /\ Advance(t, u) /\ Sized(u, Sizes) /\ u.pend = t.pend
              /\ u.completed = t.completed /\ u.deadline = t.deadline
      <3>1. t.deadline \in {t.deadline, "none"}
        OBVIOUS
      <3> QED
        BY ONLY <1>2, <1>3, <2>1, <3>1, ReleaseAdvance, ZenonT(60)
    <2> QED
      BY <1>4, <2>2 DEF w
  <1> HIDE DEF w
  <1>7. w \in Session /\ w.result = t.result /\ (Handed(t) => Handed(w))
    BY <1>3, <1>5, <1>6 DEF Sound, Advance, Reports, Handed
  <1>8. /\ pc' \in Labels /\ (pc' \in Holding <=> pc \in Holding)
        /\ pc' = "start" <=> pc = "start"
        /\ pc' \in Slotted <=> pc \in Slotted
    BY <1>1, NotifiedFacts
  <1>9. /\ sess'[x] = w /\ \A y \in Sessions \ {x} : sess'[y] = sess[y]
        /\ stage'[x] = "none" /\ \A y \in Sessions \ {x} : stage'[y] = stage[y]
    BY <1>1 DEF Base, Types, Stages
  <1>10. Types'
    BY <1>1, <1>7, <1>8 DEF Base, Types, Stages
  <1>11. ASSUME NEW y \in Sessions PROVE SessionOK(y)'
    <2>1. (Unstarted(y)' <=> Unstarted(y)) /\ (InHands(y)' <=> InHands(y))
      BY <1>1, <1>8 DEF Unstarted, InHands
    <2>2. SessionOK(y)
      BY DEF Base
    <2>3. CASE y = x
      <3>1. Sound(sess'[y]) /\ Sized(sess'[y], Sizes) /\ stage'[y] = "none"
        BY <1>5, <1>6, <1>9, <2>3
      <3>2. ~Unstarted(y) /\ (Handed(sess[y]) => Handed(sess'[y]))
        BY <1>3, <1>7, <1>9, <2>3
      <3> QED
        BY <2>1, <2>2, <3>1, <3>2 DEF SessionOK
    <2>4. CASE y # x
      BY <1>1, <1>9, <2>1, <2>2, <2>4 DEF SessionOK
    <2> QED
      BY <2>3, <2>4
  <1>12. HandsOK' /\ QueueOK'
    BY <1>1, <1>8 DEF Base, HandsOK, QueueOK
  <1>13. ASSUME NEW y \in Sessions PROVE Same(y)
    <2>1. sess[y].pend["read"] \in Nat
      BY DEF Base, Types, Session, Ops
    <2>2. CASE y = x
      BY <1>1, <1>6, <1>7, <1>9, <2>1, <2>2 DEF Same, Settled, Rests
    <2>3. CASE y # x
      BY <1>1, <1>9, <2>1, <2>3 DEF Same, Settled, Rests
    <2> QED
      BY <2>2, <2>3
  <1> QED
    BY <1>1, <1>8, <1>10, <1>11, <1>12, <1>13 DEF Base, Bounded, Even

-----------------------------------------------------------------------------
(* The run thread. *)

\* The statements that only go on to another.
LEMMA GotoOK ==
    ASSUME Base,
           \/ Block \/ TokenWaitEnds \/ Stop \/ Flushed \/ Drained
           \/ DrainTimeout \/ FinalSnapshot \/ Join
    PROVE  Base' /\ Bounded /\ Even
  <1>1. /\ UNCHANGED <<sess, place, stage, runner, ready, cont, caught>>
        /\ UNCHANGED <<nudges, tokens, quote, slotVars, okCount, failCount, timeUp>>
        /\ pc \in Labels \ (Holding \cup Slotted) /\ pc' \in Labels \ (Holding \cup Slotted)
        /\ stopPace' \in {stopPace, TRUE} /\ drainTimedOut' \in {drainTimedOut, TRUE}
        /\ wdStarted' = wdStarted \/ wdStarted' = FALSE
        /\ wdStop' = wdStop \/ wdStop' = FALSE
    <2>1. CASE Block \/ TokenWaitEnds \/ Flushed \/ Drained
      BY <2>1 DEF Block, TokenWaitEnds, Flushed, Drained, At, Goto, sessionVars, queueVars,
         totalVars, stopVars, watchdogVars, Labels, Holding, Slotted
    <2>2. CASE Stop \/ DrainTimeout \/ FinalSnapshot \/ Join
      BY <2>2 DEF Stop, DrainTimeout, FinalSnapshot, Join, At, Goto, sessionVars, queueVars,
         totalVars, stopVars, watchdogVars, Labels, Holding, Slotted
    <2> QED
      BY <2>1, <2>2
  <1>2. /\ nudges' \in [Sessions -> Nat] /\ pc' \in Labels /\ quote' \in Nat
        /\ pc' \in Holding <=> pc \in Holding
        /\ pc' = "start" <=> pc = "start"
        /\ pc' \in Slotted <=> pc \in Slotted
        /\ {timeUp', stopPace', drainTimedOut', wdStarted', wdStop'} \subseteq BOOLEAN
    BY <1>1 DEF Base, Types, Holding
  <1>3. Base' /\ \A x \in Sessions : Same(x)
    BY <1>1, <1>2, FrozenOK
  <1>4. tokens' = tokens /\ (wdStarted' => wdStarted)
    BY <1>1
  <1>5. Bounded
    BY <1>4 DEF Bounded
  <1> QED
    BY <1>1, <1>2, <1>3, <1>5 DEF Even

\* Admit and Charge, which take and give back the slot.
LEMMA AdmitOK ==
    ASSUME Base, Admit \/ Charge
    PROVE  Base' /\ Bounded
  <1>1. /\ UNCHANGED <<sess, place, stage, runner, ready, cont, caught>>
        /\ UNCHANGED <<nudges, quote, timeUp, stopPace, drainTimedOut, wdStarted, wdStop>>
        /\ pc \in Labels \ Holding /\ pc' \in Labels \ Holding
        /\ tokens' = tokens \/ (CanTake(OpBytes) /\ tokens' = TokensAfterTaking(OpBytes))
    BY DEF Admit, Charge, At, Goto, sessionVars, queueVars, totalVars, stopVars,
       watchdogVars, Labels, Holding
  <1>2. /\ nudges' \in [Sessions -> Nat] /\ pc' \in Labels /\ quote' \in Nat
        /\ pc' \in Holding <=> pc \in Holding
        /\ pc' = "start" <=> pc = "start"
        /\ {timeUp', stopPace', drainTimedOut', wdStarted', wdStop'} \subseteq BOOLEAN
    BY <1>1 DEF Base, Types, Holding
  <1>3. Base'
    BY <1>1, <1>2, FrozenOK
  <1>4. tokens \in 0 .. Capacity => tokens' \in 0 .. Capacity
    BY <1>1, TakingBounded, SessionOptions
  <1> QED
    BY <1>1, <1>3, <1>4 DEF Bounded

\* The loop condition and the wait: a parked session is popped, or none.
LEMMA WaitOK ==
    ASSUME Base, Top \/ Wake \/ SleepEnds
    PROVE  Base' /\ Bounded /\ Even
  <1>1. /\ UNCHANGED <<sess, stage, runner, nudges, tokens, quote, caught>>
        /\ UNCHANGED <<slotVars, okCount, failCount>>
        /\ UNCHANGED <<timeUp, stopPace, drainTimedOut, wdStarted, wdStop>>
        /\ pc \in Labels \ (Holding \cup Slotted)
    BY DEF Top, Wake, SleepEnds, At, pickUnchanged, totalVars, stopVars, watchdogVars,
       Labels, Holding, Slotted
  <1>2. PickWork \/ (pc' \in {"stop", "blocking"} /\ UNCHANGED <<cont, ready, place>>)
    BY DEF Top, Wake, SleepEnds, Goto
  <1>3. CASE UNCHANGED <<cont, ready, place>> /\ pc' \in {"stop", "blocking", "admit"}
    <2>1. /\ nudges' \in [Sessions -> Nat] /\ pc' \in Labels /\ quote' \in Nat
          /\ pc' \in Holding <=> pc \in Holding
          /\ pc' = "start" <=> pc = "start"
          /\ pc' \in Slotted <=> pc \in Slotted
          /\ {timeUp', stopPace', drainTimedOut', wdStarted', wdStop'} \subseteq BOOLEAN
      BY <1>1, <1>3 DEF Base, Types, Holding, Slotted, Labels
    <2>2. Base' /\ \A x \in Sessions : Same(x)
      BY <1>1, <1>3, <2>1, FrozenOK
    <2> QED
      BY <1>1, <2>1, <2>2 DEF Bounded, Even
  <1>4. CASE PickWork /\ ready # <<>>
    <2> DEFINE x == Head(ready)
    <2>1. /\ cont' = x /\ ready' = Tail(ready)
          /\ place' = [place EXCEPT ![x] = "held"] /\ pc' = "popped"
      BY <1>4 DEF PickWork, Goto
    <2>2. ready \in Seq(Sessions) /\ ready # <<>>
      BY <1>4 DEF Base, Types
    <2>3. /\ x \in Sessions /\ x = ready[1] /\ ready' \in Seq(Sessions)
          /\ Len(ready') = Len(ready) - 1 /\ Len(ready) \in Nat \ {0}
          /\ \A i \in 1 .. Len(ready') : ready'[i] = ready[i + 1] /\ i + 1 \in 1 .. Len(ready)
      BY <2>1, <2>2
    <2>4. /\ place[x] = "queued" /\ \A i \in 2 .. Len(ready) : ready[i] # x
      BY <2>3 DEF Base, QueueOK
    <2> HIDE DEF x
    <2>5. ~Unstarted(x) /\ InHands(x) /\ "held" \in Places \ {"new"}
      BY <2>4 DEF Unstarted, InHands, Places
    <2>6. /\ \A y \in Sessions : SessionOK(y)' /\ Same(y)
          /\ place' \in [Sessions -> Places]
          /\ place'[x] = "held" /\ \A y \in Sessions \ {x} : place'[y] = place[y]
      <3>1. pc' # "start" /\ pc # "start"
        BY <1>1, <2>1 DEF Holding
      <3> QED
        BY <1>1, <2>1, <2>3, <2>5, <3>1, MoveOK
    <2>7. Types'
      BY <1>1, <2>1, <2>3, <2>6 DEF Base, Types, Labels
    <2>8. HandsOK'
      <3>1. cont = NoSession
        BY <1>1 DEF Base, HandsOK
      <3>2. x # NoSession /\ \A y \in Sessions : place[y] # "held"
        BY <2>3, <3>1, EngineOptions DEF Base, HandsOK
      <3> QED
        BY <2>1, <2>6, <3>2 DEF HandsOK, Holding
    <2>9. QueueOK'
      <3>1. \A i \in 1 .. Len(ready) : ready[i] \in Sessions
        BY <2>2
      <3>2. \A i \in 1 .. Len(ready') : place'[ready'[i]] = "queued"
        BY <2>3, <2>4, <2>6, <3>1 DEF Base, QueueOK
      <3>3. ASSUME NEW i \in 1 .. Len(ready'), NEW j \in 1 .. Len(ready'), ready'[i] = ready'[j]
            PROVE  i = j
        <4>1. ready[i + 1] = ready[j + 1] /\ i + 1 \in 1 .. Len(ready) /\ j + 1 \in 1 .. Len(ready)
          BY <2>3, <3>3
        <4>2. i + 1 = j + 1
          BY <4>1 DEF Base, QueueOK
        <4> QED
          BY <4>2
      <3> QED
        BY <3>2, <3>3 DEF QueueOK
    <2> QED
      BY <1>1, <2>1, <2>6, <2>7, <2>8, <2>9 DEF Base, Bounded, Even, Slotted
  <1>5. PickWork /\ ready = <<>> => UNCHANGED <<cont, ready, place>> /\ pc' = "admit"
    BY DEF PickWork, Goto
  <1> QED
    BY <1>2, <1>3, <1>4, <1>5

\* A session that has ended meanwhile is dropped, one that cannot be paid for
\* goes back to the head of the queue.
LEMMA PutDownOK ==
    ASSUME Base, Skip \/ Requeue
    PROVE  Base' /\ Bounded /\ Even
  <1> DEFINE p == IF pc = "popped" THEN "out" ELSE "queued"
  <1>1. /\ place' = [place EXCEPT ![cont] = p] /\ cont' = NoSession
        /\ pc \in {"popped", "requeue"} /\ pc' \in {"top", "tokenWait"}
        /\ UNCHANGED <<sess, stage, runner, nudges, tokens, quote, caught>>
        /\ UNCHANGED <<slotVars, okCount, failCount>>
        /\ UNCHANGED <<timeUp, stopPace, drainTimedOut, wdStarted, wdStop>>
    BY DEF Skip, Requeue, At, Goto, queueVars, totalVars, stopVars, watchdogVars
  <1>2. \/ pc = "popped" /\ ready' = ready
        \/ pc = "requeue" /\ ready' = <<cont>> \o ready
    BY DEF Skip, Requeue, At, queueVars
  <1>3. /\ cont \in Sessions /\ place[cont] = "held"
        /\ \A y \in Sessions : place[y] = "held" <=> cont = y
    BY <1>1 DEF Base, Types, HandsOK, Holding
  <1>4. ~Unstarted(cont) /\ InHands(cont) /\ p \in Places \ {"new", "held"}
    BY <1>1, <1>3 DEF Unstarted, InHands, Places
  <1>5. pc' # "start" /\ pc # "start" /\ pc' \in Labels \ Holding
    BY <1>1 DEF Labels, Holding
  <1>6. /\ \A y \in Sessions : SessionOK(y)' /\ Same(y)
        /\ place' \in [Sessions -> Places]
        /\ place'[cont] = p /\ \A y \in Sessions \ {cont} : place'[y] = place[y]
    BY <1>1, <1>3, <1>4, <1>5, MoveOK
  <1>7. ready \in Seq(Sessions) /\ ready' \in Seq(Sessions)
    <2>1. ready \in Seq(Sessions)
      BY DEF Base, Types
    <2>2. <<cont>> \in Seq(Sessions)
      BY <1>3
    <2>3. <<cont>> \o ready \in Seq(Sessions)
      BY <2>1, <2>2
    <2> QED
      BY <1>2, <2>1, <2>3
  <1>8. Types'
    BY <1>1, <1>5, <1>6, <1>7 DEF Base, Types
  <1>9. HandsOK'
    <2>1. \A y \in Sessions : place'[y] # "held" /\ y # NoSession
      BY <1>3, <1>4, <1>6, EngineOptions
    <2> QED
      BY <1>1, <1>5, <2>1 DEF HandsOK
  <1>10. QueueOK'
    <2>1. \A i \in 1 .. Len(ready) : ready[i] \in Sessions /\ ready[i] # cont
      BY <1>3, <1>7 DEF Base, QueueOK
    <2>2. CASE ready' = ready
      BY <1>6, <2>1, <2>2 DEF Base, QueueOK
    <2>3. CASE pc = "requeue" /\ ready' = <<cont>> \o ready
      <3>1. /\ Len(ready) \in Nat /\ Len(ready') = Len(ready) + 1 /\ ready'[1] = cont
            /\ \A i \in 2 .. Len(ready') : i - 1 \in 1 .. Len(ready) /\ ready'[i] = ready[i - 1]
        <4>1. Len(<<cont>>) = 1 /\ <<cont>>[1] = cont
          OBVIOUS
        <4>2. Len(ready) \in Nat /\ Len(ready') = Len(ready) + 1
          BY <1>7, <2>3, <4>1
        <4>3. \A i \in 1 .. Len(ready') :
                 ready'[i] = IF i <= 1 THEN <<cont>>[i] ELSE ready[i - 1]
          BY <1>7, <2>3, <4>1, <4>2
        <4> QED
          BY <4>1, <4>2, <4>3
      <3>2. place'[cont] = "queued"
        BY <1>6, <2>3
      <3>3. \A i \in 1 .. Len(ready') : i = 1 \/ i \in 2 .. Len(ready')
        BY <3>1
      <3>4. \A i \in 1 .. Len(ready') : place'[ready'[i]] = "queued"
        <4>1. \A i \in 2 .. Len(ready') : place'[ready'[i]] = "queued"
          BY <1>6, <2>1, <3>1 DEF Base, QueueOK
        <4> QED
          BY <3>1, <3>2, <3>3, <4>1
      <3>5. ASSUME NEW i \in 1 .. Len(ready'), NEW j \in 1 .. Len(ready'), ready'[i] = ready'[j]
            PROVE  i = j
        <4>1. i = j \/ (i # 1 /\ j # 1)
          BY <2>1, <3>1, <3>3, <3>5
        <4>2. CASE i # 1 /\ j # 1
          <5>1. /\ i - 1 \in 1 .. Len(ready) /\ j - 1 \in 1 .. Len(ready)
                /\ ready[i - 1] = ready[j - 1]
            BY <3>1, <3>3, <3>5, <4>2
          <5>2. i - 1 = j - 1
            BY <5>1 DEF Base, QueueOK
          <5> QED
            BY <5>2
        <4> QED
          BY <4>1, <4>2
      <3> QED
        BY <3>4, <3>5 DEF QueueOK
    <2> QED
      BY <1>2, <2>2, <2>3
  <1> QED
    BY <1>1, <1>6, <1>8, <1>9, <1>10 DEF Base, Bounded, Even, Slotted

\* The popped session is priced, paid for or not.
LEMMA PayOK ==
    ASSUME Base, Pay
    PROVE  Base' /\ Bounded /\ Even
  <1>1. /\ pc = "pay" /\ pc' \in {"issue", "requeue"}
        /\ UNCHANGED <<place, stage, runner, ready, cont, nudges, quote, caught>>
        /\ UNCHANGED <<slotVars, okCount, failCount>>
        /\ UNCHANGED <<timeUp, stopPace, drainTimedOut, wdStarted, wdStop>>
    BY DEF Pay, At, Goto, queueVars, totalVars, stopVars, watchdogVars
  <1>2. cont \in Sessions /\ place[cont] = "held" /\ ~Unstarted(cont) /\ quote \in Nat
    BY <1>1 DEF Base, Types, HandsOK, Holding, Unstarted
  <1>3. sess[cont] \in Session /\ sess[cont].held \in Int /\ sess[cont].deadline \in {"none", "armed", "due"}
    BY <1>2 DEF Base, Types, Session
  <1> DEFINE h == sess[cont].held + quote
             u == [sess[cont] EXCEPT !.held = h]
  <1>4. h \in Int
    BY <1>2, <1>3
  <1>5. \/ UNCHANGED <<tokens, sess>>
        \/ /\ CanTake(quote) /\ tokens' = TokensAfterTaking(quote)
           /\ sess' = [sess EXCEPT ![cont] = u]
    BY DEF Pay
  <1> HIDE DEF h
  <1>6. /\ u = [sess[cont] EXCEPT !.held = h, !.deadline = sess[cont].deadline]
        /\ u \in Session /\ u.deadline = sess[cont].deadline
    BY <1>3, <1>4 DEF Session
  <1> HIDE DEF u
  <1>7. Stays(sess[cont], u)
    BY <1>3, <1>4, <1>6 DEF Stays
  <1>8. \A x \in Sessions : sess'[x] = sess[x] \/ (x = cont /\ sess'[x] = u)
    BY <1>5 DEF Base, Types
  <1>9. sess' \in [Sessions -> Session]
    BY <1>5, <1>6 DEF Base, Types
  <1>10. ASSUME NEW x \in Sessions
         PROVE  /\ sess'[x] = sess[x] \/ (~Unstarted(x) /\ Stays(sess[x], sess'[x]))
                /\ sess[x].completed => sess'[x].deadline \in {sess[x].deadline, "none"}
    <2>1. CASE sess'[x] = sess[x]
      BY <2>1
    <2>2. CASE x = cont /\ sess'[x] = u
      BY <1>2, <1>6, <1>7, <2>2 DEF Unstarted
    <2> QED
      BY <1>8, <2>1, <2>2
  <1>11. /\ nudges' \in [Sessions -> Nat] /\ pc' \in Labels /\ quote' \in Nat
         /\ stage' \in [Sessions -> Stages] /\ caught' \subseteq Sessions
         /\ pc' \in Holding <=> pc \in Holding
         /\ pc' = "start" <=> pc = "start"
         /\ pc' \in Slotted <=> pc \in Slotted
         /\ {timeUp', stopPace', drainTimedOut', wdStarted', wdStop'} \subseteq BOOLEAN
    BY <1>1 DEF Base, Types, Holding, Slotted, Labels
  <1>12. \A x \in caught' : x \in caught \/ ~Unstarted(x)
    BY <1>1
  <1>13. Base'
    BY <1>1, <1>9, <1>10, <1>11, <1>12, QuietOK
  <1>14. \A x \in Sessions : Same(x)
    BY <1>1, <1>10, QuietSame
  <1>15. tokens \in 0 .. Capacity => tokens' \in 0 .. Capacity
    BY <1>2, <1>5, TakingBounded
  <1> QED
    BY <1>1, <1>11, <1>13, <1>14, <1>15 DEF Bounded, Even

\* The run thread runs a handler of the session it holds and lets it go.
LEMMA LetGoOK ==
    ASSUME Base, pc \in {"popped", "issue", "start"}, NEW charged, NEW new,
           Entry(cont, charged, new), Handle("engine", cont, charged, new),
           place' = [place EXCEPT ![cont] = "out"], cont' = NoSession, pc' = "top",
           UNCHANGED <<queueVars, slotVars, totalVars, quote, stopVars, caught, wdStop>>
    PROVE  Base' /\ Bounded /\ Even
  <1>1. /\ cont \in Sessions /\ place[cont] = "held"
        /\ \A y \in Sessions : place[y] = "held" <=> cont = y
    BY DEF Base, Types, HandsOK, Holding
  <1>2. "engine" \in Threads /\ "out" \in Places \ {"new"}
    BY DEF Threads, Places
  <1>3. /\ sess' \in [Sessions -> Session] /\ stage' \in [Sessions -> Stages]
        /\ runner' \in [Sessions -> Threads] /\ wdStarted' \in BOOLEAN
    BY <1>1, <1>2, HandleFacts DEF Entry, Base
  <1>4. /\ place' \in [Sessions -> Places]
        /\ place'[cont] = "out" /\ \A y \in Sessions \ {cont} : place'[y] = place[y]
    BY <1>1, <1>2 DEF Base, Types
  <1>5. Types'
    BY <1>3, <1>4 DEF Base, Types, queueVars, stopVars, Labels
  <1>6. \A y \in Sessions : SessionOK(y)'
    BY <1>1, <1>2, ServeOK
  <1>7. HandsOK'
    BY <1>1, <1>4, EngineOptions DEF HandsOK, Holding
  <1>8. QueueOK'
    <2>1. ready' = ready
      BY DEF queueVars
    <2>2. \A i \in 1 .. Len(ready) : ready[i] \in Sessions
      BY DEF Base, Types
    <2> QED
      BY <1>1, <1>4, <2>1, <2>2 DEF Base, QueueOK
  <1>9. (\A y \in Sessions : Same(y)) /\ Bounded
    BY <1>1, <1>2, ServeSame
  <1> QED
    BY <1>5, <1>6, <1>7, <1>8, <1>9 DEF Base, Even, slotVars, totalVars, Slotted

\* A session in the run thread's hands, to be issued or closed.
LEMMA HeldFacts ==
    ASSUME Base, NEW x \in Sessions, InHands(x)
    PROVE  /\ Sound(sess[x]) /\ Sized(sess[x], Sizes) /\ Sizes \in SUBSET Nat
           /\ Busy(sess[x]) = 0 /\ (sess[x].closeReq => sess[x].timedOut)
           /\ sess[x] \in Session /\ sess[x].held \in Int
  <1>1. ~Unstarted(x)
    BY DEF Unstarted, InHands
  <1> QED
    BY <1>1, EngineOptions DEF Base, SessionOK, Handed, Types, Session

\* CloseNow of such a session is a fair entry.
LEMMA CloseNowEntry ==
    ASSUME Base, NEW x \in Sessions, InHands(x), NEW acc \in BOOLEAN
    PROVE  Entry(x, sess[x].held, CloseNow(sess[x], acc))
  <1> DEFINE new == CloseNow(sess[x], acc)
  <1>1. /\ Sound(sess[x]) /\ Sized(sess[x], Sizes) /\ Sizes \in SUBSET Nat
        /\ Busy(sess[x]) = 0 /\ sess[x] \in Session /\ sess[x].held \in Int
    BY HeldFacts
  <1>2. Sound(new)
    BY <1>1, CloseNowSound
  <1>3. Advance(sess[x], new) /\ Sized(new, Sizes) /\ new.pend["read"] <= sess[x].pend["read"]
    BY ONLY <1>1, acc \in BOOLEAN, CloseNowAdvance, ZenonT(60) DEF new
  <1> HIDE DEF new
  <1>4. Entry(x, sess[x].held, new)
    BY <1>1, <1>2, <1>3 DEF Entry, Advance
  <1> QED
    BY <1>4 DEF new

\* Price.
LEMMA PriceOK ==
    ASSUME Base, NEW acc \in BOOLEAN, Price(acc)
    PROVE  Base' /\ Bounded /\ Even
  <1>1. pc = "popped" /\ cont \in Sessions /\ InHands(cont)
    BY DEF Base, Types, HandsOK, Holding, Price, At, InHands
  <1>2. UNCHANGED <<queueVars, slotVars, totalVars, stopVars, caught, wdStop>>
    BY DEF Price
  <1>3. CASE NextOpBytes(sess[cont]) > 0
    <2>1. /\ quote' = NextOpBytes(sess[cont]) /\ pc' = "pay"
          /\ UNCHANGED <<sess, place, stage, runner, ready, cont, caught>>
          /\ UNCHANGED <<tokens, nudges, slotVars, okCount, failCount>>
          /\ UNCHANGED <<timeUp, stopPace, drainTimedOut, wdStarted, wdStop>>
      BY <1>3 DEF Price, Goto, sessionVars, queueVars, totalVars, stopVars
    <2>2. quote' \in Nat
      BY <1>1, <2>1, SessionOptions DEF NextOpBytes, Least, Base, Types, Session
    <2>3. /\ nudges' \in [Sessions -> Nat] /\ pc' \in Labels
          /\ pc' \in Holding <=> pc \in Holding
          /\ pc' = "start" <=> pc = "start"
          /\ pc' \in Slotted <=> pc \in Slotted
          /\ {timeUp', stopPace', drainTimedOut', wdStarted', wdStop'} \subseteq BOOLEAN
      BY <1>1, <2>1 DEF Base, Types, Holding, Slotted, Labels
    <2>4. Base' /\ \A x \in Sessions : Same(x)
      BY <2>1, <2>2, <2>3, FrozenOK
    <2> QED
      BY <2>1, <2>3, <2>4 DEF Bounded, Even
  <1>4. CASE ~(NextOpBytes(sess[cont]) > 0)
    <2>1. /\ Handle("engine", cont, sess[cont].held, CloseNow(sess[cont], acc))
          /\ place' = [place EXCEPT ![cont] = "out"] /\ cont' = NoSession /\ pc' = "top"
          /\ UNCHANGED <<queueVars, slotVars, totalVars, quote, stopVars, caught, wdStop>>
      BY <1>4 DEF Price, Goto
    <2>2. Entry(cont, sess[cont].held, CloseNow(sess[cont], acc))
      BY <1>1, CloseNowEntry
    <2> QED
      BY <1>1, <2>1, <2>2, LetGoOK
  <1> QED
    BY <1>3, <1>4

\* Issue.
LEMMA IssueOK ==
    ASSUME Base, NEW acc \in BOOLEAN, Issue(acc)
    PROVE  Base' /\ Bounded /\ Even
  <1> DEFINE new == IssueNext(sess[cont], acc)
  <1>1. pc = "issue" /\ cont \in Sessions /\ InHands(cont)
    BY DEF Base, Types, HandsOK, Holding, Issue, At, InHands
  <1>2. /\ Handle("engine", cont, sess[cont].held, new)
        /\ place' = [place EXCEPT ![cont] = "out"] /\ cont' = NoSession /\ pc' = "top"
        /\ UNCHANGED <<queueVars, slotVars, totalVars, quote, stopVars, caught, wdStop>>
    BY DEF Issue, Goto
  <1>3. /\ Sound(sess[cont]) /\ Sized(sess[cont], Sizes) /\ Sizes \in SUBSET Nat
        /\ Busy(sess[cont]) = 0 /\ (sess[cont].closeReq => sess[cont].timedOut)
        /\ sess[cont] \in Session /\ sess[cont].held \in Int
    BY <1>1, HeldFacts
  <1>4. Sound(new)
    BY <1>3, IssueNextSound
  <1>5. Advance(sess[cont], new) /\ Sized(new, Sizes)
    BY ONLY <1>3, acc \in BOOLEAN, IssueNextAdvance, ZenonT(60) DEF new
  <1> HIDE DEF new
  <1>6. Entry(cont, sess[cont].held, new)
    BY <1>1, <1>3, <1>4, <1>5 DEF Entry, Advance
  <1> QED
    BY <1>1, <1>2, <1>6, LetGoOK

\* Start of a session the run thread has charged for one op.
LEMMA StartSessionOK ==
    ASSUME Base, NEW acc \in BOOLEAN, StartSession(acc)
    PROVE  Base' /\ Bounded /\ Even
  <1> DEFINE new == Start(Blank, OpBytes, acc)
  <1>1. pc = "start" /\ cont \in Sessions /\ sess[cont] = Blank
    BY DEF Base, Types, HandsOK, Holding, StartSession, At, SessionOK, Unstarted
  <1>2. /\ Handle("engine", cont, OpBytes, new)
        /\ place' = [place EXCEPT ![cont] = "out"] /\ cont' = NoSession /\ pc' = "top"
        /\ UNCHANGED <<queueVars, slotVars, totalVars, quote, stopVars, caught, wdStop>>
    BY <1>1 DEF StartSession, Goto
  <1>3. Sizes \in SUBSET Nat /\ OpBytes \in Nat
    BY EngineOptions, SessionOptions
  <1>4. Sound(new)
    BY <1>3, StartSound
  <1>5. new.held <= OpBytes /\ Sized(new, Sizes)
    BY ONLY <1>3, acc \in BOOLEAN, StartAdvance, ZenonT(60) DEF new
  <1> HIDE DEF new
  <1>6. Blank.issuedRead = FALSE
    BY DEF Blank
  <1>7. Entry(cont, OpBytes, new)
    BY <1>1, <1>3, <1>4, <1>5, <1>6 DEF Entry
  <1> QED
    BY <1>1, <1>2, <1>7, LetGoOK

\* The run thread closes the sessions still queued when the load stops.
LEMMA FlushOK ==
    ASSUME Base, NEW acc \in BOOLEAN, Flush(acc)
    PROVE  Base' /\ Bounded /\ Even
  <1> DEFINE x   == Head(ready)
             new == CloseNow(sess[x], acc)
  <1>1. /\ pc = "flush" /\ ready # <<>> /\ ready' = Tail(ready)
        /\ Handle("engine", x, sess[x].held, new)
        /\ place' = [place EXCEPT ![x] = "out"]
        /\ UNCHANGED <<nudges, slotVars, totalVars, threadVars, stopVars, caught, wdStop>>
    BY DEF Flush, At
  <1>2. ready \in Seq(Sessions) /\ ready # <<>>
    BY <1>1 DEF Base, Types
  <1>3. /\ x \in Sessions /\ x = ready[1] /\ ready' \in Seq(Sessions)
        /\ Len(ready') = Len(ready) - 1 /\ Len(ready) \in Nat \ {0}
        /\ \A i \in 1 .. Len(ready') : ready'[i] = ready[i + 1] /\ i + 1 \in 1 .. Len(ready)
    BY <1>1, <1>2
  <1>4. /\ place[x] = "queued" /\ \A i \in 2 .. Len(ready) : ready[i] # x
    BY <1>3 DEF Base, QueueOK
  <1> HIDE DEF x
  <1>5. InHands(x) /\ "out" \in Places \ {"new"} /\ "engine" \in Threads
    BY <1>4 DEF InHands, Places, Threads
  <1>6. Entry(x, sess[x].held, new)
    BY <1>3, <1>5, CloseNowEntry
  <1> HIDE DEF new
  <1>7. UNCHANGED <<pc, cont, quote, timeUp, stopPace, drainTimedOut, okCount, failCount>>
    BY <1>1 DEF threadVars, stopVars, totalVars
  <1>8. /\ sess' \in [Sessions -> Session] /\ stage' \in [Sessions -> Stages]
        /\ runner' \in [Sessions -> Threads] /\ wdStarted' \in BOOLEAN
    BY <1>1, <1>3, <1>5, <1>6, HandleFacts DEF Entry, Base
  <1>9. /\ place' \in [Sessions -> Places]
        /\ place'[x] = "out" /\ \A y \in Sessions \ {x} : place'[y] = place[y]
    BY <1>1, <1>3, <1>5 DEF Base, Types
  <1>10. Types'
    BY <1>1, <1>3, <1>7, <1>8, <1>9 DEF Base, Types
  <1>11. \A y \in Sessions : SessionOK(y)'
    <2>1. caught' \subseteq caught
      BY <1>1
    <2> QED
      BY <1>1, <1>3, <1>5, <1>6, <1>7, <2>1, ServeOK
  <1>12. HandsOK'
    BY <1>4, <1>7, <1>9 DEF Base, HandsOK
  <1>13. QueueOK'
    <2>1. \A i \in 1 .. Len(ready) : ready[i] \in Sessions
      BY <1>2
    <2>2. \A i \in 1 .. Len(ready') : place'[ready'[i]] = "queued"
      BY <1>3, <1>4, <1>9, <2>1 DEF Base, QueueOK
    <2>3. ASSUME NEW i \in 1 .. Len(ready'), NEW j \in 1 .. Len(ready'), ready'[i] = ready'[j]
          PROVE  i = j
      <3>1. ready[i + 1] = ready[j + 1] /\ i + 1 \in 1 .. Len(ready) /\ j + 1 \in 1 .. Len(ready)
        BY <1>3, <2>3
      <3>2. i + 1 = j + 1
        BY <3>1 DEF Base, QueueOK
      <3> QED
        BY <3>2
    <2> QED
      BY <2>2, <2>3 DEF QueueOK
  <1>14. (\A y \in Sessions : Same(y)) /\ Bounded
    <2>1. place[x] # "new"
      BY <1>4
    <2> QED
      BY <1>1, <1>3, <1>5, <1>6, <2>1, ServeSame
  <1> QED
    BY <1>1, <1>7, <1>10, <1>11, <1>12, <1>13, <1>14 DEF Base, Even, slotVars

\* Launch takes the scheduler's next session.
LEMMA LaunchOK ==
    ASSUME Base, NEW x \in Sessions, Launch(x)
    PROVE  Base' /\ Bounded
  <1>1. /\ pc = "launch" /\ pc' = "start" /\ cont' = x /\ place[x] = "new"
        /\ place' = [place EXCEPT ![x] = "held"]
        /\ UNCHANGED <<sess, stage, runner, ready, nudges, tokens, quote, caught>>
        /\ UNCHANGED <<timeUp, stopPace, drainTimedOut, wdStarted, wdStop>>
    BY DEF Launch, At, Goto, Fresh, queueVars, stopVars, watchdogVars
  <1>2. /\ place' \in [Sessions -> Places]
        /\ place'[x] = "held" /\ \A y \in Sessions \ {x} : place'[y] = place[y]
    BY <1>1 DEF Base, Types, Places
  <1>3. cont = NoSession /\ \A y \in Sessions : place[y] # "held"
    BY <1>1, EngineOptions DEF Base, HandsOK, Holding
  <1>4. Types'
    BY <1>1, <1>2 DEF Base, Types, Labels
  <1>5. ASSUME NEW y \in Sessions PROVE SessionOK(y)'
    <2>1. (Unstarted(y)' <=> Unstarted(y)) /\ (InHands(y)' <=> InHands(y))
      BY <1>1, <1>2, <1>3 DEF Unstarted, InHands
    <2>2. SessionOK(y)
      BY DEF Base
    <2> QED
      BY <1>1, <2>1, <2>2 DEF SessionOK
  <1>6. HandsOK'
    BY <1>1, <1>2, <1>3, EngineOptions DEF HandsOK, Holding
  <1>7. QueueOK'
    <2>1. \A i \in 1 .. Len(ready) : ready[i] \in Sessions
      BY DEF Base, Types
    <2> QED
      BY <1>1, <1>2, <2>1 DEF Base, QueueOK
  <1> QED
    BY <1>1, <1>4, <1>5, <1>6, <1>7 DEF Base, Bounded

-----------------------------------------------------------------------------
(* The first layer. *)

\* Nothing is launched when the engine starts.
LEMMA InitBase == Init => Base
  <1> SUFFICES ASSUME Init PROVE Base
    OBVIOUS
  <1>1. /\ Blank \in Session /\ Blank.budgetSet = FALSE /\ Blank.bytes = 0
        /\ Blank.remaining = 0 /\ Blank.issuedRead = FALSE
    BY DEF Blank, Session, Outcomes
  <1>2. Sized(Blank, Sizes)
    BY <1>1 DEF Sized
  <1>3. Types
    <2>1. ready \in Seq(Sessions)
      BY DEF Init
    <2> QED
      BY <1>1, <2>1 DEF Init, Types, Places, Stages, Threads, Labels
  <1>4. \A x \in Sessions : SessionOK(x)
    BY <1>2 DEF Init, SessionOK, Unstarted, InHands
  <1>5. HandsOK /\ QueueOK
    BY EngineOptions DEF Init, HandsOK, QueueOK, Holding
  <1> QED
    BY <1>3, <1>4, <1>5 DEF Base

\* Each step keeps Base, and is even unless it is one that moves a count.
LEMMA EngineStep ==
    ASSUME Base, [Next]_vars
    PROVE  /\ Base' /\ Bounded
           /\ \/ Even \/ Admit \/ Charge
              \/ \E x \in Sessions : Launch(x) \/ Observe(x) \/ LeaveLive(x) \/ ReleaseSlot(x)
  <1>1. Statuses \subseteq BOOLEAN /\ Accepts \subseteq BOOLEAN
    BY EngineOptions
  <1>2. CASE UNCHANGED vars
    <2>1. /\ UNCHANGED <<sess, place, stage, runner, ready, cont, caught, nudges, pc, quote>>
          /\ UNCHANGED <<slotVars, okCount, failCount, tokens>>
          /\ UNCHANGED <<timeUp, stopPace, drainTimedOut, wdStarted, wdStop>>
      BY <1>2 DEF vars, sessionVars, queueVars, totalVars, threadVars, stopVars, watchdogVars
    <2>2. /\ nudges' \in [Sessions -> Nat] /\ pc' \in Labels /\ quote' \in Nat
          /\ {timeUp', stopPace', drainTimedOut', wdStarted', wdStop'} \subseteq BOOLEAN
      BY <2>1 DEF Base, Types
    <2>3. UNCHANGED <<sess, place, stage, runner, ready, cont, caught>>
      BY <2>1
    <2>4. (pc' \in Holding <=> pc \in Holding) /\ (pc' = "start" <=> pc = "start")
      BY <2>1
    <2>5. Base' /\ \A x \in Sessions : Same(x)
      BY <2>2, <2>3, <2>4, FrozenOK
    <2> QED
      BY <2>1, <2>5 DEF Bounded, Even
  <1>3. ASSUME NEW x \in Sessions, XrdClAnswers(x) PROVE Base' /\ Bounded /\ Even
    <2>1. ASSUME NEW ok \in Statuses, NEW acc \in Accepts, OpenDone(x, ok, acc)
          PROVE  Base' /\ Bounded /\ Even
      BY <1>1, <2>1, OpenDoneOK
    <2>2. ASSUME NEW ok \in Statuses, NEW acc \in Accepts, NEW size \in Sizes,
                 StatDone(x, ok, size, acc)
          PROVE  Base' /\ Bounded /\ Even
      BY <1>1, <2>2, StatDoneOK
    <2>3. ASSUME NEW ok \in Statuses, NEW acc \in Accepts, NEW got \in 0 .. OpBytes,
                 ReadDone(x, ok, got, acc)
          PROVE  Base' /\ Bounded /\ Even
      BY <1>1, <2>3, ReadDoneOK
    <2>4. ASSUME NEW ok \in Statuses, CloseDone(x, ok) PROVE Base' /\ Bounded /\ Even
      BY <1>1, <2>4, CloseDoneOK
    <2> QED
      BY <1>3, <2>1, <2>2, <2>3, <2>4 DEF XrdClAnswers
  <1>4. ASSUME NEW x \in Sessions, OnReady(x) PROVE Base' /\ Bounded /\ Even
    <2>1. ASSUME NEW acc \in Accepts, CloseOnEntry(x, acc) PROVE Base' /\ Bounded /\ Even
      BY <1>1, <2>1, CloseOnEntryOK
    <2> QED
      BY <1>4, <2>1, OnReadyOK, ClockOK DEF OnReady
  <1>5. ASSUME NEW x \in Sessions, SessionDone(x)
        PROVE  Base' /\ Bounded /\ (Even \/ Observe(x) \/ LeaveLive(x) \/ ReleaseSlot(x))
    BY <1>5, SessionDoneOK, DoneReturnsOK DEF SessionDone
  <1>6. ASSUME NEW x \in Sessions, NEW acc \in Accepts, Fire(x, acc)
        PROVE  Base' /\ Bounded /\ Even
    BY <1>1, <1>6, FireOK
  <1>7. ASSUME Collect \/ Refill \/ RunDeadline \/ ShutDown
        PROVE  Base' /\ Bounded /\ Even
    BY <1>7, DeadlinesOK, ClockOK
  <1>8. ASSUME NEW x \in Sessions, DeadlinePasses(x) PROVE Base' /\ Bounded /\ Even
    BY <1>8, DeadlinesOK
  <1>9. ASSUME NEW acc \in Accepts, Price(acc) \/ Issue(acc) \/ StartSession(acc) \/ Flush(acc)
        PROVE  Base' /\ Bounded /\ Even
    BY <1>1, <1>9, PriceOK, IssueOK, StartSessionOK, FlushOK
  <1>10. ASSUME LoopStep
         PROVE  /\ Base' /\ Bounded
                /\ Even \/ Admit \/ Charge \/ \E x \in Sessions : Launch(x)
    BY <1>9, <1>10, WaitOK, GotoOK, PutDownOK, PayOK, AdmitOK, LaunchOK DEF LoopStep
  <1>11. ASSUME EndStep \/ DrainTimeout PROVE Base' /\ Bounded /\ Even
    BY <1>7, <1>9, <1>11, GotoOK DEF EndStep
  <1> QED
    BY <1>2, <1>3, <1>4, <1>5, <1>6, <1>7, <1>8, <1>10, <1>11 DEF Next

-----------------------------------------------------------------------------
(* The counts: live, the semaphore, and the registry's totals. *)

Leaving == {x \in Sessions : stage[x] = "release"}
Passed  == {x \in Launched : /\ sess[x].completed /\ stage[x] # "observe"
                             /\ sess[x].result = "ok"}
Failed  == {x \in Launched : /\ sess[x].completed /\ stage[x] # "observe"
                             /\ sess[x].result # "ok"}

Totals ==
    /\ okCount = Cardinality(Passed) /\ failCount = Cardinality(Failed)
    /\ report \in [ok : Nat, fail : Nat]

Slots == tokens \in 0 .. Capacity /\ SlotAccounting

Tallies == Slots /\ Totals

\* There are finitely many sessions, so each set of them has a cardinality.
LEMMA Finite ==
    /\ IsFiniteSet(Counted) /\ IsFiniteSet(Leaving)
    /\ IsFiniteSet(Passed) /\ IsFiniteSet(Failed)
    /\ Cardinality(Counted) \in Nat /\ Cardinality(Leaving) \in Nat
    /\ Cardinality(Passed) \in Nat /\ Cardinality(Failed) \in Nat
  <1>1. IsFiniteSet(Sessions)
    BY EngineOptions
  <1>2. /\ Counted \in SUBSET Sessions /\ Leaving \in SUBSET Sessions
        /\ Passed \in SUBSET Sessions /\ Failed \in SUBSET Sessions
    BY DEF Counted, Leaving, Passed, Failed, Launched
  <1> QED
    BY <1>1, <1>2, FS_Subset, FS_CardinalityType

\* An even step keeps the four sets; a session that ends goes from the live
\* ones that run to the live ones that session_done counts.
LEMMA EvenSets ==
    ASSUME Base, Even
    PROVE  /\ Counted' = Counted /\ Leaving' = Leaving
           /\ Passed' = Passed /\ Failed' = Failed
  <1>1. ASSUME NEW x \in Sessions
        PROVE  /\ x \in Counted' <=> x \in Counted
               /\ x \in Leaving' <=> x \in Leaving
               /\ x \in Passed' <=> x \in Passed
               /\ x \in Failed' <=> x \in Failed
    <2>1. (place'[x] = "new" <=> place[x] = "new") /\ (Settled(x) \/ Ending(x))
      BY DEF Even, Same
    <2>2. CASE Settled(x)
      <3>1. /\ sess'[x].completed = sess[x].completed /\ sess'[x].result = sess[x].result
            /\ stage'[x] \in {"observe", "leave"} <=> stage[x] \in {"observe", "leave"}
            /\ stage'[x] = "release" <=> stage[x] = "release"
            /\ stage'[x] # "observe" <=> stage[x] # "observe"
        BY <2>2 DEF Settled
      <3> QED
        BY <2>1, <3>1 DEF Counted, Leaving, Passed, Failed, Launched
    <2>3. CASE Ending(x)
      BY <2>1, <2>3 DEF Ending, Counted, Leaving, Passed, Failed, Launched
    <2> QED
      BY <2>1, <2>2, <2>3
  <1>2. /\ Counted \subseteq Sessions /\ Counted' \subseteq Sessions
        /\ Leaving \subseteq Sessions /\ Leaving' \subseteq Sessions
        /\ Passed \subseteq Sessions /\ Passed' \subseteq Sessions
        /\ Failed \subseteq Sessions /\ Failed' \subseteq Sessions
    BY DEF Counted, Leaving, Passed, Failed, Launched
  <1> QED
    BY <1>1, <1>2

\* At most the run thread's own slot comes on top of the sessions'.
LEMMA SlotsFacts ==
    ASSUME SlotAccounting
    PROVE  /\ live = Cardinality(Counted) /\ live \in Nat
           /\ sem = live + Cardinality(Leaving) + (IF pc \in Slotted THEN 1 ELSE 0)
           /\ sem \in Nat /\ sem <= MaxInflight
           /\ Cardinality(Leaving) \in Nat
  BY Finite, EngineOptions DEF SlotAccounting, Leaving, Slotted

\* No session counts to begin with.
LEMMA InitCounts == Init => Tallies
  <1> SUFFICES ASSUME Init PROVE Tallies
    OBVIOUS
  <1>1. Counted = {} /\ Leaving = {} /\ Passed = {} /\ Failed = {}
    BY DEF Init, Counted, Leaving, Passed, Failed, Launched
  <1>2. Cardinality({}) = 0
    BY FS_EmptySet
  <1>3. Capacity \in Nat /\ MaxInflight \in Nat
    BY SessionOptions, EngineOptions DEF Capacity
  <1>4. SlotAccounting
    <2>1. Cardinality({x \in Sessions : stage[x] = "release"}) = 0
      BY <1>1, <1>2 DEF Leaving
    <2> QED
      BY <1>1, <1>2, <1>3, <2>1 DEF Init, SlotAccounting
  <1>5. tokens \in 0 .. Capacity
    BY <1>3 DEF Init
  <1> QED
    BY <1>1, <1>2, <1>4, <1>5 DEF Init, Tallies, Slots, Totals

\* Only the final snapshot writes the report.
LEMMA ReportStep ==
    ASSUME [Next]_vars
    PROVE  report' = report \/ report' = [ok |-> okCount, fail |-> failCount]
  <1>1. CASE UNCHANGED vars
    BY <1>1 DEF vars, totalVars
  <1>2. ASSUME NEW x \in Sessions,
               XrdClAnswers(x) \/ OnReady(x) \/ SessionDone(x) \/ DeadlinePasses(x)
        PROVE  report' = report
    BY <1>2 DEF XrdClAnswers, OpenDone, StatDone, ReadDone, CloseDone, OnReady, CheckStop,
       CloseOnEntry, Push, Nudge, SessionDone, Observe, LeaveLive, ReleaseSlot, DoneReturns,
       DeadlinePasses, totalVars
  <1>3. ASSUME NEW x \in Sessions, NEW acc \in Accepts, Fire(x, acc) PROVE report' = report
    BY <1>3 DEF Fire, totalVars
  <1>4. CASE Collect \/ Refill \/ RunDeadline
    BY <1>4 DEF Collect, Refill, RunDeadline, totalVars
  <1>5. CASE LoopStep
    BY <1>5 DEF LoopStep, Top, Block, Wake, SleepEnds, Skip, Pay, Requeue, TokenWaitEnds,
       Admit, Charge, Launch, Price, Issue, StartSession, pickUnchanged, totalVars
  <1>6. CASE EndStep \/ DrainTimeout
    BY <1>6 DEF EndStep, Stop, Flushed, Drained, FinalSnapshot, ShutDown, Join, Flush,
       DrainTimeout, totalVars
  <1> QED
    BY <1>1, <1>2, <1>3, <1>4, <1>5, <1>6 DEF Next

\* Launch: x joins the live ones, and takes over the run thread's slot.
LEMMA LaunchTallies ==
    ASSUME Base, SlotAccounting, Totals, NEW x \in Sessions, Launch(x)
    PROVE  /\ SlotAccounting' /\ Passed' = Passed /\ Failed' = Failed
           /\ UNCHANGED <<okCount, failCount>>
  <1>1. /\ pc = "launch" /\ pc' = "start" /\ place[x] = "new"
        /\ place' = [place EXCEPT ![x] = "held"] /\ live' = live + 1
        /\ UNCHANGED <<sess, stage, sem, okCount, failCount>>
    BY DEF Launch, At, Goto, Fresh, totalVars
  <1>2. place'[x] = "held" /\ \A y \in Sessions \ {x} : place'[y] = place[y]
    BY <1>1 DEF Base, Types
  <1>3. ~sess[x].completed
    <2>1. sess[x] = Blank /\ Blank.completed = FALSE
      BY <1>1 DEF Base, SessionOK, Unstarted, Blank
    <2> QED
      BY <2>1
  <1>4. Counted' = Counted \cup {x} /\ x \notin Counted
    BY <1>1, <1>2, <1>3 DEF Counted, Launched
  <1>5. Leaving' = Leaving /\ Passed' = Passed /\ Failed' = Failed
    BY <1>1, <1>2, <1>3 DEF Leaving, Passed, Failed, Launched
  <1>6. Cardinality(Counted') = Cardinality(Counted) + 1
    BY <1>4, Finite, FS_AddElement
  <1>7. /\ live = Cardinality(Counted) /\ live \in Nat
        /\ sem = live + Cardinality(Leaving) + 1
        /\ sem \in Nat /\ sem <= MaxInflight /\ Cardinality(Leaving) \in Nat
    BY <1>1, SlotsFacts DEF Slotted
  <1>8. /\ live' = Cardinality(Counted') /\ sem' = live' + Cardinality(Leaving') + 0
        /\ sem' <= MaxInflight
    BY <1>1, <1>5, <1>6, <1>7
  <1> QED
    BY <1>1, <1>5, <1>8 DEF SlotAccounting, Leaving

\* Observe counts x once, under the outcome it reported.
LEMMA ObserveTallies ==
    ASSUME Base, SlotAccounting, Totals, NEW x \in Sessions, Observe(x)
    PROVE  /\ SlotAccounting'
           /\ okCount' = Cardinality(Passed') /\ failCount' = Cardinality(Failed')
  <1>1. /\ stage[x] = "observe" /\ stage' = [stage EXCEPT ![x] = "leave"]
        /\ UNCHANGED <<sess, place, live, sem, pc>>
        /\ \/ sess[x].result = "ok" /\ okCount' = okCount + 1 /\ failCount' = failCount
           \/ sess[x].result # "ok" /\ failCount' = failCount + 1 /\ okCount' = okCount
    BY DEF Observe, slotVars, threadVars
  <1>2. stage'[x] = "leave" /\ \A y \in Sessions \ {x} : stage'[y] = stage[y]
    BY <1>1 DEF Base, Types, Stages
  <1>3. x \in Launched /\ sess[x].completed
    BY <1>1 DEF Base, SessionOK, Unstarted, Launched
  <1>4. Counted' = Counted /\ Leaving' = Leaving
    BY <1>1, <1>2 DEF Counted, Leaving, Launched
  <1>5. SlotAccounting'
    BY <1>1, <1>4 DEF SlotAccounting, Leaving
  <1>6. CASE sess[x].result = "ok"
    <2>1. Passed' = Passed \cup {x} /\ x \notin Passed /\ Failed' = Failed
      BY <1>1, <1>2, <1>3, <1>6 DEF Passed, Failed, Launched
    <2>2. Cardinality(Passed') = Cardinality(Passed) + 1
      BY <2>1, Finite, FS_AddElement
    <2> QED
      BY <1>1, <1>5, <1>6, <2>1, <2>2 DEF Totals
  <1>7. CASE sess[x].result # "ok"
    <2>1. Failed' = Failed \cup {x} /\ x \notin Failed /\ Passed' = Passed
      BY <1>1, <1>2, <1>3, <1>7 DEF Passed, Failed, Launched
    <2>2. Cardinality(Failed') = Cardinality(Failed) + 1
      BY <2>1, Finite, FS_AddElement
    <2> QED
      BY <1>1, <1>5, <1>7, <2>1, <2>2 DEF Totals
  <1> QED
    BY <1>6, <1>7

\* x is no longer live, but keeps its slot until it is released.
LEMMA LeaveTallies ==
    ASSUME Base, SlotAccounting, NEW x \in Sessions, LeaveLive(x) \/ ReleaseSlot(x)
    PROVE  /\ SlotAccounting' /\ Passed' = Passed /\ Failed' = Failed
           /\ UNCHANGED <<okCount, failCount>>
  <1>1. /\ UNCHANGED <<sess, place, pc, okCount, failCount>>
        /\ \/ stage[x] = "leave" /\ stage' = [stage EXCEPT ![x] = "release"]
              /\ live' = live - 1 /\ sem' = sem
           \/ stage[x] = "release" /\ stage' = [stage EXCEPT ![x] = "notify"]
              /\ live' = live /\ sem' = IF sem > 0 THEN sem - 1 ELSE 0
    BY DEF LeaveLive, ReleaseSlot, totalVars, threadVars
  <1>2. /\ stage'[x] = IF stage[x] = "leave" THEN "release" ELSE "notify"
        /\ \A y \in Sessions \ {x} : stage'[y] = stage[y]
    BY <1>1 DEF Base, Types, Stages
  <1>3. x \in Launched /\ sess[x].completed
    BY <1>1 DEF Base, SessionOK, Unstarted, Launched
  <1>4. Passed' = Passed /\ Failed' = Failed
    BY <1>1, <1>2 DEF Passed, Failed, Launched
  <1>5. /\ live = Cardinality(Counted) /\ live \in Nat
        /\ sem = live + Cardinality(Leaving) + (IF pc \in Slotted THEN 1 ELSE 0)
        /\ sem \in Nat /\ sem <= MaxInflight /\ Cardinality(Leaving) \in Nat
    BY SlotsFacts
  <1>6. CASE stage[x] = "leave"
    <2>1. Counted' = Counted \ {x} /\ x \in Counted
      BY <1>1, <1>2, <1>3, <1>6 DEF Counted, Launched
    <2>2. Leaving' = Leaving \cup {x} /\ x \notin Leaving
      BY <1>2, <1>6 DEF Leaving
    <2>3. /\ Cardinality(Counted') = Cardinality(Counted) - 1
          /\ Cardinality(Leaving') = Cardinality(Leaving) + 1
      BY <2>1, <2>2, Finite, FS_AddElement, FS_RemoveElement
    <2>4. /\ live' = Cardinality(Counted')
          /\ sem' = live' + Cardinality(Leaving') + (IF pc \in Slotted THEN 1 ELSE 0)
          /\ sem' <= MaxInflight
      BY <1>1, <1>5, <1>6, <2>3
    <2> QED
      BY <1>1, <1>4, <2>4 DEF SlotAccounting, Leaving, Slotted
  <1>7. CASE stage[x] = "release"
    <2>1. Counted' = Counted
      BY <1>1, <1>2, <1>3, <1>7 DEF Counted, Launched
    <2>2. Leaving' = Leaving \ {x} /\ x \in Leaving
      BY <1>2, <1>7 DEF Leaving
    <2>3. Cardinality(Leaving') = Cardinality(Leaving) - 1 /\ Cardinality(Leaving') \in Nat
      BY <2>2, Finite, FS_RemoveElement, FS_CardinalityType
    <2>4. /\ live' = Cardinality(Counted')
          /\ sem' = live' + Cardinality(Leaving') + (IF pc \in Slotted THEN 1 ELSE 0)
          /\ sem' <= MaxInflight
      <3> DEFINE own == IF pc \in Slotted THEN 1 ELSE 0
      <3>1. own \in Nat /\ sem = live + Cardinality(Leaving) + own
        BY <1>5
      <3> HIDE DEF own
      <3>2. Cardinality(Leaving) >= 1
        BY <1>5, <2>3
      <3>3. live' = live /\ sem' = sem - 1
        BY <1>1, <1>5, <1>7, <3>1, <3>2
      <3>4. sem' = live' + Cardinality(Leaving') + own /\ sem' <= MaxInflight
        BY <1>5, <2>3, <3>1, <3>3, EngineOptions
      <3> QED
        BY <1>5, <2>1, <3>3, <3>4 DEF own
    <2> QED
      BY <1>1, <1>4, <2>4 DEF SlotAccounting, Leaving, Slotted
  <1> QED
    BY <1>1, <1>6, <1>7

\* A slot is taken for a launch, and given back if the charge fails.
LEMMA AdmitTallies ==
    ASSUME SlotAccounting, Admit \/ Charge
    PROVE  /\ SlotAccounting' /\ Passed' = Passed /\ Failed' = Failed
           /\ UNCHANGED <<okCount, failCount>>
  <1>1. /\ UNCHANGED <<sess, place, stage, live, okCount, failCount>>
        /\ \/ pc = "admit" /\ pc' = "charge" /\ sem' = sem + 1 /\ sem < MaxInflight
           \/ pc = "admit" /\ pc' = "top" /\ sem' = sem
           \/ pc = "charge" /\ pc' = "launch" /\ sem' = sem
           \/ pc = "charge" /\ pc' = "tokenWait" /\ sem' = sem - 1
    BY DEF Admit, Charge, At, Goto, sessionVars, totalVars
  <1>2. Counted' = Counted /\ Leaving' = Leaving /\ Passed' = Passed /\ Failed' = Failed
    BY <1>1 DEF Counted, Leaving, Passed, Failed, Launched
  <1>3. /\ live = Cardinality(Counted) /\ live \in Nat
        /\ sem = live + Cardinality(Leaving) + (IF pc \in Slotted THEN 1 ELSE 0)
        /\ sem \in Nat /\ sem <= MaxInflight /\ Cardinality(Leaving) \in Nat
        /\ MaxInflight \in Nat
    BY SlotsFacts, EngineOptions
  <1>4. /\ sem' = live' + Cardinality(Leaving') + (IF pc' \in Slotted THEN 1 ELSE 0)
        /\ sem' <= MaxInflight
    BY <1>1, <1>2, <1>3 DEF Slotted
  <1> QED
    BY <1>1, <1>2, <1>3, <1>4 DEF SlotAccounting, Leaving, Slotted

\* Every step keeps the counts.
LEMMA StepTallies == Base /\ Tallies /\ [Next]_vars => Tallies'
  <1> SUFFICES ASSUME Base, Tallies, [Next]_vars PROVE Tallies'
    OBVIOUS
  <1>1. SlotAccounting /\ Totals /\ tokens' \in 0 .. Capacity
    BY EngineStep DEF Tallies, Slots, Bounded
  <1>2. okCount \in Nat /\ failCount \in Nat /\ report' \in [ok : Nat, fail : Nat]
    BY <1>1, ReportStep, Finite DEF Totals
  <1>3. CASE Even
    <2>1. /\ Counted' = Counted /\ Leaving' = Leaving
          /\ Passed' = Passed /\ Failed' = Failed
      BY <1>3, EvenSets
    <2>2. /\ UNCHANGED <<live, sem, okCount, failCount>>
          /\ pc' \in {"charge", "launch"} <=> pc \in {"charge", "launch"}
      BY <1>3 DEF Even, slotVars, Slotted
    <2>3. SlotAccounting'
      BY <1>1, <2>1, <2>2 DEF SlotAccounting, Leaving
    <2> QED
      BY <1>1, <1>2, <2>1, <2>2, <2>3 DEF Tallies, Slots, Totals
  <1>4. ASSUME NEW x \in Sessions, Launch(x) PROVE Tallies'
    BY <1>1, <1>2, <1>4, LaunchTallies DEF Tallies, Slots, Totals
  <1>5. ASSUME NEW x \in Sessions, Observe(x) PROVE Tallies'
    BY <1>1, <1>2, <1>5, ObserveTallies DEF Tallies, Slots, Totals
  <1>6. ASSUME NEW x \in Sessions, LeaveLive(x) \/ ReleaseSlot(x) PROVE Tallies'
    BY <1>1, <1>2, <1>6, LeaveTallies DEF Tallies, Slots, Totals
  <1>7. CASE Admit \/ Charge
    BY <1>1, <1>2, <1>7, AdmitTallies DEF Tallies, Slots, Totals
  <1> QED
    BY <1>3, <1>4, <1>5, <1>6, <1>7, EngineStep

-----------------------------------------------------------------------------
(* The end of the run. *)

AfterStop == {"flush", "drain", "snapshot", "shutdown", "join", "exited"}

\* The drain is over, and was not cut off.
DrainedFully == pc \in {"snapshot", "shutdown", "join", "exited"} /\ ~drainTimedOut

\* After it no session is live: what XrdCl still answers is late.
Ended ==
    /\ stopPace <=> pc \in AfterStop
    /\ DrainedFully => Counted = {}
    /\ DrainedFully /\ pc \in {"join", "exited"} =>
          \A x \in Sessions : sess[x].deadline = "none"
    /\ FinalTally
    /\ WatchdogDown

\* The run thread stays on its side of the stop.
Level ==
    /\ UNCHANGED <<stopPace, drainTimedOut, report>>
    /\ pc' = pc \/ {pc, pc'} \cap AfterStop = {}

\* It goes from the stop to the exit by these steps only.
LEMMA Ladder ==
    ASSUME [Next]_vars
    PROVE  \/ Level
           \/ Stop \/ Flushed \/ Drained \/ DrainTimeout \/ FinalSnapshot \/ ShutDown \/ Join
  <1>1. CASE UNCHANGED vars
    BY <1>1 DEF Level, vars, totalVars, stopVars, threadVars
  <1>2. ASSUME UNCHANGED <<stopVars, report>>, pc' \in {pc, Notified} PROVE Level
    BY <1>2 DEF Level, Notified, AfterStop, stopVars
  <1>3. ASSUME NEW x \in Sessions, XrdClAnswers(x) PROVE Level
    <2>1. UNCHANGED <<stopVars, report>> /\ pc' \in {pc, Notified}
      BY <1>3 DEF XrdClAnswers, OpenDone, StatDone, ReadDone, CloseDone, HandleElsewhere, totalVars
    <2> QED
      BY <1>2, <2>1
  <1>4. ASSUME NEW x \in Sessions, OnReady(x) \/ DeadlinePasses(x) PROVE Level
    <2>1. UNCHANGED <<stopVars, report>> /\ pc' \in {pc, Notified}
      BY <1>4 DEF OnReady, CheckStop, CloseOnEntry, Push, Nudge, DeadlinePasses,
         HandleElsewhere, totalVars, threadVars
    <2> QED
      BY <1>2, <2>1
  <1>5. ASSUME NEW x \in Sessions, SessionDone(x) PROVE Level
    <2>1. UNCHANGED <<stopVars, report>> /\ pc' \in {pc, Notified}
      BY <1>5 DEF SessionDone, Observe, LeaveLive, ReleaseSlot, DoneReturns, totalVars, threadVars
    <2> QED
      BY <1>2, <2>1
  <1>6. ASSUME NEW x \in Sessions, NEW acc \in Accepts, Fire(x, acc) PROVE Level
    <2>1. UNCHANGED <<stopVars, report>> /\ pc' \in {pc, Notified}
      BY <1>6 DEF Fire, HandleElsewhere, totalVars
    <2> QED
      BY <1>2, <2>1
  <1>7. CASE Collect \/ Refill \/ RunDeadline
    BY <1>7 DEF Collect, Refill, RunDeadline, Level, totalVars, threadVars, stopVars
  <1>8. ASSUME LoopStep PROVE Level
    <2>1. UNCHANGED <<stopVars, report>>
      BY <1>8 DEF LoopStep, Top, Block, Wake, SleepEnds, Skip, Pay, Requeue, TokenWaitEnds,
         Admit, Charge, Launch, Price, Issue, StartSession, pickUnchanged, totalVars
    <2>2. {pc, pc'} \cap AfterStop = {}
      <3>1. CASE Top \/ Block \/ Wake \/ SleepEnds
        BY <3>1 DEF Top, Block, Wake, SleepEnds, PickWork, At, Goto, AfterStop
      <3>2. CASE Skip \/ Pay \/ Requeue \/ TokenWaitEnds \/ Admit \/ Charge
        BY <3>2 DEF Skip, Pay, Requeue, TokenWaitEnds, Admit, Charge, At, Goto, AfterStop
      <3>3. ASSUME NEW x \in Sessions, Launch(x) PROVE {pc, pc'} \cap AfterStop = {}
        BY <3>3 DEF Launch, At, Goto, AfterStop
      <3>4. ASSUME NEW acc \in Accepts, Price(acc) \/ Issue(acc) \/ StartSession(acc)
            PROVE  {pc, pc'} \cap AfterStop = {}
        BY <3>4 DEF Price, Issue, StartSession, At, Goto, AfterStop
      <3> QED
        BY <1>8, <3>1, <3>2, <3>3, <3>4 DEF LoopStep
    <2> QED
      BY <2>1, <2>2 DEF Level, stopVars
  <1>9. ASSUME NEW acc \in Accepts, Flush(acc) PROVE Level
    BY <1>9 DEF Flush, Level, totalVars, threadVars, stopVars
  <1> QED
    BY <1>1, <1>3, <1>4, <1>5, <1>6, <1>7, <1>8, <1>9 DEF Next, EndStep

\* With nobody live no step of the engine or of a late callback changes an
\* outcome, arms a deadline, or makes a session live.
LEMMA DrainedStep ==
    ASSUME Base, DrainedFully, Counted = {}, [Next]_vars
    PROVE  /\ Counted' = {} /\ Launched' = Launched
           /\ \A x \in Sessions : /\ sess'[x].result = sess[x].result
                                  /\ sess'[x].deadline \in {sess[x].deadline, "none"}
  <1>1. Base'
    BY EngineStep
  <1>2. \A x \in Sessions : place[x] # "new" =>
           sess[x].completed /\ stage[x] \notin {"observe", "leave"}
    BY DEF Counted, Launched
  <1>3. CASE Even
    <2>1. ASSUME NEW x \in Sessions
          PROVE  /\ place'[x] = "new" <=> place[x] = "new"
                 /\ sess'[x].result = sess[x].result
                 /\ sess'[x].deadline \in {sess[x].deadline, "none"}
      <3>1. (place'[x] = "new" <=> place[x] = "new") /\ (Settled(x) \/ Ending(x))
        BY <1>3 DEF Even, Same
      <3>2. CASE place[x] = "new"
        <4>1. sess[x] = Blank /\ sess'[x] = Blank
          BY <1>1, <3>1, <3>2 DEF Base, SessionOK, Unstarted
        <4> QED
          BY <3>1, <4>1
      <3>3. CASE place[x] # "new"
        BY <1>2, <3>1, <3>3 DEF Settled, Ending
      <3> QED
        BY <3>2, <3>3
    <2> QED
      BY <1>3, <2>1, EvenSets DEF Launched
  <1>4. ASSUME NEW x \in Sessions, Observe(x) \/ LeaveLive(x) PROVE FALSE
    <2>1. stage[x] \in {"observe", "leave"}
      BY <1>4 DEF Observe, LeaveLive
    <2>2. place[x] # "new"
      BY <2>1 DEF Base, SessionOK, Unstarted
    <2> QED
      BY <1>2, <2>1, <2>2
  <1>5. ASSUME NEW x \in Sessions, ReleaseSlot(x)
        PROVE  Counted' = {} /\ sess' = sess /\ place' = place
    <2>1. /\ UNCHANGED <<sess, place>> /\ stage' = [stage EXCEPT ![x] = "notify"]
      BY <1>5 DEF ReleaseSlot
    <2>2. \A y \in Sessions : stage'[y] = stage[y] \/ stage'[y] = "notify"
      BY <2>1 DEF Base, Types
    <2> QED
      BY <1>2, <2>1, <2>2 DEF Counted, Launched
  <1>6. ~Admit /\ ~Charge /\ \A x \in Sessions : ~Launch(x)
    BY DEF DrainedFully, Admit, Charge, Launch, At
  <1> QED
    BY <1>3, <1>4, <1>5, <1>6, EngineStep DEF Launched

\* At the snapshot the registry's totals are all there is to report.
LEMMA TotalsAtEnd ==
    ASSUME Base, Totals, Counted = {}
    PROVE  LET passed == {x \in Launched : sess[x].result = "ok"}
           IN  okCount = Cardinality(passed) /\ failCount = Cardinality(Launched \ passed)
  <1> DEFINE passed == {x \in Launched : sess[x].result = "ok"}
  <1>1. \A x \in Launched : sess[x].completed /\ stage[x] # "observe"
    BY DEF Counted
  <1>2. passed = Passed /\ Launched \ passed = Failed
    BY <1>1 DEF Passed, Failed
  <1> QED
    BY <1>2 DEF Totals

\* Nothing has ended to begin with.
LEMMA InitEnded == Init => Ended
  BY DEF Init, Ended, AfterStop, DrainedFully, FinalTally, WatchdogDown

\* What a step may do once the load, the drain or the watchdog has ended.
LEMMA StepEnded == Base /\ Tallies /\ Ended /\ [Next]_vars => Ended'
  <1> SUFFICES ASSUME Base, Tallies, Ended, [Next]_vars PROVE Ended'
    OBVIOUS
  <1>1. Base /\ Totals /\ SlotAccounting /\ Bounded
    BY EngineStep DEF Tallies, Slots
  <1>2. CASE Stop \/ Flushed
    <2>1. pc' \in {"flush", "drain"} /\ stopPace'
      BY <1>2 DEF Stop, Flushed, At, Goto, stopVars, Ended, AfterStop
    <2> QED
      BY <2>1 DEF Ended, AfterStop, DrainedFully, FinalTally, WatchdogDown
  <1>3. CASE DrainTimeout
    <2>1. pc' = "snapshot" /\ drainTimedOut' /\ stopPace'
      BY <1>3 DEF DrainTimeout, At, Goto, Ended, AfterStop
    <2> QED
      BY <2>1 DEF Ended, AfterStop, DrainedFully, FinalTally, WatchdogDown
  <1>4. CASE Drained
    <2>1. pc' = "snapshot" /\ stopPace' /\ UNCHANGED <<sess, place, stage>> /\ live = 0
      BY <1>4 DEF Drained, At, Goto, Ended, AfterStop, stopVars, sessionVars
    <2>2. Counted = {}
      BY <1>1, <2>1, Finite, FS_EmptySet DEF SlotAccounting
    <2>3. Counted' = {}
      BY <2>1, <2>2 DEF Counted, Launched
    <2> QED
      BY <2>1, <2>3 DEF Ended, AfterStop, DrainedFully, FinalTally, WatchdogDown
  <1>5. CASE FinalSnapshot
    <2>1. /\ pc = "snapshot" /\ pc' = "shutdown" /\ UNCHANGED <<sess, place, stage>>
          /\ UNCHANGED <<stopPace, drainTimedOut>>
          /\ report' = [ok |-> okCount, fail |-> failCount]
      BY <1>5 DEF FinalSnapshot, At, Goto, stopVars, sessionVars
    <2>2. ~drainTimedOut => Counted = {}
      BY <2>1 DEF Ended, DrainedFully
    <2>3. Counted' = Counted /\ Launched' = Launched
      BY <2>1 DEF Counted, Launched
    <2>4. FinalTally'
      <3>1. CASE drainTimedOut
        BY <2>1, <3>1 DEF FinalTally
      <3>2. CASE ~drainTimedOut
        <4> DEFINE passed == {x \in Launched : sess[x].result = "ok"}
        <4>1. okCount = Cardinality(passed) /\ failCount = Cardinality(Launched \ passed)
          BY <1>1, <2>2, <3>2, TotalsAtEnd
        <4>2. passed' = passed
          BY <2>1, <2>3
        <4> HIDE DEF passed
        <4>3. report' = [ok |-> Cardinality(passed'), fail |-> Cardinality(Launched' \ passed')]
          BY <2>1, <2>3, <4>1, <4>2
        <4> QED
          BY <4>3 DEF FinalTally, passed
      <3> QED
        BY <3>1, <3>2
    <2> QED
      BY <2>1, <2>2, <2>3, <2>4 DEF Ended, AfterStop, DrainedFully, WatchdogDown
  <1>6. ASSUME pc \in {"shutdown", "join", "exited"}, pc' \in {"shutdown", "join", "exited"},
               UNCHANGED <<report, drainTimedOut, stopPace>>,
               pc' \in {"join", "exited"} => pc \in {"join", "exited"} \/ ShutDown,
               pc' = "exited" => pc = "exited" \/ ~wdStarted'
        PROVE  Ended'
    <2>1. stopPace' <=> pc' \in AfterStop
      BY <1>6 DEF Ended, AfterStop
    <2>2. CASE drainTimedOut
      BY <1>6, <2>1, <2>2 DEF Ended, DrainedFully, FinalTally, WatchdogDown
    <2>3. CASE ~drainTimedOut
      <3>1. DrainedFully /\ Counted = {}
        BY <1>6, <2>3 DEF Ended, DrainedFully
      <3>2. /\ Counted' = {} /\ Launched' = Launched
            /\ \A x \in Sessions : /\ sess'[x].result = sess[x].result
                                   /\ sess'[x].deadline \in {sess[x].deadline, "none"}
        BY <1>1, <3>1, DrainedStep
      <3>3. ASSUME pc' \in {"join", "exited"}
            PROVE  \A x \in Sessions : sess'[x].deadline = "none"
        <4>1. CASE pc \in {"join", "exited"}
          BY <3>1, <3>2, <4>1 DEF Ended
        <4>2. CASE ShutDown
          <5>1. ASSUME NEW x \in Sessions PROVE sess'[x].deadline = "none"
            <6>1. sess[x] \in Session /\ sess'[x] = [sess[x] EXCEPT !.deadline = "none"]
              BY <4>2 DEF ShutDown, Base, Types
            <6> QED
              BY <6>1 DEF Session
          <5> QED
            BY <5>1
        <4> QED
          BY <1>6, <3>3, <4>1, <4>2
      <3>4. FinalTally'
        <4> DEFINE passed == {x \in Launched : sess[x].result = "ok"}
        <4>1. passed' = passed
          BY <3>2 DEF Launched
        <4>2. report = [ok |-> Cardinality(passed), fail |-> Cardinality(Launched \ passed)]
          BY <1>6, <2>3 DEF Ended, FinalTally
        <4> HIDE DEF passed
        <4>3. report' = [ok |-> Cardinality(passed'), fail |-> Cardinality(Launched' \ passed')]
          BY <1>6, <3>2, <4>1, <4>2
        <4> QED
          BY <4>3 DEF FinalTally, passed
      <3>5. WatchdogDown'
        <4>1. ASSUME pc' = "exited" PROVE ~wdStarted'
          <5>1. CASE ~wdStarted'
            BY <5>1
          <5>2. CASE pc = "exited"
            <6>1. ~wdStarted
              BY <2>3, <5>2 DEF Ended, WatchdogDown
            <6>2. \A x \in Sessions : sess'[x].deadline # "armed"
              BY <3>3, <4>1
            <6> QED
              BY <1>1, <6>1, <6>2 DEF Bounded
          <5> QED
            BY <1>6, <4>1, <5>1, <5>2
        <4> QED
          BY <4>1 DEF WatchdogDown
      <3> QED
        BY <2>1, <3>2, <3>3, <3>4, <3>5 DEF Ended
    <2> QED
      BY <2>2, <2>3
  <1>7. CASE ShutDown
    <2>1. /\ pc = "shutdown" /\ pc' = "join"
          /\ UNCHANGED <<report, drainTimedOut, stopPace>>
      BY <1>7 DEF ShutDown, At, Goto, totalVars, stopVars
    <2> QED
      BY <1>6, <1>7, <2>1
  <1>8. CASE Join
    <2>1. /\ pc = "join" /\ pc' = "exited" /\ wdStarted' = FALSE
          /\ UNCHANGED <<report, drainTimedOut, stopPace>>
      BY <1>8 DEF Join, At, Goto, totalVars, stopVars
    <2> QED
      BY <1>6, <2>1
  <1>9. CASE Level
    <2>1. UNCHANGED <<stopPace, drainTimedOut, report>>
      BY <1>9 DEF Level
    <2>2. CASE {pc, pc'} \cap AfterStop = {}
      BY <2>1, <2>2 DEF Ended, AfterStop, DrainedFully, FinalTally, WatchdogDown
    <2>3. CASE pc' = pc /\ pc \in {"shutdown", "join", "exited"}
      BY <1>6, <2>1, <2>3
    <2>4. CASE pc' = pc /\ pc \notin {"shutdown", "join", "exited"}
      <3>1. DrainedFully' => Counted' = {}
        <4>1. ASSUME DrainedFully' PROVE Counted' = {}
          <5>1. DrainedFully
            BY <2>1, <2>4, <4>1 DEF DrainedFully
          <5> QED
            BY <1>1, <5>1, DrainedStep DEF Ended
        <4> QED
          BY <4>1
      <3> QED
        BY <2>1, <2>4, <3>1 DEF Ended, FinalTally, WatchdogDown
    <2> QED
      BY <1>9, <2>2, <2>3, <2>4 DEF Level
  <1> QED
    BY <1>2, <1>3, <1>4, <1>5, <1>7, <1>8, <1>9, Ladder

-----------------------------------------------------------------------------
(* The theorems. *)

\* The inductive invariant.
Inv == Base /\ Tallies /\ Ended

\* It holds in every reachable state.
THEOREM Invariance == Spec => []Inv
  <1>1. Init => Inv
    BY InitBase, InitCounts, InitEnded DEF Inv
  <1>2. Inv /\ [Next]_vars => Inv'
    BY EngineStep, StepTallies, StepEnded DEF Inv
  <1> QED
    BY <1>1, <1>2, PTL DEF Spec

\* Sessions, queues and threads keep their types whatever XrdCl answers and
\* however callbacks interleave: the bucket never holds more than one op
\* (run_command.cc, on_refund and the charges), and neither live nor the
\* semaphore's count, unsigned in the code, is decremented below zero.
THEOREM TypeCorrect == Spec => []TypeOK
  <1>1. Inv => TypeOK
    <2>1. ASSUME Inv PROVE TypeOK
      <3>1. live \in Nat /\ sem \in Nat
        BY <2>1, SlotsFacts DEF Inv, Tallies, Slots
      <3>2. okCount \in Nat /\ failCount \in Nat
        BY <2>1, Finite DEF Inv, Tallies, Totals
      <3> QED
        BY <2>1, <3>1, <3>2 DEF Inv, Base, Types, Tallies, Slots, Totals, TypeOK
    <2> QED
      BY <2>1
  <1> QED
    BY <1>1, Invariance, PTL

\* The live counter and the in-flight semaphore (run_command.cc), which the run
\* thread and session_done update in separate steps, stay two counts of one
\* thing: no path through admit, charge, launch, completion or a refused Open
\* leaks a slot or frees one twice.
THEOREM SlotsNeverDrift == Spec => []SlotAccounting
  <1>1. Inv => SlotAccounting
    BY DEF Inv, Tallies, Slots
  <1> QED
    BY <1>1, Invariance, PTL

\* If the drain was not cut off, the final snapshot (run_command.cc, after the
\* drain) counts every launched session once, under the outcome it reported.
THEOREM SnapshotComplete == Spec => []FinalTally
  <1>1. Inv => FinalTally
    BY DEF Inv, Ended
  <1> QED
    BY <1>1, Invariance, PTL

\* If the drain was not cut off, no late callback starts the deadline watchdog
\* again after its ShutDown (file_session.cc).
THEOREM WatchdogStaysDown == Spec => []WatchdogDown
  <1>1. Inv => WatchdogDown
    BY DEF Inv, Ended
  <1> QED
    BY <1>1, Invariance, PTL

\* One step after the stop.
LEMMA StopStep ==
    ASSUME Inv, [Next]_vars, stopPace, NEW x \in Sessions
    PROVE  /\ place[x] = "new" => place'[x] = "new"
           /\ sess[x].issuedRead => sess'[x].pend["read"] <= sess[x].pend["read"]
  <1>1. Base /\ pc \in AfterStop
    BY DEF Inv, Ended
  <1>2. sess[x].pend["read"] \in Nat
    BY <1>1 DEF Base, Types, Session, Ops
  <1>3. CASE Even
    <2>1. Same(x) /\ pc # "issue"
      BY <1>1, <1>3 DEF Even, AfterStop
    <2> QED
      BY <2>1 DEF Same, Rests
  <1>4. ASSUME NEW y \in Sessions, Observe(y) \/ LeaveLive(y) \/ ReleaseSlot(y)
        PROVE  sess' = sess /\ place' = place
    BY <1>4 DEF Observe, LeaveLive, ReleaseSlot
  <1>5. ~Admit /\ ~Charge /\ \A y \in Sessions : ~Launch(y)
    BY <1>1 DEF AfterStop, Admit, Charge, Launch, At
  <1> QED
    BY <1>1, <1>2, <1>3, <1>4, <1>5, EngineStep

\* Once stop_pace is set (run_command.cc) no session is launched and none that
\* has read is given another Read, also by the on_ready calls that did not see
\* the flag.
THEOREM StopIsFinal == Spec => StopEndsLoad
  <1> DEFINE Quits ==
        stopPace => \A x \in Sessions :
           /\ place[x] = "new" => place'[x] = "new"
           /\ sess[x].issuedRead => sess'[x].pend["read"] <= sess[x].pend["read"]
  <1>1. Inv /\ [Next]_vars => [Quits]_vars
    BY StopStep
  <1>2. Spec => [][Quits]_vars
    BY <1>1, Invariance, PTL DEF Spec
  <1> QED
    BY <1>2 DEF StopEndsLoad

-----------------------------------------------------------------------------
(* Every session of the run behaves like FileSession. *)

\* What FileSession's s and quote are for x, and how its entry points return.
Seen(x) == IF stage[x] = "none" THEN sess[x] ELSE ReleaseIfIdle(sess[x])
Quoted(x) == IF cont = x /\ pc \in {"pay", "requeue", "issue"} THEN quote ELSE 0
Return(new) == ReleaseIfIdle(IF wdStop THEN [new EXCEPT !.deadline = "none"] ELSE new)

\* x's part of a step: FileSession has it as a step or does not see it.
Mirrored(x) == UNCHANGED FS(x)!vars \/ FS(x)!Next

\* Of x's variables in FileSession, the owner's two, and the others but s.
Still(x) == OwnerPlace(x)' = OwnerPlace(x) /\ Quoted(x)' = Quoted(x)
Rest(x) == UNCHANGED <<nudges[x], x \in caught, wdStop>>

\* A session outside its entry points is released if it may be, and the
\* watchdog's stop flag is set only while the run thread joins it.
Tidy ==
    /\ \A x \in Sessions : stage[x] = "none" => ReleaseIfIdle(sess[x]) = sess[x]
    /\ wdStop => pc = "join"

\* FileSession's own instance of SessionOps is the engine's.
LEMMA SameEntries ==
    ASSUME NEW x
    PROVE  /\ \A v : FS(x)!Settled(v) = Return(v)
           /\ \A v, ok, acc : FS(x)!OnOpen(v, ok, acc) = OnOpen(v, ok, acc)
           /\ \A v, ok, size, acc : FS(x)!OnStat(v, ok, size, acc) = OnStat(v, ok, size, acc)
           /\ \A v, ok, got, acc : FS(x)!OnRead(v, ok, got, acc) = OnRead(v, ok, got, acc)
           /\ \A v, ok, got : FS(x)!Parks(v, ok, got) = Parks(v, ok, got)
           /\ \A v, ok : FS(x)!OnClose(v, ok) = OnClose(v, ok)
           /\ \A v, paid, acc : FS(x)!Start(v, paid, acc) = Start(v, paid, acc)
           /\ \A v, acc : FS(x)!IssueNext(v, acc) = IssueNext(v, acc)
           /\ \A v, acc : FS(x)!CloseNow(v, acc) = CloseNow(v, acc)
           /\ \A v, acc : FS(x)!RequestWallTimeout(v, acc) = RequestWallTimeout(v, acc)
           /\ \A v : FS(x)!NextOpBytes(v) = NextOpBytes(v)
  <1>1. /\ \A v : FS(x)!ReleaseIfIdle(v) = ReleaseIfIdle(v) /\ FS(x)!Pending(v) = Pending(v)
        /\ \A v : FS(x)!RefundPrepaid(v) = RefundPrepaid(v)
        /\ \A v, op : FS(x)!Answered(v, op) = Answered(v, op)
        /\ \A v, r : FS(x)!Complete(v, r) = Complete(v, r)
        /\ \A v, st : FS(x)!Fail(v, st) = Fail(v, st)
        /\ \A v, op, acc : FS(x)!Submit(v, op, acc) = Submit(v, op, acc)
        /\ \A v, got : FS(x)!ReadCounted(v, got) = ReadCounted(v, got)
    BY DEF FS!ReleaseIfIdle, ReleaseIfIdle, FS!Pending, Pending, FS!RefundPrepaid,
           RefundPrepaid, FS!RefundBytes, RefundBytes, FS!Answered, Answered,
           FS!Complete, Complete, FS!Fail, Fail, FS!Submit, Submit, FS!ReadCounted,
           ReadCounted
  <1>2. ASSUME NEW v, NEW acc PROVE FS(x)!SubmitClose(v, acc) = SubmitClose(v, acc)
    BY DEF FS!SubmitClose, SubmitClose, FS!CloseAccepted, CloseAccepted, FS!Pending,
           Pending, FS!Submit, Submit, FS!Complete, Complete
  <1>3. ASSUME NEW v, NEW acc PROVE FS(x)!SubmitRead(v, acc) = SubmitRead(v, acc)
    BY <1>1 DEF FS!SubmitRead, SubmitRead, FS!RefundBytes, RefundBytes, FS!Least, Least
  <1>4. ASSUME NEW v, NEW acc PROVE FS(x)!IssueNext(v, acc) = IssueNext(v, acc)
    BY <1>1, <1>2, <1>3 DEF FS!IssueNext, IssueNext
  <1>5. ASSUME NEW v, NEW ok, NEW got PROVE FS(x)!Parks(v, ok, got) = Parks(v, ok, got)
    BY <1>1 DEF FS!Parks, Parks
  <1>6. ASSUME NEW v PROVE FS(x)!Settled(v) = Return(v)
    BY <1>1 DEF FS!Settled, Return
  <1>7. ASSUME NEW v, NEW ok, NEW acc PROVE FS(x)!OnOpen(v, ok, acc) = OnOpen(v, ok, acc)
    BY <1>1, <1>2 DEF FS!OnOpen, OnOpen
  <1>8. ASSUME NEW v, NEW ok, NEW size, NEW acc
        PROVE  FS(x)!OnStat(v, ok, size, acc) = OnStat(v, ok, size, acc)
    BY <1>1, <1>4 DEF FS!OnStat, OnStat, FS!BeyondEnd, BeyondEnd, FS!Budget, Budget,
                      FS!Least, Least
  <1>9. ASSUME NEW v, NEW ok, NEW got, NEW acc
        PROVE  FS(x)!OnRead(v, ok, got, acc) = OnRead(v, ok, got, acc)
    BY <1>1, <1>4, <1>5 DEF FS!OnRead, OnRead, FS!Disarmed, Disarmed
  <1>10. ASSUME NEW v, NEW ok PROVE FS(x)!OnClose(v, ok) = OnClose(v, ok)
    BY <1>1 DEF FS!OnClose, OnClose
  <1>11. ASSUME NEW v, NEW paid, NEW acc PROVE FS(x)!Start(v, paid, acc) = Start(v, paid, acc)
    BY <1>1 DEF FS!Start, Start
  <1>12. ASSUME NEW v, NEW acc PROVE FS(x)!CloseNow(v, acc) = CloseNow(v, acc)
    BY <1>2 DEF FS!CloseNow, CloseNow
  <1>13. ASSUME NEW v, NEW acc
         PROVE  FS(x)!RequestWallTimeout(v, acc) = RequestWallTimeout(v, acc)
    BY <1>2 DEF FS!RequestWallTimeout, RequestWallTimeout
  <1>14. ASSUME NEW v PROVE FS(x)!NextOpBytes(v) = NextOpBytes(v)
    BY DEF FS!NextOpBytes, NextOpBytes, FS!Least, Least
  <1> QED
    BY <1>4, <1>5, <1>6, <1>7, <1>8, <1>9, <1>10, <1>11, <1>12, <1>13, <1>14

\* XrdCl's answers.
LEMMA AnswerMirrored ==
    ASSUME NEW x \in Sessions, NEW ok \in BOOLEAN, NEW acc \in BOOLEAN, Rest(x),
           Quoted(x)' = Quoted(x), NEW new, Seen(x)' = Return(new),
           \/ /\ Seen(x).pend["open"] > 0 /\ new = OnOpen(Seen(x), ok, acc)
              /\ OwnerPlace(x)' = OwnerPlace(x)
           \/ /\ Seen(x).pend["stat"] > 0
              /\ \E size \in Sizes : new = OnStat(Seen(x), ok, size, acc)
              /\ OwnerPlace(x)' = OwnerPlace(x)
           \/ /\ Seen(x).pend["read"] > 0
              /\ \E got \in 0 .. OpBytes :
                    /\ got <= Seen(x).requested /\ new = OnRead(Seen(x), ok, got, acc)
                    /\ OwnerPlace(x)' = IF Parks(Seen(x), ok, got) THEN "entering"
                                        ELSE OwnerPlace(x)
           \/ /\ Seen(x).pend["close"] > 0 /\ new = OnClose(Seen(x), ok)
              /\ OwnerPlace(x)' = OwnerPlace(x)
    PROVE  Mirrored(x)
  <1>1. CASE Seen(x).pend["open"] > 0 /\ new = OnOpen(Seen(x), ok, acc)
             /\ OwnerPlace(x)' = OwnerPlace(x)
    <2>1. FS(x)!Settled(FS(x)!OnOpen(Seen(x), ok, acc)) = Return(new)
      BY <1>1, SameEntries
    <2>2. FS(x)!OpenDone(ok, acc)
      BY <1>1, <2>1, SameEntries DEF FS!OpenDone, Seen, Quoted, Rest
    <2> QED
      BY <2>2 DEF FS!Next, FS!XrdClAnswers, Mirrored
  <1>2. ASSUME Seen(x).pend["stat"] > 0, OwnerPlace(x)' = OwnerPlace(x),
               NEW size \in Sizes, new = OnStat(Seen(x), ok, size, acc)
        PROVE  Mirrored(x)
    <2>1. FS(x)!Settled(FS(x)!OnStat(Seen(x), ok, size, acc)) = Return(new)
      BY <1>2, SameEntries
    <2>2. FS(x)!StatDone(ok, size, acc)
      BY <1>2, <2>1, SameEntries DEF FS!StatDone, Seen, Quoted, Rest
    <2> QED
      BY <2>2 DEF FS!Next, FS!XrdClAnswers, Mirrored
  <1>3. ASSUME Seen(x).pend["read"] > 0, NEW got \in 0 .. OpBytes,
               got <= Seen(x).requested, new = OnRead(Seen(x), ok, got, acc),
               OwnerPlace(x)' = IF Parks(Seen(x), ok, got) THEN "entering" ELSE OwnerPlace(x)
        PROVE  Mirrored(x)
    <2>1. FS(x)!Settled(FS(x)!OnRead(Seen(x), ok, got, acc)) = Return(new)
      BY <1>3, SameEntries
    <2>2. FS(x)!ReadDone(ok, got, acc)
      BY <1>3, <2>1, SameEntries DEF FS!ReadDone, Seen, Quoted, Rest
    <2> QED
      BY <2>2 DEF FS!Next, FS!XrdClAnswers, Mirrored
  <1>4. CASE Seen(x).pend["close"] > 0 /\ new = OnClose(Seen(x), ok)
             /\ OwnerPlace(x)' = OwnerPlace(x)
    <2>1. FS(x)!Settled(FS(x)!OnClose(Seen(x), ok)) = Return(new)
      BY <1>4, SameEntries
    <2>2. FS(x)!CloseDone(ok)
      BY <1>4, <2>1, SameEntries DEF FS!CloseDone, Seen, Quoted, Rest
    <2> QED
      BY <2>2 DEF FS!Next, FS!XrdClAnswers, Mirrored
  <1> QED
    BY <1>1, <1>2, <1>3, <1>4

\* The owner's entry points.
LEMMA CallMirrored ==
    ASSUME NEW x \in Sessions, NEW acc \in BOOLEAN, Rest(x), NEW new,
           Seen(x)' = Return(new), OwnerPlace(x)' = "out",
           \/ OwnerPlace(x) = "new" /\ new = Start(Seen(x), OpBytes, acc)
              /\ Quoted(x)' = Quoted(x)
           \/ OwnerPlace(x) \in {"entering", "queued"} /\ new = CloseNow(Seen(x), acc)
              /\ Quoted(x)' = Quoted(x)
           \/ OwnerPlace(x) = "paid" /\ new = IssueNext(Seen(x), acc) /\ Quoted(x)' = 0
    PROVE  Mirrored(x)
  <1>1. CASE OwnerPlace(x) = "new" /\ new = Start(Seen(x), OpBytes, acc)
             /\ Quoted(x)' = Quoted(x)
    <2>1. FS(x)!Settled(FS(x)!Start(Seen(x), OpBytes, acc)) = Return(new)
      BY <1>1, SameEntries
    <2>2. FS(x)!Open(acc)
      BY <1>1, <2>1, EngineOptions DEF FS!Open, Seen, Quoted, Rest
    <2> QED
      BY <2>2 DEF FS!Next, FS!OwnerSteps, Mirrored
  <1>2. CASE OwnerPlace(x) \in {"entering", "queued"} /\ new = CloseNow(Seen(x), acc)
             /\ Quoted(x)' = Quoted(x)
    <2>1. FS(x)!CloseOnEntry(acc) \/ FS(x)!CloseQueued(acc)
      BY <1>2, SameEntries DEF FS!CloseOnEntry, FS!CloseQueued, Seen, Quoted, Rest
    <2> QED
      BY <2>1 DEF FS!Next, FS!OwnerSteps, Mirrored
  <1>3. CASE OwnerPlace(x) = "paid" /\ new = IssueNext(Seen(x), acc) /\ Quoted(x)' = 0
    <2>1. FS(x)!Issue(acc)
      BY <1>3, SameEntries DEF FS!Issue, Seen, Quoted, Rest
    <2> QED
      BY <2>1 DEF FS!Next, FS!OwnerSteps, Mirrored
  <1> QED
    BY <1>1, <1>2, <1>3

\* The owner's other steps.
LEMMA OwnerMirrored ==
    ASSUME NEW x \in Sessions, UNCHANGED <<x \in caught, wdStop>>,
           \/ /\ OwnerPlace(x) = "entering" /\ OwnerPlace(x)' = "queued"
              /\ nudges'[x] = nudges[x] + 1
              /\ Seen(x)' = Seen(x) /\ Quoted(x)' = Quoted(x)
           \/ /\ nudges[x] > 0 /\ nudges'[x] = nudges[x] - 1
              /\ Seen(x)' = Seen(x) /\ Still(x)
           \/ /\ nudges'[x] = nudges[x] /\ Seen(x)' = Seen(x)
              /\ OwnerPlace(x) = "queued" /\ ~Seen(x).completed
              /\ NextOpBytes(Seen(x)) > 0 /\ Quoted(x)' = NextOpBytes(Seen(x))
              /\ OwnerPlace(x)' = "priced"
           \/ /\ nudges'[x] = nudges[x] /\ Quoted(x)' = Quoted(x)
              /\ OwnerPlace(x) = "priced" /\ OwnerPlace(x)' = "paid"
              /\ Seen(x)' = [Seen(x) EXCEPT !.held = @ + Quoted(x)]
           \/ /\ nudges'[x] = nudges[x] /\ Seen(x)' = Seen(x) /\ Quoted(x)' = 0
              /\ OwnerPlace(x) = "priced" /\ OwnerPlace(x)' = "queued"
    PROVE  Mirrored(x)
  <1>1. FS(x)!Enqueue \/ FS(x)!OnReadyReturns \/ FS(x)!Price \/ FS(x)!Pay \/ FS(x)!Requeue
    BY SameEntries DEF FS!Enqueue, FS!OnReadyReturns, FS!Price, FS!Pay, FS!Requeue,
                       Seen, Quoted, Still
  <1> QED
    BY <1>1 DEF FS!Next, FS!OwnerSteps, Mirrored

\* The watchdog.
LEMMA WatchdogMirrored ==
    ASSUME NEW x \in Sessions, NEW acc \in BOOLEAN, nudges'[x] = nudges[x], Still(x),
           \/ /\ Seen(x).deadline = "armed" /\ Seen(x)' = [Seen(x) EXCEPT !.deadline = "due"]
              /\ UNCHANGED <<x \in caught, wdStop>>
           \/ /\ x \notin caught /\ ~wdStop /\ wdStop' = wdStop
              /\ Seen(x).deadline = "due" \/ (Seen(x).deadline = "armed" /\ Seen(x).completed)
              /\ Seen(x).completed \/ Seen(x).keep
              /\ Seen(x)' = [Seen(x) EXCEPT !.deadline = "none"]
              /\ x \in caught' <=> ~Seen(x).completed
           \/ /\ x \in caught /\ x \notin caught' /\ wdStop' = wdStop
              /\ Seen(x)' = Return(RequestWallTimeout(Seen(x), acc))
           \/ /\ ~wdStop /\ wdStop' = TRUE /\ UNCHANGED (x \in caught)
              /\ Seen(x)' = [Seen(x) EXCEPT !.deadline = "none"]
           \/ /\ wdStop /\ wdStop' = FALSE /\ x \notin caught /\ x \notin caught'
              /\ Seen(x)' = Seen(x)
    PROVE  Mirrored(x)
  <1>1. \/ FS(x)!DeadlinePasses \/ FS(x)!Collect \/ FS(x)!Fire(acc)
        \/ FS(x)!ShutDown \/ FS(x)!Join
    BY SameEntries
       DEF FS!DeadlinePasses, FS!Collect, FS!Alive, FS!Fire, FS!ShutDown, FS!Join,
           Seen, Quoted, Still
  <1> QED
    BY <1>1 DEF FS!Next, FS!WatchdogSteps, Mirrored

\* What FileSession does not see.
LEMMA StillMirrored ==
    ASSUME NEW x \in Sessions, Seen(x)' = Seen(x), Still(x), Rest(x)
    PROVE  Mirrored(x)
  BY DEF Mirrored, FS!vars, Seen, Quoted, Still, Rest

-----------------------------------------------------------------------------
(* The mapping, step by step. *)

Faithful == \A x \in Sessions : Mirrored(x)

\* Where FileSession's owner has x.
LEMMA OwnerPlaces ==
    ASSUME NEW x
    PROVE  /\ place[x] = "pushing" => OwnerPlace(x) = "entering"
           /\ place[x] \notin {"pushing", "held"} => OwnerPlace(x) = place[x]
           /\ place[x] = "held" =>
                /\ pc = "start" => OwnerPlace(x) = "new"
                /\ pc = "popped" => OwnerPlace(x) = "queued"
                /\ pc \in {"pay", "requeue"} => OwnerPlace(x) = "priced"
                /\ pc = "issue" => OwnerPlace(x) = "paid"
  BY DEF OwnerPlace

\* The same after the step.
LEMMA OwnerPlacesNext ==
    ASSUME NEW x
    PROVE  /\ place'[x] = "pushing" => OwnerPlace(x)' = "entering"
           /\ place'[x] \notin {"pushing", "held"} => OwnerPlace(x)' = place'[x]
           /\ place'[x] = "held" =>
                /\ pc' = "start" => OwnerPlace(x)' = "new"
                /\ pc' = "popped" => OwnerPlace(x)' = "queued"
                /\ pc' \in {"pay", "requeue"} => OwnerPlace(x)' = "priced"
                /\ pc' = "issue" => OwnerPlace(x)' = "paid"
  BY DEF OwnerPlace

\* x stays where it is when the run thread has it neither before nor after, or
\* when another thread moves it between two statements of its wait.
LEMMA StillFacts ==
    ASSUME Base, NEW x \in Sessions, place'[x] = place[x],
           \/ cont # x /\ cont' # x
           \/ pc' \in {pc, Notified} /\ cont' = cont /\ quote' = quote
    PROVE  Still(x)
  <1>1. place[x] = "held" <=> cont = x
    BY DEF Base, HandsOK
  <1>2. CASE cont # x /\ cont' # x
    <2>1. OwnerPlace(x)' = OwnerPlace(x)
      BY <1>1, <1>2, OwnerPlaces, OwnerPlacesNext
    <2> QED
      BY <1>2, <2>1 DEF Still, Quoted
  <1>3. CASE pc' \in {pc, Notified} /\ cont' = cont /\ quote' = quote /\ cont = x
    <2>1. pc \in Holding
      BY <1>3, EngineOptions DEF Base, HandsOK
    <2>2. pc' = pc
      BY <1>3, <2>1 DEF Holding, Notified
    <2> QED
      BY <1>3, <2>2 DEF Still, OwnerPlace, Quoted
  <1> QED
    BY <1>2, <1>3

\* ReleaseIfIdle finds nothing more to do where it has been.
LEMMA ReleaseTwice == ASSUME NEW v PROVE ReleaseIfIdle(ReleaseIfIdle(v)) = ReleaseIfIdle(v)
  <1> DEFINE w == [v EXCEPT !.keep = FALSE]
  <1>1. [w EXCEPT !.keep = FALSE] = w
    OBVIOUS
  <1>2. ReleaseIfIdle(v) = v \/ ReleaseIfIdle(v) = w
    BY DEF ReleaseIfIdle
  <1>3. ReleaseIfIdle(w) = w
    BY <1>1 DEF ReleaseIfIdle
  <1> QED
    BY <1>2, <1>3

\* The release does not look at the deadline, nor at the tokens.
LEMMA ReleaseCommutes ==
    ASSUME NEW v \in Session, NEW h, NEW e
    PROVE  /\ ReleaseIfIdle(v) \in Session
           /\ ReleaseIfIdle(v).deadline = v.deadline /\ ReleaseIfIdle(v).held = v.held
           /\ ReleaseIfIdle(v).completed = v.completed
           /\ ReleaseIfIdle([v EXCEPT !.deadline = e]) = [ReleaseIfIdle(v) EXCEPT !.deadline = e]
           /\ ReleaseIfIdle([v EXCEPT !.held = h]) = [ReleaseIfIdle(v) EXCEPT !.held = h]
  BY DEF ReleaseIfIdle, Session, Pending

\* A session's entry point ends.
LEMMA ServedFacts ==
    ASSUME Base, Tidy, NEW x \in Sessions, NEW t, NEW charged, NEW new,
           Handle(t, x, charged, new)
    PROVE  /\ Seen(x) = sess[x] /\ Seen(x)' = Return(new)
           /\ \A y \in Sessions \ {x} : Seen(y)' = Seen(y)
           /\ \A y \in Sessions : stage'[y] = "none" => ReleaseIfIdle(sess'[y]) = sess'[y]
  <1> DEFINE done  == new.completed /\ ~sess[x].completed
             after == IF wdStop THEN [new EXCEPT !.deadline = "none"] ELSE new
  <1>1. /\ stage[x] = "none"
        /\ sess' = [sess EXCEPT ![x] = IF done THEN after ELSE ReleaseIfIdle(after)]
        /\ stage' = [stage EXCEPT ![x] = IF done THEN "observe" ELSE "none"]
        /\ Return(new) = ReleaseIfIdle(after)
    BY DEF Handle, Unlocked, Return
  <1> HIDE DEF done, after
  <1>2. /\ sess'[x] = IF done THEN after ELSE ReleaseIfIdle(after)
        /\ stage'[x] = IF done THEN "observe" ELSE "none"
        /\ \A y \in Sessions \ {x} : sess'[y] = sess[y] /\ stage'[y] = stage[y]
    BY <1>1 DEF Base, Types
  <1>3. Seen(x)' = Return(new)
    BY <1>1, <1>2 DEF Seen
  <1>4. stage'[x] = "none" => ReleaseIfIdle(sess'[x]) = sess'[x]
    BY <1>2, ReleaseTwice
  <1> QED
    BY <1>1, <1>2, <1>3, <1>4 DEF Seen, Tidy

\* What a step leaves alone for y, if it serves x on a thread that is not the
\* run thread.
LEMMA ElsewhereFaithful ==
    ASSUME Base, Tidy, NEW x \in Sessions, NEW t, NEW new, HandleElsewhere(t, x, new),
           \A y \in Sessions \ {x} : place'[y] = place[y] /\ (y \in caught' <=> y \in caught),
           nudges' = nudges, wdStop' = wdStop, Mirrored(x)
    PROVE  Faithful /\ Tidy'
  <1>1. /\ Handle(t, x, sess[x].held, new)
        /\ pc' \in {pc, Notified} /\ cont' = cont /\ quote' = quote
    BY DEF HandleElsewhere
  <1>2. ASSUME NEW y \in Sessions \ {x} PROVE Mirrored(y)
    <2>1. Still(y)
      BY <1>1, StillFacts
    <2>2. Seen(y)' = Seen(y)
      BY <1>1, ServedFacts
    <2> QED
      BY <2>1, <2>2, StillMirrored DEF Rest
  <1>3. Tidy'
    <2>1. wdStop' => pc' = "join"
      BY <1>1 DEF Tidy, Notified
    <2> QED
      BY <1>1, <2>1, ServedFacts DEF Tidy
  <1> QED
    BY <1>2, <1>3 DEF Faithful

\* XrdCl's answers.
LEMMA AnswersFaithful ==
    ASSUME Base, Tidy, NEW x \in Sessions, XrdClAnswers(x)
    PROVE  Faithful /\ Tidy'
  <1>1. Statuses \in SUBSET BOOLEAN /\ Accepts \in SUBSET BOOLEAN
    BY EngineOptions
  <1>2. PICK ok, acc, size, got :
            /\ ok \in BOOLEAN /\ acc \in BOOLEAN
            /\ \/ OpenDone(x, ok, acc)
               \/ size \in Sizes /\ StatDone(x, ok, size, acc)
               \/ got \in 0 .. OpBytes /\ ReadDone(x, ok, got, acc)
               \/ CloseDone(x, ok)
    BY <1>1 DEF XrdClAnswers
  <1>3. CASE OpenDone(x, ok, acc)
    <2> DEFINE new == OnOpen(sess[x], ok, acc)
    <2>1. /\ sess[x].pend["open"] > 0 /\ HandleElsewhere("xrdcl", x, new)
          /\ place' = place /\ nudges' = nudges /\ caught' = caught /\ wdStop' = wdStop
      BY <1>3 DEF OpenDone, queueVars
    <2>2. Seen(x) = sess[x] /\ Seen(x)' = Return(new) /\ Still(x)
      BY <2>1, ServedFacts, StillFacts DEF HandleElsewhere
    <2>3. Mirrored(x)
      BY <1>2, <2>1, <2>2, AnswerMirrored DEF Rest, Still
    <2> QED
      BY <2>1, <2>3, ElsewhereFaithful
  <1>4. CASE size \in Sizes /\ StatDone(x, ok, size, acc)
    <2> DEFINE new == OnStat(sess[x], ok, size, acc)
    <2>1. /\ sess[x].pend["stat"] > 0 /\ HandleElsewhere("xrdcl", x, new)
          /\ place' = place /\ nudges' = nudges /\ caught' = caught /\ wdStop' = wdStop
      BY <1>4 DEF StatDone, queueVars
    <2>2. Seen(x) = sess[x] /\ Seen(x)' = Return(new) /\ Still(x)
      BY <2>1, ServedFacts, StillFacts DEF HandleElsewhere
    <2>3. Mirrored(x)
      BY <1>2, <1>4, <2>1, <2>2, AnswerMirrored DEF Rest, Still
    <2> QED
      BY <2>1, <2>3, ElsewhereFaithful
  <1>5. CASE got \in 0 .. OpBytes /\ ReadDone(x, ok, got, acc)
    <2> DEFINE new == OnRead(sess[x], ok, got, acc)
    <2>1. /\ sess[x].pend["read"] > 0 /\ got <= sess[x].requested
          /\ HandleElsewhere("xrdcl", x, new)
          /\ place' = [place EXCEPT ![x] = IF Parks(sess[x], ok, got) THEN "entering"
                                           ELSE place[x]]
          /\ nudges' = nudges /\ caught' = caught /\ wdStop' = wdStop
      BY <1>5 DEF ReadDone, queueVars
    <2>2. Seen(x) = sess[x] /\ Seen(x)' = Return(new)
      BY <2>1, ServedFacts DEF HandleElsewhere
    <2>3. place[x] = "out"
      <3>1. "read" \in Ops /\ "read" # "close"
        BY DEF Ops
      <3> QED
        BY <2>1, <3>1, BusyIsOut
    <2>4. place'[x] = IF Parks(sess[x], ok, got) THEN "entering" ELSE "out"
      BY <2>1, <2>3 DEF Base, Types
    <2>5. OwnerPlace(x) = "out"
          /\ OwnerPlace(x)' = IF Parks(sess[x], ok, got) THEN "entering" ELSE "out"
      BY <2>3, <2>4, OwnerPlaces, OwnerPlacesNext
    <2>6. Quoted(x)' = Quoted(x)
      <3>1. cont # x /\ cont' = cont
        BY <2>1, <2>3 DEF Base, HandsOK, HandleElsewhere
      <3> QED
        BY <3>1 DEF Quoted
    <2>7. Mirrored(x)
      <3> HIDE DEF new
      <3>1. /\ Seen(x).pend["read"] > 0 /\ got \in 0 .. OpBytes /\ got <= Seen(x).requested
            /\ new = OnRead(Seen(x), ok, got, acc)
            /\ OwnerPlace(x)' = IF Parks(Seen(x), ok, got) THEN "entering"
                                ELSE OwnerPlace(x)
        BY <1>5, <2>1, <2>2, <2>5 DEF new
      <3>2. Rest(x)
        BY <2>1 DEF Rest
      <3> QED
        BY <1>2, <2>2, <2>6, <3>1, <3>2, AnswerMirrored
    <2>8. \A y \in Sessions \ {x} : place'[y] = place[y]
      BY <2>1 DEF Base, Types
    <2> QED
      BY <2>1, <2>7, <2>8, ElsewhereFaithful
  <1>6. CASE CloseDone(x, ok)
    <2> DEFINE new == OnClose(sess[x], ok)
    <2>1. /\ sess[x].pend["close"] > 0 /\ HandleElsewhere("xrdcl", x, new)
          /\ place' = place /\ nudges' = nudges /\ caught' = caught /\ wdStop' = wdStop
      BY <1>6 DEF CloseDone, queueVars
    <2>2. Seen(x) = sess[x] /\ Seen(x)' = Return(new) /\ Still(x)
      BY <2>1, ServedFacts, StillFacts DEF HandleElsewhere
    <2>3. Mirrored(x)
      BY <1>2, <2>1, <2>2, AnswerMirrored DEF Rest, Still
    <2> QED
      BY <2>1, <2>3, ElsewhereFaithful
  <1> QED
    BY <1>2, <1>3, <1>4, <1>5, <1>6

\* on_ready of a run that stops.
LEMMA CloseOnEntryFaithful ==
    ASSUME Base, Tidy, NEW x \in Sessions, NEW acc \in BOOLEAN, CloseOnEntry(x, acc)
    PROVE  Faithful /\ Tidy'
  <1> DEFINE new == CloseNow(sess[x], acc)
  <1>1. /\ place[x] = "entering" /\ HandleElsewhere("xrdcl", x, new)
        /\ place' = [place EXCEPT ![x] = "out"]
        /\ nudges' = nudges /\ caught' = caught /\ wdStop' = wdStop
    BY DEF CloseOnEntry, queueVars
  <1>2. Seen(x) = sess[x] /\ Seen(x)' = Return(new)
    BY <1>1, ServedFacts DEF HandleElsewhere
  <1>3. place'[x] = "out" /\ \A y \in Sessions \ {x} : place'[y] = place[y]
    BY <1>1 DEF Base, Types
  <1>4. OwnerPlace(x) = "entering" /\ OwnerPlace(x)' = "out"
    BY <1>1, <1>3, OwnerPlaces, OwnerPlacesNext
  <1>5. Quoted(x)' = Quoted(x)
    <2>1. cont # x /\ cont' = cont
      BY <1>1 DEF Base, HandsOK, HandleElsewhere
    <2> QED
      BY <2>1 DEF Quoted
  <1>6. Mirrored(x)
    BY <1>1, <1>2, <1>4, <1>5, CallMirrored DEF Rest
  <1> QED
    BY <1>1, <1>3, <1>6, ElsewhereFaithful

\* The watchdog fires for x.
LEMMA FireFaithful ==
    ASSUME Base, Tidy, NEW x \in Sessions, NEW acc \in BOOLEAN, Fire(x, acc)
    PROVE  Faithful /\ Tidy'
  <1> DEFINE new == RequestWallTimeout(sess[x], acc)
  <1>1. /\ x \in caught /\ HandleElsewhere("watchdog", x, new)
        /\ caught' = caught \ {x}
        /\ place' = place /\ nudges' = nudges /\ wdStop' = wdStop
    BY DEF Fire, queueVars
  <1>2. Seen(x) = sess[x] /\ Seen(x)' = Return(new) /\ Still(x)
    BY <1>1, ServedFacts, StillFacts DEF HandleElsewhere
  <1>3. Mirrored(x)
    BY <1>1, <1>2, WatchdogMirrored
  <1> QED
    BY <1>1, <1>3, ElsewhereFaithful

\* No session, no deadline and no reference changes.
LEMMA UnservedFaithful ==
    ASSUME Base, Tidy, sess' = sess, UNCHANGED <<nudges, caught, wdStop>>,
           \A y \in Sessions : Still(y) /\ (stage'[y] = "none" <=> stage[y] = "none"),
           pc = "join" => pc' = "join"
    PROVE  Faithful /\ Tidy'
  <1>1. ASSUME NEW y \in Sessions PROVE Mirrored(y)
    <2>1. Seen(y)' = Seen(y)
      BY DEF Seen
    <2> QED
      BY <2>1, StillMirrored DEF Rest
  <1>2. Tidy'
    BY DEF Tidy
  <1> QED
    BY <1>1, <1>2 DEF Faithful

\* The same but for x, of which one thing changes.
LEMMA OneFaithful ==
    ASSUME Base, Tidy, NEW x \in Sessions, sess' = sess, stage' = stage,
           UNCHANGED <<caught, wdStop>>, Mirrored(x),
           \A y \in Sessions \ {x} : Still(y) /\ nudges'[y] = nudges[y],
           pc = "join" => pc' = "join"
    PROVE  Faithful /\ Tidy'
  <1>1. ASSUME NEW y \in Sessions \ {x} PROVE Mirrored(y)
    <2>1. Seen(y)' = Seen(y)
      BY DEF Seen
    <2> QED
      BY <2>1, StillMirrored DEF Rest
  <1>2. Tidy'
    BY DEF Tidy
  <1> QED
    BY <1>1, <1>2 DEF Faithful

\* on_ready reads stop_pace, pushes its session, and notifies.
LEMMA OnReadyFaithful ==
    ASSUME Base, Tidy, NEW x \in Sessions, CheckStop(x) \/ Push(x) \/ Nudge(x)
    PROVE  Faithful /\ Tidy'
  <1>1. CASE CheckStop(x)
    <2>1. /\ place[x] = "entering" /\ place' = [place EXCEPT ![x] = "pushing"]
          /\ UNCHANGED <<sess, stage, nudges, caught, wdStop, pc, cont, quote>>
      BY <1>1 DEF CheckStop, queueVars, threadVars, watchdogVars
    <2>2. place'[x] = "pushing" /\ \A y \in Sessions \ {x} : place'[y] = place[y]
      BY <2>1 DEF Base, Types
    <2>3. OwnerPlace(x) = "entering" /\ OwnerPlace(x)' = "entering"
      BY <2>1, <2>2, OwnerPlaces, OwnerPlacesNext
    <2>4. Still(x)
      BY <2>1, <2>3 DEF Still, Quoted
    <2>5. \A y \in Sessions \ {x} : Still(y)
      BY <2>1, <2>2, StillFacts
    <2> QED
      BY <2>1, <2>4, <2>5, UnservedFaithful
  <1>2. CASE Push(x)
    <2>1. /\ place[x] = "pushing" /\ place' = [place EXCEPT ![x] = "queued"]
          /\ nudges' = [nudges EXCEPT ![x] = @ + 1]
          /\ UNCHANGED <<sess, stage, caught, wdStop, pc, cont, quote>>
      BY <1>2 DEF Push, threadVars, watchdogVars
    <2>2. place'[x] = "queued" /\ \A y \in Sessions \ {x} : place'[y] = place[y]
      BY <2>1 DEF Base, Types
    <2>3. /\ nudges'[x] = nudges[x] + 1
          /\ \A y \in Sessions \ {x} : nudges'[y] = nudges[y]
      BY <2>1 DEF Base, Types
    <2>4. OwnerPlace(x) = "entering" /\ OwnerPlace(x)' = "queued"
      BY <2>1, <2>2, OwnerPlaces, OwnerPlacesNext
    <2>5. Mirrored(x)
      BY <2>1, <2>3, <2>4, OwnerMirrored DEF Seen, Quoted
    <2>6. \A y \in Sessions \ {x} : Still(y)
      BY <2>1, <2>2, StillFacts
    <2> QED
      BY <2>1, <2>3, <2>5, <2>6, OneFaithful
  <1>3. CASE Nudge(x)
    <2>1. /\ nudges[x] > 0 /\ nudges' = [nudges EXCEPT ![x] = @ - 1] /\ pc' = Notified
          /\ UNCHANGED <<sess, stage, place, caught, wdStop, cont, quote>>
      BY <1>3 DEF Nudge, sessionVars, watchdogVars
    <2>2. /\ nudges'[x] = nudges[x] - 1
          /\ \A y \in Sessions \ {x} : nudges'[y] = nudges[y]
      BY <2>1 DEF Base, Types
    <2>3. \A y \in Sessions : Still(y)
      BY <2>1, StillFacts
    <2>4. Mirrored(x)
      BY <2>1, <2>2, <2>3, OwnerMirrored DEF Seen
    <2> QED
      BY <2>1, <2>2, <2>3, <2>4, OneFaithful DEF Notified
  <1> QED
    BY <1>1, <1>2, <1>3

\* session_done: FileSession's handler has returned when it has.
LEMMA SessionDoneFaithful ==
    ASSUME Base, Tidy, NEW x \in Sessions, SessionDone(x)
    PROVE  Faithful /\ Tidy'
  <1>1. CASE Observe(x) \/ LeaveLive(x) \/ ReleaseSlot(x)
    <2>1. /\ stage[x] # "none"
          /\ \E st \in {"leave", "release", "notify"} : stage' = [stage EXCEPT ![x] = st]
          /\ UNCHANGED <<sess, place, nudges, caught, wdStop, pc, cont, quote>>
      BY <1>1 DEF Observe, LeaveLive, ReleaseSlot, queueVars, threadVars, watchdogVars
    <2>2. \A y \in Sessions : stage'[y] = "none" <=> stage[y] = "none"
      BY <2>1 DEF Base, Types
    <2>3. \A y \in Sessions : Still(y)
      BY <2>1, StillFacts
    <2> QED
      BY <2>1, <2>2, <2>3, UnservedFaithful
  <1>2. CASE DoneReturns(x)
    <2>1. /\ stage[x] = "notify" /\ stage' = [stage EXCEPT ![x] = "none"]
          /\ sess' = [sess EXCEPT ![x] = ReleaseIfIdle(sess[x])] /\ pc' = Notified
          /\ UNCHANGED <<place, nudges, caught, wdStop, cont, quote>>
      BY <1>2 DEF DoneReturns, queueVars, watchdogVars
    <2>2. /\ stage'[x] = "none" /\ sess'[x] = ReleaseIfIdle(sess[x])
          /\ \A y \in Sessions \ {x} : stage'[y] = stage[y] /\ sess'[y] = sess[y]
      BY <2>1 DEF Base, Types
    <2>3. \A y \in Sessions : Still(y) /\ Seen(y)' = Seen(y)
      BY <2>1, <2>2, StillFacts DEF Seen
    <2>4. Faithful
      BY <2>1, <2>3, StillMirrored DEF Faithful, Rest
    <2>5. ReleaseIfIdle(sess'[x]) = sess'[x]
      BY <2>2, ReleaseTwice
    <2> QED
      BY <2>1, <2>2, <2>4, <2>5 DEF Tidy, Notified
  <1> QED
    BY <1>1, <1>2 DEF SessionDone

\* Deadlines pass and are collected or dropped.
LEMMA DeadlinesFaithful ==
    ASSUME Base, Tidy, Collect \/ ShutDown \/ \E x \in Sessions : DeadlinePasses(x)
    PROVE  Faithful /\ Tidy'
  <1>1. \A y \in Sessions : sess[y] \in Session
    BY DEF Base, Types
  <1>2. ASSUME NEW y \in Sessions, NEW e, sess'[y] = [sess[y] EXCEPT !.deadline = e],
               stage' = stage
        PROVE  /\ Seen(y)' = [Seen(y) EXCEPT !.deadline = e]
               /\ stage[y] = "none" => ReleaseIfIdle(sess'[y]) = sess'[y]
    <2>1. ReleaseIfIdle(sess'[y]) = [ReleaseIfIdle(sess[y]) EXCEPT !.deadline = e]
      <3>1. ReleaseIfIdle([sess[y] EXCEPT !.deadline = e])
                = [ReleaseIfIdle(sess[y]) EXCEPT !.deadline = e]
        BY ONLY <1>1, y \in Sessions, ReleaseCommutes
      <3> QED
        BY <1>2, <3>1
    <2> QED
      BY <1>2, <2>1 DEF Seen, Tidy
  <1>3. \A y \in Sessions : /\ Seen(y).deadline = sess[y].deadline
                            /\ Seen(y).completed = sess[y].completed
    BY <1>1, ReleaseCommutes DEF Seen
  <1>4. ASSUME NEW x \in Sessions, DeadlinePasses(x) PROVE Faithful /\ Tidy'
    <2>1. /\ sess[x].deadline = "armed" /\ sess' = [sess EXCEPT ![x].deadline = "due"]
          /\ UNCHANGED <<stage, place, nudges, caught, wdStop, pc, cont, quote>>
      BY <1>4 DEF DeadlinePasses, queueVars, threadVars, watchdogVars
    <2>2. /\ sess'[x] = [sess[x] EXCEPT !.deadline = "due"]
          /\ \A y \in Sessions \ {x} : sess'[y] = sess[y]
      BY <2>1 DEF Base, Types
    <2>3. \A y \in Sessions : Still(y)
      BY <2>1, StillFacts
    <2>4. Mirrored(x)
      <3>1. Seen(x)' = [Seen(x) EXCEPT !.deadline = "due"]
        BY <1>2, <2>1, <2>2
      <3> QED
        BY <1>3, <2>1, <2>3, <3>1, WatchdogMirrored
    <2>5. ASSUME NEW y \in Sessions \ {x} PROVE Mirrored(y)
      <3>1. Seen(y)' = Seen(y)
        BY <2>1, <2>2 DEF Seen
      <3> QED
        BY <2>1, <2>3, <3>1, StillMirrored DEF Rest
    <2>6. Tidy'
      BY <1>2, <2>1, <2>2 DEF Tidy
    <2> QED
      BY <2>4, <2>5, <2>6 DEF Faithful
  <1>5. CASE ShutDown
    <2>1. /\ pc = "shutdown" /\ pc' = "join" /\ wdStop' = TRUE
          /\ sess' = [x \in Sessions |-> [sess[x] EXCEPT !.deadline = "none"]]
          /\ UNCHANGED <<stage, place, nudges, caught, cont, quote>>
      BY <1>5 DEF ShutDown, At, Goto, queueVars
    <2>2. ~wdStop
      BY <2>1 DEF Tidy
    <2>3. \A y \in Sessions : cont # y
      BY <2>1, EngineOptions DEF Base, HandsOK, Holding
    <2>4. \A y \in Sessions : Still(y)
      BY <2>1, <2>3, StillFacts
    <2>5. ASSUME NEW y \in Sessions
          PROVE  Mirrored(y) /\ (stage[y] = "none" => ReleaseIfIdle(sess'[y]) = sess'[y])
      <3>1. sess'[y] = [sess[y] EXCEPT !.deadline = "none"]
        BY <2>1
      <3>2. Seen(y)' = [Seen(y) EXCEPT !.deadline = "none"]
            /\ (stage[y] = "none" => ReleaseIfIdle(sess'[y]) = sess'[y])
        BY <1>2, <2>1, <3>1
      <3> QED
        BY <2>1, <2>2, <2>4, <3>2, WatchdogMirrored
    <2> QED
      BY <2>1, <2>5 DEF Faithful, Tidy
  <1>6. CASE Collect
    <2> DEFINE due == {x \in Sessions : sess[x].deadline = "due"}
    <2>1. /\ ~wdStop /\ caught = {} /\ caught' = {x \in due : ~sess[x].completed}
          /\ sess' = [x \in Sessions |->
                         IF sess[x].completed \/ x \in due
                         THEN [sess[x] EXCEPT !.deadline = "none"] ELSE sess[x]]
          /\ UNCHANGED <<stage, place, nudges, wdStop, pc, cont, quote>>
      BY <1>6 DEF Collect, queueVars, threadVars
    <2>2. \A y \in Sessions : Still(y)
      BY <2>1, StillFacts
    <2>3. ASSUME NEW y \in Sessions
          PROVE  Mirrored(y) /\ (stage[y] = "none" => ReleaseIfIdle(sess'[y]) = sess'[y])
      <3>1. CASE sess[y].completed \/ y \in due
        <4>1. sess'[y] = [sess[y] EXCEPT !.deadline = "none"]
          BY <2>1, <3>1
        <4>2. Seen(y)' = [Seen(y) EXCEPT !.deadline = "none"]
              /\ (stage[y] = "none" => ReleaseIfIdle(sess'[y]) = sess'[y])
          BY <1>2, <2>1, <4>1
        <4>3. Seen(y).completed \/ Seen(y).keep
          <5>1. ASSUME ~sess[y].completed PROVE Seen(y).keep
            <6>1. sess[y].deadline = "due"
              BY <3>1, <5>1
            <6>2. Blank.deadline = "none"
              BY DEF Blank
            <6>3. Sound(sess[y]) /\ stage[y] = "none"
              BY <5>1, <6>1, <6>2 DEF Base, SessionOK
            <6> QED
              BY <5>1, <6>3 DEF Seen, Sound, Kept
          <5> QED
            BY <1>3, <5>1
        <4>4. y \notin caught /\ (y \in caught' <=> y \in due /\ ~sess[y].completed)
          BY <2>1
        <4>5. CASE sess[y].deadline \in {"due", "armed"}
          <5>1. Seen(y).deadline = "due" \/ (Seen(y).deadline = "armed" /\ Seen(y).completed)
            BY <1>3, <3>1, <4>5
          <5>2. y \in caught' <=> ~Seen(y).completed
            BY <1>3, <3>1, <4>4
          <5> QED
            BY <2>1, <2>2, <4>2, <4>3, <4>4, <5>1, <5>2, WatchdogMirrored
        <4>6. CASE sess[y].deadline = "none"
          <5>1. Seen(y) \in Session /\ Seen(y).deadline = "none"
            BY <1>1, <4>6, ReleaseCommutes DEF Seen
          <5>2. Seen(y)' = Seen(y)
            BY <4>2, <5>1 DEF Session
          <5>3. (y \in caught)' = (y \in caught)
            BY <4>4, <4>6
          <5> QED
            BY <2>1, <2>2, <4>2, <5>2, <5>3, StillMirrored DEF Rest
        <4> QED
          BY <1>1, <4>5, <4>6 DEF Session
      <3>2. CASE ~(sess[y].completed \/ y \in due)
        <4>1. sess'[y] = sess[y]
          BY <2>1, <3>2
        <4>2. Seen(y)' = Seen(y) /\ (y \in caught)' = (y \in caught)
          BY <2>1, <3>2, <4>1 DEF Seen
        <4> QED
          BY <2>1, <2>2, <4>1, <4>2, StillMirrored DEF Rest, Tidy
      <3> QED
        BY <3>1, <3>2
    <2> QED
      BY <2>1, <2>3 DEF Faithful, Tidy
  <1> QED
    BY <1>4, <1>5, <1>6

-----------------------------------------------------------------------------
(* The run thread. *)

\* It handles x, or hands it over, and touches no other session.
LEMMA EngineFaithful ==
    ASSUME Base, Tidy, NEW x \in Sessions, pc \notin {"join", "shutdown"},
           UNCHANGED <<nudges, caught, wdStop>>, Mirrored(x),
           \A y \in Sessions \ {x} : Still(y),
           \/ \E t, charged, new : Handle(t, x, charged, new)
           \/ sess' = sess /\ stage' = stage
    PROVE  Faithful /\ Tidy'
  <1>1. ~wdStop'
    BY DEF Tidy
  <1>2. /\ \A y \in Sessions \ {x} : Seen(y)' = Seen(y)
        /\ \A y \in Sessions : stage'[y] = "none" => ReleaseIfIdle(sess'[y]) = sess'[y]
    <2>1. CASE \E t, charged, new : Handle(t, x, charged, new)
      BY <2>1, ServedFacts
    <2>2. CASE sess' = sess /\ stage' = stage
      BY <2>2 DEF Seen, Tidy
    <2> QED
      BY <2>1, <2>2
  <1>3. ASSUME NEW y \in Sessions \ {x} PROVE Mirrored(y)
    BY <1>2, StillMirrored DEF Rest
  <1> QED
    BY <1>1, <1>2, <1>3 DEF Faithful, Tidy

\* With no session in hand it moves on, and takes at most the first in the queue.
LEMMA IdleFaithful ==
    ASSUME Base, Tidy, pc \notin Holding \cup {"join", "shutdown"},
           UNCHANGED <<sess, stage, nudges, caught, wdStop>>,
           \/ place' = place /\ cont' = cont
           \/ ready # <<>> /\ PickWork
           \/ \E x \in Sessions : /\ place[x] = "new" /\ pc' = "start" /\ cont' = x
                                  /\ place' = [place EXCEPT ![x] = "held"]
    PROVE  Faithful /\ Tidy'
  <1>1. cont = NoSession /\ \A y \in Sessions : cont # y
    BY EngineOptions DEF Base, HandsOK, Types
  <1>2. CASE place' = place /\ cont' = cont
    <2>1. \A y \in Sessions : Still(y)
      BY <1>1, <1>2, StillFacts
    <2> QED
      BY <2>1, UnservedFaithful
  <1>3. ASSUME NEW x \in Sessions, cont' = x, place' = [place EXCEPT ![x] = "held"],
               \/ place[x] = "queued" /\ pc' = "popped"
               \/ place[x] = "new" /\ pc' = "start"
        PROVE  Faithful /\ Tidy'
    <2>1. place'[x] = "held" /\ \A y \in Sessions \ {x} : place'[y] = place[y]
      BY <1>3 DEF Base, Types
    <2>2. OwnerPlace(x)' = OwnerPlace(x)
      BY <1>3, <2>1, OwnerPlaces, OwnerPlacesNext
    <2>3. Quoted(x)' = Quoted(x)
      BY <1>1, <1>3 DEF Quoted
    <2>4. \A y \in Sessions \ {x} : Still(y)
      BY <1>1, <1>3, <2>1, StillFacts
    <2>5. \A y \in Sessions : Still(y)
      BY <2>2, <2>3, <2>4 DEF Still
    <2> QED
      BY <2>5, UnservedFaithful
  <1>4. CASE ready # <<>> /\ PickWork
    <2>1. /\ cont' = Head(ready) /\ place' = [place EXCEPT ![Head(ready)] = "held"]
          /\ pc' = "popped"
      BY <1>4 DEF PickWork, Goto
    <2>2. Head(ready) \in Sessions /\ place[Head(ready)] = "queued"
      <3>1. ready \in Seq(Sessions) /\ ready # <<>>
        BY <1>4 DEF Base, Types
      <3>2. 1 \in 1 .. Len(ready) /\ Head(ready) = ready[1] /\ ready[1] \in Sessions
        BY <3>1
      <3> QED
        BY <3>2 DEF Base, QueueOK
    <2> QED
      BY <1>3, <2>1, <2>2
  <1> QED
    BY <1>2, <1>3, <1>4

\* The statements of the loop between two sessions, and those after it.
LEMMA BetweenFaithful ==
    ASSUME Base, Tidy,
           \/ Top \/ Block \/ Wake \/ SleepEnds \/ TokenWaitEnds \/ Admit \/ Charge
           \/ (\E x \in Sessions : Launch(x))
           \/ Stop \/ Flushed \/ Drained \/ DrainTimeout \/ FinalSnapshot
    PROVE  Faithful /\ Tidy'
  <1>1. UNCHANGED <<sess, stage, nudges, caught, wdStop>>
    BY DEF Top, Block, Wake, SleepEnds, TokenWaitEnds, Admit, Charge, Launch, Stop,
           Flushed, Drained, DrainTimeout, FinalSnapshot, pickUnchanged, sessionVars,
           queueVars, watchdogVars
  <1>2. pc \notin Holding \cup {"join", "shutdown"}
    BY DEF Top, Block, Wake, SleepEnds, TokenWaitEnds, Admit, Charge, Launch, Stop,
           Flushed, Drained, DrainTimeout, FinalSnapshot, At, Holding
  <1>3. CASE Top \/ Wake \/ SleepEnds
    <2>1. PickWork \/ (place' = place /\ cont' = cont)
      BY <1>3 DEF Top, Wake, SleepEnds
    <2>2. (ready # <<>> /\ PickWork) \/ (place' = place /\ cont' = cont)
      BY <2>1 DEF PickWork
    <2> QED
      BY <1>1, <1>2, <2>2, IdleFaithful
  <1>4. CASE \E x \in Sessions : Launch(x)
    <2>1. \E x \in Sessions : /\ place[x] = "new" /\ pc' = "start" /\ cont' = x
                              /\ place' = [place EXCEPT ![x] = "held"]
      BY <1>4 DEF Launch, Fresh, Goto
    <2> QED
      BY <1>1, <1>2, <2>1, IdleFaithful
  <1>5. CASE Block \/ TokenWaitEnds \/ Admit \/ Charge \/ Stop \/ Flushed \/ Drained
             \/ DrainTimeout \/ FinalSnapshot
    <2>1. place' = place /\ cont' = cont
      BY <1>5 DEF Block, TokenWaitEnds, Admit, Charge, Stop, Flushed, Drained,
                  DrainTimeout, FinalSnapshot, sessionVars
    <2> QED
      BY <1>1, <1>2, <2>1, IdleFaithful
  <1> QED
    BY <1>3, <1>4, <1>5

\* It lets go of the session it has in hand.
LEMMA AwayFacts ==
    ASSUME Base, NEW x \in Sessions, cont = x, cont' = NoSession,
           NEW p \in {"out", "queued"}, place' = [place EXCEPT ![x] = p]
    PROVE  /\ place[x] = "held" /\ OwnerPlace(x)' = p /\ Quoted(x)' = 0
           /\ \A y \in Sessions \ {x} : Still(y)
  <1>1. place[x] = "held" /\ NoSession \notin Sessions
    BY EngineOptions DEF Base, HandsOK
  <1>2. place'[x] = p /\ \A y \in Sessions \ {x} : place'[y] = place[y]
    BY DEF Base, Types
  <1>3. OwnerPlace(x)' = p
    BY <1>2, OwnerPlacesNext
  <1>4. Quoted(x)' = 0
    BY <1>1 DEF Quoted
  <1>5. \A y \in Sessions \ {x} : Still(y)
    BY <1>1, <1>2, StillFacts
  <1> QED
    BY <1>1, <1>3, <1>4, <1>5

\* It closes, issues, starts or skips that session.
LEMMA LetGoFaithful ==
    ASSUME Base, Tidy, NEW acc \in BOOLEAN, Skip \/ Issue(acc) \/ StartSession(acc)
    PROVE  Faithful /\ Tidy'
  <1>1. /\ pc \in {"popped", "issue", "start"} /\ cont' = NoSession
        /\ place' = [place EXCEPT ![cont] = "out"]
        /\ UNCHANGED <<nudges, caught, wdStop>>
    BY DEF Skip, Issue, StartSession, At, queueVars, watchdogVars
  <1>2. PICK x \in Sessions : x = cont
    BY <1>1, EngineOptions DEF Base, HandsOK, Types, Holding
  <1>3. /\ place[x] = "held" /\ OwnerPlace(x)' = "out" /\ Quoted(x)' = 0
        /\ \A y \in Sessions \ {x} : Still(y)
    BY <1>1, <1>2, AwayFacts
  <1>4. Rest(x) /\ ~wdStop
    BY <1>1 DEF Rest, Tidy
  <1>5. CASE Skip
    <2>1. pc = "popped" /\ sess[x].completed /\ sess' = sess /\ stage' = stage
      BY <1>2, <1>5 DEF Skip, At
    <2>2. OwnerPlace(x) = "queued" /\ Quoted(x) = 0
      BY <1>3, <2>1, OwnerPlaces DEF Quoted
    <2>3. Seen(x).completed
      BY <1>2, <2>1, ReleaseCommutes DEF Seen, Base, Types
    <2>4. Seen(x)' = Seen(x) /\ CloseNow(Seen(x), acc) = Seen(x)
      BY <2>1, <2>3 DEF Seen, CloseNow
    <2>5. Return(Seen(x)) = Seen(x)
      BY <1>2, <1>4, ReleaseTwice DEF Return, Seen, Tidy
    <2>6. Mirrored(x)
      BY <1>2, <1>3, <1>4, <2>2, <2>4, <2>5, CallMirrored
    <2> QED
      BY <1>1, <1>2, <1>3, <2>1, <2>6, EngineFaithful
  <1>6. CASE Issue(acc)
    <2> DEFINE new == IssueNext(sess[x], acc)
    <2>1. pc = "issue" /\ Handle("engine", x, sess[x].held, new)
      BY <1>2, <1>6 DEF Issue, At
    <2>2. Seen(x) = sess[x] /\ Seen(x)' = Return(new)
      BY <1>2, <2>1, ServedFacts
    <2>3. OwnerPlace(x) = "paid"
      BY <1>3, <2>1, OwnerPlaces
    <2>4. Mirrored(x)
      BY <1>2, <1>3, <1>4, <2>2, <2>3, CallMirrored
    <2> QED
      BY <1>1, <1>2, <1>3, <2>1, <2>4, EngineFaithful
  <1>7. CASE StartSession(acc)
    <2> DEFINE new == Start(sess[x], OpBytes, acc)
    <2>1. pc = "start" /\ Handle("engine", x, OpBytes, new)
      BY <1>2, <1>7 DEF StartSession, At
    <2>2. Seen(x) = sess[x] /\ Seen(x)' = Return(new)
      BY <1>2, <2>1, ServedFacts
    <2>3. OwnerPlace(x) = "new" /\ Quoted(x) = 0
      BY <1>3, <2>1, OwnerPlaces DEF Quoted
    <2>4. Mirrored(x)
      BY <1>2, <1>3, <1>4, <2>2, <2>3, CallMirrored
    <2> QED
      BY <1>1, <1>2, <1>3, <2>1, <2>4, EngineFaithful
  <1> QED
    BY <1>5, <1>6, <1>7

\* It prices that session, or closes it if there is nothing to price.
LEMMA PriceFaithful ==
    ASSUME Base, Tidy, NEW acc \in BOOLEAN, Price(acc)
    PROVE  Faithful /\ Tidy'
  <1>1. /\ pc = "popped" /\ stage[cont] = "none" /\ ~sess[cont].completed
        /\ UNCHANGED <<nudges, caught, wdStop>>
    BY DEF Price, At, Unlocked, queueVars
  <1>2. PICK x \in Sessions : x = cont
    BY <1>1, EngineOptions DEF Base, HandsOK, Types, Holding
  <1>3. /\ place[x] = "held" /\ OwnerPlace(x) = "queued" /\ Quoted(x) = 0
        /\ Seen(x) = sess[x]
    BY <1>1, <1>2, OwnerPlaces DEF Base, HandsOK, Quoted, Seen
  <1>4. CASE NextOpBytes(sess[x]) > 0
    <2>1. /\ quote' = NextOpBytes(sess[x]) /\ pc' = "pay"
          /\ UNCHANGED <<sess, stage, place, cont>>
      BY <1>2, <1>4 DEF Price, Goto, sessionVars
    <2>2. OwnerPlace(x)' = "priced" /\ Quoted(x)' = NextOpBytes(sess[x])
      BY <1>2, <1>3, <2>1 DEF OwnerPlace, Quoted
    <2>3. Seen(x)' = Seen(x)
      BY <2>1 DEF Seen
    <2>4. Mirrored(x)
      BY <1>1, <1>2, <1>3, <1>4, <2>2, <2>3, OwnerMirrored
    <2>5. \A y \in Sessions \ {x} : Still(y)
      <3>1. \A y \in Sessions \ {x} : cont # y /\ cont' # y
        BY <1>2, <2>1
      <3> QED
        BY <2>1, <3>1, StillFacts
    <2> QED
      BY <1>1, <1>2, <2>1, <2>4, <2>5, EngineFaithful
  <1>5. CASE ~(NextOpBytes(sess[x]) > 0)
    <2> DEFINE new == CloseNow(sess[x], acc)
    <2>1. /\ Handle("engine", x, sess[x].held, new)
          /\ place' = [place EXCEPT ![x] = "out"] /\ cont' = NoSession
      BY <1>2, <1>5 DEF Price
    <2>2. /\ OwnerPlace(x)' = "out" /\ Quoted(x)' = 0
          /\ \A y \in Sessions \ {x} : Still(y)
      BY <1>2, <2>1, AwayFacts
    <2>3. Seen(x)' = Return(new)
      BY <1>2, <2>1, ServedFacts
    <2>4. Mirrored(x)
      BY <1>1, <1>2, <1>3, <2>2, <2>3, CallMirrored DEF Rest
    <2> QED
      BY <1>1, <1>2, <2>1, <2>2, <2>4, EngineFaithful
  <1> QED
    BY <1>4, <1>5

\* It pays for that session, or puts it back.
LEMMA PayFaithful ==
    ASSUME Base, Tidy, Pay \/ Requeue
    PROVE  Faithful /\ Tidy'
  <1>1. pc \in {"pay", "requeue"} /\ UNCHANGED <<stage, nudges, caught, wdStop>>
    BY DEF Pay, Requeue, At, queueVars, watchdogVars
  <1>2. PICK x \in Sessions : x = cont
    BY <1>1, EngineOptions DEF Base, HandsOK, Types, Holding
  <1>3. place[x] = "held" /\ OwnerPlace(x) = "priced" /\ Quoted(x) = quote
    BY <1>1, <1>2, OwnerPlaces DEF Base, HandsOK, Quoted
  <1>4. CASE Requeue
    <2>1. /\ place' = [place EXCEPT ![x] = "queued"] /\ cont' = NoSession /\ sess' = sess
      BY <1>2, <1>4 DEF Requeue
    <2>2. /\ OwnerPlace(x)' = "queued" /\ Quoted(x)' = 0
          /\ \A y \in Sessions \ {x} : Still(y)
      BY <1>2, <2>1, AwayFacts
    <2>3. Seen(x)' = Seen(x)
      BY <1>1, <2>1 DEF Seen
    <2>4. Mirrored(x)
      BY <1>1, <1>2, <1>3, <2>2, <2>3, OwnerMirrored
    <2> QED
      BY <1>1, <1>2, <2>1, <2>2, <2>4, EngineFaithful
  <1>5. CASE Pay
    <2>1. pc = "pay" /\ UNCHANGED <<place, cont, quote>>
      BY <1>5 DEF Pay, At
    <2>2. \A y \in Sessions \ {x} : Still(y)
      <3>1. \A y \in Sessions \ {x} : cont # y /\ cont' # y
        BY <1>2, <2>1
      <3> QED
        BY <2>1, <3>1, StillFacts
    <2>3. CASE sess' = sess /\ pc' = "requeue"
      <3>1. Still(x)
        BY <1>2, <1>3, <2>1, <2>3 DEF Still, OwnerPlace, Quoted
      <3>2. \A y \in Sessions : Still(y)
        BY <2>2, <3>1
      <3> QED
        BY <1>1, <2>1, <2>3, <3>2, UnservedFaithful
    <2>4. CASE sess' = [sess EXCEPT ![x].held = @ + quote] /\ pc' = "issue"
      <3> DEFINE h == sess[x].held + quote
      <3>1. /\ sess'[x] = [sess[x] EXCEPT !.held = h]
            /\ \A y \in Sessions \ {x} : sess'[y] = sess[y]
        BY <1>2, <2>4 DEF Base, Types
      <3> HIDE DEF h
      <3>2. sess[x] \in Session
        BY <1>2 DEF Base, Types
      <3>3. ReleaseIfIdle(sess'[x]) = [ReleaseIfIdle(sess[x]) EXCEPT !.held = h]
            /\ ReleaseIfIdle(sess[x]).held = sess[x].held
        <4>1. /\ ReleaseIfIdle([sess[x] EXCEPT !.held = h])
                    = [ReleaseIfIdle(sess[x]) EXCEPT !.held = h]
              /\ ReleaseIfIdle(sess[x]).held = sess[x].held
          BY ONLY <3>2, ReleaseCommutes
        <4> QED
          BY ONLY <3>1, <4>1
      <3>4. Seen(x)' = [Seen(x) EXCEPT !.held = h] /\ Seen(x).held = sess[x].held
        BY <1>1, <2>1, <3>1, <3>3 DEF Seen
      <3>5. Seen(x)' = [Seen(x) EXCEPT !.held = @ + Quoted(x)]
        BY <1>3, <3>4 DEF h
      <3>6. OwnerPlace(x)' = "paid" /\ Quoted(x)' = Quoted(x)
        BY <1>2, <1>3, <2>1, <2>4 DEF OwnerPlace, Quoted
      <3>7. Mirrored(x)
        BY <1>1, <1>2, <1>3, <3>5, <3>6, OwnerMirrored
      <3>8. ASSUME NEW y \in Sessions \ {x} PROVE Mirrored(y)
        <4>1. Seen(y)' = Seen(y)
          BY <1>1, <3>1 DEF Seen
        <4> QED
          BY <1>1, <2>2, <4>1, StillMirrored DEF Rest
      <3>9. Tidy'
        <4>1. stage[x] = "none" => ReleaseIfIdle(sess'[x]) = sess'[x]
          BY <1>2, <3>1, <3>3 DEF Tidy
        <4> QED
          BY <1>1, <2>1, <3>1, <4>1 DEF Tidy
      <3> QED
        BY <3>7, <3>8, <3>9 DEF Faithful
    <2> QED
      BY <1>2, <1>5, <2>3, <2>4 DEF Pay, Goto
  <1> QED
    BY <1>4, <1>5

\* The flush closes the sessions of the queue.
LEMMA FlushFaithful ==
    ASSUME Base, Tidy, NEW acc \in BOOLEAN, Flush(acc)
    PROVE  Faithful /\ Tidy'
  <1>1. PICK x \in Sessions : x = Head(ready) /\ place[x] = "queued" /\ ready # <<>>
    <2>1. ready \in Seq(Sessions)
      BY DEF Base, Types
    <2>2. ready # <<>>
      BY DEF Flush
    <2>3. 1 \in 1 .. Len(ready) /\ Head(ready) = ready[1] /\ ready[1] \in Sessions
      BY <2>1, <2>2
    <2> QED
      BY <2>2, <2>3 DEF Base, QueueOK
  <1> DEFINE new == CloseNow(sess[x], acc)
  <1>2. /\ pc = "flush" /\ Handle("engine", x, sess[x].held, new)
        /\ place' = [place EXCEPT ![x] = "out"]
        /\ UNCHANGED <<nudges, caught, wdStop, pc, cont, quote>>
    BY <1>1 DEF Flush, At, threadVars
  <1>3. place'[x] = "out" /\ \A y \in Sessions \ {x} : place'[y] = place[y]
    BY <1>1, <1>2 DEF Base, Types
  <1>4. OwnerPlace(x) = "queued" /\ OwnerPlace(x)' = "out"
    BY <1>1, <1>3, OwnerPlaces, OwnerPlacesNext
  <1>5. Quoted(x)' = Quoted(x)
    BY <1>2 DEF Quoted
  <1>6. Seen(x) = sess[x] /\ Seen(x)' = Return(new)
    BY <1>1, <1>2, ServedFacts
  <1>7. Mirrored(x)
    BY <1>1, <1>2, <1>4, <1>5, <1>6, CallMirrored DEF Rest
  <1>8. \A y \in Sessions \ {x} : Still(y)
    BY <1>2, <1>3, StillFacts
  <1> QED
    BY <1>1, <1>2, <1>7, <1>8, EngineFaithful

\* The watchdog is joined.
LEMMA JoinFaithful ==
    ASSUME Base, Tidy, Join
    PROVE  Faithful /\ Tidy'
  <1>1. /\ pc = "join" /\ caught = {} /\ wdStop' = FALSE
        /\ UNCHANGED <<sess, stage, place, nudges, caught, cont, quote>>
    BY DEF Join, At, sessionVars, queueVars
  <1>2. \A y \in Sessions : cont # y
    BY <1>1, EngineOptions DEF Base, HandsOK, Holding
  <1>3. ASSUME NEW y \in Sessions PROVE Mirrored(y)
    <2>1. Still(y) /\ Seen(y)' = Seen(y)
      BY <1>1, <1>2, StillFacts DEF Seen
    <2>2. CASE wdStop
      BY <1>1, <2>1, <2>2, WatchdogMirrored
    <2>3. CASE ~wdStop
      <3>1. wdStop' = wdStop
        BY <1>1, <2>3 DEF Base, Types
      <3> QED
        BY <1>1, <2>1, <3>1, StillMirrored DEF Rest
    <2> QED
      BY <2>2, <2>3
  <1> QED
    BY <1>1, <1>3 DEF Faithful, Tidy

\* Nothing but time passes.
LEMMA TimeFaithful ==
    ASSUME Base, Tidy, Refill \/ RunDeadline \/ UNCHANGED vars
    PROVE  Faithful /\ Tidy'
  <1>1. UNCHANGED <<sess, stage, place, nudges, caught, wdStop, pc, cont, quote>>
    BY DEF Refill, RunDeadline, vars, sessionVars, queueVars, threadVars, watchdogVars
  <1>2. \A y \in Sessions : Still(y)
    BY <1>1, StillFacts
  <1> QED
    BY <1>1, <1>2, UnservedFaithful

\* Every step.
LEMMA StepFaithful == Base /\ Tidy /\ [Next]_vars => Faithful /\ Tidy'
  <1> SUFFICES ASSUME Base, Tidy, [Next]_vars PROVE Faithful /\ Tidy'
    OBVIOUS
  <1>1. Accepts \in SUBSET BOOLEAN
    BY EngineOptions
  <1>2. ASSUME NEW x \in Sessions,
               XrdClAnswers(x) \/ OnReady(x) \/ SessionDone(x) \/ DeadlinePasses(x)
        PROVE  Faithful /\ Tidy'
    BY <1>1, <1>2, AnswersFaithful, OnReadyFaithful, CloseOnEntryFaithful,
       SessionDoneFaithful, DeadlinesFaithful DEF OnReady
  <1>3. ASSUME NEW x \in Sessions, NEW acc \in Accepts, Fire(x, acc)
        PROVE  Faithful /\ Tidy'
    BY <1>1, <1>3, FireFaithful
  <1>4. CASE Collect \/ Refill \/ RunDeadline \/ DrainTimeout \/ UNCHANGED vars
    BY <1>4, DeadlinesFaithful, TimeFaithful, BetweenFaithful
  <1>5. CASE LoopStep
    <2>1. ASSUME NEW acc \in Accepts, Price(acc) \/ Issue(acc) \/ StartSession(acc)
          PROVE  Faithful /\ Tidy'
      BY <1>1, <2>1, PriceFaithful, LetGoFaithful
    <2>2. CASE Skip
      BY <2>2, LetGoFaithful
    <2>3. CASE Pay \/ Requeue
      BY <2>3, PayFaithful
    <2>4. CASE \/ Top \/ Block \/ Wake \/ SleepEnds \/ TokenWaitEnds \/ Admit \/ Charge
               \/ \E x \in Sessions : Launch(x)
      BY <2>4, BetweenFaithful
    <2> QED
      BY <1>5, <2>1, <2>2, <2>3, <2>4 DEF LoopStep
  <1>6. CASE EndStep
    <2>1. ASSUME NEW acc \in Accepts, Flush(acc) PROVE Faithful /\ Tidy'
      BY <1>1, <2>1, FlushFaithful
    <2> QED
      BY <1>6, <2>1, BetweenFaithful, DeadlinesFaithful, JoinFaithful DEF EndStep
  <1> QED
    BY <1>2, <1>3, <1>4, <1>5, <1>6 DEF Next

\* A run begins with sessions that FileSession may begin with.
LEMMA InitFaithful == Init => (\A x \in Sessions : FS(x)!Init) /\ Tidy
  <1> SUFFICES ASSUME Init PROVE (\A x \in Sessions : FS(x)!Init) /\ Tidy
    OBVIOUS
  <1>1. ASSUME NEW x \in Sessions
        PROVE  /\ sess[x] = Blank /\ stage[x] = "none" /\ nudges[x] = 0
               /\ OwnerPlace(x) = "new" /\ Quoted(x) = 0 /\ x \notin caught
    BY EngineOptions DEF Init, OwnerPlace, Quoted
  <1>2. ASSUME NEW x PROVE FS(x)!Blank = Blank
    BY DEF FS!Blank, Blank, FS!Ops, Ops
  <1>3. ReleaseIfIdle(Blank) = Blank
    <2>1. Blank.completed = FALSE
      BY DEF Blank
    <2> QED
      BY <2>1 DEF ReleaseIfIdle
  <1>4. ~wdStop
    BY DEF Init
  <1>5. ASSUME NEW x \in Sessions PROVE FS(x)!Init
    BY <1>1, <1>2, <1>4 DEF FS!Init, Quoted, Init
  <1> QED
    BY <1>1, <1>3, <1>4, <1>5 DEF Tidy

\* Each session of a run behaves as FileSession says, whose owner is the run
\* thread, its queue and the callbacks taken together: what is proved of
\* FileSession holds of every session of every run (run_command.cc keeps to
\* the protocol of file_session.hh).
THEOREM SessionsFaithful == Spec => SessionsImplement
  <1>1. Init => \A x \in Sessions : FS(x)!Init
    BY InitFaithful
  <1>2. Inv /\ Tidy /\ [Next]_vars =>
            Tidy' /\ [\A x \in Sessions : UNCHANGED FS(x)!vars \/ FS(x)!Next]_vars
    BY StepFaithful DEF Inv, Faithful, Mirrored
  <1>3. Init => Tidy
    BY InitFaithful
  <1>4. Spec => [][\A x \in Sessions : UNCHANGED FS(x)!vars \/ FS(x)!Next]_vars
    BY <1>2, <1>3, Invariance, PTL DEF Spec
  <1>5. Spec => \A x \in Sessions : FS(x)!Init
    BY <1>1 DEF Spec
  <1> QED
    BY <1>4, <1>5 DEF SessionsImplement

-----------------------------------------------------------------------------
(* What is proved of FileSession holds of every session of a run.  Its      *)
(* theorems are cited through One, an instance without a parameter, for a   *)
(* session that is any of them.                                             *)

CONSTANT Any   \* a session of the run, whichever: what follows is about each

One ==
    INSTANCE FileSessionProofs WITH
        s        <- IF stage[Any] = "none" THEN sess[Any] ELSE ReleaseIfIdle(sess[Any]),
        place    <- OwnerPlace(Any),
        quote    <- IF cont = Any /\ pc \in {"pay", "requeue", "issue"} THEN quote ELSE 0,
        frames   <- nudges[Any],
        caught   <- Any \in caught,
        stopping <- wdStop

\* The instance's entry points are the engine's.
LEMMA OneEntries ==
    /\ \A v : One!Settled(v) = Return(v)
    /\ \A v, ok, acc : One!OnOpen(v, ok, acc) = OnOpen(v, ok, acc)
    /\ \A v, ok, size, acc : One!OnStat(v, ok, size, acc) = OnStat(v, ok, size, acc)
    /\ \A v, ok, got, acc : One!OnRead(v, ok, got, acc) = OnRead(v, ok, got, acc)
    /\ \A v, ok, got : One!Parks(v, ok, got) = Parks(v, ok, got)
    /\ \A v, ok : One!OnClose(v, ok) = OnClose(v, ok)
    /\ \A v, paid, acc : One!Start(v, paid, acc) = Start(v, paid, acc)
    /\ \A v, acc : One!IssueNext(v, acc) = IssueNext(v, acc)
    /\ \A v, acc : One!CloseNow(v, acc) = CloseNow(v, acc)
    /\ \A v, acc : One!RequestWallTimeout(v, acc) = RequestWallTimeout(v, acc)
    /\ \A v : One!NextOpBytes(v) = NextOpBytes(v)
  <1>1. /\ \A v : One!ReleaseIfIdle(v) = ReleaseIfIdle(v) /\ One!Pending(v) = Pending(v)
        /\ \A v : One!RefundPrepaid(v) = RefundPrepaid(v)
        /\ \A v, op : One!Answered(v, op) = Answered(v, op)
        /\ \A v, r : One!Complete(v, r) = Complete(v, r)
        /\ \A v, st : One!Fail(v, st) = Fail(v, st)
        /\ \A v, op, acc : One!Submit(v, op, acc) = Submit(v, op, acc)
        /\ \A v, got : One!ReadCounted(v, got) = ReadCounted(v, got)
    BY DEF One!ReleaseIfIdle, ReleaseIfIdle, One!Pending, Pending, One!RefundPrepaid,
           RefundPrepaid, One!RefundBytes, RefundBytes, One!Answered, Answered,
           One!Complete, Complete, One!Fail, Fail, One!Submit, Submit, One!ReadCounted,
           ReadCounted
  <1>2. ASSUME NEW v, NEW acc PROVE One!SubmitClose(v, acc) = SubmitClose(v, acc)
    BY DEF One!SubmitClose, SubmitClose, One!CloseAccepted, CloseAccepted, One!Pending,
           Pending, One!Submit, Submit, One!Complete, Complete
  <1>3. ASSUME NEW v, NEW acc PROVE One!SubmitRead(v, acc) = SubmitRead(v, acc)
    BY DEF One!SubmitRead, SubmitRead, One!RefundBytes, RefundBytes, One!Least, Least,
           One!Submit, Submit, One!Complete, Complete
  <1>4. ASSUME NEW v, NEW acc PROVE One!IssueNext(v, acc) = IssueNext(v, acc)
    BY <1>1, <1>2, <1>3 DEF One!IssueNext, IssueNext
  <1>5. ASSUME NEW v, NEW ok, NEW got PROVE One!Parks(v, ok, got) = Parks(v, ok, got)
    BY <1>1 DEF One!Parks, Parks
  <1>6. ASSUME NEW v PROVE One!Settled(v) = Return(v)
    BY <1>1 DEF One!Settled, Return
  <1>7. ASSUME NEW v, NEW ok, NEW acc PROVE One!OnOpen(v, ok, acc) = OnOpen(v, ok, acc)
    BY <1>1, <1>2 DEF One!OnOpen, OnOpen
  <1>8. ASSUME NEW v, NEW ok, NEW size, NEW acc
        PROVE  One!OnStat(v, ok, size, acc) = OnStat(v, ok, size, acc)
    BY <1>1, <1>4 DEF One!OnStat, OnStat, One!BeyondEnd, BeyondEnd, One!Budget, Budget,
                      One!Least, Least
  <1>9. ASSUME NEW v, NEW ok, NEW got, NEW acc
        PROVE  One!OnRead(v, ok, got, acc) = OnRead(v, ok, got, acc)
    BY <1>1, <1>4, <1>5 DEF One!OnRead, OnRead, One!Disarmed, Disarmed
  <1>10. ASSUME NEW v, NEW ok PROVE One!OnClose(v, ok) = OnClose(v, ok)
    BY <1>1 DEF One!OnClose, OnClose
  <1>11. ASSUME NEW v, NEW paid, NEW acc PROVE One!Start(v, paid, acc) = Start(v, paid, acc)
    BY <1>1 DEF One!Start, Start
  <1>12. ASSUME NEW v, NEW acc PROVE One!CloseNow(v, acc) = CloseNow(v, acc)
    BY <1>2 DEF One!CloseNow, CloseNow
  <1>13. ASSUME NEW v, NEW acc
         PROVE  One!RequestWallTimeout(v, acc) = RequestWallTimeout(v, acc)
    BY <1>2 DEF One!RequestWallTimeout, RequestWallTimeout
  <1>14. ASSUME NEW v PROVE One!NextOpBytes(v) = NextOpBytes(v)
    BY DEF One!NextOpBytes, NextOpBytes, One!Least, Least
  <1> QED
    BY <1>4, <1>5, <1>6, <1>7, <1>8, <1>9, <1>10, <1>11, <1>12, <1>13, <1>14

LEMMA OneSteps ==
    /\ FS(Any)!vars = One!vars /\ FS(Any)!vars' = One!vars'
    /\ FS(Any)!Init => One!Init
    /\ FS(Any)!Next => One!Next
  <1>1. FS(Any)!vars = One!vars /\ FS(Any)!vars' = One!vars'
    BY DEF FS!vars, One!vars
  <1>2. FS(Any)!Init => One!Init
    BY DEF FS!Init, One!Init, FS!Blank, One!Blank, FS!Ops, One!Ops
  <1>3. FS(Any)!XrdClAnswers => One!Next
    <2>1. ASSUME NEW ok \in BOOLEAN, NEW acc \in BOOLEAN, FS(Any)!OpenDone(ok, acc)
          PROVE  One!OpenDone(ok, acc)
      BY <2>1, SameEntries, OneEntries DEF FS!OpenDone, One!OpenDone
    <2>2. ASSUME NEW ok \in BOOLEAN, NEW acc \in BOOLEAN, NEW size \in Sizes,
                 FS(Any)!StatDone(ok, size, acc)
          PROVE  One!StatDone(ok, size, acc)
      BY <2>2, SameEntries, OneEntries DEF FS!StatDone, One!StatDone
    <2>3. ASSUME NEW ok \in BOOLEAN, NEW acc \in BOOLEAN, NEW got \in 0 .. OpBytes,
                 FS(Any)!ReadDone(ok, got, acc)
          PROVE  One!ReadDone(ok, got, acc)
      BY <2>3, SameEntries, OneEntries DEF FS!ReadDone, One!ReadDone
    <2>4. ASSUME NEW ok \in BOOLEAN, FS(Any)!CloseDone(ok)
          PROVE  One!CloseDone(ok)
      BY <2>4, SameEntries, OneEntries DEF FS!CloseDone, One!CloseDone
    <2> QED
      BY <2>1, <2>2, <2>3, <2>4 DEF FS!XrdClAnswers, One!Next, One!XrdClAnswers
  <1>4. FS(Any)!OwnerSteps => One!Next
    <2>1. FS(Any)!Enqueue => One!Enqueue
      BY DEF FS!Enqueue, One!Enqueue
    <2>2. FS(Any)!OnReadyReturns => One!OnReadyReturns
      BY DEF FS!OnReadyReturns, One!OnReadyReturns
    <2>3. FS(Any)!Price => One!Price
      BY SameEntries, OneEntries DEF FS!Price, One!Price
    <2>4. FS(Any)!Pay => One!Pay
      BY DEF FS!Pay, One!Pay
    <2>5. FS(Any)!Requeue => One!Requeue
      BY DEF FS!Requeue, One!Requeue
    <2>6. ASSUME NEW acc \in BOOLEAN
          PROVE  FS(Any)!Open(acc) => One!Open(acc)
      BY SameEntries, OneEntries DEF FS!Open, One!Open
    <2>7. ASSUME NEW acc \in BOOLEAN
          PROVE  FS(Any)!CloseOnEntry(acc) => One!CloseOnEntry(acc)
      BY SameEntries, OneEntries DEF FS!CloseOnEntry, One!CloseOnEntry
    <2>8. ASSUME NEW acc \in BOOLEAN
          PROVE  FS(Any)!Issue(acc) => One!Issue(acc)
      BY SameEntries, OneEntries DEF FS!Issue, One!Issue
    <2>9. ASSUME NEW acc \in BOOLEAN
          PROVE  FS(Any)!CloseQueued(acc) => One!CloseQueued(acc)
      BY SameEntries, OneEntries DEF FS!CloseQueued, One!CloseQueued
    <2> QED
      BY <2>1, <2>2, <2>3, <2>4, <2>5, <2>6, <2>7, <2>8, <2>9
         DEF FS!OwnerSteps, One!OwnerSteps, One!Next
  <1>5. FS(Any)!WatchdogSteps => One!Next
    <2>1. FS(Any)!DeadlinePasses => One!DeadlinePasses
      BY DEF FS!DeadlinePasses, One!DeadlinePasses
    <2>2. FS(Any)!Collect => One!Collect
      BY DEF FS!Collect, One!Collect, FS!Alive, One!Alive
    <2>3. FS(Any)!ShutDown => One!ShutDown
      BY DEF FS!ShutDown, One!ShutDown
    <2>4. FS(Any)!Join => One!Join
      BY DEF FS!Join, One!Join
    <2>5. ASSUME NEW acc \in BOOLEAN
          PROVE  FS(Any)!Fire(acc) => One!Fire(acc)
      BY SameEntries, OneEntries DEF FS!Fire, One!Fire
    <2> QED
      BY <2>1, <2>2, <2>3, <2>4, <2>5 DEF FS!WatchdogSteps, One!WatchdogSteps, One!Next
  <1> QED
    BY <1>1, <1>2, <1>3, <1>4, <1>5 DEF FS!Next

\* A session of a run is a FileSession with an owner that keeps to the protocol
\* of file_session.hh.
THEOREM EverySession ==
    ASSUME Any \in Sessions
    PROVE  Spec => One!Spec
  <1> DEFINE Step == \A x \in Sessions : UNCHANGED FS(x)!vars \/ FS(x)!Next
             Start1 == \A x \in Sessions : FS(x)!Init
  <1>1. Spec => Start1 /\ [][Step]_vars
    BY SessionsFaithful DEF SessionsImplement
  <1>2. Start1 => One!Init
    BY OneSteps
  <1>3. [Step]_vars => [One!Next]_(One!vars)
    <2>1. Step => [One!Next]_(One!vars)
      BY OneSteps
    <2>2. UNCHANGED vars => UNCHANGED One!vars
      BY DEF vars, sessionVars, queueVars, threadVars, watchdogVars, One!vars, OwnerPlace
    <2> QED
      BY <2>1, <2>2
  <1> HIDE DEF Step, Start1
  <1> QED
    BY <1>1, <1>2, <1>3, PTL DEF One!Spec

\* The options of FileSession are those of the engine.
LEMMA OneOptions == One!SizesAreNat /\ One!SessionOptions
  BY EngineOptions, SessionOptions DEF One!SizesAreNat, One!SessionOptions

\* Every session of every run settles exactly unless it reports a timeout, and
\* then it loses one op at most: the tokens a run takes from its
\* bucket become bytes read or come back, session by session (file_session.cc
\* RefundPrepaid, IssueNext, OnRead; run_command.cc ServiceReady and Pump).
THEOREM LedgerOfRun ==
    ASSUME Any \in Sessions
    PROVE  Spec => [](One!SettledLedger /\ One!LosesAtMostOneOp)
  BY EverySession, OneOptions, One!Settles, One!LossBounded, PTL

\* No callback of XrdCl finds its session of the run destroyed, no session is
\* dropped before the engine heard its outcome, and at most one operation of
\* each is in flight, whichever threads submitted it.
THEOREM MemoryOfRun ==
    ASSUME Any \in Sessions
    PROVE  Spec => [](One!AliveForCallback /\ One!NeverLost /\ One!OneOpInFlight)
  BY EverySession, OneOptions, One!HandlersAlive, One!OutcomeBeforeRelease,
     One!OneBuffer, PTL

\* on_done of every session of the run fires once with an outcome that stays,
\* and nothing is submitted on its file after the Close.
THEOREM OutcomesOfRun ==
    ASSUME Any \in Sessions
    PROVE  Spec => One!DoneOnce /\ One!NothingAfterClose
  BY EverySession, OneOptions, One!OneOutcome, One!CloseIsLast, PTL

\* Every session of the run implements SessionContract: the engine sees only
\* what the contract allows.
THEOREM ContractOfRun ==
    ASSUME Any \in Sessions
    PROVE  Spec => One!ImplementsContract
  BY EverySession, OneOptions, One!Implementation, PTL

\* Read in the engine's own state: a session that reported anything but a
\* timeout has kept of the tokens taken for it exactly as many as it read bytes.
THEOREM PaidIsRead ==
    ASSUME Any \in Sessions
    PROVE  Spec => [](sess[Any].completed /\ sess[Any].result # "timeout"
                        => sess[Any].held = sess[Any].bytes)
  <1> DEFINE Exact == sess[Any].completed /\ sess[Any].result # "timeout"
                        => sess[Any].held = sess[Any].bytes
  <1>1. Inv /\ One!Inv /\ (Paced => One!Account /\ One!Purse) => Exact
    <2> SUFFICES ASSUME Inv, One!Inv, One!Account, One!Purse,
                        sess[Any].completed, sess[Any].result # "timeout"
                 PROVE  sess[Any].held = sess[Any].bytes
      BY EngineOptions
    <2> DEFINE seen == Seen(Any)
    <2>1. sess[Any] \in Session
      BY DEF Inv, Base, Types
    <2>2. /\ seen.completed /\ seen.result # "timeout"
          /\ seen.held = sess[Any].held /\ seen.bytes = sess[Any].bytes
      BY <2>1 DEF Seen, ReleaseIfIdle, Session
    <2>3. seen.held \in Int /\ seen.bytes \in Int
      BY <2>1, <2>2 DEF Session
    <2>4. OwnerPlace(Any) = "out"
      BY <2>2 DEF One!Inv, One!TypeOK, One!Places, One!Purse, One!Empty, One!Parked,
                      One!Blank, Seen
    <2>5. /\ seen.held - seen.bytes - seen.requested - seen.prepaid = 0
          /\ seen.requested = 0 /\ seen.prepaid = 0
      BY <2>2, <2>4 DEF One!Purse, One!Tidy, One!Empty, One!Owed, Seen
    <2> QED
      BY <2>2, <2>3, <2>5
  <1> HIDE DEF Exact
  <1>2. Spec => [](One!Inv /\ (Paced => One!Account /\ One!Purse))
    BY EverySession, OneOptions, One!Invariance, One!Accounted, PTL
  <1>3. Spec => []Exact
    BY <1>1, <1>2, Invariance, PTL
  <1> QED
    BY <1>3 DEF Exact

=============================================================================
