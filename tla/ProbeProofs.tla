----------------------------- MODULE ProbeProofs -----------------------------
(***************************************************************************)
(* The probe command for any number of files and any --concurrency: how     *)
(* many sessions may not have reported, and what the report holds, whatever *)
(* threads the callbacks run on and whether or not the admission gives up.  *)
(*                                                                          *)
(* `results` and `current` are counted against the callbacks: an item's     *)
(* slot is held until its callback is past Release, and its result is in    *)
(* the list once its callback is past Record.                               *)
(*                                                                          *)
(* The second part is about what a probe and a run make of a session's      *)
(* server and of its failure (Attribution).                                 *)
(***************************************************************************)
EXTENDS Probe, Attribution, FiniteSetTheorems, WellFoundedInduction, SequenceTheorems, TLAPS

\* The items that hold a slot of the semaphore, and those in `results`.
Holding == {i \in Items : cb[i] \in {"open", "record", "release"}}
Recorded == {i \in Items : cb[i] \in {"release", "notifySlot", "notifyDone", "returned"}}

\* TypeOK without the bounds on the counters, which need the rest.
Types ==
    /\ pc \in Labels /\ asleep \in BOOLEAN
    /\ current \in Nat /\ completed \in Nat
    /\ admitted \in 0 .. Files
    /\ results \in Seq(Items \X BOOLEAN)
    /\ cb \in [Items -> Steps]
    /\ thread \in [Items -> Threads]
    /\ patient \in BOOLEAN

\* Items are admitted in order.
InOrder == \A i \in Items : cb[i] = "idle" <=> i > admitted

\* `current` is the number of slots held.
Slots == current = Cardinality(Holding) /\ current <= MaxSlots

\* `results` has each item whose callback recorded it, once.
Listed ==
    /\ completed = Cardinality(Recorded) /\ completed = Len(results)
    /\ {results[n][1] : n \in DOMAIN results} = Recorded

\* Past its wait the main thread has nobody left to hear from.
AllIn ==
    pc \in {"shutdown", "report", "exited"} =>
        \A i \in Items : cb[i] \notin {"open", "record"}

Inv == Types /\ InOrder /\ Slots /\ Listed /\ AllIn

-----------------------------------------------------------------------------
(* Sets of items. *)

\* Items and all their subsets are finite.
LEMMA FiniteItems ==
    /\ \A S \in SUBSET Items :
           IsFiniteSet(S) /\ Cardinality(S) \in Nat /\ Cardinality(S) <= Files
    /\ IsFiniteSet(Holding) /\ IsFiniteSet(Recorded)
  <1>1. IsFiniteSet(Items) /\ Cardinality(Items) = Files
    BY FS_Interval, ProbeOptions DEF Items
  <1>2. \A S \in SUBSET Items :
            IsFiniteSet(S) /\ Cardinality(S) \in Nat /\ Cardinality(S) <= Files
    BY <1>1, FS_Subset, FS_CardinalityType
  <1>3. Holding \in SUBSET Items /\ Recorded \in SUBSET Items
    BY DEF Holding, Recorded
  <1> QED
    BY <1>2, <1>3

\* One more, or one fewer, in a set of items.
LEMMA OneMore ==
    ASSUME NEW S, IsFiniteSet(S), NEW x
    PROVE  /\ x \notin S => Cardinality(S \cup {x}) = Cardinality(S) + 1
           /\ x \in S => Cardinality(S \ {x}) = Cardinality(S) - 1
  BY FS_AddElement, FS_RemoveElement

\* No item is admitted to begin with.
LEMMA InitInv == Init => Inv
  <1> SUFFICES ASSUME Init PROVE Inv
    OBVIOUS
  <1> USE DEF Init
  <1>1. Types
    <2>1. results \in Seq(Items \X BOOLEAN)
      OBVIOUS
    <2>2. cb \in [Items -> Steps] /\ thread \in [Items -> Threads]
      BY DEF Steps, Threads
    <2>3. admitted \in 0 .. Files /\ current \in Nat /\ completed \in Nat
      BY ProbeOptions
    <2>4. pc \in Labels /\ asleep \in BOOLEAN /\ patient \in BOOLEAN
      BY DEF Labels
    <2> QED
      BY <2>1, <2>2, <2>3, <2>4 DEF Types
  <1>2. InOrder /\ AllIn
    BY ProbeOptions DEF InOrder, AllIn, Items
  <1>3. Holding = {} /\ Recorded = {}
    BY DEF Holding, Recorded
  <1>4. Slots
    BY <1>3, FS_EmptySet, ProbeOptions DEF Slots, MaxSlots
  <1>5. Listed
    <2>1. Len(results) = 0 /\ DOMAIN results = {}
      OBVIOUS
    <2> QED
      BY <1>3, <2>1, FS_EmptySet DEF Listed
  <1> QED
    BY <1>1, <1>2, <1>4, <1>5 DEF Inv

-----------------------------------------------------------------------------
(* The steps. *)

\* A step of the main thread that admits nobody leaves the counts alone.
LEMMA MainInv ==
    ASSUME Inv,
           Started \/ SleepForSlot \/ GiveUp \/ AdmittedAll \/ Wait \/ Shutdown \/ Report
    PROVE  Inv'
  <1> DEFINE Rest == Started \/ SleepForSlot \/ GiveUp \/ AdmittedAll
                     \/ Wait \/ Shutdown \/ Report
  <1>1. UNCHANGED <<current, admitted, completed, results, cb, thread, patient>>
    BY DEF Started, SleepForSlot, GiveUp, AdmittedAll, Wait, Shutdown, Report
  <1>2. pc' \in Labels /\ asleep' \in BOOLEAN
    BY DEF Inv, Types, Labels, Started, SleepForSlot, GiveUp, AdmittedAll, Wait,
           Shutdown, Report
  <1>3. Types' /\ InOrder'
    BY <1>1, <1>2 DEF Inv, Types, InOrder
  <1>4. Slots' /\ Listed'
    BY <1>1 DEF Inv, Slots, Listed, Holding, Recorded
  <1>5. AllIn'
    <2>1. CASE pc' \notin {"shutdown", "report", "exited"}
      BY <2>1 DEF AllIn
    <2>2. CASE pc \in {"shutdown", "report", "exited"}
      BY <2>2, <1>1 DEF Inv, AllIn
    <2>3. CASE pc \notin {"shutdown", "report", "exited"}
               /\ pc' \in {"shutdown", "report", "exited"}
      <3>1. completed >= admitted
        BY <2>3 DEF Started, SleepForSlot, GiveUp, AdmittedAll, Wait, Shutdown, Report
      <3>2. admitted \in Nat /\ completed \in Nat
        BY ProbeOptions DEF Inv, Types
      <3>3. IsFiniteSet(1 .. admitted) /\ Cardinality(1 .. admitted) = admitted
        BY <3>2, FS_Interval
      <3>4. Recorded \in SUBSET (1 .. admitted)
        BY <3>2, ProbeOptions DEF Inv, InOrder, Recorded, Items
      <3>5. Recorded = 1 .. admitted
        <4>1. Cardinality(Recorded) <= admitted
          BY <3>3, <3>4, FS_Subset
        <4>2. Cardinality(Recorded) = admitted
          BY <4>1, <3>1, <3>2 DEF Inv, Listed
        <4> QED
          BY <4>2, <3>3, <3>4, FS_Subset
      <3>6. ASSUME NEW i \in Items PROVE cb[i] \notin {"open", "record"}
        <4>1. CASE i > admitted
          BY <4>1 DEF Inv, InOrder
        <4>2. CASE ~(i > admitted)
          <5>1. i \in 1 .. admitted
            BY <4>2, <3>2, ProbeOptions DEF Items
          <5> QED
            BY <5>1, <3>5 DEF Recorded
        <4> QED
          BY <4>1, <4>2
      <3> QED
        BY <3>6, <1>1 DEF AllIn
    <2> QED
      BY <2>1, <2>2, <2>3
  <1> QED
    BY <1>3, <1>4, <1>5 DEF Inv

\* A new item takes a slot only when one is free.
LEMMA AdmitInv ==
    ASSUME Inv, Admit
    PROVE  Inv'
  <1> DEFINE i == admitted + 1
  <1>1. i \in Items /\ cb[i] = "idle" /\ admitted \in Nat /\ i > admitted
    BY ProbeOptions DEF Inv, Types, InOrder, Admit, Items
  <1>2. /\ current' = current + 1 /\ admitted' = i /\ pc' = "starting"
        /\ cb' = [cb EXCEPT ![i] = "open"] /\ current < MaxSlots
        /\ UNCHANGED <<asleep, completed, results, thread, patient>>
    BY DEF Admit
  <1>3. admitted' \in 0 .. Files
    BY <1>1, <1>2, ProbeOptions DEF Items
  <1> HIDE DEF i
  <1>4. cb \in [Items -> Steps]
    BY DEF Inv, Types
  <1>5. /\ cb' \in [Items -> Steps] /\ cb'[i] = "open"
        /\ \A j \in Items : j # i => cb'[j] = cb[j]
    BY <1>1, <1>2, <1>4 DEF Steps
  <1>6. Types'
    BY <1>2, <1>3, <1>5 DEF Inv, Types, Labels
  <1>7. InOrder'
    <2>1. \A j \in Items : j # i => (j > i <=> j > admitted)
      BY <1>1, ProbeOptions DEF Items, i
    <2>2. ~(i > i)
      BY <1>1 DEF Items
    <2> QED
      BY <1>2, <1>5, <2>1, <2>2 DEF Inv, InOrder
  <1>8. Holding' = Holding \cup {i} /\ i \notin Holding /\ Recorded' = Recorded
    BY <1>1, <1>5 DEF Holding, Recorded
  <1>9. Slots'
    <2>1. Cardinality(Holding') = Cardinality(Holding) + 1
      BY <1>8, FiniteItems, OneMore
    <2>2. MaxSlots \in Nat /\ current \in Nat
      BY ProbeOptions DEF MaxSlots, Inv, Types
    <2> QED
      BY <2>1, <2>2, <1>2 DEF Inv, Slots, MaxSlots
  <1>10. Listed' /\ AllIn'
    BY <1>2, <1>8 DEF Inv, Listed, AllIn
  <1> QED
    BY <1>6, <1>7, <1>9, <1>10 DEF Inv

\* An item's callback moves on: what that leaves to show, given where the item
\* was and where it is now.
LEMMA CallbackMoves ==
    ASSUME Inv, NEW i \in Items, NEW step \in Steps, step # "idle",
           cb[i] # "idle", cb' = [cb EXCEPT ![i] = step],
           pc' = pc, admitted' = admitted,
           step \in {"open", "record"} => cb[i] \in {"open", "record"}
    PROVE  /\ cb' \in [Items -> Steps]
           /\ InOrder' /\ AllIn'
           /\ Holding' = IF step \in {"open", "record", "release"}
                         THEN Holding \cup {i} ELSE Holding \ {i}
           /\ Recorded' = IF step \in {"release", "notifySlot", "notifyDone", "returned"}
                          THEN Recorded \cup {i} ELSE Recorded \ {i}
  <1>1. cb \in [Items -> Steps]
    BY DEF Inv, Types
  <1>2. /\ cb' \in [Items -> Steps] /\ cb'[i] = step
        /\ \A j \in Items : j # i => cb'[j] = cb[j]
    BY <1>1
  <1>3. InOrder'
    BY <1>2 DEF Inv, InOrder
  <1>4. AllIn'
    BY <1>2 DEF Inv, AllIn
  <1>5. Holding' = IF step \in {"open", "record", "release"}
                   THEN Holding \cup {i} ELSE Holding \ {i}
    BY <1>2 DEF Holding
  <1>6. Recorded' = IF step \in {"release", "notifySlot", "notifyDone", "returned"}
                    THEN Recorded \cup {i} ELSE Recorded \ {i}
    BY <1>2 DEF Recorded
  <1> QED
    BY <1>2, <1>3, <1>4, <1>5, <1>6

\* The session reports: the item keeps its slot.
LEMMA SessionReportsInv ==
    ASSUME Inv, NEW i \in Items, SessionReports(i)
    PROVE  Inv'
  <1>1. /\ cb[i] = "open" /\ cb' = [cb EXCEPT ![i] = "record"]
        /\ UNCHANGED <<pc, asleep, current, admitted, completed, results, patient>>
    BY DEF SessionReports
  <1>2. thread' \in [Items -> Threads]
    BY DEF SessionReports, Inv, Types
  <1>3. "record" \in Steps
    BY DEF Steps
  <1>4. /\ cb' \in [Items -> Steps] /\ InOrder' /\ AllIn'
        /\ Holding' = Holding \cup {i} /\ Recorded' = Recorded \ {i}
    BY <1>1, <1>3, CallbackMoves
  <1>5. i \in Holding /\ i \notin Recorded
    BY <1>1 DEF Holding, Recorded
  <1>6. Holding' = Holding /\ Recorded' = Recorded
    BY <1>4, <1>5
  <1>7. Types'
    BY <1>1, <1>2, <1>4 DEF Inv, Types
  <1>8. Slots' /\ Listed'
    BY <1>1, <1>6 DEF Inv, Slots, Listed
  <1> QED
    BY <1>4, <1>7, <1>8 DEF Inv

\* The result joins the list, once.
LEMMA RecordInv ==
    ASSUME Inv, NEW i \in Items, Record(i)
    PROVE  Inv'
  <1> PICK ok \in BOOLEAN :
          /\ cb[i] = "record"
          /\ results' = Append(results, <<i, ok>>)
          /\ completed' = completed + 1
          /\ cb' = [cb EXCEPT ![i] = "release"]
          /\ UNCHANGED <<pc, asleep, current, admitted, thread, patient>>
    BY DEF Record
  <1> DEFINE r == <<i, ok>>
  <1>1. r \in Items \X BOOLEAN /\ r[1] = i
    OBVIOUS
  <1> HIDE DEF r
  <1>2. "release" \in Steps
    BY DEF Steps
  <1>3. /\ cb' \in [Items -> Steps] /\ InOrder' /\ AllIn'
        /\ Holding' = Holding \cup {i} /\ Recorded' = Recorded \cup {i}
    BY <1>2, CallbackMoves
  <1>4. i \in Holding /\ i \notin Recorded
    BY DEF Holding, Recorded
  <1>5. results \in Seq(Items \X BOOLEAN) /\ completed \in Nat
    BY DEF Inv, Types
  <1>6. results' = Append(results, r)
    BY DEF r
  <1>7. /\ results' \in Seq(Items \X BOOLEAN)
        /\ Len(results') = Len(results) + 1
        /\ DOMAIN results' = DOMAIN results \cup {Len(results) + 1}
        /\ results'[Len(results) + 1] = r
        /\ \A n \in DOMAIN results : results'[n] = results[n]
    BY <1>1, <1>5, <1>6
  <1>8. Types'
    BY <1>3, <1>5, <1>7 DEF Inv, Types
  <1>9. Slots'
    <2>1. Holding' = Holding
      BY <1>3, <1>4
    <2> QED
      BY <2>1 DEF Inv, Slots
  <1>10. Listed'
    <2>1. Cardinality(Recorded') = Cardinality(Recorded) + 1
      BY <1>3, <1>4, FiniteItems, OneMore
    <2>2. {results'[n][1] : n \in DOMAIN results'}
              = {results[n][1] : n \in DOMAIN results} \cup {i}
      BY <1>1, <1>7
    <2> QED
      BY <2>1, <2>2, <1>3, <1>7 DEF Inv, Listed
  <1> QED
    BY <1>3, <1>8, <1>9, <1>10 DEF Inv

\* The slot is given back, once.
LEMMA ReleaseInv ==
    ASSUME Inv, NEW i \in Items, Release(i)
    PROVE  Inv'
  <1>1. /\ cb[i] = "release" /\ cb' = [cb EXCEPT ![i] = "notifySlot"]
        /\ current' = (IF current > 0 THEN current - 1 ELSE current)
        /\ UNCHANGED <<pc, asleep, admitted, completed, results, thread, patient>>
    BY DEF Release
  <1>2. "notifySlot" \in Steps
    BY DEF Steps
  <1>3. /\ cb' \in [Items -> Steps] /\ InOrder' /\ AllIn'
        /\ Holding' = Holding \ {i} /\ Recorded' = Recorded \cup {i}
    BY <1>1, <1>2, CallbackMoves
  <1>4. i \in Holding /\ i \in Recorded
    BY <1>1 DEF Holding, Recorded
  <1>5. Recorded' = Recorded
    BY <1>3, <1>4
  <1>6. Cardinality(Holding') = Cardinality(Holding) - 1
    BY <1>3, <1>4, FiniteItems, OneMore
  <1>7. Cardinality(Holding') \in Nat
    <2>1. Holding' \in SUBSET Items
      BY <1>3 DEF Holding
    <2> QED
      BY <2>1, FiniteItems
  <1>8. current' = current - 1 /\ current' \in Nat
    BY <1>1, <1>6, <1>7 DEF Inv, Types, Slots
  <1>9. Slots'
    <2>1. MaxSlots \in Nat
      BY ProbeOptions DEF MaxSlots
    <2> QED
      BY <1>6, <1>8, <2>1 DEF Inv, Types, Slots, MaxSlots
  <1>10. Types' /\ Listed'
    BY <1>1, <1>3, <1>5, <1>8 DEF Inv, Types, Listed
  <1> QED
    BY <1>3, <1>9, <1>10 DEF Inv

\* What is left of a callback only wakes the main thread.
LEMMA NotifyInv ==
    ASSUME Inv, NEW i \in Items, NotifySlot(i) \/ NotifyDone(i)
    PROVE  Inv'
  <1> PICK step \in {"notifyDone", "returned"} :
          /\ cb[i] \in {"notifySlot", "notifyDone"}
          /\ cb' = [cb EXCEPT ![i] = step]
          /\ UNCHANGED <<pc, current, admitted, completed, results, thread, patient>>
    BY DEF NotifySlot, NotifyDone
  <1>1. asleep' \in BOOLEAN
    BY DEF NotifySlot, NotifyDone, Inv, Types
  <1>2. step \in Steps
    BY DEF Steps
  <1>3. /\ cb' \in [Items -> Steps] /\ InOrder' /\ AllIn'
        /\ Holding' = Holding \ {i} /\ Recorded' = Recorded \cup {i}
    BY <1>2, CallbackMoves
  <1>4. i \notin Holding /\ i \in Recorded
    BY DEF Holding, Recorded
  <1>5. Holding' = Holding /\ Recorded' = Recorded
    BY <1>3, <1>4
  <1>6. Types'
    BY <1>1, <1>3 DEF Inv, Types
  <1>7. Slots' /\ Listed'
    BY <1>5 DEF Inv, Slots, Listed
  <1> QED
    BY <1>3, <1>6, <1>7 DEF Inv

\* The invariant of the probe command.
THEOREM ProbeInvariance == Spec => []Inv
  <1>1. Inv /\ [Next]_vars => Inv'
    <2> SUFFICES ASSUME Inv, [Next]_vars PROVE Inv'
      OBVIOUS
    <2>1. CASE UNCHANGED vars
      <3>1. Holding' = Holding /\ Recorded' = Recorded
        BY <2>1 DEF vars, Holding, Recorded
      <3>2. Types' /\ InOrder' /\ AllIn'
        BY <2>1 DEF vars, Inv, Types, InOrder, AllIn
      <3>3. Slots' /\ Listed'
        BY <2>1, <3>1 DEF vars, Inv, Slots, Listed
      <3> QED
        BY <3>2, <3>3 DEF Inv
    <2>2. CASE Admit
      BY <2>2, AdmitInv
    <2>3. CASE MainStep \/ GiveUp
      BY <2>2, <2>3, MainInv DEF MainStep
    <2>4. ASSUME NEW i \in Items, SessionReports(i) \/ CallbackStep(i) PROVE Inv'
      BY <2>4, SessionReportsInv, RecordInv, ReleaseInv, NotifyInv DEF CallbackStep
    <2> QED
      BY <2>1, <2>3, <2>4 DEF Next
  <1> QED
    BY <1>1, InitInv, PTL DEF Spec

-----------------------------------------------------------------------------
(* What it gives. *)

\* No slot beyond the semaphore's maximum is in use and no item beyond those of
\* the filelist completes (probe_command.cc: current_ never goes below zero).
THEOREM ProbeTypes == Spec => []TypeOK
  <1>1. ASSUME Inv PROVE TypeOK
    <2>1. Recorded \in SUBSET Items
      BY DEF Recorded
    <2>2. completed <= Files
      BY <1>1, <2>1, FiniteItems DEF Inv, Listed
    <2>3. completed \in 0 .. Files /\ current \in 0 .. MaxSlots
      BY <1>1, <2>2, ProbeOptions DEF Inv, Types, Slots, MaxSlots
    <2> QED
      BY <1>1, <2>3 DEF Inv, Types, TypeOK
  <1> QED
    BY <1>1, ProbeInvariance, PTL

\* --concurrency bounds the sessions that have not reported: a slot is not
\* given back before the result it was taken for is recorded.
THEOREM ConcurrencyBounds == Spec => []Bounded
  <1>1. ASSUME Inv PROVE Bounded
    <2>1. Unreported \in SUBSET Holding
      BY DEF Unreported, Holding
    <2>2. Cardinality(Unreported) <= Cardinality(Holding)
      BY <2>1, FiniteItems, FS_Subset
    <2>3. Unreported \in SUBSET Items /\ Holding \in SUBSET Items
      BY DEF Unreported, Holding
    <2>4. Cardinality(Unreported) \in Nat /\ Cardinality(Holding) \in Nat
      BY <2>3, FiniteItems
    <2> QED
      BY <1>1, <2>2, <2>4, ProbeOptions DEF Inv, Slots, Bounded, MaxSlots
  <1> QED
    BY <1>1, ProbeInvariance, PTL

\* The main thread reads `results` without the mutex when no callback can add
\* to it any more; it holds each session started, once, and exit code 0 says
\* that every file was read.
THEOREM ReportHasAll == Spec => []ReportComplete
  <1>1. ASSUME Inv PROVE ReportComplete
    <2> SUFFICES ASSUME pc \in {"report", "exited"}
                 PROVE  /\ {results[n][1] : n \in DOMAIN results} = 1 .. admitted
                        /\ Len(results) = admitted
                        /\ ExitCode = 0 =>
                             \A i \in Items : \E n \in DOMAIN results :
                                 results[n] = <<i, TRUE>>
      BY DEF ReportComplete
    <2>1. admitted \in Nat /\ admitted <= Files
      BY <1>1, ProbeOptions DEF Inv, Types
    <2>2. Recorded = 1 .. admitted
      <3>1. ASSUME NEW i \in Items PROVE i \in Recorded <=> i <= admitted
        <4>1. cb[i] \in Steps /\ cb[i] \notin {"open", "record"}
          BY <1>1 DEF Inv, Types, AllIn
        <4>2. cb[i] = "idle" <=> i > admitted
          BY <1>1 DEF Inv, InOrder
        <4>3. i > admitted <=> ~(i <= admitted)
          BY <2>1, ProbeOptions DEF Items
        <4> QED
          BY <4>1, <4>2, <4>3 DEF Recorded, Steps
      <3>2. Recorded \in SUBSET Items
        BY DEF Recorded
      <3> QED
        <4>1. \A x : x \in Recorded => x \in 1 .. admitted
          BY <3>1, <3>2, <2>1, ProbeOptions DEF Items
        <4>2. \A x : x \in 1 .. admitted => x \in Recorded
          BY <3>1, <2>1, ProbeOptions DEF Items
        <4> QED
          BY <4>1, <4>2
    <2>3. {results[n][1] : n \in DOMAIN results} = 1 .. admitted
      BY <1>1, <2>2 DEF Inv, Listed
    <2>4. Len(results) = admitted
      <3>1. Cardinality(1 .. admitted) = admitted
        BY <2>1, FS_Interval
      <3> QED
        BY <1>1, <3>1, <2>2 DEF Inv, Listed
    <2>5. ASSUME ExitCode = 0, NEW i \in Items
          PROVE  \E n \in DOMAIN results : results[n] = <<i, TRUE>>
      <3>1. admitted = Files /\ \A n \in DOMAIN results : results[n][2]
        BY <2>5 DEF ExitCode
      <3>2. i \in {results[n][1] : n \in DOMAIN results}
        BY <3>1, <2>3 DEF Items
      <3>3. PICK n \in DOMAIN results : results[n][1] = i
        BY <3>2
      <3>4. results[n] \in Items \X BOOLEAN
        BY <1>1 DEF Inv, Types
      <3>5. PICK x \in Items, ok \in BOOLEAN : results[n] = <<x, ok>>
        BY <3>4
      <3>6. x = i /\ ok = TRUE
        BY <3>1, <3>3, <3>5
      <3> QED
        BY <3>5, <3>6
    <2> QED
      BY <2>3, <2>4, <2>5
  <1> QED
    BY <1>1, ProbeInvariance, PTL

-----------------------------------------------------------------------------
(* The site map, and the classes of failed sessions (Attribution), for any   *)
(* hosts, domains, sites and number of entries, and any codes and texts.     *)

\* A set of numbers has a least one.
LEMMA LeastNumber ==
    ASSUME NEW T \in SUBSET Nat, T # {}
    PROVE  \E m \in T : \A k \in T : m <= k
  <1>1. PICK n \in T : TRUE
    OBVIOUS
  <1> DEFINE S == 0 .. n
             X == {0 .. k : k \in {j \in T : j <= n}}
  <1>2. IsWellFoundedOn(StrictSubsetOrdering(S), SUBSET S)
    <2>1. IsFiniteSet(S)
      BY <1>1, FS_Interval
    <2> HIDE DEF S
    <2> QED
      BY <2>1, FS_StrictSubsetOrderingWellFounded, FS_FiniteSubsetsOfFinite
  <1>3. X \subseteq SUBSET S /\ 0 .. n \in X
    BY <1>1
  <1>4. PICK U \in X : \A V \in X : ~ (<<V, U>> \in StrictSubsetOrdering(S))
    <2> HIDE DEF X, S
    <2> QED
      BY <1>2, <1>3, WFMin
  <1>5. PICK m \in T : m <= n /\ U = 0 .. m
    BY <1>4
  <1>6. ASSUME NEW k \in T, k < m PROVE FALSE
    <2>1. k <= n /\ k \in Nat /\ m \in Nat
      BY <1>1, <1>5, <1>6
    <2>2. 0 .. k \in X /\ 0 .. k \in SUBSET S /\ U \in SUBSET S
      BY <1>3, <1>4, <2>1
    <2>3. 0 .. k \subseteq U /\ m \in U /\ m \notin 0 .. k
      BY <1>5, <1>6, <2>1
    <2>4. <<0 .. k, U>> \in StrictSubsetOrdering(S)
      <3> HIDE DEF S, X
      <3>1. 0 .. k \in SUBSET S /\ U \in SUBSET S /\ 0 .. k # U
        BY <2>2, <2>3
      <3> QED
        BY <2>3, <3>1 DEF StrictSubsetOrdering
    <2> QED
      BY <1>4, <2>2, <2>4
  <1> QED
    BY <1>5, <1>6

\* A suffix, label by label.
LEMMA SuffixLabels ==
    ASSUME NEW A, NEW B, NEW s \in Seq(A), NEW t \in Seq(B)
    PROVE  IsSuffix(s, t) <=>
               /\ Len(s) <= Len(t)
               /\ \A i \in 1 .. Len(s) : s[i] = t[Len(t) - Len(s) + i]
  <1> DEFINE r == Reverse(s)
             q == Reverse(t)
  <1>1. Len(s) \in Nat /\ Len(t) \in Nat
    OBVIOUS
  <1>2. /\ r \in Seq(A) /\ Len(r) = Len(s) /\ \A i \in 1 .. Len(s) : r[i] = s[Len(s) - i + 1]
        /\ q \in Seq(B) /\ Len(q) = Len(t) /\ \A i \in 1 .. Len(t) : q[i] = t[Len(t) - i + 1]
    BY DEF Reverse
  <1> HIDE DEF r, q
  <1>3. CASE Len(s) <= Len(t)
    <2>1. /\ SubSeq(r, 1, Len(s)) = [i \in 1 .. Len(s) |-> r[i]]
          /\ SubSeq(q, 1, Len(s)) = [i \in 1 .. Len(s) |-> q[i]]
      BY <1>1, <1>2, <1>3
    <2>2. SubSeq(r, 1, Len(s)) = SubSeq(q, 1, Len(s))
            <=> \A i \in 1 .. Len(s) : r[i] = q[i]
      BY <2>1
    <2>3. ASSUME \A i \in 1 .. Len(s) : r[i] = q[i], NEW i \in 1 .. Len(s)
          PROVE  s[i] = t[Len(t) - Len(s) + i]
      <3>1. Len(s) - i + 1 \in 1 .. Len(s) /\ Len(s) - i + 1 \in 1 .. Len(t)
        BY <1>1, <1>3
      <3>2. r[Len(s) - i + 1] = s[Len(s) - (Len(s) - i + 1) + 1]
        BY <3>1, <1>2
      <3>3. q[Len(s) - i + 1] = t[Len(t) - (Len(s) - i + 1) + 1]
        BY <3>1, <1>2
      <3>4. /\ Len(s) - (Len(s) - i + 1) + 1 = i
            /\ Len(t) - (Len(s) - i + 1) + 1 = Len(t) - Len(s) + i
        BY <1>1
      <3> QED
        BY <2>3, <3>1, <3>2, <3>3, <3>4
    <2>4. ASSUME \A i \in 1 .. Len(s) : s[i] = t[Len(t) - Len(s) + i], NEW i \in 1 .. Len(s)
          PROVE  r[i] = q[i]
      <3>1. Len(s) - i + 1 \in 1 .. Len(s) /\ i \in 1 .. Len(t)
        BY <1>1, <1>3
      <3>2. s[Len(s) - i + 1] = t[Len(t) - Len(s) + (Len(s) - i + 1)]
        BY <2>4, <3>1
      <3>3. Len(t) - Len(s) + (Len(s) - i + 1) = Len(t) - i + 1
        BY <1>1
      <3>4. r[i] = s[Len(s) - i + 1] /\ q[i] = t[Len(t) - i + 1]
        BY <3>1, <1>2
      <3> QED
        BY <3>2, <3>3, <3>4
    <2> QED
      BY <1>2, <1>3, <2>2, <2>3, <2>4 DEF IsSuffix, IsPrefix, r, q
  <1> QED
    BY <1>1, <1>2, <1>3 DEF IsSuffix, IsPrefix, r, q

\* Host names and domains are sequences.
LEMMA Labelled ==
    \A n \in Hosts \cup Domains : n \in Seq(Range(n)) /\ Len(n) \in Nat
  <1> TAKE n \in Hosts \cup Domains
  <1>1. n \in Seq(Range(n))
    BY SiteMapOptions
  <1> QED
    BY <1>1

\* Of two domains of one host the shorter lies in the longer.
LEMMA DomainsNest ==
    ASSUME NEW h \in Hosts, NEW d \in Domains, NEW e \in Domains,
           Under(h, d), Under(h, e), Len(d) <= Len(e)
    PROVE  IsSuffix(d, e)
  <1>1. /\ d \in Seq(Range(d)) /\ e \in Seq(Range(e)) /\ h \in Seq(Range(h))
        /\ Len(d) \in Nat /\ Len(e) \in Nat /\ Len(h) \in Nat
    BY Labelled
  <1>2. /\ Len(d) < Len(h) /\ \A i \in 1 .. Len(d) : d[i] = h[Len(h) - Len(d) + i]
        /\ Len(e) < Len(h) /\ \A i \in 1 .. Len(e) : e[i] = h[Len(h) - Len(e) + i]
    BY <1>1, SuffixLabels DEF Under
  <1>3. ASSUME NEW i \in 1 .. Len(d) PROVE d[i] = e[Len(e) - Len(d) + i]
    <2>1. Len(e) - Len(d) + i \in 1 .. Len(e)
      BY <1>1
    <2>2. e[Len(e) - Len(d) + i] = h[Len(h) - Len(e) + (Len(e) - Len(d) + i)]
      BY <1>2, <2>1
    <2>3. Len(h) - Len(e) + (Len(e) - Len(d) + i) = Len(h) - Len(d) + i
      BY <1>1
    <2> QED
      BY <1>2, <2>2, <2>3
  <1> QED
    BY <1>1, <1>3, SuffixLabels

\* There is one of each length.
LEMMA DomainsDiffer ==
    ASSUME NEW h \in Hosts, NEW d \in Domains, NEW e \in Domains,
           Under(h, d), Under(h, e), Len(d) = Len(e)
    PROVE  d = e
  <1>1. /\ d \in Seq(Range(d)) /\ e \in Seq(Range(e)) /\ Len(d) \in Nat
    BY Labelled
  <1>2. IsSuffix(d, e)
    BY <1>1, DomainsNest
  <1>3. \A i \in 1 .. Len(d) : d[i] = e[Len(e) - Len(d) + i]
    BY <1>1, <1>2, SuffixLabels
  <1>4. \A i \in 1 .. Len(d) : d[i] = e[i]
    BY <1>1, <1>3
  <1> QED
    BY <1>1, <1>4

\* What the map holds: a rule for each domain added, none after one that lies
\* in it; an exact entry for each server added; with the site last given.
RulesMatch ==
    /\ suffixes \in Seq(Rules)
    /\ \A i, j \in DOMAIN suffixes :
           i < j => ~IsSuffix(suffixes[i].domain, suffixes[j].domain)
    /\ \A i \in DOMAIN suffixes :
           /\ [domain |-> suffixes[i].domain] \in Keys
           /\ suffixes[i].site = Given([domain |-> suffixes[i].domain])
    /\ \A d \in Domains : [domain |-> d] \in Keys =>
           \E i \in DOMAIN suffixes : suffixes[i].domain = d

ExactMatch ==
    /\ DOMAIN exact = Keys \cap Servers
    /\ \A k \in DOMAIN exact : exact[k] = Given(k)

MapInv ==
    /\ added \in Seq(Entries) /\ Len(added) <= MaxAdds
    /\ RulesMatch /\ ExactMatch

\* One more entry: its key has its site, the others keep theirs.
LEMMA GivenMore ==
    ASSUME added \in Seq(Entries), NEW e \in Entries, added' = Append(added, e)
    PROVE  /\ added' \in Seq(Entries)
           /\ Keys' = Keys \cup {e.key}
           /\ Given(e.key)' = e.site
           /\ \A key \in Keys \ {e.key} : Given(key)' = Given(key)
  <1> DEFINE n == Len(added)
  <1>1. /\ n \in Nat /\ DOMAIN added = 1 .. n /\ DOMAIN added' = 1 .. n + 1
        /\ added'[n + 1] = e /\ \A m \in 1 .. n : added'[m] = added[m]
        /\ added' \in Seq(Entries)
    OBVIOUS
  <1> HIDE DEF n
  <1>2. Keys' = Keys \cup {e.key}
    <2>1. \A k : k \in Keys' => k \in Keys \cup {e.key}
      <3> SUFFICES ASSUME NEW m \in 1 .. n + 1 PROVE added'[m].key \in Keys \cup {e.key}
        BY <1>1 DEF Keys
      <3> CASE m = n + 1
        BY <1>1
      <3> CASE m # n + 1
        <4>1. m \in 1 .. n
          BY <1>1
        <4> QED
          BY <1>1, <4>1 DEF Keys
      <3> QED
        OBVIOUS
    <2>2. \A m \in 1 .. n : m \in 1 .. n + 1
      BY <1>1
    <2>3. n + 1 \in 1 .. n + 1
      BY <1>1
    <2>4. Keys \subseteq Keys'
      BY <1>1, <2>2 DEF Keys
    <2>5. e.key \in Keys'
      BY <1>1, <2>3 DEF Keys
    <2> QED
      BY <2>1, <2>4, <2>5
  <1>3. Given(e.key)' = e.site
    <2> DEFINE at == {m \in 1 .. n + 1 : added'[m].key = e.key}
    <2>1. n + 1 \in at /\ \A m \in at : m <= n + 1 /\ m \in Nat
      BY <1>1
    <2>2. \A m \in at : (\A l \in at : l <= m) => m = n + 1
      BY <1>1, <2>1
    <2>3. (CHOOSE m \in at : \A l \in at : l <= m) = n + 1
      <3> HIDE DEF at
      <3> QED
        BY <2>1, <2>2
    <2> QED
      BY <1>1, <2>3 DEF Given
  <1>4. ASSUME NEW key \in Keys \ {e.key} PROVE Given(key)' = Given(key)
    <2> DEFINE at == {m \in 1 .. n : added[m].key = key}
               more == {m \in 1 .. n + 1 : added'[m].key = key}
    <2>1. \A m \in 1 .. n + 1 : m \in 1 .. n \/ m = n + 1
      BY <1>1
    <2>2. \A m \in 1 .. n : m \in 1 .. n + 1
      BY <1>1
    <2>3. more = at
      BY <1>1, <2>1, <2>2
    <2>4. at # {}
      BY <1>1 DEF Keys
    <2>5. (CHOOSE m \in at : \A l \in at : l <= m) \in 1 .. n
      <3>2. \E m \in at : \A l \in at : l <= m
        <4> DEFINE gaps == {n - m : m \in at}
        <4>1. gaps \in SUBSET Nat /\ gaps # {}
          BY <1>1, <2>4
        <4>2. PICK g \in gaps : \A o \in gaps : g <= o
          <5> HIDE DEF gaps
          <5> QED
            BY <4>1, LeastNumber
        <4>3. PICK m \in at : g = n - m
          BY <4>2
        <4>4. ASSUME NEW l \in at PROVE l <= m
          <5>0. n - l \in gaps
            OBVIOUS
          <5>1. n - m <= n - l /\ l \in Nat /\ m \in Nat
            <6> HIDE DEF gaps
            <6> QED
              BY <4>2, <4>3, <5>0, <1>1
          <5> QED
            BY <5>1, <1>1
        <4> QED
          BY <4>4
      <3>3. (CHOOSE m \in at : \A l \in at : l <= m) \in at
        <4> HIDE DEF at
        <4> QED
          BY <3>2
      <3> QED
        BY <3>3
    <2>6. Given(key)' = added'[CHOOSE m \in at : \A l \in at : l <= m].site
      BY <1>1, <2>3 DEF Given
    <2>7. Given(key) = added[CHOOSE m \in at : \A l \in at : l <= m].site
      BY <1>1 DEF Given
    <2> HIDE DEF at
    <2> QED
      BY <1>1, <2>5, <2>6, <2>7
  <1> QED
    BY <1>1, <1>2, <1>3, <1>4

LEMMA InitMap == MapInit => MapInv
  <1> SUFFICES ASSUME MapInit PROVE MapInv
    OBVIOUS
  <1>1. exact = <<>> /\ suffixes = <<>> /\ added = <<>>
    BY DEF MapInit
  <1>2. /\ DOMAIN exact = {} /\ DOMAIN suffixes = {} /\ DOMAIN added = {}
        /\ added \in Seq(Entries) /\ suffixes \in Seq(Rules) /\ Len(added) = 0
    BY <1>1
  <1>3. Keys = {}
    BY <1>2 DEF Keys
  <1> QED
    BY <1>2, <1>3, SiteMapOptions DEF MapInv, RulesMatch, ExactMatch

\* A domain is no server, and two domains' keys differ.
LEMMA KeysDiffer ==
    /\ \A k \in Servers, d \in Domains : k # [domain |-> d]
    /\ \A d, e \in Domains : [domain |-> d] = [domain |-> e] => d = e
  <1>1. ASSUME NEW k \in Servers, NEW d \in Domains PROVE k # [domain |-> d]
    <2>1. DOMAIN k = {"host", "port"} /\ DOMAIN [domain |-> d] = {"domain"}
      BY DEF Servers
    <2> QED
      BY <2>1
  <1>2. ASSUME NEW d \in Domains, NEW e \in Domains, [domain |-> d] = [domain |-> e]
        PROVE  d = e
    <2>1. [domain |-> d].domain = d /\ [domain |-> e].domain = e
      OBVIOUS
    <2> QED
      BY <1>2, <2>1
  <1> QED
    BY <1>1, <1>2

\* A rule for a domain that has one replaces its site; a new one is sorted in.
LEMMA RulesAfter ==
    ASSUME RulesMatch, NEW d \in Domains, NEW site \in Sites, AddSuffix(d, site)
    PROVE  /\ suffixes' \in Seq(Rules)
           /\ \A i, j \in DOMAIN suffixes' :
                  i < j => ~IsSuffix(suffixes'[i].domain, suffixes'[j].domain)
           /\ \A i \in DOMAIN suffixes' :
                  \/ suffixes'[i] = [domain |-> d, site |-> site]
                  \/ /\ suffixes'[i].domain # d
                     /\ \E j \in DOMAIN suffixes : suffixes'[i] = suffixes[j]
           /\ \E i \in DOMAIN suffixes' : suffixes'[i].domain = d
           /\ \A j \in DOMAIN suffixes :
                  \E i \in DOMAIN suffixes' : suffixes'[i].domain = suffixes[j].domain
  <1> DEFINE n == Len(suffixes)
             r == [domain |-> d, site |-> site]
  <1>1. /\ n \in Nat /\ DOMAIN suffixes = 1 .. n
        /\ \A i \in 1 .. n : suffixes[i] \in Rules
    BY DEF RulesMatch
  <1>2. r \in Rules /\ r.domain = d
    BY DEF Rules
  <1> HIDE DEF n, r
  <1>3. CASE \E i \in DOMAIN suffixes : suffixes[i].domain = d
    <2>1. suffixes' = [i \in 1 .. n |-> IF suffixes[i].domain = d THEN r ELSE suffixes[i]]
      BY <1>1, <1>3 DEF AddSuffix, r
    <2>2. \A i \in 1 .. n : suffixes'[i] \in Rules /\ suffixes'[i].domain = suffixes[i].domain
      BY <1>1, <1>2, <2>1
    <2>3. suffixes' \in Seq(Rules) /\ DOMAIN suffixes' = 1 .. n
      BY <1>1, <2>1, <2>2
    <2>4. PICK i \in 1 .. n : suffixes[i].domain = d
      BY <1>1, <1>3
    <2>5. \A j \in 1 .. n : \/ suffixes'[j] = r
                            \/ suffixes'[j].domain # d /\ suffixes'[j] = suffixes[j]
      BY <2>1
    <2>6. \A j, k \in 1 .. n :
            j < k => ~IsSuffix(suffixes'[j].domain, suffixes'[k].domain)
      BY <1>1, <2>2 DEF RulesMatch
    <2> QED
      BY <1>1, <2>2, <2>3, <2>4, <2>5, <2>6 DEF r
  <1>4. CASE ~ \E i \in DOMAIN suffixes : suffixes[i].domain = d
    <2> DEFINE more == Append(suffixes, r)
    <2>1. /\ DOMAIN more = 1 .. n + 1 /\ more[n + 1] = r
          /\ \A i \in 1 .. n : more[i] = suffixes[i]
      BY <1>1, <1>2 DEF n, RulesMatch
    <2>2. suffixes' \in LongestFirst(more)
      BY <1>4 DEF AddSuffix, r
    <2> HIDE DEF more
    <2>3. /\ suffixes' \in [1 .. n + 1 -> Range(more)] /\ Range(suffixes') = Range(more)
          /\ \A i, j \in 1 .. n + 1 :
                 i < j => ~IsSuffix(suffixes'[i].domain, suffixes'[j].domain)
      BY <2>1, <2>2 DEF LongestFirst
    <2>4. \A i \in 1 .. n + 1 : i = n + 1 \/ i \in 1 .. n
      BY <1>1
    <2>5. Range(more) = {suffixes[i] : i \in 1 .. n} \cup {r}
      <3>1. Range(more) = {more[i] : i \in 1 .. n + 1}
        BY <2>1 DEF Range
      <3>2. n + 1 \in 1 .. n + 1 /\ 1 .. n \subseteq 1 .. n + 1
        BY <1>1
      <3> QED
        BY <2>1, <2>4, <3>1, <3>2
    <2>6. Range(suffixes') = {suffixes'[i] : i \in 1 .. n + 1} /\ DOMAIN suffixes' = 1 .. n + 1
      BY <2>3 DEF Range
    <2>7. \A i \in 1 .. n + 1 : suffixes'[i] = r \/ \E j \in 1 .. n : suffixes'[i] = suffixes[j]
      BY <2>3, <2>5
    <2>8. suffixes' \in Seq(Rules)
      <3>1. \A i \in 1 .. n + 1 : suffixes'[i] \in Rules
        BY <1>1, <1>2, <2>7
      <3>2. suffixes' \in [1 .. n + 1 -> Rules]
        BY <2>3, <3>1
      <3>3. n + 1 \in Nat
        BY <1>1
      <3> QED
        BY <3>2, <3>3
    <2>9. \E i \in 1 .. n + 1 : suffixes'[i] = r
      BY <2>3, <2>5, <2>6
    <2>10. \A j \in 1 .. n : \E i \in 1 .. n + 1 : suffixes'[i] = suffixes[j]
      BY <2>3, <2>5, <2>6
    <2>11. \A i \in 1 .. n : suffixes[i].domain # d
      BY <1>1, <1>4
    <2>12. \A i \in 1 .. n + 1 :
              \/ suffixes'[i] = r
              \/ suffixes'[i].domain # d /\ \E j \in 1 .. n : suffixes'[i] = suffixes[j]
      BY <2>7, <2>11
    <2> QED
      BY <1>1, <1>2, <2>3, <2>6, <2>8, <2>9, <2>10, <2>12 DEF r
  <1> QED
    BY <1>3, <1>4

LEMMA RuleTypes ==
    ASSUME RulesMatch
    PROVE  \A i \in DOMAIN suffixes : suffixes[i].domain \in Domains /\ suffixes[i].site \in Sites
  <1>1. \A i \in DOMAIN suffixes : suffixes[i] \in Rules
    BY DEF RulesMatch
  <1> QED
    BY <1>1 DEF Rules

LEMMA AddKeeps ==
    ASSUME MapInv, Add
    PROVE  MapInv'
  <1> /\ added \in Seq(Entries) /\ RulesMatch /\ ExactMatch
    BY DEF MapInv
  <1>1. Len(added) < MaxAdds
    BY DEF Add
  <1>2. ASSUME NEW e \in Entries, added' = Append(added, e) PROVE Len(added') <= MaxAdds
    <2>1. Len(added') = Len(added) + 1 /\ Len(added) \in Nat
      BY <1>2
    <2> QED
      BY <1>1, <2>1, SiteMapOptions
  <1>3. ASSUME NEW site \in Sites, NEW d \in Domains, AddSuffix(d, site), UNCHANGED exact,
               added' = Append(added, [key |-> [domain |-> d], site |-> site])
        PROVE  MapInv'
    <2> DEFINE key == [domain |-> d]
               e == [key |-> key, site |-> site]
    <2>1. e \in Entries /\ e.key = key /\ e.site = site
      BY DEF Entries
    <2>2. PICK c \in Entries : c = e
      BY <2>1
    <2>3. /\ added' \in Seq(Entries) /\ Keys' = Keys \cup {key}
          /\ Given(key)' = site
          /\ \A k \in Keys \ {key} : Given(k)' = Given(k)
      <3>1. /\ added' \in Seq(Entries) /\ Keys' = Keys \cup {c.key}
            /\ Given(c.key)' = c.site
            /\ \A k \in Keys \ {c.key} : Given(k)' = Given(k)
        BY <1>3, <2>2, GivenMore
      <3> QED
        BY <2>1, <2>2, <3>1
    <2>4. Len(added') <= MaxAdds
      BY <1>2, <1>3, <2>1
    <2> HIDE DEF e
    <2>5. \A x \in Domains : x # d => [domain |-> x] # key
      BY KeysDiffer
    <2>6. ExactMatch'
      <3>1. key \notin Servers
        BY KeysDiffer
      <3> HIDE DEF key
      <3> QED
        <4>1. \A x \in DOMAIN exact : x \in Keys \ {key}
          BY <3>1 DEF ExactMatch
        <4>2. \A x \in DOMAIN exact : exact[x] = Given(x)'
          BY <2>3, <4>1 DEF ExactMatch
        <4>3. DOMAIN exact = Keys' \cap Servers
          BY <2>3, <3>1 DEF ExactMatch
        <4> QED
          BY <1>3, <4>2, <4>3 DEF ExactMatch
    <2>7. \A i \in DOMAIN suffixes : suffixes[i].domain \in Domains
      BY RuleTypes
    <2>8. ASSUME NEW i \in DOMAIN suffixes'
          PROVE  /\ [domain |-> suffixes'[i].domain] \in Keys'
                 /\ (suffixes[i].site = Given([domain |-> suffixes[i].domain]))'
      <3>1. CASE suffixes'[i] = [domain |-> d, site |-> site]
        <4>1. suffixes'[i].domain = d /\ suffixes'[i].site = site
          BY <3>1
        <4> QED
          BY <2>3, <4>1
      <3>2. CASE suffixes'[i].domain # d /\ \E j \in DOMAIN suffixes : suffixes'[i] = suffixes[j]
        <4>1. PICK j \in DOMAIN suffixes : suffixes'[i] = suffixes[j]
          BY <3>2
        <4>2. PICK x \in Domains : x = suffixes[j].domain
          BY <2>7
        <4>3. x # d /\ [domain |-> x] \in Keys \ {key} /\ suffixes[j].site = Given([domain |-> x])
          BY <2>5, <3>2, <4>1, <4>2 DEF RulesMatch
        <4>4. Given([domain |-> x])' = Given([domain |-> x])
          BY <2>3, <4>3
        <4> QED
          BY <2>3, <4>1, <4>2, <4>3, <4>4
      <3> QED
        BY <1>3, <3>1, <3>2, RulesAfter
    <2>9. ASSUME NEW x \in Domains, [domain |-> x] \in Keys'
          PROVE  \E i \in DOMAIN suffixes' : suffixes'[i].domain = x
      <3>1. CASE x = d
        BY <1>3, <3>1, RulesAfter
      <3>2. CASE x # d
        <4>1. [domain |-> x] \in Keys
          BY <2>3, <2>5, <2>9, <3>2
        <4>2. PICK j \in DOMAIN suffixes : suffixes[j].domain = x
          BY <4>1 DEF RulesMatch
        <4> QED
          BY <1>3, <4>2, RulesAfter
      <3> QED
        BY <3>1, <3>2
    <2>10. RulesMatch'
      <3>1. /\ suffixes' \in Seq(Rules)
            /\ \A i, j \in DOMAIN suffixes' :
                  i < j => ~IsSuffix(suffixes'[i].domain, suffixes'[j].domain)
        BY <1>3, RulesAfter
      <3> QED
        BY <2>8, <2>9, <3>1 DEF RulesMatch
    <2> QED
      BY <2>3, <2>4, <2>6, <2>10 DEF MapInv
  <1>4. ASSUME NEW site \in Sites, NEW k \in Servers, UNCHANGED suffixes,
               exact' = [x \in DOMAIN exact \cup {k} |-> IF x = k THEN site ELSE exact[x]],
               added' = Append(added, [key |-> k, site |-> site])
        PROVE  MapInv'
    <2> DEFINE e == [key |-> k, site |-> site]
    <2>1. e \in Entries /\ e.key = k /\ e.site = site
      BY DEF Entries
    <2>2. PICK c \in Entries : c = e
      BY <2>1
    <2>3. /\ added' \in Seq(Entries) /\ Keys' = Keys \cup {k}
          /\ Given(k)' = site
          /\ \A key \in Keys \ {k} : Given(key)' = Given(key)
      <3>1. /\ added' \in Seq(Entries) /\ Keys' = Keys \cup {c.key}
            /\ Given(c.key)' = c.site
            /\ \A key \in Keys \ {c.key} : Given(key)' = Given(key)
        BY <1>4, <2>2, GivenMore
      <3> QED
        BY <2>1, <2>2, <3>1
    <2>4. Len(added') <= MaxAdds
      BY <1>2, <1>4, <2>1
    <2> HIDE DEF e
    <2>5. \A x \in Domains : [domain |-> x] # k
      BY KeysDiffer
    <2>6. ExactMatch'
      <3>1. DOMAIN exact' = Keys' \cap Servers
        BY <1>4, <2>3 DEF ExactMatch
      <3>2. ASSUME NEW x \in DOMAIN exact' PROVE exact'[x] = Given(x)'
        <4>1. CASE x = k
          BY <1>4, <2>3, <4>1
        <4>2. CASE x # k
          <5>1. x \in DOMAIN exact /\ x \in Keys \ {k} /\ exact'[x] = exact[x]
            BY <1>4, <4>2 DEF ExactMatch
          <5> QED
            BY <2>3, <5>1 DEF ExactMatch
        <4> QED
          BY <4>1, <4>2
      <3> QED
        BY <3>1, <3>2 DEF ExactMatch
    <2>7. RulesMatch'
      <3>1. \A i \in DOMAIN suffixes : suffixes[i].domain \in Domains
        BY RuleTypes
      <3>2. ASSUME NEW i \in DOMAIN suffixes
            PROVE  /\ [domain |-> suffixes[i].domain] \in Keys'
                   /\ (suffixes[i].site = Given([domain |-> suffixes[i].domain]))'
        <4>1. PICK x \in Domains : x = suffixes[i].domain
          BY <3>1
        <4>2. [domain |-> x] \in Keys \ {k} /\ suffixes[i].site = Given([domain |-> x])
          BY <2>5, <4>1 DEF RulesMatch
        <4>3. Given([domain |-> x])' = Given([domain |-> x])
          BY <2>3, <4>2
        <4> QED
          BY <1>4, <2>3, <4>1, <4>2, <4>3
      <3>3. \A x \in Domains : [domain |-> x] \in Keys' => [domain |-> x] \in Keys
        BY <2>3, <2>5
      <3> QED
        BY <1>4, <3>2, <3>3 DEF RulesMatch
    <2> QED
      BY <2>3, <2>4, <2>6, <2>7 DEF MapInv
  <1> QED
    BY <1>3, <1>4 DEF Add

LEMMA LookupFound ==
    ASSUME MapInv
    PROVE  LookupOrder
  <1> SUFFICES ASSUME NEW s \in Servers
               PROVE  LET domains == {d \in Domains : [domain |-> d] \in Keys /\ Under(s.host, d)}
                          longest == CHOOSE d \in domains : \A e \in domains : Len(e) <= Len(d)
                      IN  Lookup(s) = IF s \in Keys THEN Given(s)
                                      ELSE IF HostnameOnly(s) \in Keys THEN Given(HostnameOnly(s))
                                      ELSE IF domains # {} THEN Given([domain |-> longest])
                                      ELSE NoSite
    BY DEF LookupOrder
  <1> DEFINE domains == {d \in Domains : [domain |-> d] \in Keys /\ Under(s.host, d)}
             longest == CHOOSE d \in domains : \A e \in domains : Len(e) <= Len(d)
             matching == {i \in DOMAIN suffixes : Under(s.host, suffixes[i].domain)}
             first == CHOOSE i \in matching : \A j \in matching : i <= j
  <1> RulesMatch /\ ExactMatch
    BY DEF MapInv
  <1>1. HostnameOnly(s) \in Servers /\ s.host \in Hosts
    BY SiteMapOptions DEF Servers, HostnameOnly
  <1>2. \A k \in Servers : (k \in Keys <=> k \in DOMAIN exact) /\ (k \in Keys => exact[k] = Given(k))
    BY DEF ExactMatch
  <1>3. domains = {} <=> matching = {}
    BY RuleTypes DEF RulesMatch
  <1>4. ASSUME matching # {}
        PROVE  suffixes[first].site = Given([domain |-> longest])
    <2>1. matching \in SUBSET Nat
      <3>1. DOMAIN suffixes \subseteq Nat
        BY DEF RulesMatch
      <3> QED
        BY <3>1
    <2>2. first \in matching /\ \A j \in matching : first <= j
      <3> HIDE DEF matching
      <3> QED
        BY <1>4, <2>1, LeastNumber
    <2> DEFINE d0 == suffixes[first].domain
    <2>3. d0 \in domains
      BY <2>2, RuleTypes DEF RulesMatch
    <2> HIDE DEF first
    <2>4. ASSUME NEW e \in domains PROVE Len(e) <= Len(d0)
      <3>1. PICK j \in DOMAIN suffixes : suffixes[j].domain = e
        BY DEF RulesMatch
      <3>2. j \in matching
        BY <3>1
      <3>3. first = j \/ first < j
        BY <2>1, <2>2, <3>2
      <3>4. Len(e) \in Nat /\ Len(d0) \in Nat
        BY <2>3, Labelled
      <3>5. CASE first < j
        <4>1. ~IsSuffix(d0, e)
          BY <2>2, <3>1, <3>5 DEF RulesMatch
        <4>2. ~(Len(d0) <= Len(e))
          BY <1>1, <2>3, <4>1, DomainsNest
        <4> QED
          BY <3>4, <4>2
      <3> QED
        BY <3>1, <3>3, <3>4, <3>5
    <2> HIDE DEF d0
    <2>5. longest \in domains /\ \A e \in domains : Len(e) <= Len(longest)
      <3> HIDE DEF domains
      <3> QED
        BY <2>3, <2>4
    <2>6. Len(longest) = Len(d0)
      <3>1. Len(longest) \in Nat /\ Len(d0) \in Nat
        BY <2>3, <2>5, Labelled
      <3>2. Len(longest) <= Len(d0) /\ Len(d0) <= Len(longest)
        BY <2>3, <2>4, <2>5
      <3> QED
        BY <3>1, <3>2
    <2>7. longest = d0
      <3> HIDE DEF longest
      <3> QED
        BY <1>1, <2>3, <2>5, <2>6, DomainsDiffer
    <2> HIDE DEF longest
    <2> QED
      BY <2>2, <2>7 DEF RulesMatch, d0
  <1>5. Lookup(s) = IF s \in DOMAIN exact THEN exact[s]
                    ELSE IF HostnameOnly(s) \in DOMAIN exact THEN exact[HostnameOnly(s)]
                    ELSE IF matching = {} THEN NoSite
                    ELSE suffixes[first].site
    BY DEF Lookup
  <1> HIDE DEF domains, longest, matching, first
  <1>6. Lookup(s) = IF s \in Keys THEN Given(s)
                    ELSE IF HostnameOnly(s) \in Keys THEN Given(HostnameOnly(s))
                    ELSE IF domains # {} THEN Given([domain |-> longest])
                    ELSE NoSite
    BY <1>1, <1>2, <1>3, <1>4, <1>5
  <1> QED
    BY <1>6 DEF domains, longest

-----------------------------------------------------------------------------
(* What a failure is. *)

FailureInv ==
    ~NoFailure =>
        /\ failure \in SessionResults /\ "words" \in failure.text
        /\ failure.timedOut => failure.err = 110 /\ failure.text = {"timeout", "words"}

LEMMA FailsInv ==
    ASSUME NEW status \in Nat, NEW err \in Nat, NEW text \in Texts, NEW timedOut \in BOOLEAN,
           "words" \in text, timedOut => err = 110 /\ text = {"timeout", "words"},
           Fails(status, err, text, timedOut)
    PROVE  FailureInv'
  <1>1. failure' = [status |-> status, err |-> err, text |-> text, timedOut |-> timedOut]
    BY DEF Fails
  <1>2. /\ failure'.status = status /\ failure'.err = err /\ failure'.text = text
        /\ failure'.timedOut = timedOut /\ failure' \in SessionResults
    BY <1>1 DEF SessionResults
  <1> QED
    BY <1>2 DEF FailureInv

LEMMA StepFailure ==
    ASSUME FailureInv, [AttributionNext]_allVars
    PROVE  FailureInv'
  <1>1. ASSUME UNCHANGED failure PROVE FailureInv'
    BY <1>1 DEF FailureInv, NoFailure
  <1>2. CASE OperationFails
    <2>1. PICK status \in Statuses, err \in Errs, text \in Said :
            Fails(status, err, text \cup {"words"}, FALSE)
      BY <1>2 DEF OperationFails
    <2>2. status \in Nat /\ err \in Nat /\ text \cup {"words"} \in Texts
      BY AttributionOptions DEF Texts, Phrases
    <2> QED
      BY <2>1, <2>2, FailsInv
  <1>3. CASE NothingFromXrdCl
    <2>1. {"words"} \in Texts
      BY DEF Texts, Phrases
    <2> QED
      BY <1>3, <2>1, FailsInv DEF NothingFromXrdCl
  <1>4. CASE WallTimeout
    <2>1. {"timeout", "words"} \in Texts
      BY DEF Texts, Phrases
    <2>2. PICK status \in Statuses \cup {0} : Fails(status, 110, {"timeout", "words"}, TRUE)
      BY <1>4 DEF WallTimeout
    <2>3. status \in Nat
      BY AttributionOptions
    <2> QED
      BY <2>1, <2>2, <2>3, FailsInv
  <1> QED
    BY <1>1, <1>2, <1>3, <1>4 DEF AttributionNext, LoadEntry, allVars

\* The rules one by one.
LEMMA RuleCases ==
    ASSUME NEW status, NEW err, NEW text, NEW rules, rules = ClassRules(status, err, text)
    PROVE  /\ DOMAIN rules = 1 .. 13
           /\ "words" \in text => rules[12][1]
           /\ \A n \in 1 .. 12 : rules[n][1] => rules[n][2] \in Classes \ {"none"}
           /\ rules[4][2] = "expired" /\ rules[5][2] = "timeout"
           /\ err = 110 /\ text = {"timeout", "words"} =>
                  /\ ~rules[1][1] /\ ~rules[2][1] /\ ~rules[3][1]
                  /\ rules[4][1] <=> status = 206
                  /\ rules[5][1]
  <1> DEFINE c1 == err = kXR(10) \/ "not authorized" \in text
             c2 == err = kXR(1) \/ "not found" \in text
             c3 == "redirect limit" \in text
             c4 == status = 206 \/ "operation expired" \in text
             c5 == status = 103 \/ err = 110 \/ "timeout" \in text
             c6 == text \cap {"certificate verify", "certificate alert"} # {}
             c7 == err \in {11, 104, 111} \/ "connect" \in text
             c8 == err \in ServerErrors
             c9 == "server" \in text
             c10 == ClassOfCode(status) # "none"
             c11 == text \cap {"no more replicas", "no servers"} # {}
             c12 == text # {} \/ err # 0 \/ status # 0
             c13 == TRUE
             t8 == ClassOfServerError(err)
             t10 == ClassOfCode(status)
             tuple == << <<c1, "auth">>,
                         <<c2, "not_found">>,
                         <<c3, "redirect_loop">>,
                         <<c4, "expired">>,
                         <<c5, "timeout">>,
                         <<c6, "trust">>,
                         <<c7, "connection">>,
                         <<c8, t8>>,
                         <<c9, "server_error">>,
                         <<c10, t10>>,
                         <<c11, "no_replicas">>,
                         <<c12, "unknown">>,
                         <<c13, "none">> >>
  <1>1. ClassRules(status, err, text) = tuple
    BY DEF ClassRules
  <1>2. /\ DOMAIN tuple = 1 .. 13
        /\ tuple[1] = <<c1, "auth">>
        /\ tuple[2] = <<c2, "not_found">>
        /\ tuple[3] = <<c3, "redirect_loop">>
        /\ tuple[4] = <<c4, "expired">>
        /\ tuple[5] = <<c5, "timeout">>
        /\ tuple[6] = <<c6, "trust">>
        /\ tuple[7] = <<c7, "connection">>
        /\ tuple[8] = <<c8, t8>>
        /\ tuple[9] = <<c9, "server_error">>
        /\ tuple[10] = <<c10, t10>>
        /\ tuple[11] = <<c11, "no_replicas">>
        /\ tuple[12] = <<c12, "unknown">>
        /\ tuple[13] = <<c13, "none">>
    <2> HIDE DEF c1, c2, c3, c4, c5, c6, c7, c8, c9, c10, c11, c12, c13, t8, t10
    <2> QED
      OBVIOUS
  <1> HIDE DEF tuple
  <1>3. /\ DOMAIN rules = 1 .. 13
        /\ (rules[1][1] <=> c1) /\ rules[1][2] = "auth"
        /\ (rules[2][1] <=> c2) /\ rules[2][2] = "not_found"
        /\ (rules[3][1] <=> c3) /\ rules[3][2] = "redirect_loop"
        /\ (rules[4][1] <=> c4) /\ rules[4][2] = "expired"
        /\ (rules[5][1] <=> c5) /\ rules[5][2] = "timeout"
        /\ (rules[6][1] <=> c6) /\ rules[6][2] = "trust"
        /\ (rules[7][1] <=> c7) /\ rules[7][2] = "connection"
        /\ (rules[8][1] <=> c8) /\ rules[8][2] = t8
        /\ (rules[9][1] <=> c9) /\ rules[9][2] = "server_error"
        /\ (rules[10][1] <=> c10) /\ rules[10][2] = t10
        /\ (rules[11][1] <=> c11) /\ rules[11][2] = "no_replicas"
        /\ (rules[12][1] <=> c12) /\ rules[12][2] = "unknown"
    <2> HIDE DEF c1, c2, c3, c4, c5, c6, c7, c8, c9, c10, c11, c12, c13, t8, t10
    <2> QED
      BY <1>1, <1>2
  <1>4. "words" \in text => c12
    OBVIOUS
  <1>5. c10 => t10 \in Classes \ {"none"}
    BY DEF ClassOfCode, Classes
  <1>6. t8 \in Classes \ {"none"}
    BY DEF ClassOfServerError, Classes
  <1>7. err = 110 /\ text = {"timeout", "words"} =>
            ~c1 /\ ~c2 /\ ~c3 /\ (c4 <=> status = 206) /\ c5
    BY DEF kXR
  <1> HIDE DEF c1, c2, c3, c4, c5, c6, c7, c8, c9, c10, c11, c12, c13, t8, t10
  <1>8. ASSUME NEW n \in 1 .. 12, rules[n][1] PROVE rules[n][2] \in Classes \ {"none"}
    <2>1. CASE n \in {1, 2, 3, 4, 5, 6, 7, 9, 11, 12}
      BY <1>3, <2>1 DEF Classes
    <2>2. CASE n = 8
      BY <1>3, <1>6, <2>2
    <2>3. CASE n = 10
      BY <1>3, <1>5, <1>8, <2>3
    <2> QED
      BY <2>1, <2>2, <2>3
  <1>9. "words" \in text => rules[12][1]
    BY <1>3, <1>4
  <1>10. err = 110 /\ text = {"timeout", "words"} =>
             /\ ~rules[1][1] /\ ~rules[2][1] /\ ~rules[3][1]
             /\ rules[4][1] <=> status = 206
             /\ rules[5][1]
    BY <1>3, <1>7
  <1> QED
    BY <1>3, <1>8, <1>9, <1>10

\* The class is that of the first rule that applies.
LEMMA FirstRule ==
    ASSUME NEW status, NEW err, NEW text, "words" \in text
    PROVE  \E n \in 1 .. 12 :
               /\ ClassRules(status, err, text)[n][1]
               /\ \A m \in 1 .. 12 : ClassRules(status, err, text)[m][1] => n <= m
               /\ ClassifyXRootDError(status, err, text) = ClassRules(status, err, text)[n][2]
  <1> DEFINE rules == ClassRules(status, err, text)
             applies == {n \in DOMAIN rules : rules[n][1]}
             first == CHOOSE n \in applies : \A m \in applies : n <= m
  <1>1. DOMAIN rules = 1 .. 13
    BY RuleCases
  <1>2. rules[12][1]
    BY RuleCases
  <1>3. ClassifyXRootDError(status, err, text) = rules[first][2]
    BY DEF ClassifyXRootDError
  <1> HIDE DEF rules
  <1>4. 12 \in applies /\ applies \in SUBSET Nat
    BY <1>1, <1>2
  <1>5. first \in applies /\ \A m \in applies : first <= m
    <2> HIDE DEF applies
    <2> QED
      BY <1>4, LeastNumber
  <1> HIDE DEF first
  <1>6. first \in 1 .. 12 /\ rules[first][1] /\ \A m \in 1 .. 12 : rules[m][1] => first <= m
    <2>1. first \in 1 .. 13 /\ first <= 12
      BY <1>1, <1>4, <1>5
    <2>2. \A m \in 1 .. 12 : m \in 1 .. 13
      OBVIOUS
    <2> QED
      BY <1>1, <1>5, <2>1, <2>2
  <1> QED
    BY <1>3, <1>6 DEF rules

\* A session that failed has a class, and its watchdog's Close is the only one
\* that a run and a probe may name differently.
LEMMA VerdictOf ==
    ASSUME FailureInv
    PROVE  SameVerdict
  <1> SUFFICES ASSUME ~NoFailure
               PROVE  /\ RunClass(failure) \in Classes \ {"none"}
                      /\ RunClass(failure) # FromSession(failure) =>
                            failure.timedOut /\ failure.status = 206 /\ RunClass(failure) = "expired"
    BY DEF SameVerdict
  <1> DEFINE rules == ClassRules(failure.status, failure.err, failure.text)
  <1>1. "words" \in failure.text /\ failure.timedOut \in BOOLEAN
    BY DEF FailureInv, SessionResults
  <1>2. PICK n \in 1 .. 12 :
            /\ rules[n][1] /\ \A m \in 1 .. 12 : rules[m][1] => n <= m
            /\ RunClass(failure) = rules[n][2]
    BY <1>1, FirstRule DEF RunClass
  <1>3. rules[n][2] \in Classes \ {"none"}
    BY <1>2, RuleCases
  <1>4. ASSUME failure.timedOut, RunClass(failure) # "timeout"
        PROVE  failure.status = 206 /\ RunClass(failure) = "expired"
    <2>1. failure.err = 110 /\ failure.text = {"timeout", "words"}
      BY <1>4 DEF FailureInv
    <2>2. /\ ~rules[1][1] /\ ~rules[2][1] /\ ~rules[3][1]
          /\ rules[4][1] <=> failure.status = 206
          /\ rules[5][1] /\ rules[4][2] = "expired" /\ rules[5][2] = "timeout"
      BY <2>1, RuleCases
    <2> HIDE DEF rules
    <2>3. n \in {4, 5}
      <3>1. n <= 5
        BY <1>2, <2>2
      <3>2. n \in {1, 2, 3, 4, 5}
        BY <3>1
      <3> QED
        BY <1>2, <2>2, <3>2
    <2>4. n = 4
      BY <1>2, <1>4, <2>2, <2>3
    <2> QED
      BY <1>2, <2>2, <2>4
  <1> QED
    BY <1>2, <1>3, <1>4 DEF FromSession, RunClass

AttrInv == MapInv /\ FailureInv

THEOREM AttributionInvariance == AttributionSpec => []AttrInv
  <1>1. AttributionInit => AttrInv
    BY InitMap DEF AttributionInit, AttrInv, FailureInv, NoFailure
  <1>2. AttrInv /\ [AttributionNext]_allVars => AttrInv'
    <2> SUFFICES ASSUME AttrInv, [AttributionNext]_allVars PROVE AttrInv'
      OBVIOUS
    <2>1. FailureInv'
      BY StepFailure DEF AttrInv
    <2>2. CASE Add
      BY <2>1, <2>2, AddKeeps DEF AttrInv
    <2>3. CASE UNCHANGED mapVars
      <3>1. exact' = exact /\ suffixes' = suffixes /\ added' = added
        BY <2>3 DEF mapVars
      <3>2. Keys' = Keys
        BY <3>1 DEF Keys
      <3>3. \A key : Given(key)' = Given(key)
        BY <3>1 DEF Given
      <3>4. RulesMatch'
        BY <3>1, <3>2, <3>3 DEF AttrInv, MapInv, RulesMatch
      <3>5. ExactMatch'
        BY <3>1, <3>2, <3>3 DEF AttrInv, MapInv, ExactMatch
      <3> QED
        BY <2>1, <3>1, <3>4, <3>5 DEF AttrInv, MapInv
    <2> QED
      BY <2>2, <2>3 DEF AttributionNext, LoadEntry, OperationFails, NothingFromXrdCl,
                        WallTimeout, Fails, allVars
  <1> QED
    BY <1>1, <1>2, PTL DEF AttributionSpec

\* Whatever entries the map is given, and in whatever order, a lookup finds the
\* exact entry, then the host's, then the longest domain's (SiteMap::Lookup).
THEOREM LookupsOrdered == AttributionSpec => []LookupOrder
  <1>1. AttrInv => LookupOrder
    BY LookupFound DEF AttrInv
  <1> QED
    BY <1>1, AttributionInvariance, PTL

\* Every failure has a class, the same in a run as in a probe but for one case,
\* whatever codes XrdCl gives and whatever its texts say.
THEOREM VerdictsAgree == AttributionSpec => []SameVerdict
  <1>1. AttrInv => SameVerdict
    BY VerdictOf DEF AttrInv
  <1> QED
    BY <1>1, AttributionInvariance, PTL

=============================================================================
