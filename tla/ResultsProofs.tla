---------------------------- MODULE ResultsProofs ----------------------------
(***************************************************************************)
(* What a launch leaves in the results directory, on the Pushgateway and on *)
(* the access point, and what a report makes of the first, for any number   *)
(* of snapshots, any tallies and any result.json of an earlier launch,      *)
(* wherever the launch crashes and whenever the report starts.              *)
(***************************************************************************)
EXTENDS Results, SequenceTheorems, TLAPS

Labels == {"sleep", "file", "push", "attrs", "prom", "stopped", "setup", "run", "stop",
           "result", "write", "idle", "delete", "zero", "remove", "exited", "crashed"}

Typed == TypeOK /\ pc \in [Threads -> Labels]

\* No snapshot is taken any more.
Frozen == pc["main"] \notin {"setup", "run", "stop"}

\* The run thread writes when the timer is joined; who has a request is at the
\* statement that sends it, and the last two send what they should.
Located ==
    /\ pc["timer"] # "stopped" => pc["main"] \in {"run", "stop"}
    /\ \A t \in Threads : call[t] # NoCall => pc[t] \in {"push", "idle", "delete"}
    /\ call["main"] # NoCall =>
        /\ pc["main"] = "idle" => call["main"].put # None /\ ~call["main"].put.rate
        /\ pc["main"] = "delete" => call["main"].put = None

\* Nothing has left a launch that has not set up its sinks.
Untouched ==
    pc["main"] = "setup" =>
        lastId = 0 /\ group = None /\ late = {} /\ attr = "unset" /\ prom = None

PastFile == {"result", "write", "push", "idle", "delete", "attrs", "prom", "zero",
             "remove", "exited"}

\* A snapshot is written before the next is taken.
Ordered ==
    /\ \A i, j \in DOMAIN jsonl : i < j => jsonl[i] < jsonl[j]
    /\ \A n \in DOMAIN jsonl : jsonl[n] <= lastId
    /\ \A t \in Threads : pc[t] = "file" =>
        mine[t].id = lastId /\ \A n \in DOMAIN jsonl : jsonl[n] < lastId
    /\ pc["main"] \in {"result", "write"} => mine["main"].id = lastId
    /\ pc["main"] \in PastFile /\ lastId > 0 /\ ~broken =>
        jsonl # <<>> /\ jsonl[Len(jsonl)] = lastId

\* A result.json is an earlier launch's or the final snapshot's, up to where it
\* was written.
Filed ==
    /\ result # None =>
        /\ Len(result) <= Blocks
        /\ \/ \A n \in DOMAIN result : result[n] = 0
           \/ Frozen /\ \A n \in DOMAIN result : result[n] = lastId
    /\ pc["main"] = "write" =>
        result # None /\ Len(result) < Blocks /\ \A n \in DOMAIN result : result[n] = lastId

\* The gateway shows a rate that reached it in time.
Stale == ~stray /\ group # None /\ group.rate

Retired ==
    /\ pc["main"] \in {"delete", "attrs", "prom", "zero", "remove", "exited"} =>
        (Stale => "idle" \in failed)
    /\ pc["main"] \in {"attrs", "prom", "zero", "remove", "exited"} =>
        (Stale => keep \/ "delete" \in failed)

Chirped ==
    /\ pc["main"] \in {"remove", "exited"} => (attr = "rate" => "zero" \in failed)
    /\ pc["main"] = "exited" => (prom # None => "remove" \in failed)

SinkInv == Typed /\ Located /\ Untouched /\ Ordered /\ Filed /\ Retired /\ Chirped

\* What the report relies on while the launch goes on.
Onward ==
    /\ Frozen => Frozen' /\ lastId' = lastId
    /\ Gone => Gone' /\ result' = result
    /\ result # None => result' # None

-----------------------------------------------------------------------------
(* The helpers. *)

\* The statement after each of the timer's and of the run thread's.
LEMMA AfterFacts ==
    /\ After("timer", "file") = "push" /\ After("timer", "push") = "attrs"
    /\ After("timer", "attrs") = "prom" /\ After("timer", "prom") = "sleep"
    /\ After("main", "file") = "result" /\ After("main", "result") = "push"
    /\ After("main", "write") = "push" /\ After("main", "push") = "idle"
    /\ After("main", "idle") = (IF keep THEN "attrs" ELSE "delete")
    /\ After("main", "delete") = "attrs" /\ After("main", "attrs") = "prom"
    /\ After("main", "prom") = "zero" /\ After("main", "zero") = "remove"
    /\ After("main", "remove") = "exited"
  BY DEF After

\* One thread moves, the other stays.
LEMMA GoFacts ==
    ASSUME Typed, NEW t \in Threads, NEW label \in Labels, Go(t, label)
    PROVE  /\ pc' \in [Threads -> Labels] /\ pc'[t] = label
           /\ t = "main" => pc'["main"] = label /\ pc'["timer"] = pc["timer"]
           /\ t = "timer" => pc'["timer"] = label /\ pc'["main"] = pc["main"]
  BY DEF Typed, Go, Threads

\* The labels of each thread.
LEMMA AtLabels ==
    ASSUME Typed
    PROVE  /\ pc["timer"] \in {"sleep", "file", "push", "attrs", "prom", "stopped"}
           /\ pc["main"] \in {"setup", "run", "stop", "file", "result", "write", "push",
                              "idle", "delete", "attrs", "prom", "zero", "remove", "exited",
                              "crashed"}
  BY DEF Typed, TypeOK

\* `None` is no snapshot and no file.
LEMMA NoneFacts ==
    /\ None \notin Snapshots /\ None \notin Seq(Nat)
    /\ \A s \in Snapshots : s.id \in Nat /\ s.rate \in BOOLEAN
    /\ NoCall \in Requests /\ NoCall.put \in Snapshots
  BY SinkOptions DEF Snapshots, Requests, NoCall

\* A launch starts with nothing of its own anywhere.
LEMMA InitSinks == Init => SinkInv
  <1> SUFFICES ASSUME Init PROVE SinkInv
    OBVIOUS
  <1> USE DEF Init
  <1>1. pc["main"] = "setup" /\ pc["timer"] = "stopped" /\ pc \in [Threads -> Labels]
    BY DEF Threads, Labels
  <1>2. result \in {None, <<>>, <<0>>, <<0, 0>>}
    BY SinkOptions
  <1>3. result # None => /\ result \in Seq(Nat) /\ Len(result) <= 2
                         /\ \A n \in DOMAIN result : result[n] = 0
    <2>1. CASE result = <<>>
      BY <2>1
    <2>2. CASE result = <<0>>
      BY <2>2
    <2>3. CASE result = <<0, 0>>
      BY <2>3
    <2> QED
      BY <1>2, <2>1, <2>2, <2>3
  <1>4. call \in [Threads -> Requests] /\ mine \in [Threads -> Snapshots]
        /\ \A t \in Threads : call[t] = NoCall
    <2>1. [id |-> 0, rate |-> FALSE] \in Snapshots
      BY DEF Snapshots
    <2>2. mine \in [Threads -> Snapshots]
      BY <2>1
    <2>3. NoCall \in Requests
      BY NoneFacts
    <2>4. call \in [Threads -> Requests] /\ \A t \in Threads : call[t] = NoCall
      BY <2>3
    <2> QED
      BY <2>2, <2>4
  <1>5. Typed
    <2>1. jsonl \in Seq(Nat) /\ result \in Seq(Nat) \cup {None}
      BY <1>3
    <2>2. lastId \in Nat /\ late \subseteq Requests /\ failed = {}
      OBVIOUS
    <2>3. {keep, broken, finished, stray} \subseteq BOOLEAN
      OBVIOUS
    <2>4. group = None /\ prom = None /\ attr = "unset"
      OBVIOUS
    <2> QED
      BY ONLY <1>1, <1>4, <2>1, <2>2, <2>3, <2>4 DEF Typed, TypeOK
  <1>6. Located /\ Untouched
    BY <1>1, <1>4 DEF Located, Untouched, Frozen, Threads
  <1>7. Ordered /\ Filed
    <2>1. DOMAIN jsonl = {} /\ \A t \in Threads : pc[t] # "file"
      BY DEF Threads
    <2> QED
      BY <1>1, <1>3, <2>1 DEF Ordered, Filed, PastFile, Blocks
  <1>8. Retired /\ Chirped
    BY <1>1 DEF Retired, Chirped
  <1> QED
    BY <1>5, <1>6, <1>7, <1>8 DEF SinkInv

-----------------------------------------------------------------------------
(* FileSink. *)

\* The sinks are there, or the launch is over with nothing written.
LEMMA SetupOK ==
    ASSUME SinkInv, Setup
    PROVE  SinkInv' /\ Onward
  <1>1. pc["main"] = "setup"
        /\ UNCHANGED <<keep, mine, lastId, failed, jsonl, broken, result, call, finished,
                       group, late, stray, attr, prom>>
    BY DEF Setup, fileVars, gatewayVars, chirpVars
  <1>2. /\ pc' \in [Threads -> Labels]
        /\ \/ pc'["main"] = "run" /\ pc'["timer"] = "sleep"
           \/ pc'["main"] = "exited" /\ pc'["timer"] = "stopped"
    <2>1. pc \in [Threads -> Labels] /\ pc["timer"] = "stopped"
      BY <1>1 DEF SinkInv, Typed, Located, Frozen
    <2>2. CASE pc' = [timer |-> "sleep", main |-> "run"]
      BY <2>2 DEF Threads, Labels
    <2>3. CASE pc' = [pc EXCEPT !["main"] = "exited"]
      BY <2>1, <2>3 DEF Threads, Labels
    <2> QED
      BY <2>2, <2>3 DEF Setup
  <1>3. \A t \in Threads : call[t] = NoCall
    <2>1. pc["timer"] = "stopped"
      BY <1>1 DEF SinkInv, Located, Frozen
    <2>2. \A t \in Threads : pc[t] \in {"stopped", "setup"}
      BY <1>1, <2>1 DEF Threads
    <2> QED
      BY <2>2 DEF SinkInv, Located
  <1>4. Typed'
    BY <1>1, <1>2 DEF SinkInv, Typed, TypeOK
  <1>5. Located' /\ Untouched'
    BY <1>1, <1>2, <1>3 DEF SinkInv, Located, Untouched, Frozen, Threads
  <1>6. Ordered' /\ Filed'
    BY <1>1, <1>2 DEF SinkInv, Ordered, Filed, Untouched, Frozen, Threads
  <1>7. Retired' /\ Chirped'
    BY <1>1, <1>2 DEF SinkInv, Retired, Chirped, Untouched, Stale
  <1>8. Onward
    BY <1>1 DEF Onward, Frozen, Gone
  <1> QED
    BY <1>4, <1>5, <1>6, <1>7, <1>8 DEF SinkInv

\* A line of metrics.jsonl is later than every one before it.
LEMMA WriteSnapshotOK ==
    ASSUME SinkInv, NEW t \in Threads, WriteSnapshot(t)
    PROVE  SinkInv' /\ Onward
  <1> PICK ok \in BOOLEAN :
          /\ pc[t] = "file"
          /\ broken' = (broken \/ ~ok)
          /\ jsonl' = IF broken' THEN jsonl ELSE Append(jsonl, mine[t].id)
          /\ Go(t, After(t, "file"))
          /\ UNCHANGED <<keep, mine, lastId, failed, result, call, finished, group, late,
                         stray, attr, prom>>
    BY DEF WriteSnapshot, gatewayVars, chirpVars
  <1>1. /\ t = "main" => After(t, "file") = "result"
        /\ t = "timer" => After(t, "file") = "push"
        /\ After(t, "file") \in Labels
    BY AfterFacts DEF Threads, Labels
  <1>2. /\ pc' \in [Threads -> Labels]
        /\ \/ t = "main" /\ pc["main"] = "file" /\ pc'["main"] = "result"
                         /\ pc'["timer"] = pc["timer"]
           \/ t = "timer" /\ pc["timer"] = "file" /\ pc'["timer"] = "push"
                          /\ pc'["main"] = pc["main"]
    BY <1>1, GoFacts DEF SinkInv, Threads
  <1>3. Typed /\ Located
    BY DEF SinkInv
  <1>4. mine[t].id \in Nat /\ jsonl \in Seq(Nat) /\ lastId \in Nat
    BY <1>3, NoneFacts DEF Typed, TypeOK
  <1>5. jsonl' \in Seq(Nat)
    BY <1>4
  <1>6. Typed'
    BY <1>2, <1>3, <1>5 DEF Typed, TypeOK
  <1>7. Located' /\ Untouched' /\ Onward
    BY <1>2, <1>3 DEF SinkInv, Located, Untouched, Frozen, Threads, Onward, Gone
  <1>8. Ordered'
    <2>1. mine[t].id = lastId /\ \A n \in DOMAIN jsonl : jsonl[n] < lastId
      BY DEF SinkInv, Ordered
    <2>2. \A u \in Threads : pc'[u] # "file"
      BY <1>2, <1>3 DEF Located, Frozen, Threads
    <2>3. CASE broken'
      BY <1>2, <2>1, <2>2, <2>3 DEF SinkInv, Ordered, Located, Frozen, PastFile
    <2>4. CASE ~broken'
      <3>1. jsonl' = Append(jsonl, lastId)
        BY <2>1, <2>4
      <3>2. /\ Len(jsonl') = Len(jsonl) + 1 /\ Len(jsonl) \in Nat
            /\ DOMAIN jsonl' = 1 .. Len(jsonl) + 1 /\ DOMAIN jsonl = 1 .. Len(jsonl)
            /\ jsonl'[Len(jsonl) + 1] = lastId
            /\ \A n \in 1 .. Len(jsonl) : jsonl'[n] = jsonl[n]
        BY <1>4, <3>1
      <3>3. \A n \in DOMAIN jsonl' : n = Len(jsonl) + 1 \/ n \in DOMAIN jsonl
        BY <3>2
      <3>4. \A i, j \in DOMAIN jsonl' : i < j => jsonl'[i] < jsonl'[j]
        <4> SUFFICES ASSUME NEW i \in DOMAIN jsonl', NEW j \in DOMAIN jsonl', i < j
                     PROVE  jsonl'[i] < jsonl'[j]
          OBVIOUS
        <4>1. i \in DOMAIN jsonl
          BY <3>2
        <4>2. CASE j \in DOMAIN jsonl
          BY <4>1, <4>2, <3>2 DEF SinkInv, Ordered
        <4>3. CASE j = Len(jsonl) + 1
          BY <4>1, <4>3, <3>2, <2>1
        <4> QED
          BY <4>2, <4>3, <3>3
      <3>5. \A n \in DOMAIN jsonl' : jsonl'[n] <= lastId
        BY <3>2, <3>3, <2>1, <1>4 DEF SinkInv, Ordered
      <3>6. jsonl' # <<>> /\ jsonl'[Len(jsonl')] = lastId
        BY <3>2
      <3>7. pc'["main"] \in {"result", "write"} => mine["main"].id = lastId
        BY <1>2, <2>1 DEF SinkInv, Ordered
      <3> QED
        BY <2>2, <3>4, <3>5, <3>6, <3>7 DEF Ordered
    <2> QED
      BY <2>3, <2>4
  <1>9. Filed' /\ Retired' /\ Chirped'
    BY <1>2, <1>3 DEF SinkInv, Filed, Retired, Chirped, Stale, Located, Frozen
  <1> QED
    BY <1>6, <1>7, <1>8, <1>9 DEF SinkInv

\* result.json is opened empty, or left as it was.
LEMMA OpenResultOK ==
    ASSUME SinkInv, OpenResult
    PROVE  SinkInv' /\ Onward
  <1> PICK ok \in BOOLEAN :
          /\ pc["main"] = "result"
          /\ result' = IF ok THEN <<>> ELSE result
          /\ Go("main", IF ok THEN "write" ELSE After("main", "result"))
          /\ UNCHANGED <<keep, mine, lastId, failed, jsonl, broken, call, finished, group,
                         late, stray, attr, prom>>
    BY DEF OpenResult, gatewayVars, chirpVars
  <1> DEFINE label == IF ok THEN "write" ELSE After("main", "result")
  <1>1. label \in {"write", "push"} /\ (label = "write" <=> ok) /\ label \in Labels
    BY AfterFacts DEF Labels
  <1>2. Typed /\ Located
    BY DEF SinkInv
  <1> HIDE DEF label
  <1>3. Go("main", label) /\ "main" \in Threads
    BY DEF label, Threads
  <1>4. /\ pc' \in [Threads -> Labels] /\ pc'["main"] = label
        /\ pc'["timer"] = pc["timer"]
    BY <1>1, <1>2, <1>3, GoFacts
  <1>5. pc["timer"] = "stopped"
    BY <1>2 DEF Located
  <1>6. result' \in Seq(Nat) \cup {None}
    BY <1>2 DEF Typed, TypeOK
  <1>7. Typed'
    BY <1>1, <1>2, <1>4, <1>5, <1>6 DEF Typed, TypeOK
  <1>8. Located' /\ Untouched'
    BY <1>1, <1>2, <1>4, <1>5 DEF Located, Untouched, Frozen, Threads
  <1>9. Ordered'
    BY <1>1, <1>4, <1>5 DEF SinkInv, Ordered, Threads, PastFile
  <1>10. Filed' /\ Onward
    <2>1. CASE ok
      <3>1. result' = <<>> /\ DOMAIN result' = {} /\ Len(result') = 0
            /\ result' \in Seq(Nat)
        BY <2>1
      <3>2. result' # None
        BY <3>1, NoneFacts
      <3> QED
        BY <3>1, <3>2, <1>1, <1>4 DEF SinkInv, Filed, Onward, Frozen, Gone, Blocks
    <2>2. CASE ~ok
      BY <2>2, <1>1, <1>4 DEF SinkInv, Filed, Onward, Frozen, Gone, Blocks
    <2> QED
      BY <2>1, <2>2
  <1>11. Retired' /\ Chirped'
    BY <1>1, <1>4 DEF SinkInv, Retired, Chirped, Stale
  <1> QED
    BY <1>7, <1>8, <1>9, <1>10, <1>11 DEF SinkInv

\* Every block written is of the final snapshot.
LEMMA WriteResultOK ==
    ASSUME SinkInv, WriteResult
    PROVE  SinkInv' /\ Onward
  <1> PICK ok \in BOOLEAN :
          /\ pc["main"] = "write"
          /\ result' = IF ok THEN Append(result, mine["main"].id) ELSE result
          /\ IF ok /\ Len(result') < Blocks THEN UNCHANGED pc
             ELSE Go("main", After("main", "write"))
          /\ UNCHANGED <<keep, mine, lastId, failed, jsonl, broken, call, finished, group,
                         late, stray, attr, prom>>
    BY DEF WriteResult, gatewayVars, chirpVars
  <1>1. After("main", "write") = "push" /\ "push" \in Labels /\ "main" \in Threads
    BY AfterFacts DEF Labels, Threads
  <1>2. Typed /\ Located
    BY DEF SinkInv
  <1>3. /\ pc' \in [Threads -> Labels] /\ pc'["timer"] = pc["timer"]
        /\ \/ pc'["main"] = "write" /\ Len(result') < Blocks
           \/ pc'["main"] = "push"
    <2>1. CASE ok /\ Len(result') < Blocks
      BY <2>1, <1>2 DEF Typed
    <2>2. CASE ~(ok /\ Len(result') < Blocks)
      <3>1. Go("main", "push")
        BY <2>2, <1>1
      <3> QED
        BY <3>1, <1>1, <1>2, GoFacts
    <2> QED
      BY <2>1, <2>2
  <1>4. pc["timer"] = "stopped" /\ lastId \in Nat
    BY <1>2 DEF Typed, TypeOK, Located
  <1>5. /\ result # None /\ Len(result) < Blocks
        /\ \A n \in DOMAIN result : result[n] = lastId
        /\ mine["main"].id = lastId
    BY DEF SinkInv, Filed, Ordered
  <1>6. result \in Seq(Nat)
    BY <1>2, <1>5 DEF Typed, TypeOK
  <1>7. /\ result' \in Seq(Nat) /\ Len(result') <= Blocks
        /\ \A n \in DOMAIN result' : result'[n] = lastId
    <2>1. CASE ok
      <3>1. result' = Append(result, lastId)
        BY <2>1, <1>5
      <3>2. /\ result' \in Seq(Nat) /\ Len(result') = Len(result) + 1
            /\ Len(result) \in Nat
            /\ DOMAIN result' = 1 .. Len(result) + 1 /\ DOMAIN result = 1 .. Len(result)
            /\ result'[Len(result) + 1] = lastId
            /\ \A n \in 1 .. Len(result) : result'[n] = result[n]
        BY <3>1, <1>4, <1>6
      <3>3. \A n \in DOMAIN result' : n = Len(result) + 1 \/ n \in DOMAIN result
        BY <3>2
      <3>4. \A n \in DOMAIN result' : result'[n] = lastId
        BY <3>2, <3>3, <1>5
      <3>5. Len(result') <= Blocks
        BY <3>2, <1>5 DEF Blocks
      <3> QED
        BY <3>2, <3>4, <3>5
    <2>2. CASE ~ok
      <3>1. Len(result) \in Nat /\ result' = result
        BY <2>2, <1>6
      <3> QED
        BY <3>1, <1>5, <1>6 DEF Blocks
    <2> QED
      BY <2>1, <2>2
  <1>8. result' # None
    BY <1>7, NoneFacts
  <1>9. Typed'
    BY <1>2, <1>3, <1>4, <1>7 DEF Typed, TypeOK
  <1>10. Located' /\ Untouched'
    BY <1>2, <1>3, <1>4 DEF Located, Untouched, Frozen, Threads
  <1>11. Ordered'
    BY <1>3, <1>4 DEF SinkInv, Ordered, Threads, PastFile
  <1>12. Filed'
    BY <1>3, <1>7, <1>8 DEF Filed, Frozen
  <1>13. Retired' /\ Chirped' /\ Onward
    BY <1>3, <1>5, <1>8 DEF SinkInv, Retired, Chirped, Stale, Onward, Frozen, Gone
  <1> QED
    BY <1>9, <1>10, <1>11, <1>12, <1>13 DEF SinkInv

-----------------------------------------------------------------------------
(* PushgatewaySink. *)

\* The request is what the statement sends.
LEMMA HttpBeginOK ==
    ASSUME SinkInv, NEW t \in Threads, HttpBegin(t)
    PROVE  SinkInv' /\ Onward
  <1>1. /\ pc[t] \in {"push", "idle", "delete"}
        /\ call' = [call EXCEPT ![t] = Body(t, pc[t])]
        /\ finished' \in BOOLEAN
        /\ UNCHANGED <<keep, pc, mine, lastId, failed, jsonl, broken, result, group, late,
                       stray, attr, prom>>
    BY DEF HttpBegin, fileVars, chirpVars
  <1>2. Typed /\ Located
    BY DEF SinkInv
  <1>3. mine[t] \in Snapshots /\ call \in [Threads -> Requests]
    BY <1>2 DEF Typed, TypeOK
  <1> DEFINE idle == [mine[t] EXCEPT !.rate = FALSE]
             body == Body(t, pc[t])
  <1>4. idle \in Snapshots /\ idle.rate = FALSE /\ idle # None
    BY <1>3, NoneFacts DEF Snapshots
  <1>5. /\ pc[t] = "push" => body = [put |-> mine[t]]
        /\ pc[t] = "idle" => body = [put |-> idle]
        /\ pc[t] = "delete" => body = [put |-> None]
    BY DEF Body
  <1> HIDE DEF idle, body
  <1>6. body \in Requests
    BY <1>1, <1>3, <1>4, <1>5 DEF Requests
  <1>7. /\ pc[t] = "idle" => body.put # None /\ ~body.put.rate
        /\ pc[t] = "delete" => body.put = None
    BY <1>4, <1>5
  <1>8. /\ call' \in [Threads -> Requests] /\ call'[t] = body
        /\ \A u \in Threads : u # t => call'[u] = call[u]
    BY <1>1, <1>3, <1>6 DEF body
  <1>9. Typed'
    BY <1>1, <1>2, <1>8 DEF Typed, TypeOK
  <1>10. Located'
    <2>1. t = "main" \/ call'["main"] = call["main"]
      BY <1>8 DEF Threads
    <2> QED
      BY <2>1, <1>1, <1>2, <1>7, <1>8 DEF Located
  <1>11. Untouched' /\ Ordered' /\ Filed' /\ Retired' /\ Chirped' /\ Onward
    BY <1>1 DEF SinkInv, Untouched, Ordered, Filed, Frozen, Retired, Stale, Chirped,
                Onward, Gone
  <1> QED
    BY <1>9, <1>10, <1>11 DEF SinkInv

\* Each of the last two requests either did what it should or failed.
LEMMA HttpEndOK ==
    ASSUME SinkInv, NEW t \in Threads, HttpEnd(t)
    PROVE  SinkInv' /\ Onward
  <1> PICK outcome \in {"applied", "refused", "timeout"} :
          /\ call[t] # NoCall
          /\ call' = [call EXCEPT ![t] = NoCall]
          /\ group' = (IF outcome = "applied" THEN call[t].put ELSE group)
          /\ stray' = (stray /\ outcome # "applied")
          /\ late' = (IF outcome = "timeout" THEN late \cup {call[t]} ELSE late)
          /\ failed' = (IF outcome = "applied" \/ t = "timer" THEN failed
                        ELSE failed \cup {pc[t]})
          /\ Go(t, After(t, pc[t]))
          /\ UNCHANGED <<keep, mine, lastId, finished, jsonl, broken, result, attr, prom>>
    BY DEF HttpEnd, fileVars, chirpVars
  <1>1. Typed /\ Located
    BY DEF SinkInv
  <1>2. pc[t] \in {"push", "idle", "delete"}
    BY <1>1 DEF Located
  <1> DEFINE label == After(t, pc[t])
  <1>3. /\ t = "timer" => pc["timer"] = "push" /\ label = "attrs"
        /\ t = "main" /\ pc["main"] = "push" => label = "idle"
        /\ t = "main" /\ pc["main"] = "idle" => label = (IF keep THEN "attrs" ELSE "delete")
        /\ t = "main" /\ pc["main"] = "delete" => label = "attrs"
    BY <1>1, <1>2, AfterFacts, AtLabels
  <1>4. t \in {"timer", "main"} /\ label \in Labels
    BY <1>2, <1>3 DEF Labels, Threads
  <1> HIDE DEF label
  <1>5. Go(t, label)
    BY DEF label
  <1>6. /\ pc' \in [Threads -> Labels]
        /\ t = "main" => pc'["main"] = label /\ pc'["timer"] = pc["timer"]
        /\ t = "timer" => pc'["timer"] = label /\ pc'["main"] = pc["main"]
    BY <1>1, <1>4, <1>5, GoFacts
  <1>7. \/ t = "timer" /\ pc'["timer"] = "attrs" /\ pc'["main"] = pc["main"]
                      /\ pc["main"] \in {"run", "stop"}
        \/ t = "main" /\ pc["main"] = "push" /\ pc'["main"] = "idle"
        \/ t = "main" /\ pc["main"] = "idle" /\ pc'["main"] \in {"attrs", "delete"}
                     /\ (pc'["main"] = "attrs" => keep)
        \/ t = "main" /\ pc["main"] = "delete" /\ pc'["main"] = "attrs"
    BY <1>1, <1>2, <1>3, <1>4, <1>6 DEF Located
  <1>8. t = "main" => pc["timer"] = "stopped" /\ pc'["timer"] = "stopped"
    BY <1>1, <1>2, <1>6 DEF Located
  <1>9. call[t] \in Requests /\ call[t].put \in Snapshots \cup {None}
    BY <1>1 DEF Typed, TypeOK, Requests
  <1>10. /\ call' \in [Threads -> Requests] /\ call'[t] = NoCall
         /\ \A u \in Threads : u # t => call'[u] = call[u]
    BY <1>1, NoneFacts DEF Typed, TypeOK
  <1>11. stray' \in BOOLEAN
    BY <1>1 DEF Typed, TypeOK
  <1>12. failed \subseteq failed'
         /\ failed' \subseteq {"push", "idle", "delete", "zero", "remove"}
    BY <1>1, <1>2 DEF Typed, TypeOK
  <1>13. late' \subseteq Requests /\ group' \in Snapshots \cup {None}
    BY <1>1, <1>9 DEF Typed, TypeOK
  <1>14. Typed'
    BY <1>1, <1>6, <1>7, <1>8, <1>10, <1>11, <1>12, <1>13 DEF Typed, TypeOK
  <1>15. Located' /\ Untouched' /\ Onward
    <2>1. Located'
      <3>1. \A u \in Threads : call'[u] # NoCall => u # t /\ call[u] # NoCall /\ pc'[u] = pc[u]
        BY <1>4, <1>6, <1>10 DEF Threads
      <3>2. pc'["timer"] # "stopped" => pc'["main"] \in {"run", "stop"}
        BY <1>7, <1>8
      <3> QED
        BY <3>1, <3>2, <1>1, <1>10 DEF Located, Threads
    <2> QED
      BY <2>1, <1>7 DEF Untouched, Onward, Frozen, Gone, SinkInv
  <1>16. Ordered' /\ Filed'
    <2>1. \A u \in Threads : pc'[u] = "file" => pc[u] = "file"
      BY <1>4, <1>6, <1>7 DEF Threads
    <2> QED
      BY <2>1, <1>7 DEF SinkInv, Ordered, Filed, Frozen, PastFile
  <1>17. Retired'
    <2>1. CASE t = "timer"
      BY <2>1, <1>7 DEF Retired
    <2>2. CASE pc["main"] = "push" /\ t = "main"
      BY <2>2, <1>7 DEF Retired
    <2>3. CASE pc["main"] = "idle" /\ t = "main"
      <3>1. Stale' => "idle" \in failed'
        BY <2>3, <1>1 DEF Located, Stale
      <3> QED
        BY <2>3, <3>1, <1>7 DEF Retired
    <2>4. CASE pc["main"] = "delete" /\ t = "main"
      <3>1. Stale' => outcome # "applied" /\ Stale
        BY <2>4, <1>1 DEF Located, Stale
      <3>2. Stale' => "delete" \in failed' /\ "idle" \in failed'
        BY <2>4, <3>1, <1>12 DEF SinkInv, Retired
      <3> QED
        BY <2>4, <3>2, <1>7 DEF Retired
    <2> QED
      BY <2>1, <2>2, <2>3, <2>4, <1>7
  <1>18. Chirped'
    BY <1>7 DEF SinkInv, Chirped
  <1> QED
    BY <1>14, <1>15, <1>16, <1>17, <1>18 DEF SinkInv

\* What a request that timed out leaves in the group is marked as such.
LEMMA AppliedLateOK ==
    ASSUME SinkInv, AppliedLate
    PROVE  SinkInv' /\ Onward
  <1> PICK r \in late :
          /\ group' = r.put /\ stray' = TRUE /\ late' = late \ {r}
          /\ UNCHANGED <<keep, pc, mine, lastId, failed, jsonl, broken, result, call,
                         finished, attr, prom>>
    BY DEF AppliedLate, fileVars, chirpVars
  <1>1. Typed /\ r.put \in Snapshots \cup {None}
    BY DEF SinkInv, Typed, TypeOK, Requests
  <1>2. Typed'
    BY <1>1 DEF Typed, TypeOK
  <1>3. pc["main"] # "setup"
    BY DEF SinkInv, Untouched
  <1>4. Untouched' /\ Retired'
    BY <1>3 DEF Untouched, Retired, Stale
  <1>5. Located' /\ Ordered' /\ Filed' /\ Chirped' /\ Onward
    BY DEF SinkInv, Located, Ordered, Filed, Chirped, Onward, Frozen, Gone
  <1> QED
    BY <1>2, <1>4, <1>5 DEF SinkInv

-----------------------------------------------------------------------------
(* ChirpSink. *)

\* A thread moves on past a statement that changes only what chirp has set.
LEMMA ChirpStep ==
    ASSUME SinkInv, NEW t \in Threads, NEW from, NEW to,
           pc[t] = from, Go(t, to), to = After(t, from),
           from \in {"attrs", "prom"} \/ (t = "main" /\ from \in {"zero", "remove"}),
           UNCHANGED <<keep, mine, lastId, jsonl, broken, result, call, finished, group,
                       late, stray>>,
           failed \subseteq failed',
           failed' \subseteq {"push", "idle", "delete", "zero", "remove"},
           attr' \in {"unset", "rate", "zero"},
           prom' \in Snapshots \cup {None}
    PROVE  /\ Typed' /\ Located' /\ Untouched' /\ Ordered' /\ Filed' /\ Retired' /\ Onward
           /\ \/ t = "timer" /\ pc'["main"] \in {"run", "stop"}
              \/ t = "main" /\ pc'["main"] = to
  <1>1. Typed /\ Located
    BY DEF SinkInv
  <1>2. /\ t \in {"timer", "main"} /\ to \in Labels
        /\ t = "timer" => \/ from = "attrs" /\ to = "prom"
                          \/ from = "prom" /\ to = "sleep"
        /\ t = "main" => \/ from = "attrs" /\ to = "prom"
                         \/ from = "prom" /\ to = "zero"
                         \/ from = "zero" /\ to = "remove"
                         \/ from = "remove" /\ to = "exited"
    BY AfterFacts DEF Threads, Labels
  <1>3. /\ pc' \in [Threads -> Labels]
        /\ t = "main" => pc'["main"] = to /\ pc'["timer"] = pc["timer"]
        /\ t = "timer" => pc'["timer"] = to /\ pc'["main"] = pc["main"]
    BY <1>1, <1>2, GoFacts
  <1>4. /\ t = "timer" => pc["main"] \in {"run", "stop"}
        /\ t = "main" => pc["timer"] = "stopped"
    BY <1>1, <1>2 DEF Located
  <1>5. call[t] = NoCall
    BY <1>1, <1>2 DEF Located
  <1>6. Typed'
    BY <1>1, <1>2, <1>3, <1>4 DEF Typed, TypeOK
  <1>7. Located'
    <2>1. \A u \in Threads : call[u] # NoCall => u # t /\ pc'[u] = pc[u]
      BY <1>2, <1>3, <1>5 DEF Threads
    <2>2. pc'["timer"] # "stopped" => pc'["main"] \in {"run", "stop"}
      BY <1>2, <1>3, <1>4
    <2> QED
      BY <2>1, <2>2, <1>1 DEF Located, Threads
  <1>8. Untouched' /\ Onward
    BY <1>2, <1>3, <1>4 DEF Untouched, Onward, Frozen, Gone, SinkInv
  <1>9. Ordered' /\ Filed'
    <2>1. \A u \in Threads : pc'[u] = "file" => pc[u] = "file"
      BY <1>2, <1>3 DEF Threads
    <2> QED
      BY <2>1, <1>2, <1>3, <1>4 DEF SinkInv, Ordered, Filed, Frozen, PastFile
  <1>10. Retired'
    BY <1>2, <1>3, <1>4 DEF SinkInv, Retired, Stale
  <1> QED
    BY <1>2, <1>3, <1>4, <1>6, <1>7, <1>8, <1>9, <1>10

\* The rate is shown only by a thread that does not retire it yet.
LEMMA SetRateOK ==
    ASSUME SinkInv, NEW t \in Threads, SetAttr(t, "attrs", "rate")
    PROVE  SinkInv' /\ Onward
  <1>1. /\ pc[t] = "attrs" /\ Go(t, After(t, "attrs"))
        /\ attr' \in {attr, "rate"} /\ failed' = failed
        /\ UNCHANGED <<keep, mine, lastId, jsonl, broken, result, call, finished, group,
                       late, stray, prom>>
    BY DEF SetAttr, fileVars, gatewayVars
  <1>2. /\ failed' \subseteq {"push", "idle", "delete", "zero", "remove"}
        /\ attr' \in {"unset", "rate", "zero"} /\ prom' \in Snapshots \cup {None}
    BY <1>1 DEF SinkInv, Typed, TypeOK
  <1>3. /\ Typed' /\ Located' /\ Untouched' /\ Ordered' /\ Filed' /\ Retired' /\ Onward
        /\ \/ t = "timer" /\ pc'["main"] \in {"run", "stop"}
           \/ t = "main" /\ pc'["main"] = After(t, "attrs")
    BY <1>1, <1>2, ChirpStep
  <1>4. Chirped'
    BY <1>3, AfterFacts DEF Chirped
  <1> QED
    BY <1>3, <1>4 DEF SinkInv

\* It is retired, or the last attempt failed.
LEMMA SetZeroOK ==
    ASSUME SinkInv, SetAttr("main", "zero", "zero")
    PROVE  SinkInv' /\ Onward
  <1>1. /\ pc["main"] = "zero" /\ Go("main", After("main", "zero"))
        /\ \/ attr' = "zero" /\ failed' = failed
           \/ attr' = attr /\ failed' = failed \cup {"zero"}
        /\ UNCHANGED <<keep, mine, lastId, jsonl, broken, result, call, finished, group,
                       late, stray, prom>>
    BY DEF SetAttr, fileVars, gatewayVars
  <1>2. /\ failed' \subseteq {"push", "idle", "delete", "zero", "remove"}
        /\ failed \subseteq failed'
        /\ attr' \in {"unset", "rate", "zero"} /\ prom' \in Snapshots \cup {None}
    BY <1>1 DEF SinkInv, Typed, TypeOK
  <1>3. "main" \in Threads
    BY DEF Threads
  <1>4. /\ Typed' /\ Located' /\ Untouched' /\ Ordered' /\ Filed' /\ Retired' /\ Onward
        /\ pc'["main"] = After("main", "zero")
    BY <1>1, <1>2, <1>3, ChirpStep
  <1>5. Chirped'
    BY <1>1, <1>4, AfterFacts DEF Chirped
  <1> QED
    BY <1>4, <1>5 DEF SinkInv

\* The .prom file is pushed before the statement that removes it.
LEMMA PushPromFileOK ==
    ASSUME SinkInv, NEW t \in Threads, PushPromFile(t)
    PROVE  SinkInv' /\ Onward
  <1>1. /\ pc[t] = "prom" /\ Go(t, After(t, "prom"))
        /\ prom' \in {prom, mine[t]} /\ failed' = failed
        /\ UNCHANGED <<keep, mine, lastId, jsonl, broken, result, call, finished, group,
                       late, stray, attr>>
    BY DEF PushPromFile, fileVars, gatewayVars
  <1>2. /\ failed' \subseteq {"push", "idle", "delete", "zero", "remove"}
        /\ attr' \in {"unset", "rate", "zero"} /\ prom' \in Snapshots \cup {None}
    BY <1>1 DEF SinkInv, Typed, TypeOK
  <1>3. /\ Typed' /\ Located' /\ Untouched' /\ Ordered' /\ Filed' /\ Retired' /\ Onward
        /\ \/ t = "timer" /\ pc'["main"] \in {"run", "stop"}
           \/ t = "main" /\ pc'["main"] = After(t, "prom")
    BY <1>1, <1>2, ChirpStep
  <1>4. Chirped'
    BY <1>3, AfterFacts DEF Chirped
  <1> QED
    BY <1>3, <1>4 DEF SinkInv

\* It is removed, or that failed, and the process exits.
LEMMA RemoveFileOK ==
    ASSUME SinkInv, RemoveFile
    PROVE  SinkInv' /\ Onward
  <1>1. /\ pc["main"] = "remove" /\ Go("main", After("main", "remove"))
        /\ \/ prom' = None /\ failed' = failed
           \/ prom' = prom /\ failed' = failed \cup {"remove"}
        /\ UNCHANGED <<keep, mine, lastId, jsonl, broken, result, call, finished, group,
                       late, stray, attr>>
    BY DEF RemoveFile, fileVars, gatewayVars
  <1>2. /\ failed' \subseteq {"push", "idle", "delete", "zero", "remove"}
        /\ failed \subseteq failed'
        /\ attr' \in {"unset", "rate", "zero"} /\ prom' \in Snapshots \cup {None}
    BY <1>1 DEF SinkInv, Typed, TypeOK
  <1>3. "main" \in Threads
    BY DEF Threads
  <1>4. /\ Typed' /\ Located' /\ Untouched' /\ Ordered' /\ Filed' /\ Retired' /\ Onward
        /\ pc'["main"] = After("main", "remove")
    BY <1>1, <1>2, <1>3, ChirpStep
  <1>5. Chirped'
    <2>1. attr' = "rate" => "zero" \in failed'
      BY <1>1, <1>2 DEF SinkInv, Chirped
    <2> QED
      BY <2>1, <1>1, <1>4, AfterFacts DEF Chirped
  <1> QED
    BY <1>4, <1>5 DEF SinkInv

-----------------------------------------------------------------------------
(* The two threads. *)

\* A snapshot is the latest one; it shows a rate.
LEMMA SnapshotFacts ==
    ASSUME Typed, NEW t \in Threads, Snapshot(t)
    PROVE  /\ lastId' = lastId + 1 /\ lastId' \in Nat /\ lastId \in Nat
           /\ mine' \in [Threads -> Snapshots] /\ mine'[t].id = lastId'
           /\ \A u \in Threads : u # t => mine'[u] = mine[u]
  <1>1. lastId \in Nat /\ mine \in [Threads -> Snapshots]
    BY DEF Typed, TypeOK
  <1>2. lastId + 1 \in Nat
    BY <1>1
  <1>3. [id |-> lastId + 1, rate |-> TRUE] \in Snapshots
    BY <1>2 DEF Snapshots
  <1> QED
    BY <1>1, <1>2, <1>3 DEF Snapshot

\* The timer takes a snapshot when it has written the last one.
LEMMA TickOK ==
    ASSUME SinkInv, Tick
    PROVE  SinkInv' /\ Onward
  <1>1. /\ pc["timer"] = "sleep" /\ Snapshot("timer") /\ Go("timer", "file")
        /\ UNCHANGED <<keep, failed, jsonl, broken, result, call, finished, group, late,
                       stray, attr, prom>>
    BY DEF Tick, fileVars, gatewayVars, chirpVars
  <1>2. Typed /\ Located
    BY DEF SinkInv
  <1>3. "timer" \in Threads /\ "file" \in Labels
    BY DEF Threads, Labels
  <1>4. /\ lastId' = lastId + 1 /\ lastId' \in Nat /\ lastId \in Nat
        /\ mine' \in [Threads -> Snapshots] /\ mine'["timer"].id = lastId'
    BY <1>1, <1>2, <1>3, SnapshotFacts
  <1>5. /\ pc' \in [Threads -> Labels] /\ pc'["timer"] = "file"
        /\ pc'["main"] = pc["main"]
    BY <1>1, <1>2, <1>3, GoFacts
  <1>6. pc["main"] \in {"run", "stop"}
    BY <1>1, <1>2 DEF Located
  <1>7. call["timer"] = NoCall
    BY <1>1, <1>2, <1>3 DEF Located
  <1>8. Typed'
    BY <1>1, <1>2, <1>4, <1>5 DEF Typed, TypeOK
  <1>9. Located'
    BY <1>1, <1>2, <1>5, <1>6, <1>7 DEF Located, Threads
  <1>10. Untouched' /\ Onward /\ Retired' /\ Chirped' /\ Filed'
    BY <1>1, <1>5, <1>6 DEF SinkInv, Untouched, Onward, Frozen, Gone, Retired, Chirped,
                           Filed, Stale
  <1>11. Ordered'
    <2>1. \A n \in DOMAIN jsonl : jsonl[n] \in Nat /\ jsonl[n] <= lastId
      BY <1>2 DEF SinkInv, Ordered, Typed, TypeOK
    <2>2. \A n \in DOMAIN jsonl : jsonl[n] < lastId' /\ jsonl[n] <= lastId'
      BY <2>1, <1>4
    <2> QED
      BY <2>2, <1>1, <1>4, <1>5, <1>6 DEF SinkInv, Ordered, Threads, PastFile
  <1> QED
    BY <1>8, <1>9, <1>10, <1>11 DEF SinkInv

\* The timer goes on until it is joined.
LEMMA StopOK ==
    ASSUME SinkInv, Stop
    PROVE  SinkInv' /\ Onward
  <1>1. /\ pc["main"] = "run" /\ Go("main", "stop")
        /\ UNCHANGED <<keep, mine, lastId, failed, jsonl, broken, result, call, finished,
                       group, late, stray, attr, prom>>
    BY DEF Stop, fileVars, gatewayVars, chirpVars
  <1>2. Typed /\ Located /\ "main" \in Threads /\ "stop" \in Labels
    BY DEF SinkInv, Threads, Labels
  <1>3. /\ pc' \in [Threads -> Labels] /\ pc'["main"] = "stop"
        /\ pc'["timer"] = pc["timer"]
    BY <1>1, <1>2, GoFacts
  <1>4. Typed'
    BY <1>1, <1>2, <1>3 DEF Typed, TypeOK
  <1>5. Located' /\ Untouched' /\ Ordered'
    BY <1>1, <1>2, <1>3 DEF SinkInv, Located, Untouched, Ordered, Threads, PastFile
  <1>6. Filed' /\ Retired' /\ Chirped' /\ Onward
    BY <1>1, <1>3 DEF SinkInv, Filed, Retired, Stale, Chirped, Onward, Frozen, Gone
  <1> QED
    BY <1>4, <1>5, <1>6 DEF SinkInv

\* The final snapshot is taken when the timer is idle.
LEMMA JoinTimerOK ==
    ASSUME SinkInv, JoinTimer
    PROVE  SinkInv' /\ Onward
  <1>1. /\ pc["main"] = "stop" /\ pc["timer"] = "sleep" /\ Snapshot("main")
        /\ pc' = [timer |-> "stopped", main |-> "file"]
        /\ UNCHANGED <<keep, failed, jsonl, broken, result, call, finished, group, late,
                       stray, attr, prom>>
    BY DEF JoinTimer, fileVars, gatewayVars, chirpVars
  <1>2. Typed /\ Located /\ "main" \in Threads
    BY DEF SinkInv, Threads
  <1>3. /\ lastId' = lastId + 1 /\ lastId' \in Nat /\ lastId \in Nat
        /\ mine' \in [Threads -> Snapshots] /\ mine'["main"].id = lastId'
    BY <1>1, <1>2, SnapshotFacts
  <1>4. /\ pc' \in [Threads -> Labels] /\ pc'["timer"] = "stopped"
        /\ pc'["main"] = "file"
    BY <1>1 DEF Threads, Labels
  <1>5. \A u \in Threads : call[u] = NoCall
    <2>1. \A u \in Threads : pc[u] \in {"sleep", "stop"}
      BY <1>1 DEF Threads
    <2> QED
      BY <2>1, <1>2 DEF Located
  <1>6. Typed'
    BY <1>1, <1>2, <1>3, <1>4 DEF Typed, TypeOK
  <1>7. Located'
    BY <1>1, <1>4, <1>5 DEF Located, Threads
  <1>8. Untouched' /\ Onward /\ Retired' /\ Chirped' /\ Filed'
    BY <1>1, <1>4 DEF SinkInv, Untouched, Onward, Frozen, Gone, Retired, Chirped,
                      Filed, Stale
  <1>9. Ordered'
    <2>1. \A n \in DOMAIN jsonl : jsonl[n] \in Nat /\ jsonl[n] <= lastId
      BY <1>2 DEF SinkInv, Ordered, Typed, TypeOK
    <2>2. \A n \in DOMAIN jsonl : jsonl[n] < lastId' /\ jsonl[n] <= lastId'
      BY <2>1, <1>3
    <2> QED
      BY <2>2, <1>1, <1>3, <1>4 DEF SinkInv, Ordered, Threads, PastFile
  <1> QED
    BY <1>6, <1>7, <1>8, <1>9 DEF SinkInv

\* Every step of a launch that does not crash.
LEMMA WorkOK ==
    ASSUME SinkInv, Next
    PROVE  SinkInv' /\ Onward
  <1>1. CASE Setup
    BY <1>1, SetupOK
  <1>2. CASE Tick \/ Stop \/ JoinTimer \/ OpenResult \/ WriteResult \/ AppliedLate \/ RemoveFile
    BY <1>2, TickOK, StopOK, JoinTimerOK, OpenResultOK, WriteResultOK, AppliedLateOK,
       RemoveFileOK
  <1>3. CASE SetAttr("main", "zero", "zero")
    BY <1>3, SetZeroOK
  <1>4. ASSUME NEW t \in Threads,
               \/ WriteSnapshot(t) \/ HttpBegin(t) \/ HttpEnd(t)
               \/ SetAttr(t, "attrs", "rate") \/ PushPromFile(t)
        PROVE  SinkInv' /\ Onward
    BY <1>4, WriteSnapshotOK, HttpBeginOK, HttpEndOK, SetRateOK, PushPromFileOK
  <1> QED
    BY <1>1, <1>2, <1>3, <1>4 DEF Next, Work

\* A crash leaves the files and the gateway as they are.
LEMMA CrashOK ==
    ASSUME SinkInv, Crash
    PROVE  SinkInv' /\ Onward
  <1>1. /\ ~Gone /\ pc' = [timer |-> "stopped", main |-> "crashed"]
        /\ mine' = [t \in Threads |-> NoCall.put]
        /\ call' = [t \in Threads |-> NoCall]
        /\ late' = late \cup {call[t] : t \in {u \in Threads : call[u] # NoCall}}
        /\ failed' = {} /\ finished' = FALSE /\ broken' = FALSE
        /\ UNCHANGED <<keep, lastId, jsonl, result, group, stray, attr, prom>>
    BY DEF Crash, chirpVars
  <1>2. Typed
    BY DEF SinkInv
  <1>3. /\ pc' \in [Threads -> Labels] /\ pc'["timer"] = "stopped"
        /\ pc'["main"] = "crashed"
    BY <1>1 DEF Threads, Labels
  <1>4. call' \in [Threads -> Requests] /\ mine' \in [Threads -> Snapshots]
        /\ \A t \in Threads : call'[t] = NoCall
    BY <1>1, NoneFacts
  <1>5. late' \subseteq Requests
    BY <1>1, <1>2 DEF Typed, TypeOK
  <1>6. Typed'
    BY <1>1, <1>2, <1>3, <1>4, <1>5 DEF Typed, TypeOK
  <1>7. Located' /\ Untouched' /\ Retired' /\ Chirped'
    BY <1>3, <1>4 DEF Located, Untouched, Retired, Chirped, Threads
  <1>8. Ordered' /\ Filed' /\ Onward
    BY <1>1, <1>3 DEF SinkInv, Ordered, Filed, Onward, Frozen, Gone, Threads, PastFile
  <1> QED
    BY <1>6, <1>7, <1>8 DEF SinkInv

-----------------------------------------------------------------------------
(* The report. *)

Reports == [at : {"start", "open", "read", "done"}, seen : Seq(Nat), code : 0 .. 2,
            late : BOOLEAN]

\* A block read is an earlier launch's or of the final snapshot.
SeenOnce ==
    /\ Len(report.seen) <= Blocks
    /\ \A n \in DOMAIN report.seen :
           report.seen[n] = 0 \/ (Frozen /\ report.seen[n] = lastId)

\* Nobody replaces what a report reads that started after the launch was over.
SeenLate ==
    report.late =>
        /\ Gone
        /\ result # None =>
            /\ Len(report.seen) <= Len(result)
            /\ \A n \in DOMAIN report.seen : report.seen[n] = result[n]

\* A report that accepts what it read has read all of it.
Accepted ==
    /\ report.at = "start" => report.seen = <<>>
    /\ report.at \in {"open", "read"} => result # None
    /\ Reported =>
        /\ result # None /\ Len(report.seen) >= Blocks
        /\ \E n \in DOMAIN report.seen : report.code = ReportCode(report.seen[n])

ReportInv == report \in Reports /\ SeenOnce /\ SeenLate /\ Accepted

Inv == SinkInv /\ ReportInv

\* A report has read nothing to begin with.
LEMMA InitReport == ResultsInit => Inv
  <1> SUFFICES ASSUME ResultsInit PROVE Inv
    OBVIOUS
  <1>1. SinkInv
    BY InitSinks DEF ResultsInit
  <1>2. report = [at |-> "start", seen |-> <<>>, code |-> 0, late |-> FALSE]
    BY DEF ResultsInit
  <1>3. <<>> \in Seq(Nat) /\ 0 \in 0 .. 2
    OBVIOUS
  <1>4. report \in Reports
    BY <1>2, <1>3 DEF Reports
  <1>5. report.seen = <<>> /\ report.at = "start" /\ report.late = FALSE
    BY <1>2
  <1>6. Len(report.seen) = 0 /\ DOMAIN report.seen = {}
    BY <1>5
  <1> QED
    BY <1>1, <1>4, <1>5, <1>6 DEF Inv, ReportInv, SeenOnce, SeenLate, Accepted, Reported,
                                 Blocks

\* What a launch does to a report that does not move.
LEMMA LaunchMoves ==
    ASSUME Inv, SinkInv', Onward, UNCHANGED report
    PROVE  Inv'
  <1>1. report' \in Reports /\ SeenOnce'
    BY DEF Inv, ReportInv, SeenOnce, Onward
  <1>2. SeenLate'
    BY DEF Inv, ReportInv, SeenLate, Onward
  <1>3. Accepted'
    BY DEF Inv, ReportInv, Accepted, Onward, Reported
  <1> QED
    BY <1>1, <1>2, <1>3 DEF Inv, ReportInv

\* The launch does not move with the report.
LEMMA SinksStay ==
    ASSUME SinkInv, UNCHANGED vars
    PROVE  /\ SinkInv' /\ (Frozen' <=> Frozen) /\ (Gone' <=> Gone)
           /\ result' = result /\ lastId' = lastId
  <1>1. UNCHANGED <<keep, pc, mine, lastId, failed, jsonl, broken, result, call, finished,
                    group, late, stray, attr, prom>>
    BY DEF vars, fileVars, gatewayVars, chirpVars
  <1>2. Typed' /\ Located' /\ Untouched'
    BY <1>1 DEF SinkInv, Typed, TypeOK, Located, Untouched, Frozen
  <1>3. Ordered' /\ Filed' /\ Retired' /\ Chirped'
    BY <1>1 DEF SinkInv, Ordered, Filed, Frozen, Retired, Stale, Chirped
  <1> QED
    BY <1>1, <1>2, <1>3 DEF SinkInv, Frozen, Gone

\* The report finds the file, or gives up.
LEMMA DiscoverOK ==
    ASSUME Inv, DiscoverResultFiles
    PROVE  Inv'
  <1>1. /\ report.at = "start" /\ UNCHANGED vars
        /\ \/ report' = [report EXCEPT !.at = "open", !.late = Gone] /\ result # None
           \/ report' = [report EXCEPT !.at = "done", !.code = 2, !.late = Gone]
    BY DEF DiscoverResultFiles, Fail
  <1>2. report \in Reports /\ report.seen = <<>> /\ Gone \in BOOLEAN
    BY <1>1 DEF Inv, ReportInv, Accepted, Gone
  <1>3. /\ report' \in Reports /\ report'.seen = <<>> /\ report'.late = Gone
        /\ \/ report'.at = "open" /\ result # None
           \/ report'.at = "done" /\ report'.code = 2
    <2> DEFINE gone == Gone
    <2> HIDE DEF gone
    <2>1. gone \in BOOLEAN
      BY <1>2 DEF gone
    <2>2. CASE report' = [report EXCEPT !.at = "open", !.late = gone] /\ result # None
      BY <1>2, <2>1, <2>2 DEF Reports, gone
    <2>3. CASE report' = [report EXCEPT !.at = "done", !.code = 2, !.late = gone]
      <3>1. 2 \in 0 .. 2
        OBVIOUS
      <3> QED
        BY <1>2, <2>1, <2>3, <3>1 DEF Reports, gone
    <2> QED
      BY <1>1, <2>2, <2>3 DEF gone
  <1>4. /\ SinkInv' /\ (Gone' <=> Gone) /\ result' = result
    BY <1>1, SinksStay DEF Inv
  <1>5. Len(report'.seen) = 0 /\ DOMAIN report'.seen = {}
    BY <1>3
  <1>6. SeenOnce' /\ Accepted'
    BY <1>3, <1>4, <1>5 DEF SeenOnce, Accepted, Reported, Blocks
  <1>7. SeenLate'
    <2>1. result # None => Len(result) \in Nat
      BY DEF Inv, SinkInv, Typed, TypeOK
    <2>2. result # None => 0 <= Len(result)
      BY <2>1
    <2> QED
      BY <2>2, <1>3, <1>4, <1>5 DEF SeenLate
  <1> QED
    BY <1>3, <1>4, <1>6, <1>7 DEF Inv, ReportInv

\* The report reads the next block.
LEMMA ReadBlock ==
    ASSUME Inv, UNCHANGED vars, report.at \in {"open", "read"},
           Len(report.seen) + 1 <= Len(result),
           report' = [report EXCEPT !.at = "read",
                                    !.seen = Append(@, result[Len(report.seen) + 1])]
    PROVE  Inv'
  <1> DEFINE s == report.seen
             x == result[Len(s) + 1]
  <1>1. report \in Reports /\ result # None
    BY DEF Inv, ReportInv, Accepted
  <1>2. result \in Seq(Nat) /\ s \in Seq(Nat)
    BY <1>1 DEF Reports, Inv, SinkInv, Typed, TypeOK
  <1>3. Len(s) + 1 \in DOMAIN result /\ Len(s) \in Nat /\ Len(result) \in Nat
    BY <1>2
  <1>4. x \in Nat /\ (x = 0 \/ (Frozen /\ x = lastId))
    BY <1>1, <1>2, <1>3 DEF Inv, SinkInv, Filed
  <1>5. report' = [report EXCEPT !.at = "read", !.seen = Append(s, x)]
    OBVIOUS
  <1> HIDE DEF x
  <1>6. Append(s, x) \in Seq(Nat)
    BY <1>2, <1>4
  <1>7. /\ report' \in Reports /\ report'.seen = Append(s, x)
        /\ report'.late = report.late /\ report'.at = "read"
    BY <1>1, <1>5, <1>6 DEF Reports
  <1> HIDE DEF s
  <1>8. /\ Len(report'.seen) = Len(s) + 1
        /\ DOMAIN report'.seen = 1 .. Len(s) + 1 /\ DOMAIN s = 1 .. Len(s)
        /\ report'.seen[Len(s) + 1] = x
        /\ \A n \in 1 .. Len(s) : report'.seen[n] = s[n]
    BY <1>2, <1>7
  <1>9. \A n \in DOMAIN report'.seen : n = Len(s) + 1 \/ n \in DOMAIN s
    BY <1>3, <1>8
  <1>10. /\ SinkInv' /\ (Frozen' <=> Frozen) /\ (Gone' <=> Gone)
         /\ result' = result /\ lastId' = lastId
    BY SinksStay DEF Inv
  <1>11. Len(s) + 1 <= Len(result)
    BY DEF s
  <1>12. SeenOnce'
    <2>1. Len(result) <= Blocks
      BY <1>1 DEF Inv, SinkInv, Filed
    <2>2. Len(report'.seen) <= Blocks
      BY <2>1, <1>3, <1>8, <1>11 DEF Blocks
    <2>3. \A n \in DOMAIN s : s[n] = 0 \/ (Frozen /\ s[n] = lastId)
      BY DEF Inv, ReportInv, SeenOnce, s
    <2> QED
      BY <2>2, <2>3, <1>4, <1>8, <1>9, <1>10 DEF SeenOnce
  <1>13. SeenLate'
    <2>1. report.late => Gone /\ \A n \in DOMAIN s : s[n] = result[n]
      BY <1>1 DEF Inv, ReportInv, SeenLate, s
    <2>2. x = result[Len(s) + 1]
      BY DEF x
    <2> QED
      BY <2>1, <2>2, <1>7, <1>8, <1>9, <1>10, <1>11 DEF SeenLate
  <1>14. Accepted'
    BY <1>1, <1>7, <1>10 DEF Accepted, Reported
  <1> QED
    BY <1>7, <1>10, <1>12, <1>13, <1>14 DEF Inv, ReportInv

\* The report is over; it has an exit code of its own only if it accepts.
LEMMA ReportEnds ==
    ASSUME Inv, UNCHANGED vars, NEW code \in 0 .. 2, Done(code),
           report.at \in {"open", "read"},
           code # 2 => /\ Len(report.seen) >= Blocks
                       /\ \E n \in DOMAIN report.seen : code = ReportCode(report.seen[n])
    PROVE  Inv'
  <1>1. report \in Reports /\ result # None
    BY DEF Inv, ReportInv, Accepted
  <1>2. /\ report' \in Reports /\ report'.seen = report.seen
        /\ report'.late = report.late /\ report'.at = "done" /\ report'.code = code
    BY <1>1 DEF Reports, Done
  <1>3. /\ SinkInv' /\ (Frozen' <=> Frozen) /\ (Gone' <=> Gone)
        /\ result' = result /\ lastId' = lastId
    BY SinksStay DEF Inv
  <1>4. SeenOnce' /\ SeenLate'
    BY <1>2, <1>3 DEF Inv, ReportInv, SeenOnce, SeenLate
  <1>5. Accepted'
    BY <1>1, <1>2, <1>3 DEF Accepted, Reported
  <1> QED
    BY <1>2, <1>3, <1>4, <1>5 DEF Inv, ReportInv

\* The report goes on, or ends.
LEMMA AggregateOK ==
    ASSUME Inv, AggregateResultFiles
    PROVE  Inv'
  <1> DEFINE next == Len(report.seen) + 1
  <1>1. UNCHANGED vars
    BY DEF AggregateResultFiles
  <1>2. CASE report.at = "open" /\ Done(2)
    BY <1>1, <1>2, ReportEnds
  <1>3. CASE /\ report.at \in {"open", "read"} /\ next <= Len(result)
             /\ report' = [report EXCEPT !.at = "read", !.seen = Append(@, result[next])]
    BY <1>1, <1>3, ReadBlock
  <1>4. CASE report.at \in {"open", "read"} /\ Done(2)
    BY <1>1, <1>4, ReportEnds
  <1>5. CASE /\ report.at \in {"open", "read"} /\ TRUE \in Accepts(report.seen)
             /\ \E n \in DOMAIN report.seen : Done(ReportCode(report.seen[n]))
    <2>1. PICK n \in DOMAIN report.seen : Done(ReportCode(report.seen[n]))
      BY <1>5
    <2> DEFINE code == ReportCode(report.seen[n])
    <2>2. code \in 0 .. 2
      <3>1. code = 0 \/ code = 1
        BY DEF ReportCode
      <3> QED
        BY <3>1
    <2>3. Len(report.seen) \in Nat /\ ~(Len(report.seen) < Blocks)
      <3>1. Len(report.seen) \in Nat
        BY DEF Inv, ReportInv, Reports
      <3>2. TRUE \in Accepts(report.seen)
        BY <1>5
      <3>3. Len(report.seen) < Blocks => Accepts(report.seen) = {FALSE}
        BY DEF Accepts
      <3>4. TRUE \notin {FALSE}
        OBVIOUS
      <3> QED
        BY <3>1, <3>2, <3>3, <3>4
    <2>4. Len(report.seen) >= Blocks
      BY <2>3 DEF Blocks
    <2> QED
      BY <2>1, <2>2, <2>4, <1>1, <1>5, ReportEnds
  <1> QED
    BY <1>2, <1>3, <1>4, <1>5 DEF AggregateResultFiles

\* The invariant of a launch, its sinks and a report.
THEOREM ResultsInvariance == ResultsSpec => []Inv
  <1>1. Inv /\ [ResultsNext]_resultVars => Inv'
    <2> SUFFICES ASSUME Inv, [ResultsNext]_resultVars PROVE Inv'
      OBVIOUS
    <2>1. CASE UNCHANGED resultVars
      <3>1. UNCHANGED vars /\ UNCHANGED report
        BY <2>1 DEF resultVars, reportVars
      <3> QED
        BY <3>1, SinksStay, LaunchMoves DEF Inv, Onward
    <2>2. CASE Start
      BY <2>2, WorkOK, LaunchMoves DEF Start, Next, Inv
    <2>3. CASE Work /\ UNCHANGED reportVars
      BY <2>3, WorkOK, LaunchMoves DEF Next, Inv, reportVars
    <2>4. CASE Crash
      BY <2>4, CrashOK, LaunchMoves DEF Inv, Crash, reportVars
    <2>5. CASE DiscoverResultFiles
      BY <2>5, DiscoverOK
    <2>6. CASE AggregateResultFiles
      BY <2>6, AggregateOK
    <2> QED
      BY <2>1, <2>2, <2>3, <2>4, <2>5, <2>6 DEF ResultsNext
  <1> QED
    BY <1>1, InitReport, PTL DEF ResultsSpec

-----------------------------------------------------------------------------
(* What it gives. *)

\* metrics.jsonl is in the order its snapshots were taken, and its last line is
\* the snapshot of the result.json beside it, however the stream and the file
\* failed before: the run thread writes only when it has joined the timer.
THEOREM FinalLineIsLast == ResultsSpec => []FinalLineLast
  <1>1. ASSUME Inv PROVE FinalLineLast
    <2>1. ASSUME Exited, ~broken, NEW id \in 1 .. lastId, Whole(result, id)
          PROVE  jsonl[Len(jsonl)] = id
      <3>1. result = [n \in 1 .. 2 |-> id]
        BY <2>1 DEF Whole, Blocks
      <3>2. lastId \in Nat /\ id \in Nat /\ id # 0 /\ lastId > 0
        BY <1>1, <2>1 DEF Inv, SinkInv, Typed, TypeOK
      <3>3. DOMAIN result = 1 .. 2 /\ result[1] = id /\ 1 \in 1 .. 2 /\ result \in Seq(Nat)
        BY <3>1, <3>2
      <3>4. result # None
        BY <3>3, NoneFacts
      <3>5. id = lastId
        BY <1>1, <3>2, <3>3, <3>4 DEF Inv, SinkInv, Filed
      <3> QED
        BY <1>1, <2>1, <3>2, <3>5 DEF Inv, SinkInv, Ordered, PastFile, Exited
    <2> QED
      BY <1>1, <2>1 DEF FinalLineLast, Inv, SinkInv, Ordered
  <1> QED
    BY <1>1, ResultsInvariance, PTL

\* Whichever requests are refused or time out, the gateway shows a rate of a
\* job that has exited only if the zero-rate push failed and so did the DELETE,
\* or there was none -- but for a push that timed out and was applied after one
\* of the two that succeeded (PushgatewaySink, and the end of RunEngine).  A
\* push that lands before them is undone: the timer is joined, so the run
\* thread's requests are the last two that are sent.
THEOREM RateRetired == ResultsSpec => []NoStaleRate
  <1>1. ASSUME Inv PROVE NoStaleRate
    BY <1>1 DEF Inv, SinkInv, Retired, Stale, NoStaleRate, Exited
  <1> QED
    BY <1>1, ResultsInvariance, PTL

\* A rate in the ClassAd, or a .prom file, outlives the job only if the last
\* call for it failed.
THEOREM AccessPointRetired == ResultsSpec => []ChirpRetired
  <1>1. ASSUME Inv PROVE ChirpRetired
    BY <1>1 DEF Inv, SinkInv, Chirped, ChirpRetired, Exited
  <1> QED
    BY <1>1, ResultsInvariance, PTL

\* A block of one launch, twice, is that launch's whole file.
LEMMA OneLaunch ==
    ASSUME NEW s \in Seq(Nat), Len(s) <= Blocks, Len(s) >= Blocks, NEW id,
           \A n \in DOMAIN s : s[n] = id
    PROVE  Whole(s, id)
  <1>1. Len(s) = 2 /\ DOMAIN s = 1 .. 2
    <2>1. Len(s) \in Nat /\ DOMAIN s = 1 .. Len(s)
      OBVIOUS
    <2> QED
      BY <2>1 DEF Blocks
  <1>2. s = [n \in 1 .. 2 |-> s[n]]
    BY <1>1
  <1> QED
    BY <1>1, <1>2 DEF Whole, Blocks

\* A report that accepts result.json has read one launch's, whole: none that is
\* cut short, and parts of two only while the second replaces the first.
THEOREM ReportsWhole == ResultsSpec => []ReportWhole
  <1>1. ASSUME Inv PROVE ReportWhole
    <2> SUFFICES ASSUME Reported, report.late \/ 0 \notin Read
                 PROVE  \E id \in 0 .. lastId : Whole(report.seen, id)
      BY DEF ReportWhole
    <2> DEFINE s == report.seen
    <2>1. s \in Seq(Nat) /\ lastId \in Nat
      BY <1>1 DEF Inv, ReportInv, Reports, SinkInv, Typed, TypeOK
    <2>2. Len(s) <= Blocks /\ Len(s) >= Blocks /\ result # None
      BY <1>1 DEF Inv, ReportInv, SeenOnce, Accepted
    <2>3. CASE report.late
      <3>1. \A n \in DOMAIN s : s[n] = result[n] /\ n \in DOMAIN result
        <4>1. /\ Len(s) <= Len(result) /\ \A n \in DOMAIN s : s[n] = result[n]
              /\ result \in Seq(Nat)
          BY <1>1, <2>2, <2>3 DEF Inv, ReportInv, SeenLate, SinkInv, Typed, TypeOK
        <4>2. Len(s) \in Nat /\ Len(result) \in Nat /\ DOMAIN s = 1 .. Len(s)
              /\ DOMAIN result = 1 .. Len(result)
          BY <4>1, <2>1
        <4> QED
          BY <4>1, <4>2
      <3>2. (\A n \in DOMAIN s : s[n] = 0) \/ (\A n \in DOMAIN s : s[n] = lastId)
        BY <1>1, <2>2, <3>1 DEF Inv, SinkInv, Filed
      <3>3. Whole(s, 0) \/ Whole(s, lastId)
        BY <2>1, <2>2, <3>2, OneLaunch
      <3> QED
        BY <2>1, <3>3
    <2>4. CASE 0 \notin Read
      <3>1. \A n \in DOMAIN s : s[n] = lastId
        BY <1>1, <2>4 DEF Inv, ReportInv, SeenOnce, Read
      <3>2. Whole(s, lastId)
        BY <2>1, <2>2, <3>1, OneLaunch
      <3> QED
        BY <2>1, <3>2
    <2> QED
      BY <2>3, <2>4
  <1> QED
    BY <1>1, ResultsInvariance, PTL

\* The report's exit code is the run's: what report_command.cc computes from
\* the file is what run_command.cc computed from the snapshot it wrote there.
THEOREM ReportsAgree == ResultsSpec => []ReportAgrees
  <1>1. ASSUME Inv PROVE ReportAgrees
    <2> SUFFICES ASSUME Reported, report.late, Exited, lastId > 0
                 PROVE  IF 0 \in Read THEN Whole(result, 0)
                                      ELSE report.code = ExitCode(lastId)
      BY DEF ReportAgrees
    <2> DEFINE s == report.seen
    <2>1. s \in Seq(Nat) /\ lastId \in Nat
      BY <1>1 DEF Inv, ReportInv, Reports, SinkInv, Typed, TypeOK
    <2>2. Len(s) <= Blocks /\ Len(s) >= Blocks /\ result # None
      BY <1>1 DEF Inv, ReportInv, SeenOnce, Accepted
    <2>3. /\ Len(s) <= Len(result) /\ \A n \in DOMAIN s : s[n] = result[n]
          /\ result \in Seq(Nat) /\ Len(result) <= Blocks
      BY <1>1, <2>2 DEF Inv, ReportInv, SeenLate, SinkInv, Filed, Typed, TypeOK
    <2>4. /\ Len(s) \in Nat /\ Len(result) \in Nat /\ DOMAIN s = 1 .. Len(s)
          /\ DOMAIN result = 1 .. Len(result)
      BY <2>1, <2>3
    <2>5. CASE 0 \in Read
      <3>1. PICK n \in DOMAIN s : s[n] = 0
        BY <2>5 DEF Read
      <3>2. n \in DOMAIN result /\ result[n] = 0
        BY <2>3, <2>4, <3>1
      <3>3. \A m \in DOMAIN result : result[m] = 0
        BY <1>1, <2>1, <2>2, <3>2 DEF Inv, SinkInv, Filed
      <3>4. Len(result) >= Blocks
        BY <2>2, <2>3, <2>4 DEF Blocks
      <3>5. Whole(result, 0)
        BY <2>3, <3>3, <3>4, OneLaunch
      <3> QED
        BY <2>5, <3>5
    <2>6. CASE 0 \notin Read
      <3>1. \A n \in DOMAIN s : s[n] = lastId
        BY <1>1, <2>6 DEF Inv, ReportInv, SeenOnce, Read
      <3>2. PICK n \in DOMAIN s : report.code = ReportCode(s[n])
        BY <1>1 DEF Inv, ReportInv, Accepted
      <3>3. report.code = ExitCode(lastId)
        BY <3>1, <3>2 DEF ReportCode, ExitCode
      <3> QED
        BY <2>6, <3>3
    <2> QED
      BY <2>5, <2>6
  <1> QED
    BY <1>1, ResultsInvariance, PTL

=============================================================================
