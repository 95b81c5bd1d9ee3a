----------------------------- MODULE Attribution -----------------------------
(***************************************************************************)
(* What a failed session is counted as.  The session (file_session.cc)      *)
(* fails in one of a few places, each with a status, an error number and a  *)
(* text of its own making; session_done of a run (run_command.cc) and       *)
(* FromSession of a probe (probe_command.cc) give it a class.  The site map *)
(* that gives its server a site is loaded before any session runs.          *)
(***************************************************************************)
EXTENDS SiteMap, ErrorClassifier

CONSTANTS
    Statuses,   \* XrdCl's codes for what is not OK
    Errs,       \* XrdCl's error numbers
    Said,       \* the phrases its texts may contain
    MaxLoaded   \* bounds the map when a session fails, which no class looks at

ASSUME AttributionOptions ==
    Statuses \subseteq Nat \ {0} /\ Errs \subseteq Nat /\ Said \subseteq Texts /\ MaxLoaded \in Nat

VARIABLE failure    \* the result of the session that failed
allVars == <<mapVars, failure>>

SessionResults == [status : Nat, err : Nat, text : Texts, timedOut : BOOLEAN]
NoFailure == failure = <<>>
MayFail == NoFailure /\ Len(added) <= MaxLoaded

\* A failure is a result the session can make.
FailureTypeOK == NoFailure \/ failure \in SessionResults

AttributionInit == MapInit /\ failure = <<>>

\* SiteMap::LoadFromFile, before the first session.
LoadEntry == NoFailure /\ Add /\ UNCHANGED failure

Fails(status, err, text, timedOut) ==
    /\ failure' = [status |-> status, err |-> err, text |-> text, timedOut |-> timedOut]
    /\ UNCHANGED mapVars

\* XrdCl refuses the Open, Stat, Read or Close, or answers it with an error.
OperationFails ==
    /\ MayFail
    /\ \E status \in Statuses, err \in Errs, text \in Said :
           Fails(status, err, text \cup {"words"}, FALSE)

\* The handler is called without a status, or the first read would begin behind
\* the end of the file: there are only words.
NothingFromXrdCl == MayFail /\ Fails(0, 0, {"words"}, FALSE)

\* The watchdog's Close is refused or answered, with an error or with none.
WallTimeout ==
    /\ MayFail
    /\ \E status \in Statuses \cup {0} : Fails(status, 110, {"timeout", "words"}, TRUE)

AttributionNext ==
    LoadEntry \/ OperationFails \/ NothingFromXrdCl \/ WallTimeout

AttributionSpec == AttributionInit /\ [][AttributionNext]_allVars

RunClass(r) == ClassifyXRootDError(r.status, r.err, r.text)

FromSession(r) ==
    IF r.timedOut THEN "timeout" ELSE ClassifyXRootDError(r.status, r.err, r.text)

-----------------------------------------------------------------------------
(* Properties. *)

\* Each failed session counts under a class that is not "none", which neither
\* report would show, and a run and a probe name the same one, but for one
\* case: a session the watchdog timed out whose Close expired too is "expired"
\* in the run (run_command.cc:307-309, probe_command.cc:78-80).
SameVerdict ==
    ~NoFailure =>
        /\ RunClass(failure) \in Classes \ {"none"}
        /\ RunClass(failure) # FromSession(failure) =>
               failure.timedOut /\ failure.status = 206 /\ RunClass(failure) = "expired"

\* A run and a probe give the same failure the same class.
AlwaysSameVerdict == ~NoFailure => RunClass(failure) = FromSession(failure)

\* "no servers are available" is a failure for want of replicas
\* (error_classifier.cc:142-145).  It contains "server", which an earlier rule
\* looks for.
NoServersIsNoReplicas ==
    ~NoFailure /\ "no servers" \in failure.text
             /\ failure.text \subseteq {"no servers", "server", "words"}
             /\ failure.status = 1 /\ failure.err = 0
        => RunClass(failure) = "no_replicas"

=============================================================================
