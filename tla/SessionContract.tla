--------------------------- MODULE SessionContract ---------------------------
(***************************************************************************)
(* What a FileSession promises its owner, whatever XrdCl answers and in     *)
(* whatever order (file_session.hh: StartFileSession, FileSessionDone).     *)
(* A session begins once, delivers bytes within its limit while it runs,    *)
(* reports exactly one outcome, and delivers nothing afterwards.  "ok" is   *)
(* never reported for a session whose wall timeout was requested, nor       *)
(* "timeout" for one whose timeout was not.                                 *)
(***************************************************************************)
EXTENDS Integers

CONSTANT Limits   \* the byte counts a session may be allowed to reach

VARIABLES phase, outcome, delivered, expired

vars == <<phase, outcome, delivered, expired>>

Phases == {"idle", "running", "done"}

Init ==
    /\ phase = "idle"
    /\ outcome = "none"
    /\ delivered = 0
    /\ expired = FALSE

\* The one Open was submitted; bytes only flow from here on.
Begin ==
    /\ phase = "idle"
    /\ phase' = "running"
    /\ UNCHANGED <<outcome, delivered, expired>>

\* The Open could not even be submitted.
Reject ==
    /\ phase = "idle"
    /\ phase' = "done"
    /\ outcome' = "error"
    /\ UNCHANGED <<delivered, expired>>

Delivers == delivered' >= delivered /\ \E b \in Limits : delivered' <= b

Deliver ==
    /\ phase = "running"
    /\ Delivers
    /\ UNCHANGED <<phase, outcome, expired>>

Expire ==
    /\ phase = "running"
    /\ ~expired
    /\ expired' = TRUE
    /\ UNCHANGED <<phase, outcome, delivered>>

\* The last Read's bytes, or the expiry itself, may come with the outcome.
Finish ==
    /\ phase = "running"
    /\ phase' = "done"
    /\ delivered' = delivered \/ Delivers
    /\ expired => expired'
    /\ \/ outcome' = "ok" /\ ~expired' /\ delivered' = delivered
       \/ outcome' = "error" /\ expired' = expired
       \/ outcome' = "timeout" /\ expired'

Next == Begin \/ Reject \/ Deliver \/ Expire \/ Finish

Spec == Init /\ [][Next]_vars

=============================================================================
