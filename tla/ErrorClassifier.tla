--------------------------- MODULE ErrorClassifier ---------------------------
(***************************************************************************)
(* ClassifyXRootDError (src/src/error_classifier.cc): the class of a failed *)
(* session from XrdCl's status code, the error number and the text.         *)
(*                                                                          *)
(* A text is the set of the phrases in it: one stands for all that lead to  *)
(* the same rules, "words" for what no rule looks for.                      *)
(***************************************************************************)
EXTENDS Integers, Sequences

Classes == {"none", "auth", "timeout", "connection", "server_error", "not_found",
            "client_error", "redirect_loop", "trust", "expired", "no_replicas",
            "unknown"}

\* "certificate alert" is TLS's "sslv3 alert certificate", which contains "ssl";
\* "no servers" is "no servers are available", which contains "server".
Phrases == {"not authorized", "not found", "redirect limit", "operation expired",
            "timeout", "certificate verify", "certificate alert", "connect",
            "server", "no more replicas", "no servers", "words"}

Texts == {t \in SUBSET Phrases :
             /\ "certificate alert" \in t => "connect" \in t
             /\ "no servers" \in t => "server" \in t}

\* The codes the last switch names; "none" where it names none.
ClassOfCode(status) ==
    CASE status = 16 -> "no_replicas"
      [] status \in {101, 102, 104, 105, 106, 107, 108, 109, 110, 202} -> "connection"
      [] status \in {203, 204} -> "auth"
      [] status = 304 -> "not_found"
      [] status = 306 -> "redirect_loop"
      [] status \in {303, 307, 400} -> "server_error"
      [] OTHER -> "none"

\* XRootD's own error numbers.
kXR(n) == 3000 + n
ServerErrors == kXR(0) .. kXR(999)

\* A kXR_ number that no earlier rule took.
ClassOfServerError(err) == IF err \in {kXR(2), kXR(5)} THEN "client_error" ELSE "server_error"

\* The rules in their order: when each applies, and its class.
ClassRules(status, err, text) ==
    << <<err = kXR(10) \/ "not authorized" \in text, "auth">>,
       <<err = kXR(1) \/ "not found" \in text, "not_found">>,
       <<"redirect limit" \in text, "redirect_loop">>,
       <<status = 206 \/ "operation expired" \in text, "expired">>,
       <<status = 103 \/ err = 110 \/ "timeout" \in text, "timeout">>,
       <<text \cap {"certificate verify", "certificate alert"} # {}, "trust">>,
       <<err \in {11, 104, 111} \/ "connect" \in text, "connection">>,
       <<err \in ServerErrors, ClassOfServerError(err)>>,
       <<"server" \in text, "server_error">>,
       <<ClassOfCode(status) # "none", ClassOfCode(status)>>,
       <<text \cap {"no more replicas", "no servers"} # {}, "no_replicas">>,
       <<text # {} \/ err # 0 \/ status # 0, "unknown">>,
       <<TRUE, "none">> >>

\* Mutant: the status code decides wherever it can.
ClassifyXRootDErrorByCode(status, err, text) ==
    LET rules == <<<<ClassOfCode(status) # "none", ClassOfCode(status)>>>>
                     \o ClassRules(status, err, text)
        applies == {n \in DOMAIN rules : rules[n][1]}
    IN  rules[CHOOSE n \in applies : \A m \in applies : n <= m][2]

ClassifyXRootDError(status, err, text) ==
    LET rules == ClassRules(status, err, text)
        applies == {n \in DOMAIN rules : rules[n][1]}
    IN  rules[CHOOSE n \in applies : \A m \in applies : n <= m][2]

=============================================================================
