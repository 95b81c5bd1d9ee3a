------------------------------- MODULE SiteMap -------------------------------
(***************************************************************************)
(* SiteMap (src/src/site_map.cc): the optional map from hosts to CMS sites. *)
(* Entries are added one at a time, in the order of the JSON object, or by  *)
(* a caller; a lookup may come after any number of them.                    *)
(*                                                                          *)
(* A host name is the sequence of its labels, in lower case; of two         *)
(* suffixes of one host the longer string is the one with more labels.  The *)
(* rules are sorted by the strings' sizes, unstably: any order in which a   *)
(* domain comes before the domains it lies in is one that may result.       *)
(***************************************************************************)
EXTENDS Naturals, Sequences, FiniteSets, SequencesExt

CONSTANTS
    Hosts,      \* host names
    Ports,      \* ports, NoPort among them
    NoPort,
    Domains,    \* the X of "*.X" keys
    Sites,
    NoSite,
    MaxAdds     \* bounds the entries

ASSUME SiteMapOptions ==
    /\ NoPort \in Ports
    /\ NoSite \notin Sites
    /\ MaxAdds \in Nat
    /\ \A n \in Hosts \cup Domains : n \in Seq(Range(n)) \ {<<>>}

Servers == [host : Hosts, port : Ports]

VARIABLES
    exact,      \* exact_
    suffixes,   \* suffixes_
    added       \* what was added, in order
mapVars == <<exact, suffixes, added>>

Rules == [domain : Domains, site : Sites]
Entries == [key : Servers \cup [domain : Domains], site : Sites]

\* Exact entries and suffix rules keep their types, and a suffix has one rule.
MapTypeOK ==
    /\ DOMAIN exact \subseteq Servers
    /\ \A k \in DOMAIN exact : exact[k] \in Sites
    /\ suffixes \in Seq(Rules)
    /\ \A i, j \in DOMAIN suffixes :
           i # j => suffixes[i].domain # suffixes[j].domain
    /\ added \in Seq(Entries) /\ Len(added) <= MaxAdds

MapInit == exact = <<>> /\ suffixes = <<>> /\ added = <<>>

-----------------------------------------------------------------------------
\* What sorting may leave: the same rules, a domain before those it lies in.
LongestFirst(rules) ==
    {s \in [DOMAIN rules -> Range(rules)] :
        /\ Range(s) = Range(rules)
        /\ \A i, j \in DOMAIN rules : i < j => ~IsSuffix(s[i].domain, s[j].domain)}

\* Mutant: rules stay in the order they came.
AddSuffixUnsorted(d, site) ==
    suffixes' =
        IF \E i \in DOMAIN suffixes : suffixes[i].domain = d
        THEN [i \in DOMAIN suffixes |->
                IF suffixes[i].domain = d THEN [domain |-> d, site |-> site]
                ELSE suffixes[i]]
        ELSE Append(suffixes, [domain |-> d, site |-> site])

AddSuffix(d, site) ==
    IF \E i \in DOMAIN suffixes : suffixes[i].domain = d
    THEN suffixes' = [i \in DOMAIN suffixes |->
                        IF suffixes[i].domain = d THEN [domain |-> d, site |-> site]
                        ELSE suffixes[i]]
    ELSE suffixes' \in LongestFirst(Append(suffixes, [domain |-> d, site |-> site]))

Add == \E site \in Sites :
    /\ Len(added) < MaxAdds
    /\ \/ \E d \in Domains :
              /\ AddSuffix(d, site) /\ UNCHANGED exact
              /\ added' = Append(added, [key |-> [domain |-> d], site |-> site])
       \/ \E k \in Servers :
              /\ exact' = [x \in DOMAIN exact \cup {k} |-> IF x = k THEN site ELSE exact[x]]
              /\ UNCHANGED suffixes
              /\ added' = Append(added, [key |-> k, site |-> site])

\* "*.X" stands for what ends in ".X" and is longer.
Under(host, d) == Len(host) > Len(d) /\ IsSuffix(d, host)

HostnameOnly(s) == [s EXCEPT !.port = NoPort]

Lookup(s) ==
    LET matching == {i \in DOMAIN suffixes : Under(s.host, suffixes[i].domain)}
    IN  IF s \in DOMAIN exact THEN exact[s]
        ELSE IF HostnameOnly(s) \in DOMAIN exact THEN exact[HostnameOnly(s)]
        ELSE IF matching = {} THEN NoSite
        ELSE suffixes[CHOOSE i \in matching : \A j \in matching : i <= j].site

-----------------------------------------------------------------------------
(* Properties. *)

\* The site last given for a key.
Given(key) ==
    LET at == {n \in DOMAIN added : added[n].key = key}
    IN  added[CHOOSE n \in at : \A m \in at : m <= n].site
Keys == {added[n].key : n \in DOMAIN added}

\* site_map.hh: "exact host:port, exact host, then longest *.domain suffix",
\* "miss -> empty"; the entries' order does not matter, except that of two for
\* one key the later counts.
LookupOrder ==
    \A s \in Servers :
        LET domains == {d \in Domains : [domain |-> d] \in Keys /\ Under(s.host, d)}
            longest == CHOOSE d \in domains : \A e \in domains : Len(e) <= Len(d)
        IN  Lookup(s) = IF s \in Keys THEN Given(s)
                        ELSE IF HostnameOnly(s) \in Keys THEN Given(HostnameOnly(s))
                        ELSE IF domains # {} THEN Given([domain |-> longest])
                        ELSE NoSite

=============================================================================
