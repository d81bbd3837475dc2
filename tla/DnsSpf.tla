------------------------------- MODULE DnsSpf -------------------------------
(***************************************************************************)
(* Which addresses the SPF records of a domain name (libs/dnsspf.py): a    *)
(* record lists addresses and names other domains, whose own records       *)
(* (include), addresses (a) or mail servers (mx) count too, and these may  *)
(* name one another.  Two uses: the greylisting plugin asks whether one    *)
(* client is among them, and tools/spf_to_greylist_whitelists.py gathers   *)
(* those of several domains.                                               *)
(*                                                                         *)
(* The calls that recurse are a stack of frames, one for each record being *)
(* parsed, and each DNS query is an action; it may fail.  Sets are         *)
(* iterated in any order.  What DNS answers does not change meanwhile.     *)
(***************************************************************************)
EXTENDS Integers, Sequences, FiniteSets

CONSTANTS
  Domain,      \* domain names
  Record,      \* SPF record of a domain, as [ips, includes, a, mx], or NoRecord
  A, MX,       \* addresses and mail servers of a domain; {} is NoAnswer
  NoRecord,
  Asked,       \* sets of domains that may be asked about
  Client,      \* the client in question
  Containing,  \* networks that contain it
  Recognised,  \* networks that begin with its first number and `.0/`
  max_queries, \* SPF_MAX_DNS_QUERIES
  MaxFailures  \* bound on the queries that time out

ASSUME DnsAssumption ==
  /\ \A d \in Domain :
       \/ Record[d] = NoRecord
       \/ /\ Record[d].includes \subseteq Domain
          /\ Record[d].a \subseteq Domain /\ Record[d].mx \subseteq Domain
  /\ \A d \in Domain : MX[d] \subseteq Domain
  /\ IsFiniteSet(Domain) /\ Asked \subseteq SUBSET Domain
  /\ max_queries \in Nat

VARIABLES
  mode,             \* "allowed" or "import"
  domains,          \* domains still to be asked about
  pc, stack,
  queried_domains,  \* pairs of "spf", "a" or "mx" and a domain
  num_queries, ips,
  verdict,
  (* history *)
  asked, issued, txt, failures, exhausted

vars == <<mode, domains, pc, stack, queried_domains, num_queries, ips, verdict,
          asked, issued, txt, failures, exhausted>>

top == stack[Len(stack)]
Top(frame) == stack' = [stack EXCEPT ![Len(stack)] = frame]

\* A frame of parse_spf; `left` is what the loop of the stage has yet to do,
\* `hostnames` what the MX records of the frame have named so far.
Frame(domain, record) ==
  [domain |-> domain, a |-> record.a, mx |-> record.mx, stage |-> "include",
   left |-> {i \in record.includes : <<"spf", i>> \notin queried_domains'},
   hostnames |-> {}, hosts |-> {}, mx_domain |-> domain]

Issue      == issued' = issued + 1 /\ num_queries' = num_queries + 1
Fails      == failures < MaxFailures /\ failures' = failures + 1
WithinBudget == num_queries < max_queries
At(stage)  == pc = "parse" /\ top.stage = stage

-----------------------------------------------------------------------------
\* is_allowed_server_in_spf, or the loop over domains of the import: the TXT
\* query here is not counted against the budget of what follows.
Start ==
  /\ pc = "start" /\ domains # {}
  /\ \E d \in domains :
       /\ domains' = domains \ {d}
       /\ IF <<"spf", d>> \in queried_domains
            THEN UNCHANGED <<pc, stack, queried_domains, num_queries, ips, issued, txt, failures>>
          ELSE
            /\ num_queries' = 0
            /\ issued' = issued + 1
            /\ txt' = [txt EXCEPT ![d] = @ + 1]
            /\ queried_domains' = queried_domains \cup {<<"spf", d>>}
            /\ \E ok \in {TRUE} \cup (IF failures < MaxFailures THEN {FALSE} ELSE {}) :
                 /\ failures' = IF ok THEN failures ELSE failures + 1
                 /\ IF ok /\ Record[d] # NoRecord
                      THEN /\ pc' = "parse" /\ stack' = <<Frame(d, Record[d])>>
                           /\ ips' = ips \cup Record[d].ips
                    ELSE IF mode = "import"
                      THEN /\ pc' = "parse"    \* hosts listed in its MX records
                           /\ stack' = << [domain |-> d, a |-> {}, mx |-> {}, stage |-> "mx", left |-> {d},
                                           hostnames |-> {}, hosts |-> {}, mx_domain |-> d] >>
                           /\ UNCHANGED ips
                    ELSE UNCHANGED <<pc, stack, ips>>
  /\ UNCHANGED <<mode, verdict, asked, exhausted>>

\* query_spf_of_included_domains: query_spf asks nothing about a domain it has
\* asked about before, or when the budget is spent.
Skip ==
  /\ At("include")
  /\ \E d \in top.left :
       /\ <<"spf", d>> \in queried_domains \/ ~WithinBudget
       /\ Top([top EXCEPT !.left = @ \ {d}])
       /\ queried_domains' = queried_domains \cup {<<"spf", d>>}
       /\ exhausted' = (exhausted \/ <<"spf", d>> \notin queried_domains)
  /\ UNCHANGED <<mode, domains, pc, num_queries, ips, verdict, asked, issued, txt, failures>>

IncludeUncounted ==     \* seeded fault: the count of the call is not taken over
  /\ At("include") /\ WithinBudget
  /\ \E d \in top.left :
       /\ <<"spf", d>> \notin queried_domains
       /\ issued' = issued + 1
       /\ txt' = [txt EXCEPT ![d] = @ + 1]
       /\ queried_domains' = queried_domains \cup {<<"spf", d>>}
       /\ LET rest == [stack EXCEPT ![Len(stack)].left = @ \ {d}]
          IN  IF Record[d] = NoRecord THEN stack' = rest /\ UNCHANGED ips
              ELSE stack' = Append(rest, Frame(d, Record[d])) /\ ips' = ips \cup Record[d].ips
  /\ UNCHANGED <<mode, domains, pc, num_queries, failures, verdict, asked, exhausted>>

Include ==
  /\ At("include") /\ WithinBudget
  /\ \E d \in top.left :
       /\ <<"spf", d>> \notin queried_domains
       /\ Issue
       /\ txt' = [txt EXCEPT ![d] = @ + 1]
       /\ queried_domains' = queried_domains \cup {<<"spf", d>>}
       /\ LET rest == [stack EXCEPT ![Len(stack)].left = @ \ {d}]
          IN  \/ Fails /\ stack' = rest /\ UNCHANGED ips
              \/ /\ UNCHANGED failures
                 /\ IF Record[d] = NoRecord THEN stack' = rest /\ UNCHANGED ips
                    ELSE stack' = Append(rest, Frame(d, Record[d])) /\ ips' = ips \cup Record[d].ips
  /\ UNCHANGED <<mode, domains, pc, verdict, asked, exhausted>>

\* `if a:` and `if mx:`; names already asked about are left out.
StageUnfinished ==     \* seeded fault: names of an earlier record are taken as done
  /\ pc = "parse" /\ top.left = {}
  /\ \/ /\ top.stage = "include"
        /\ Top([top EXCEPT !.stage = "a", !.left = {d \in top.a : <<"spf", d>> \notin queried_domains}])
     \/ /\ top.stage = "a"
        /\ Top([top EXCEPT !.stage = "mx", !.left = {d \in top.mx : <<"mx", d>> \notin queried_domains}])
  /\ UNCHANGED <<mode, domains, pc, queried_domains, num_queries, ips, verdict, asked, issued, txt,
                 failures, exhausted>>

NextStage ==
  /\ pc = "parse" /\ top.left = {}
  /\ \/ /\ top.stage = "include"
        /\ Top([top EXCEPT !.stage = "a", !.left = {d \in top.a : <<"a", d>> \notin queried_domains}])
     \/ /\ top.stage = "a"
        /\ Top([top EXCEPT !.stage = "mx", !.left = {d \in top.mx : <<"mx", d>> \notin queried_domains}])
  /\ UNCHANGED <<mode, domains, pc, queried_domains, num_queries, ips, verdict, asked, issued, txt,
                 failures, exhausted>>

\* query_a, for the names of tags a: a name without an answer is not marked.
\* The loop breaks when the budget is spent.
QueryA ==
  /\ At("a") /\ top.left # {}
  /\ IF ~WithinBudget
       THEN /\ Top([top EXCEPT !.left = {}]) /\ exhausted' = TRUE
            /\ UNCHANGED <<queried_domains, num_queries, ips, issued, failures>>
     ELSE \E d \in top.left :
       /\ Issue
       /\ Top([top EXCEPT !.left = @ \ {d}])
       /\ \/ Fails /\ UNCHANGED <<ips, queried_domains>>
          \/ /\ UNCHANGED failures
             /\ ips' = ips \cup A[d]
             /\ queried_domains' = queried_domains \cup (IF A[d] = {} THEN {} ELSE {<<"a", d>>})
       /\ UNCHANGED exhausted
  /\ UNCHANGED <<mode, domains, pc, verdict, asked, txt>>

\* query_mx: the servers found so far, those of earlier domains too, are asked
\* for their addresses.
QueryMX ==
  /\ At("mx") /\ top.left # {}
  /\ IF ~WithinBudget
       THEN /\ Top([top EXCEPT !.left = {}]) /\ exhausted' = TRUE
            /\ UNCHANGED <<num_queries, issued, failures>>
     ELSE \E d \in top.left :
       /\ Issue
       /\ \/ Fails /\ Top([top EXCEPT !.left = @ \ {d}])
          \/ /\ UNCHANGED failures
             /\ LET hostnames == top.hostnames \cup MX[d]
                IN  Top([top EXCEPT !.left = @ \ {d}, !.stage = "hosts", !.mx_domain = d,
                                    !.hostnames = hostnames, !.hosts = hostnames])
       /\ UNCHANGED exhausted
  /\ UNCHANGED <<mode, domains, pc, queried_domains, ips, verdict, asked, txt>>

\* query_a, for mail servers, whether asked about before or not.
QueryHost ==
  /\ At("hosts") /\ top.hosts # {}
  /\ IF ~WithinBudget
       THEN /\ Top([top EXCEPT !.hosts = {}]) /\ exhausted' = TRUE
            /\ UNCHANGED <<queried_domains, num_queries, ips, issued, failures>>
     ELSE \E d \in top.hosts :
       /\ Issue
       /\ Top([top EXCEPT !.hosts = @ \ {d}])
       /\ \/ Fails /\ UNCHANGED <<ips, queried_domains>>
          \/ /\ UNCHANGED failures
             /\ ips' = ips \cup A[d]
             /\ queried_domains' = queried_domains \cup (IF A[d] = {} THEN {} ELSE {<<"a", d>>})
       /\ UNCHANGED exhausted
  /\ UNCHANGED <<mode, domains, pc, verdict, asked, txt>>

\* NoAnswer raises, and the domain is then not marked.
NextMX ==
  /\ At("hosts") /\ top.hosts = {}
  /\ Top([top EXCEPT !.stage = "mx"])
  /\ queried_domains' = queried_domains \cup (IF MX[top.mx_domain] = {} THEN {} ELSE {<<"mx", top.mx_domain>>})
  /\ UNCHANGED <<mode, domains, pc, num_queries, ips, verdict, asked, issued, txt, failures, exhausted>>

\* The end of parse_spf.
Return ==
  /\ At("mx") /\ top.left = {}
  /\ stack' = SubSeq(stack, 1, Len(stack) - 1)
  /\ pc' = IF Len(stack) = 1 THEN "start" ELSE pc
  /\ queried_domains' = queried_domains \cup {<<"spf", top.domain>>}
  /\ UNCHANGED <<mode, domains, num_queries, ips, verdict, asked, issued, txt, failures, exhausted>>

AnswerNear ==     \* seeded fault: the first number is enough
  /\ pc = "start" /\ domains = {}
  /\ pc' = "done"
  /\ verdict' = (mode = "allowed" /\ (Client \in ips \/ Recognised \cap ips # {}))
  /\ UNCHANGED <<mode, domains, stack, queried_domains, num_queries, ips, asked, issued, txt, failures, exhausted>>

\* The end of is_allowed_server_in_spf: the networks that do not look like
\* those of the client are passed over.
Answer ==
  /\ pc = "start" /\ domains = {}
  /\ pc' = "done"
  /\ verdict' = (mode = "allowed" /\ (Client \in ips \/ Containing \cap Recognised \cap ips # {}))
  /\ UNCHANGED <<mode, domains, stack, queried_domains, num_queries, ips, asked, issued, txt, failures, exhausted>>

Init ==
  /\ mode \in {"allowed", "import"}
  /\ asked \in Asked
  /\ (mode = "allowed" => Cardinality(asked) = 1)
  /\ domains = asked
  /\ pc = "start" /\ stack = <<>> /\ queried_domains = {} /\ num_queries = 0 /\ ips = {}
  /\ verdict = FALSE
  /\ issued = 0 /\ txt = [d \in Domain |-> 0] /\ failures = 0 /\ exhausted = FALSE

Next ==
  \/ Start \/ Skip \/ Include \/ NextStage \/ QueryA \/ QueryMX \/ QueryHost \/ NextMX \/ Return
  \/ Answer

Spec == Init /\ [][Next]_vars

-----------------------------------------------------------------------------
(* What is promised *)

\* The domains whose records count for d: the smallest set that has d and what its
\* records include.
Closed(set)  == \A e \in set : Record[e] # NoRecord => Record[e].includes \subseteq set
Reachable(d) == {e \in Domain : \A set \in SUBSET Domain : d \in set /\ Closed(set) => e \in set}

\* What a record names, directly or through a and mx, and what these records name.
Listed(e) == Record[e].ips \cup (UNION {A[n] : n \in Record[e].a})
               \cup (UNION {A[h] : h \in UNION {MX[n] : n \in Record[e].mx}})
Named(d)  == UNION {Listed(e) : e \in {e \in Reachable(d) : Record[e] # NoRecord}}

\* Without a record the import takes the mail servers, unless the domain has
\* been met as an include of another: it is then passed over.
Servers(d)  == UNION {A[h] : h \in MX[d]}
Promised(d) ==
  IF Record[d] # NoRecord THEN Named(d)
  ELSE IF mode = "import" /\ ~\E e \in asked \ {d} : d \in Reachable(e) THEN Servers(d)
  ELSE {}
Possible(d) == IF Record[d] = NoRecord /\ mode = "import" THEN Servers(d) ELSE Named(d)

FrameType ==
  [domain : Domain, a : SUBSET Domain, mx : SUBSET Domain,
   stage : {"include", "a", "mx", "hosts"}, left : SUBSET Domain,
   hostnames : SUBSET Domain, hosts : SUBSET Domain, mx_domain : Domain]

TypeOK ==
  /\ mode \in {"allowed", "import"}
  /\ asked \subseteq Domain /\ domains \subseteq asked
  /\ pc \in {"start", "parse", "done"}
  /\ queried_domains \subseteq {"spf", "a", "mx"} \X Domain
  /\ num_queries \in Nat /\ issued \in Nat /\ failures \in Nat
  /\ txt \in [Domain -> Nat]
  /\ verdict \in BOOLEAN /\ exhausted \in BOOLEAN
  /\ Len(stack) <= Cardinality(Domain)
  /\ (pc = "parse") = (stack # <<>>)
  /\ stack \in Seq(FrameType)
  /\ \A i \in DOMAIN stack : <<"spf", stack[i].domain>> \in queried_domains

\* However records name one another, the count that the functions pass along
\* bounds the queries: one more than the budget for each domain asked about,
\* the first TXT query not being counted (libs/dnsspf.py:165), and no loop of
\* includes makes a record be asked for twice.  The recursion is never deeper than
\* there are domains (TypeOK).
BudgetRespected ==
  /\ TypeOK
  /\ \A d \in Domain : txt[d] <= 1
  /\ issued <= Cardinality(asked) * (max_queries + 1)

\* The answer does not depend on the order of the sets: when no query failed
\* and none was left out for the budget, all that the records name is found,
\* and no more, in whatever order, although names met twice are asked about once.
Complete ==
  pc = "done" /\ failures = 0 /\ ~exhausted =>
    /\ UNION {Promised(d) : d \in asked} \subseteq ips
    /\ ips \subseteq UNION {Possible(d) : d \in asked}

\* A client is let off greylisting only if it is named, or inside a network
\* that is, whatever failed or was left out (plugins/greylisting.py:386).
NoFalseAllow ==
  pc = "done" /\ verdict => \E d \in asked : ({Client} \cup Containing) \cap Named(d) # {}
=============================================================================
