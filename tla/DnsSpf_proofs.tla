--------------------------- MODULE DnsSpf_proofs ---------------------------
(***************************************************************************)
(* Proofs about DnsSpf.  For every way in which records name one another:  *)
(* the queries are bounded and the recursion ends (BudgetRespected), what  *)
(* is found is what the records name, no less when nothing failed and      *)
(* nothing was left out, and no more (Complete), and a client is let off   *)
(* only if it is named (NoFalseAllow).                                     *)
(***************************************************************************)
EXTENDS DnsSpf, FiniteSetTheorems, SequenceTheorems, TLAPS

\* What the record of d lists, none when it has none; the import asks for the
\* mail servers of a domain without a record.
Live(d)     == Record[d] # NoRecord
Ips(d)      == IF Live(d) THEN Record[d].ips ELSE {}
Includes(d) == IF Live(d) THEN Record[d].includes ELSE {}
ANames(d)   == IF Live(d) THEN Record[d].a ELSE {}
MXNames(d)  == IF Live(d) THEN Record[d].mx ELSE {d}

-----------------------------------------------------------------------------
(* The budget *)

\* No two frames are about the same domain.
Distinct(s) == \A i, j \in DOMAIN s : s[i].domain = s[j].domain => i = j

Spent(n) == n * (max_queries + 1)

\* What the calls made so far may have asked: all the budget of the domains that
\* are done with, and of the one in progress what the count says, and its TXT query.
BudgetInv ==
  /\ Distinct(stack)
  /\ \A d \in Domain : txt[d] <= 1 /\ (<<"spf", d>> \notin queried_domains => txt[d] = 0)
  /\ num_queries <= max_queries
  /\ issued <= Spent(Cardinality(asked \ domains))
  /\ pc = "parse" => /\ domains # asked
                     /\ issued + max_queries <= Spent(Cardinality(asked \ domains)) + num_queries

-----------------------------------------------------------------------------
(* Nothing but what the records name *)

\* d counts for one of the domains.
CountsFor(d, set) == \E e \in set : d \in Reachable(e)

\* A frame works on what the record of its domain lists, or the import is asking for the
\* mail servers of a domain without a record.
FrameSound(f, started, m) ==
  /\ CountsFor(f.domain, started)
  /\ ~Live(f.domain) => m = "import" /\ f.domain \in started
  /\ f.a \subseteq ANames(f.domain) /\ f.mx \subseteq MXNames(f.domain)
  /\ f.stage = "include" => f.left \subseteq Includes(f.domain)
  /\ f.stage = "a" => f.left \subseteq ANames(f.domain)
  /\ f.stage \in {"mx", "hosts"} => f.left \subseteq MXNames(f.domain)
  /\ f.stage = "hosts" => f.mx_domain \in MXNames(f.domain)
  /\ f.hosts \subseteq f.hostnames
  /\ f.hostnames \subseteq UNION {MX[n] : n \in MXNames(f.domain)}

\* The import, when a query for a record fails, takes mail servers that the record may not
\* name: it promises nothing then.
Trusted == mode = "allowed" \/ failures = 0

MarksSound == \A e \in Domain : <<"spf", e>> \in queried_domains => CountsFor(e, asked \ domains)
FramesSound == \A i \in DOMAIN stack : FrameSound(stack[i], asked \ domains, mode)
AllPossible == UNION {Possible(d) : d \in asked}

SoundInv ==
  /\ Trusted => MarksSound /\ FramesSound /\ ips \subseteq AllPossible
  /\ verdict => /\ pc = "done" /\ mode = "allowed"
                /\ Client \in ips \/ Containing \cap Recognised \cap ips # {}

-----------------------------------------------------------------------------
(* No less than what they name *)

\* The record of d has been worked through.
Done(d, found, queried) ==
  /\ Ips(d) \subseteq found
  /\ \A n \in Includes(d) : <<"spf", n>> \in queried
  /\ \A n \in ANames(d) : A[n] \subseteq found
  /\ \A n \in MXNames(d) : Servers(n) \subseteq found

\* A frame has done all but what it still has to do.
FrameDone(f, found, queried) ==
  /\ Ips(f.domain) \subseteq found
  /\ \A n \in Includes(f.domain) :
       <<"spf", n>> \in queried \/ (f.stage = "include" /\ n \in f.left)
  /\ IF f.stage = "include" THEN ANames(f.domain) \subseteq f.a
     ELSE \A n \in ANames(f.domain) : A[n] \subseteq found \/ (f.stage = "a" /\ n \in f.left)
  /\ IF f.stage \in {"include", "a"} THEN MXNames(f.domain) \subseteq f.mx
     ELSE \A n \in MXNames(f.domain) : \/ Servers(n) \subseteq found \/ n \in f.left
                                       \/ f.stage = "hosts" /\ n = f.mx_domain
  /\ f.stage = "hosts" => /\ MX[f.mx_domain] \subseteq f.hostnames
                          /\ \A h \in f.hostnames : A[h] \subseteq found \/ h \in f.hosts

\* A name that is marked need not be asked about again.
NamesDone == \A n \in Domain : /\ <<"a", n>> \in queried_domains => A[n] \subseteq ips
                               /\ <<"mx", n>> \in queried_domains => Servers(n) \subseteq ips
FramesDone == \A i \in DOMAIN stack : FrameDone(stack[i], ips, queried_domains)

\* Where there is no record the import owes the mail servers of a domain that counts for
\* no other.
Owed(d) == \/ Live(d)
           \/ mode = "import" /\ d \in asked \ domains /\ ~CountsFor(d, asked \ {d})
Open(d) == \E i \in DOMAIN stack : stack[i].domain = d
RecordsDone == \A d \in Domain : <<"spf", d>> \in queried_domains /\ Owed(d) /\ ~Open(d)
                                 => Done(d, ips, queried_domains)

Clean == failures = 0 /\ ~exhausted

CompleteInv ==
  /\ \A d \in asked \ domains : <<"spf", d>> \in queried_domains
  /\ pc = "done" => domains = {}
  /\ Clean => NamesDone /\ FramesDone /\ RecordsDone

-----------------------------------------------------------------------------
(* Stacks of frames *)

\* The recursion of frames about different domains is no deeper than there are domains.
LEMMA Depth ==
  ASSUME NEW s \in Seq(FrameType), Distinct(s)
  PROVE  Len(s) <= Cardinality(Domain)
<1> USE DnsAssumption
<1>1. Len(s) \in Nat /\ Cardinality(Domain) \in Nat
  BY FS_CardinalityType
<1>2. IsFiniteSet(1..Len(s)) /\ Cardinality(1..Len(s)) = Len(s)
  <2>1. PICK n \in Nat : n = Len(s)
    BY <1>1
  <2>2. IsFiniteSet(1..n) /\ Cardinality(1..n) = IF 1 > n THEN 0 ELSE n - 1 + 1
    <3>1. 1 \in Int /\ n \in Int
      OBVIOUS
    <3> QED
      BY <3>1, FS_Interval, Zenon
  <2>3. Cardinality(1..n) = n
    BY <2>1, <2>2
  <2> QED
    BY <2>1, <2>2, <2>3
<1>3. PICK d \in [1..Len(s) -> Domain] : d = [i \in 1..Len(s) |-> s[i].domain]
  <2>1. \A i \in 1..Len(s) : s[i] \in FrameType
    OBVIOUS
  <2>2. \A i \in 1..Len(s) : s[i].domain \in Domain
    BY <2>1 DEF FrameType
  <2> QED
    BY <2>2
<1>4. ~\E i, j \in 1..Len(s) : i # j /\ d[i] = d[j]
  BY <1>3 DEF Distinct
<1> QED
  BY <1>1, <1>2, <1>4, FS_PigeonHole

\* A call goes on with its loop.
LEMMA TopChanged ==
  ASSUME NEW s \in Seq(FrameType), s # <<>>, NEW f \in FrameType,
         NEW t, t = [s EXCEPT ![Len(s)] = f]
  PROVE  /\ t \in Seq(FrameType) /\ t # <<>> /\ DOMAIN t = DOMAIN s
         /\ \A i \in DOMAIN s : t[i] = IF i = Len(s) THEN f ELSE s[i]
         /\ Len(s) \in DOMAIN s /\ Len(t) = Len(s)
OBVIOUS

\* A call calls for another domain.
LEMMA Pushed ==
  ASSUME NEW s \in Seq(FrameType), s # <<>>, NEW f \in FrameType, NEW g \in FrameType,
         NEW t, t = Append([s EXCEPT ![Len(s)] = f], g)
  PROVE  /\ t \in Seq(FrameType) /\ t # <<>> /\ DOMAIN t = 1..(Len(s) + 1)
         /\ \A i \in DOMAIN s : i \in DOMAIN t /\ t[i] = IF i = Len(s) THEN f ELSE s[i]
         /\ t[Len(s) + 1] = g
         /\ DOMAIN s = 1..Len(s) /\ Len(s) \in DOMAIN s /\ Len(s) \in Nat
OBVIOUS

\* A call returns.
LEMMA Popped ==
  ASSUME NEW s \in Seq(FrameType), s # <<>>, NEW t, t = SubSeq(s, 1, Len(s) - 1)
  PROVE  /\ t \in Seq(FrameType) /\ DOMAIN t = 1..(Len(s) - 1) /\ (t = <<>> <=> Len(s) = 1)
         /\ \A i \in DOMAIN t : i \in DOMAIN s /\ i # Len(s) /\ t[i] = s[i]
         /\ DOMAIN s = 1..Len(s) /\ Len(s) \in DOMAIN s /\ Len(s) \in Nat
<1>1. Len(s) \in Nat /\ Len(s) > 0 /\ DOMAIN s = 1..Len(s)
  OBVIOUS
<1>2. t \in Seq(FrameType) /\ Len(t) = Len(s) - 1 /\ DOMAIN t = 1..(Len(s) - 1)
  BY <1>1
<1>3. \A i \in DOMAIN t : t[i] = s[i]
  BY <1>1, <1>2
<1>4. t = <<>> <=> Len(s) = 1
  <2>1. t # <<>> => Len(t) # 0
    BY <1>2, EmptySeq
  <2>2. t = <<>> => Len(t) = 0
    BY EmptySeq
  <2> QED
    BY <1>1, <1>2, <2>1, <2>2
<1> QED
  BY <1>1, <1>2, <1>3, <1>4

\* The frame of a new call.
LEMMA FrameTyped ==
  ASSUME NEW d \in Domain, Live(d), TypeOK, queried_domains' \subseteq {"spf", "a", "mx"} \X Domain
  PROVE  /\ Frame(d, Record[d]) \in FrameType
         /\ Frame(d, Record[d]).domain = d
BY DnsAssumption DEF Frame, FrameType, Live

-----------------------------------------------------------------------------
(* What a step does to the stack *)

\* The top frame g is replaced by a frame f about the same domain.
Replaced(g, f) ==
  /\ g \in FrameType /\ f \in FrameType /\ f.domain = g.domain
  /\ stack # <<>> /\ g = top
  /\ stack' = [stack EXCEPT ![Len(stack)] = f]

\* The frame in hand.
LEMMA TopTyped ==
  ASSUME TypeOK, pc = "parse"
  PROVE  stack # <<>> /\ \E g \in FrameType : g = top
BY DEF TypeOK, top

\* An include is passed over.
LEMMA SkipShape ==
  ASSUME TypeOK, Skip
  PROVE  \E g, f, d :
           /\ Replaced(g, f) /\ d \in g.left /\ g.stage = "include"
           /\ f = [g EXCEPT !.left = @ \ {d}]
           /\ queried_domains' = queried_domains \cup {<<"spf", d>>}
           /\ <<"spf", d>> \in queried_domains \/ exhausted'
           /\ UNCHANGED <<ips, failures>>
<1>1. stack # <<>> /\ \E g \in FrameType : g = top
  BY TopTyped DEF Skip, At
<1>2. PICK g \in FrameType : g = top
  BY <1>1
<1>3. PICK d \in g.left :
        /\ stack' = [stack EXCEPT ![Len(stack)] = [g EXCEPT !.left = @ \ {d}]]
        /\ queried_domains' = queried_domains \cup {<<"spf", d>>}
        /\ exhausted' = (exhausted \/ <<"spf", d>> \notin queried_domains)
  BY <1>2 DEF Skip, Top
<1>4. g.stage = "include" /\ UNCHANGED <<ips, failures>>
  BY <1>2 DEF Skip, At
<1>5. PICK f : f = [g EXCEPT !.left = @ \ {d}]
  OBVIOUS
<1>6. f \in FrameType /\ f.domain = g.domain
  BY <1>5 DEF FrameType
<1>7. <<"spf", d>> \in queried_domains \/ exhausted'
  BY <1>3
<1> QED
  BY <1>1, <1>2, <1>3, <1>4, <1>5, <1>6, <1>7 DEF Replaced

\* The names of the next kind are turned to, those asked about before left out.
LEMMA NextStageShape ==
  ASSUME TypeOK, NextStage
  PROVE  \E g, f :
           /\ Replaced(g, f) /\ g.left = {}
           /\ \/ /\ g.stage = "include"
                 /\ f = [g EXCEPT !.stage = "a",
                                  !.left = {d \in g.a : <<"a", d>> \notin queried_domains}]
              \/ /\ g.stage = "a"
                 /\ f = [g EXCEPT !.stage = "mx",
                                  !.left = {d \in g.mx : <<"mx", d>> \notin queried_domains}]
           /\ UNCHANGED <<queried_domains, ips, failures, exhausted>>
<1>1. stack # <<>> /\ \E g \in FrameType : g = top
  BY TopTyped DEF NextStage
<1>2. PICK g \in FrameType : g = top
  BY <1>1
<1>3. PICK as, ms : /\ as = {d \in g.a : <<"a", d>> \notin queried_domains}
                   /\ ms = {d \in g.mx : <<"mx", d>> \notin queried_domains}
  OBVIOUS
<1>4. as \in SUBSET Domain /\ ms \in SUBSET Domain
  BY <1>3 DEF FrameType
<1>5. PICK f : /\ stack' = [stack EXCEPT ![Len(stack)] = f]
              /\ \/ g.stage = "include" /\ f = [g EXCEPT !.stage = "a", !.left = as]
                 \/ g.stage = "a" /\ f = [g EXCEPT !.stage = "mx", !.left = ms]
  BY <1>2, <1>3 DEF NextStage, Top
<1>6. f \in FrameType /\ f.domain = g.domain
  BY <1>4, <1>5 DEF FrameType
<1>7. g.left = {} /\ UNCHANGED <<queried_domains, ips, failures, exhausted>>
  BY <1>2 DEF NextStage
<1> QED
  BY <1>1, <1>2, <1>3, <1>5, <1>6, <1>7 DEF Replaced

\* What the answer to a query for addresses adds.
Answered(d) ==
  /\ UNCHANGED failures
  /\ ips' = ips \cup A[d]
  /\ queried_domains' = queried_domains \cup (IF A[d] = {} THEN {} ELSE {<<"a", d>>})

\* The addresses of a name are asked for.
LEMMA QueryAShape ==
  ASSUME TypeOK, QueryA
  PROVE  \E g, f :
           /\ Replaced(g, f) /\ g.stage = "a"
           /\ \/ /\ f = [g EXCEPT !.left = {}] /\ exhausted'
                 /\ UNCHANGED <<queried_domains, ips, failures>>
              \/ \E d \in g.left :
                   /\ f = [g EXCEPT !.left = @ \ {d}]
                   /\ \/ /\ failures' = failures + 1
                         /\ UNCHANGED <<queried_domains, ips>>
                      \/ Answered(d)
<1>1. stack # <<>> /\ \E g \in FrameType : g = top
  BY TopTyped DEF QueryA, At
<1>2. PICK g \in FrameType : g = top
  BY <1>1
<1>3. g.stage = "a"
  BY <1>2 DEF QueryA, At
<1>4. CASE ~WithinBudget
  <2>1. /\ stack' = [stack EXCEPT ![Len(stack)] = [g EXCEPT !.left = {}]] /\ exhausted'
        /\ UNCHANGED <<queried_domains, ips, failures>>
    BY <1>2, <1>4 DEF QueryA, Top
  <2>2. PICK f : f = [g EXCEPT !.left = {}]
    OBVIOUS
  <2>3. f \in FrameType /\ f.domain = g.domain
    BY <2>2 DEF FrameType
  <2> QED
    BY <1>1, <1>2, <1>3, <2>1, <2>2, <2>3 DEF Replaced
<1>5. CASE WithinBudget
  <2>1. PICK d \in g.left :
          /\ stack' = [stack EXCEPT ![Len(stack)] = [g EXCEPT !.left = @ \ {d}]]
          /\ \/ Fails /\ UNCHANGED <<ips, queried_domains>>
             \/ Answered(d)
    BY <1>2, <1>5, Zenon DEF QueryA, Top, Answered
  <2>2. PICK f : f = [g EXCEPT !.left = @ \ {d}]
    OBVIOUS
  <2>3. f \in FrameType /\ f.domain = g.domain
    BY <2>2 DEF FrameType
  <2>4. Replaced(g, f)
    BY <1>1, <1>2, <2>1, <2>2, <2>3 DEF Replaced
  <2>5. \/ failures' = failures + 1 /\ UNCHANGED <<queried_domains, ips>>
        \/ Answered(d)
    BY <2>1 DEF Fails
  <2> QED
    BY <1>3, <2>2, <2>4, <2>5
<1> QED
  BY <1>4, <1>5

\* The mail servers of a name are asked for.
LEMMA QueryMXShape ==
  ASSUME TypeOK, QueryMX
  PROVE  \E g, f :
           /\ Replaced(g, f) /\ g.stage = "mx"
           /\ UNCHANGED <<queried_domains, ips>>
           /\ \/ /\ f = [g EXCEPT !.left = {}] /\ exhausted' /\ UNCHANGED failures
              \/ \E d \in g.left :
                   \/ /\ failures' = failures + 1
                      /\ f = [g EXCEPT !.left = @ \ {d}]
                   \/ /\ UNCHANGED failures
                      /\ f = [g EXCEPT !.left = @ \ {d}, !.stage = "hosts", !.mx_domain = d,
                                       !.hostnames = g.hostnames \cup MX[d],
                                       !.hosts = g.hostnames \cup MX[d]]
<1>1. stack # <<>> /\ \E g \in FrameType : g = top
  BY TopTyped DEF QueryMX, At
<1>2. PICK g \in FrameType : g = top
  BY <1>1
<1>3. g.stage = "mx" /\ UNCHANGED <<queried_domains, ips>>
  BY <1>2 DEF QueryMX, At
<1>4. CASE ~WithinBudget
  <2>1. /\ stack' = [stack EXCEPT ![Len(stack)] = [g EXCEPT !.left = {}]] /\ exhausted'
        /\ UNCHANGED failures
    BY <1>2, <1>4 DEF QueryMX, Top
  <2>2. PICK f : f = [g EXCEPT !.left = {}]
    OBVIOUS
  <2>3. f \in FrameType /\ f.domain = g.domain
    BY <2>2 DEF FrameType
  <2> QED
    BY <1>1, <1>2, <1>3, <2>1, <2>2, <2>3 DEF Replaced
<1>5. CASE WithinBudget
  <2>1. PICK d \in g.left :
          \/ /\ failures' = failures + 1
             /\ stack' = [stack EXCEPT ![Len(stack)] = [g EXCEPT !.left = @ \ {d}]]
          \/ /\ UNCHANGED failures
             /\ stack' = [stack EXCEPT ![Len(stack)] =
                  [g EXCEPT !.left = @ \ {d}, !.stage = "hosts", !.mx_domain = d,
                            !.hostnames = g.hostnames \cup MX[d],
                            !.hosts = g.hostnames \cup MX[d]]]
    BY <1>2, <1>5 DEF QueryMX, Top, Fails
  <2>2. PICK f, h : /\ f = [g EXCEPT !.left = @ \ {d}]
                   /\ h = [g EXCEPT !.left = @ \ {d}, !.stage = "hosts", !.mx_domain = d,
                                    !.hostnames = g.hostnames \cup MX[d],
                                    !.hosts = g.hostnames \cup MX[d]]
    OBVIOUS
  <2>3. f \in FrameType /\ f.domain = g.domain
    BY <2>2 DEF FrameType
  <2>4. h \in FrameType /\ h.domain = g.domain
    <3>1. d \in Domain /\ MX[d] \subseteq Domain
      BY DnsAssumption DEF FrameType
    <3> QED
      BY <2>2, <3>1 DEF FrameType
  <2>5. CASE failures' = failures + 1 /\ stack' = [stack EXCEPT ![Len(stack)] = f]
    BY <1>1, <1>2, <1>3, <2>2, <2>3, <2>5 DEF Replaced
  <2>6. CASE UNCHANGED failures /\ stack' = [stack EXCEPT ![Len(stack)] = h]
    BY <1>1, <1>2, <1>3, <2>2, <2>4, <2>6 DEF Replaced
  <2> QED
    BY <2>1, <2>2, <2>5, <2>6
<1> QED
  BY <1>4, <1>5

\* The addresses of a mail server are asked for.
LEMMA QueryHostShape ==
  ASSUME TypeOK, QueryHost
  PROVE  \E g, f :
           /\ Replaced(g, f) /\ g.stage = "hosts"
           /\ \/ /\ f = [g EXCEPT !.hosts = {}] /\ exhausted'
                 /\ UNCHANGED <<queried_domains, ips, failures>>
              \/ \E d \in g.hosts :
                   /\ f = [g EXCEPT !.hosts = @ \ {d}]
                   /\ \/ /\ failures' = failures + 1
                         /\ UNCHANGED <<queried_domains, ips>>
                      \/ Answered(d)
<1>1. stack # <<>> /\ \E g \in FrameType : g = top
  BY TopTyped DEF QueryHost, At
<1>2. PICK g \in FrameType : g = top
  BY <1>1
<1>3. g.stage = "hosts"
  BY <1>2 DEF QueryHost, At
<1>4. CASE ~WithinBudget
  <2>1. /\ stack' = [stack EXCEPT ![Len(stack)] = [g EXCEPT !.hosts = {}]] /\ exhausted'
        /\ UNCHANGED <<queried_domains, ips, failures>>
    BY <1>2, <1>4 DEF QueryHost, Top
  <2>2. PICK f : f = [g EXCEPT !.hosts = {}]
    OBVIOUS
  <2>3. f \in FrameType /\ f.domain = g.domain
    BY <2>2 DEF FrameType
  <2> QED
    BY <1>1, <1>2, <1>3, <2>1, <2>2, <2>3 DEF Replaced
<1>5. CASE WithinBudget
  <2>1. PICK d \in g.hosts :
          /\ stack' = [stack EXCEPT ![Len(stack)] = [g EXCEPT !.hosts = @ \ {d}]]
          /\ \/ Fails /\ UNCHANGED <<ips, queried_domains>>
             \/ Answered(d)
    BY <1>2, <1>5, Zenon DEF QueryHost, Top, Answered
  <2>2. PICK f : f = [g EXCEPT !.hosts = @ \ {d}]
    OBVIOUS
  <2>3. f \in FrameType /\ f.domain = g.domain
    BY <2>2 DEF FrameType
  <2>4. Replaced(g, f)
    BY <1>1, <1>2, <2>1, <2>2, <2>3 DEF Replaced
  <2>5. \/ failures' = failures + 1 /\ UNCHANGED <<queried_domains, ips>>
        \/ Answered(d)
    BY <2>1 DEF Fails
  <2> QED
    BY <1>3, <2>2, <2>4, <2>5
<1> QED
  BY <1>4, <1>5

\* The servers of a name are done with.
LEMMA NextMXShape ==
  ASSUME TypeOK, NextMX
  PROVE  \E g, f :
           /\ Replaced(g, f) /\ g.stage = "hosts" /\ g.hosts = {}
           /\ f = [g EXCEPT !.stage = "mx"]
           /\ queried_domains' =
                queried_domains \cup (IF MX[g.mx_domain] = {} THEN {} ELSE {<<"mx", g.mx_domain>>})
           /\ UNCHANGED <<ips, failures, exhausted>>
<1>1. stack # <<>> /\ \E g \in FrameType : g = top
  BY TopTyped DEF NextMX, At
<1>2. PICK g \in FrameType : g = top
  BY <1>1
<1>3. /\ stack' = [stack EXCEPT ![Len(stack)] = [g EXCEPT !.stage = "mx"]]
      /\ queried_domains' =
           queried_domains \cup (IF MX[g.mx_domain] = {} THEN {} ELSE {<<"mx", g.mx_domain>>})
  BY <1>2 DEF NextMX, Top
<1>4. g.stage = "hosts" /\ g.hosts = {} /\ UNCHANGED <<ips, failures, exhausted>>
  BY <1>2 DEF NextMX, At
<1>5. PICK f : f = [g EXCEPT !.stage = "mx"]
  OBVIOUS
<1>6. f \in FrameType /\ f.domain = g.domain
  BY <1>5 DEF FrameType
<1> QED
  BY <1>1, <1>2, <1>3, <1>4, <1>5, <1>6 DEF Replaced

\* A loop goes on, whatever its query brings.
LEMMA WorkShape ==
  ASSUME TypeOK, Skip \/ NextStage \/ QueryA \/ QueryMX \/ QueryHost \/ NextMX
  PROVE  /\ pc = "parse" /\ UNCHANGED <<mode, domains, pc, verdict, asked>>
         /\ \E g, f : Replaced(g, f)
<1>1. pc = "parse" /\ UNCHANGED <<mode, domains, pc, verdict, asked>>
  BY DEF Skip, NextStage, QueryA, QueryMX, QueryHost, NextMX, At
<1> QED
  BY <1>1, SkipShape, NextStageShape, QueryAShape, QueryMXShape, QueryHostShape, NextMXShape

\* A call calls for a domain it had still to ask about, or fails to.
LEMMA IncludeShape ==
  ASSUME TypeOK, Include
  PROVE  \E g \in FrameType, d \in Domain, f \in FrameType :
           /\ g = top /\ d \in g.left /\ g.stage = "include"
           /\ <<"spf", d>> \notin queried_domains
           /\ queried_domains' = queried_domains \cup {<<"spf", d>>}
           /\ f = [g EXCEPT !.left = @ \ {d}] /\ f.domain = g.domain
           /\ stack # <<>> /\ UNCHANGED pc
           /\ \/ /\ stack' = [stack EXCEPT ![Len(stack)] = f] /\ UNCHANGED ips
                 /\ failures' = failures + 1 \/ (~Live(d) /\ UNCHANGED failures)
              \/ /\ Live(d) /\ UNCHANGED failures
                 /\ ips' = ips \cup Record[d].ips
                 /\ Frame(d, Record[d]) \in FrameType /\ Frame(d, Record[d]).domain = d
                 /\ stack' = Append([stack EXCEPT ![Len(stack)] = f], Frame(d, Record[d]))
<1>1. stack # <<>> /\ UNCHANGED pc
  BY DEF Include, At, TypeOK
<1>2. PICK g \in FrameType : g = top
  BY <1>1 DEF TypeOK, top
<1>3. PICK d \in g.left :
        /\ <<"spf", d>> \notin queried_domains
        /\ queried_domains' = queried_domains \cup {<<"spf", d>>}
        /\ LET rest == [stack EXCEPT ![Len(stack)].left = @ \ {d}]
           IN  \/ Fails /\ stack' = rest /\ UNCHANGED ips
               \/ /\ UNCHANGED failures
                  /\ IF Record[d] = NoRecord THEN stack' = rest /\ UNCHANGED ips
                     ELSE stack' = Append(rest, Frame(d, Record[d])) /\ ips' = ips \cup Record[d].ips
  BY <1>2, Zenon DEF Include
<1>4. d \in Domain
  BY DEF FrameType
<1>5. PICK f : f = [g EXCEPT !.left = @ \ {d}]
  OBVIOUS
<1>6. f \in FrameType /\ f.domain = g.domain
  BY <1>5 DEF FrameType
<1>7. PICK rest : /\ rest = [stack EXCEPT ![Len(stack)] = f]
                  /\ \/ Fails /\ stack' = rest /\ UNCHANGED ips
                     \/ /\ UNCHANGED failures
                        /\ IF Record[d] = NoRecord THEN stack' = rest /\ UNCHANGED ips
                           ELSE stack' = Append(rest, Frame(d, Record[d])) /\ ips' = ips \cup Record[d].ips
  <2>1. [stack EXCEPT ![Len(stack)].left = @ \ {d}]
          = [stack EXCEPT ![Len(stack)] = [stack[Len(stack)] EXCEPT !.left = @ \ {d}]]
    OBVIOUS
  <2>2. [stack EXCEPT ![Len(stack)].left = @ \ {d}] = [stack EXCEPT ![Len(stack)] = f]
    BY <2>1, <1>2, <1>5 DEF top
  <2> QED
    BY <1>3, <2>2, Zenon
<1>8. g.stage = "include"
  BY <1>2 DEF Include, At
<1>9. queried_domains' \subseteq {"spf", "a", "mx"} \X Domain
  BY <1>3, <1>4 DEF TypeOK
<1>10. Live(d) => Frame(d, Record[d]) \in FrameType /\ Frame(d, Record[d]).domain = d
  BY <1>4, <1>9, FrameTyped
<1>11. CASE Live(d) /\ stack' = Append(rest, Frame(d, Record[d]))
  <2>1. UNCHANGED failures /\ ips' = ips \cup Record[d].ips
    BY <1>7, <1>11 DEF Live
  <2> QED
    BY <2>1, <1>1, <1>2, <1>3, <1>4, <1>5, <1>6, <1>7, <1>8, <1>10, <1>11
<1>12. CASE stack' = rest /\ UNCHANGED ips
            /\ (failures' = failures + 1 \/ (~Live(d) /\ UNCHANGED failures))
  BY <1>1, <1>2, <1>3, <1>4, <1>5, <1>6, <1>7, <1>8, <1>12
<1> QED
  BY <1>7, <1>11, <1>12 DEF Fails, Live

\* The import asks for the mail servers of a domain.
MailFrame(d) ==
  [domain |-> d, a |-> {}, mx |-> {}, stage |-> "mx", left |-> {d}, hostnames |-> {},
   hosts |-> {}, mx_domain |-> d]

\* A domain is begun with: it is one that was met before, or has no record to go by, or its
\* record or its mail servers are taken.
LEMMA StartShape ==
  ASSUME TypeOK, Start
  PROVE  \E d \in domains :
           /\ pc = "start" /\ d \in Domain /\ domains' = domains \ {d} /\ stack = <<>>
           /\ \/ /\ <<"spf", d>> \in queried_domains
                 /\ UNCHANGED <<pc, stack, queried_domains, num_queries, ips, issued, txt, failures>>
              \/ /\ <<"spf", d>> \notin queried_domains
                 /\ queried_domains' = queried_domains \cup {<<"spf", d>>}
                 /\ num_queries' = 0 /\ issued' = issued + 1
                 /\ txt' = [txt EXCEPT ![d] = @ + 1]
                 /\ failures' \in {failures, failures + 1}
                 /\ \/ /\ UNCHANGED <<pc, stack, ips>>
                       /\ mode # "import"
                       /\ ~Live(d) \/ failures' = failures + 1
                    \/ /\ pc' = "parse"
                       /\ \E f \in FrameType :
                            /\ stack' = <<f>> /\ f.domain = d
                            /\ \/ /\ Live(d) /\ f = Frame(d, Record[d])
                                  /\ ips' = ips \cup Record[d].ips
                               \/ /\ mode = "import" /\ UNCHANGED ips
                                  /\ ~Live(d) \/ failures' = failures + 1
                                  /\ f = MailFrame(d)
<1>1. pc = "start" /\ stack = <<>>
  BY DEF Start, TypeOK
<1>2. CASE \E d \in domains : <<"spf", d>> \in queried_domains
                            /\ domains' = domains \ {d}
                            /\ UNCHANGED <<pc, stack, queried_domains, num_queries, ips, issued, txt, failures>>
  BY <1>1, <1>2 DEF TypeOK
<1>3. CASE \E d \in domains :
             /\ <<"spf", d>> \notin queried_domains
             /\ domains' = domains \ {d}
             /\ num_queries' = 0 /\ issued' = issued + 1
             /\ txt' = [txt EXCEPT ![d] = @ + 1]
             /\ queried_domains' = queried_domains \cup {<<"spf", d>>}
             /\ \E ok \in BOOLEAN :
                  /\ failures' = IF ok THEN failures ELSE failures + 1
                  /\ IF ok /\ Record[d] # NoRecord
                       THEN /\ pc' = "parse" /\ stack' = <<Frame(d, Record[d])>>
                            /\ ips' = ips \cup Record[d].ips
                     ELSE IF mode = "import"
                       THEN pc' = "parse" /\ stack' = <<MailFrame(d)>> /\ UNCHANGED ips
                     ELSE UNCHANGED <<pc, stack, ips>>
  <2>1. PICK d \in domains, ok \in BOOLEAN :
             /\ <<"spf", d>> \notin queried_domains
             /\ domains' = domains \ {d}
             /\ num_queries' = 0 /\ issued' = issued + 1
             /\ txt' = [txt EXCEPT ![d] = @ + 1]
             /\ queried_domains' = queried_domains \cup {<<"spf", d>>}
             /\ failures' = IF ok THEN failures ELSE failures + 1
             /\ IF ok /\ Record[d] # NoRecord
                  THEN /\ pc' = "parse" /\ stack' = <<Frame(d, Record[d])>>
                       /\ ips' = ips \cup Record[d].ips
                ELSE IF mode = "import"
                  THEN pc' = "parse" /\ stack' = <<MailFrame(d)>> /\ UNCHANGED ips
                ELSE UNCHANGED <<pc, stack, ips>>
    BY <1>3
  <2>2. d \in Domain
    BY DEF TypeOK
  <2>3. queried_domains' \subseteq {"spf", "a", "mx"} \X Domain
    BY <2>1, <2>2 DEF TypeOK
  <2>4. Live(d) => Frame(d, Record[d]) \in FrameType /\ Frame(d, Record[d]).domain = d
    BY <2>2, <2>3, FrameTyped
  <2>5. MailFrame(d) \in FrameType /\ MailFrame(d).domain = d
    BY <2>2 DEF MailFrame, FrameType
  <2>6. CASE ok /\ Live(d)
    <3>1. /\ failures' \in {failures, failures + 1} /\ pc' = "parse"
          /\ stack' = <<Frame(d, Record[d])>> /\ ips' = ips \cup Record[d].ips
      BY <2>1, <2>6 DEF Live
    <3> QED
      BY <1>1, <2>1, <2>2, <2>4, <2>6, <3>1
  <2>7. CASE ~(ok /\ Live(d)) /\ mode = "import"
    <3>1. /\ failures' \in {failures, failures + 1} /\ pc' = "parse"
          /\ stack' = <<MailFrame(d)>> /\ UNCHANGED ips
          /\ ~Live(d) \/ failures' = failures + 1
      BY <2>1, <2>7 DEF Live
    <3> QED
      BY <1>1, <2>1, <2>2, <2>5, <2>7, <3>1
  <2>8. CASE ~(ok /\ Live(d)) /\ mode # "import"
    <3>1. /\ failures' \in {failures, failures + 1} /\ UNCHANGED <<pc, stack, ips>>
          /\ ~Live(d) \/ failures' = failures + 1
      BY <2>1, <2>8 DEF Live
    <3> QED
      BY <1>1, <2>1, <2>2, <2>8, <3>1
  <2> QED
    BY <2>6, <2>7, <2>8
<1> QED
  BY <1>2, <1>3 DEF Start, MailFrame

\* What was asked about stays marked (libs/dnsspf.py: queried_domains is only added to).
LEMMA QueriedGrows ==
  ASSUME TypeOK, [Next]_vars
  PROVE  /\ queried_domains \subseteq queried_domains'
         /\ queried_domains' \subseteq {"spf", "a", "mx"} \X Domain
<1>1. CASE Skip
  <2>1. stack # <<>>
    BY <1>1 DEF Skip, At, TypeOK
  <2>2. PICK g \in FrameType : g = top
    BY <2>1 DEF TypeOK, top
  <2>3. PICK d \in g.left : queried_domains' = queried_domains \cup {<<"spf", d>>}
    BY <1>1, <2>2 DEF Skip
  <2> QED
    BY <2>3 DEF TypeOK, FrameType
<1>2. CASE QueryA \/ QueryHost
  <2>1. stack # <<>>
    BY <1>2 DEF QueryA, QueryHost, At, TypeOK
  <2>2. PICK g \in FrameType : g = top
    BY <2>1 DEF TypeOK, top
  <2>3. \/ UNCHANGED queried_domains
        \/ \E d \in g.left \cup g.hosts : queried_domains' = queried_domains \cup {<<"a", d>>}
    BY <1>2, <2>2 DEF QueryA, QueryHost
  <2> QED
    BY <2>3 DEF TypeOK, FrameType
<1>3. CASE NextMX \/ Return
  <2>1. stack # <<>>
    BY <1>3 DEF NextMX, Return, At, TypeOK
  <2>2. PICK g \in FrameType : g = top
    BY <2>1 DEF TypeOK, top
  <2>3. \/ UNCHANGED queried_domains
        \/ queried_domains' = queried_domains \cup {<<"mx", g.mx_domain>>}
        \/ queried_domains' = queried_domains \cup {<<"spf", g.domain>>}
    BY <1>3, <2>2 DEF NextMX, Return
  <2> QED
    BY <2>3 DEF TypeOK, FrameType
<1>4. CASE Include
  <2>1. PICK d \in Domain : queried_domains' = queried_domains \cup {<<"spf", d>>}
    BY <1>4, IncludeShape
  <2> QED
    BY <2>1 DEF TypeOK
<1>5. CASE Start
  <2>1. PICK d \in Domain : \/ UNCHANGED queried_domains
                            \/ queried_domains' = queried_domains \cup {<<"spf", d>>}
    BY <1>5, StartShape
  <2> QED
    BY <2>1 DEF TypeOK
<1>6. CASE UNCHANGED queried_domains
  BY <1>6 DEF TypeOK
<1>7. Answer \/ NextStage \/ QueryMX \/ UNCHANGED vars => UNCHANGED queried_domains
  BY DEF Answer, NextStage, QueryMX, vars
<1> QED
  BY <1>1, <1>2, <1>3, <1>4, <1>5, <1>6, <1>7 DEF Next

\* The calls that are open, also of their domains: which are marked before the call, and
\* not called for again when they are.
LEMMA StackStep ==
  ASSUME TypeOK, Distinct(stack), [Next]_vars
  PROVE  /\ stack' \in Seq(FrameType) /\ Distinct(stack')
         /\ \A i \in DOMAIN stack' : <<"spf", stack'[i].domain>> \in queried_domains'
<1>1. /\ stack \in Seq(FrameType)
      /\ \A i \in DOMAIN stack : <<"spf", stack[i].domain>> \in queried_domains'
  BY QueriedGrows DEF TypeOK
<1>2. CASE Skip \/ NextStage \/ QueryA \/ QueryMX \/ QueryHost \/ NextMX
  <2>1. PICK g, f : Replaced(g, f)
    BY <1>2, WorkShape
  <2>2. /\ stack' \in Seq(FrameType) /\ DOMAIN stack' = DOMAIN stack
        /\ \A i \in DOMAIN stack : stack'[i] = IF i = Len(stack) THEN f ELSE stack[i]
    BY <1>1, <2>1, TopChanged DEF Replaced
  <2>3. \A i \in DOMAIN stack : stack'[i].domain = stack[i].domain
    BY <2>1, <2>2 DEF Replaced, top
  <2> QED
    BY <1>1, <2>2, <2>3 DEF Distinct
<1>3. CASE Include
  <2>1. PICK g \in FrameType, d \in Domain, f \in FrameType :
          /\ g = top /\ f.domain = g.domain /\ stack # <<>>
          /\ <<"spf", d>> \notin queried_domains /\ <<"spf", d>> \in queried_domains'
          /\ \/ stack' = [stack EXCEPT ![Len(stack)] = f]
             \/ /\ Frame(d, Record[d]) \in FrameType /\ Frame(d, Record[d]).domain = d
                /\ stack' = Append([stack EXCEPT ![Len(stack)] = f], Frame(d, Record[d]))
    BY <1>3, IncludeShape
  <2>2. CASE stack' = [stack EXCEPT ![Len(stack)] = f]
    <3>1. /\ stack' \in Seq(FrameType) /\ DOMAIN stack' = DOMAIN stack
          /\ \A i \in DOMAIN stack : stack'[i] = IF i = Len(stack) THEN f ELSE stack[i]
      BY <1>1, <2>1, <2>2, TopChanged
    <3>2. \A i \in DOMAIN stack : stack'[i].domain = stack[i].domain
      BY <2>1, <3>1 DEF top
    <3> QED
      BY <1>1, <3>1, <3>2 DEF Distinct
  <2>3. ASSUME NEW h \in FrameType, h.domain = d,
               stack' = Append([stack EXCEPT ![Len(stack)] = f], h)
        PROVE  /\ stack' \in Seq(FrameType) /\ Distinct(stack')
               /\ \A i \in DOMAIN stack' : <<"spf", stack'[i].domain>> \in queried_domains'
    <3>1. /\ stack' \in Seq(FrameType) /\ DOMAIN stack' = 1..(Len(stack) + 1)
          /\ \A i \in DOMAIN stack : stack'[i] = IF i = Len(stack) THEN f ELSE stack[i]
          /\ stack'[Len(stack) + 1] = h
          /\ DOMAIN stack = 1..Len(stack) /\ Len(stack) \in Nat
      BY <1>1, <2>1, <2>3, Pushed
    <3>2. \A i \in DOMAIN stack : stack'[i].domain = stack[i].domain
      BY <2>1, <3>1 DEF top
    <3>3. \A i \in DOMAIN stack : stack[i].domain # d
      BY <2>1 DEF TypeOK
    <3>4. \A i \in DOMAIN stack' : i \in DOMAIN stack \/ i = Len(stack) + 1
      BY <3>1
    <3>5. \A i, j \in DOMAIN stack' : stack'[i].domain = stack'[j].domain => i = j
      <4>1. stack'[Len(stack) + 1].domain = d
        BY <2>3, <3>1
      <4>2. \A i, j \in DOMAIN stack : stack'[i].domain = stack'[j].domain => i = j
        BY <3>2 DEF Distinct
      <4> QED
        BY <3>2, <3>3, <3>4, <4>1, <4>2
    <3> QED
      BY <1>1, <2>1, <2>3, <3>1, <3>2, <3>4, <3>5 DEF Distinct
  <2> QED
    BY <2>1, <2>2, <2>3
<1>4. CASE Return
  <2>1. stack # <<>> /\ stack' = SubSeq(stack, 1, Len(stack) - 1)
    BY <1>4 DEF Return, At, TypeOK
  <2>2. /\ stack' \in Seq(FrameType)
        /\ \A i \in DOMAIN stack' : i \in DOMAIN stack /\ i # Len(stack) /\ stack'[i] = stack[i]
    BY <1>1, <2>1, Popped
  <2> QED
    BY <1>1, <2>2 DEF Distinct
<1>5. CASE Start
  <2>1. PICK d \in Domain : /\ stack = <<>>
                            /\ \/ UNCHANGED stack
                               \/ /\ <<"spf", d>> \in queried_domains'
                                  /\ \E f \in FrameType : stack' = <<f>> /\ f.domain = d
    BY <1>5, StartShape
  <2>2. ASSUME NEW f \in FrameType, stack' = <<f>>, f.domain = d
        PROVE  /\ stack' \in Seq(FrameType) /\ DOMAIN stack' = {1} /\ stack'[1].domain = d
    BY <2>2
  <2> QED
    BY <1>1, <2>1, <2>2 DEF Distinct
<1>6. CASE UNCHANGED stack
  BY <1>1, <1>6
<1>7. Answer \/ UNCHANGED vars => UNCHANGED stack
  BY DEF Answer, vars
<1> QED
  BY <1>2, <1>3, <1>4, <1>5, <1>6, <1>7 DEF Next

\* A call is open just while a record is being parsed.
LEMMA OpenWhileParsing ==
  ASSUME TypeOK, [Next]_vars
  PROVE  (pc' = "parse") = (stack' # <<>>) /\ pc' \in {"start", "parse", "done"}
<1>1. CASE Skip \/ NextStage \/ QueryA \/ QueryMX \/ QueryHost \/ NextMX
  <2>1. PICK g, f : pc = "parse" /\ UNCHANGED pc /\ Replaced(g, f)
    BY <1>1, WorkShape
  <2>2. stack' # <<>>
    BY <2>1, TopChanged DEF Replaced, TypeOK
  <2> QED
    BY <2>1, <2>2
<1>2. CASE Include
  <2>1. PICK g \in FrameType, d \in Domain, f \in FrameType :
          /\ stack # <<>> /\ UNCHANGED pc
          /\ \/ stack' = [stack EXCEPT ![Len(stack)] = f]
             \/ /\ Frame(d, Record[d]) \in FrameType
                /\ stack' = Append([stack EXCEPT ![Len(stack)] = f], Frame(d, Record[d]))
    BY <1>2, IncludeShape
  <2>2. stack' # <<>>
    BY <2>1, TopChanged, Pushed DEF TypeOK
  <2>3. pc = "parse"
    BY <1>2 DEF Include, At
  <2> QED
    BY <2>1, <2>2, <2>3
<1>3. CASE Return
  <2>1. stack # <<>> /\ stack' = SubSeq(stack, 1, Len(stack) - 1) /\ pc = "parse"
        /\ pc' = IF Len(stack) = 1 THEN "start" ELSE pc
    BY <1>3 DEF Return, At, TypeOK
  <2>2. stack' = <<>> <=> Len(stack) = 1
    BY <2>1, Popped DEF TypeOK
  <2> QED
    BY <2>1, <2>2
<1>4. CASE Start
  <2>1. /\ pc = "start"
        /\ \/ UNCHANGED <<pc, stack>>
           \/ pc' = "parse" /\ \E f \in FrameType : stack' = <<f>>
    BY <1>4, StartShape
  <2> QED
    BY <2>1 DEF TypeOK
<1>5. CASE Answer
  BY <1>5 DEF Answer, TypeOK
<1>6. CASE UNCHANGED vars
  BY <1>6 DEF vars, TypeOK
<1> QED
  BY <1>1, <1>2, <1>3, <1>4, <1>5, <1>6 DEF Next

\* What a query counts: each is made within the budget, and counted, and only the query that
\* a domain begins with is not (libs/dnsspf.py:165).
LEMMA IssueStep ==
  ASSUME TypeOK, [Next]_vars
  PROVE  /\ \/ Start
            \/ UNCHANGED <<num_queries, issued>>
            \/ WithinBudget /\ Issue
         /\ failures' \in {failures, failures + 1}
         /\ exhausted' \in BOOLEAN /\ (exhausted => exhausted')
<1> USE DEF TypeOK
<1>1. CASE Skip
  <2>1. UNCHANGED <<num_queries, issued, failures>>
    BY <1>1 DEF Skip
  <2>2. \E b \in BOOLEAN : exhausted' = (exhausted \/ b)
    BY <1>1, Zenon DEF Skip
  <2> QED
    BY <2>1, <2>2
<1>2. CASE Include
  BY <1>2 DEF Include, Issue, Fails
<1>3. CASE QueryA \/ QueryMX \/ QueryHost
  <2>1. CASE WithinBudget
    <3>1. Issue /\ (Fails \/ UNCHANGED failures) /\ UNCHANGED exhausted
      <4>1. CASE QueryA
        BY <4>1, <2>1, Zenon DEF QueryA
      <4>2. CASE QueryMX
        BY <4>2, <2>1, Zenon DEF QueryMX
      <4>3. CASE QueryHost
        BY <4>3, <2>1, Zenon DEF QueryHost
      <4> QED
        BY <1>3, <4>1, <4>2, <4>3
    <3> QED
      BY <2>1, <3>1 DEF Fails
  <2>2. CASE ~WithinBudget
    <3>1. UNCHANGED <<num_queries, issued, failures>> /\ exhausted' = TRUE
      BY <1>3, <2>2 DEF QueryA, QueryMX, QueryHost
    <3> QED
      BY <3>1
  <2> QED
    BY <2>1, <2>2
<1>4. CASE Start
  <2>1. UNCHANGED failures \/ failures' \in {failures, failures + 1}
    BY <1>4, StartShape
  <2>2. UNCHANGED exhausted
    BY <1>4 DEF Start
  <2> QED
    BY <1>4, <2>1, <2>2
<1>5. CASE UNCHANGED <<num_queries, issued, failures, exhausted>>
  BY <1>5
<1>6. NextStage \/ NextMX \/ Return \/ Answer \/ UNCHANGED vars
      => UNCHANGED <<num_queries, issued, failures, exhausted>>
  BY DEF NextStage, NextMX, Return, Answer, vars
<1> QED
  BY <1>1, <1>2, <1>3, <1>4, <1>5, <1>6 DEF Next

\* A record is counted when it is asked for and marked.
LEMMA TxtStep ==
  ASSUME TypeOK, [Next]_vars
  PROVE  \/ UNCHANGED txt
         \/ \E d \in Domain : /\ txt' = [txt EXCEPT ![d] = @ + 1]
                              /\ <<"spf", d>> \notin queried_domains
                              /\ <<"spf", d>> \in queried_domains'
<1>1. CASE Include
  <2>1. stack # <<>>
    BY <1>1 DEF Include, At, TypeOK
  <2>2. PICK g \in FrameType : g = top
    BY <2>1 DEF TypeOK, top
  <2>3. PICK d \in g.left : /\ <<"spf", d>> \notin queried_domains
                           /\ txt' = [txt EXCEPT ![d] = @ + 1]
                           /\ queried_domains' = queried_domains \cup {<<"spf", d>>}
    BY <1>1, <2>2 DEF Include
  <2> QED
    BY <2>3 DEF FrameType
<1>2. CASE Start
  BY <1>2, StartShape
<1>3. Skip \/ NextStage \/ QueryA \/ QueryMX \/ QueryHost \/ NextMX \/ Return \/ Answer
        \/ UNCHANGED vars => UNCHANGED txt
  BY DEF Skip, NextStage, QueryA, QueryMX, QueryHost, NextMX, Return, Answer, vars
<1> QED
  BY <1>1, <1>2, <1>3 DEF Next

\* Domains are taken one by one from those asked about.
LEMMA DomainsStep ==
  ASSUME TypeOK, [Next]_vars
  PROVE  /\ UNCHANGED <<mode, asked>> /\ domains' \subseteq domains
         /\ UNCHANGED domains \/ Start
<1>1. UNCHANGED <<mode, asked>>
  BY DEF Next, Start, Skip, Include, NextStage, QueryA, QueryMX, QueryHost, NextMX, Return, Answer,
         vars
<1>2. UNCHANGED domains \/ Start
  BY DEF Next, Skip, Include, NextStage, QueryA, QueryMX, QueryHost, NextMX, Return, Answer, vars
<1>3. Start => domains' \subseteq domains
  BY StartShape
<1> QED
  BY <1>1, <1>2, <1>3

-----------------------------------------------------------------------------
(* The queries are bounded *)

\* Every variable keeps its type, and the stack its bound.
LEMMA TypeStep ==
  ASSUME TypeOK, Distinct(stack), [Next]_vars
  PROVE  TypeOK' /\ Distinct(stack)'
<1>1. mode' \in {"allowed", "import"} /\ asked' \subseteq Domain /\ domains' \subseteq asked'
  BY DomainsStep DEF TypeOK
<1>2. txt' \in [Domain -> Nat]
  <2>1. CASE UNCHANGED txt
    BY <2>1 DEF TypeOK
  <2>2. CASE \E d \in Domain : txt' = [txt EXCEPT ![d] = @ + 1]
    BY <2>2 DEF TypeOK
  <2> QED
    BY <2>1, <2>2, TxtStep
<1>3. verdict' \in BOOLEAN
  <2>1. Answer => verdict' \in BOOLEAN
    BY DEF Answer
  <2>2. Answer \/ UNCHANGED verdict
    BY DEF Next, Start, Skip, Include, NextStage, QueryA, QueryMX, QueryHost, NextMX, Return, vars
  <2> QED
    BY <2>1, <2>2 DEF TypeOK
<1>4. Len(stack') <= Cardinality(Domain)
  BY StackStep, Depth
<1>5. num_queries' \in Nat /\ issued' \in Nat
  <2>1. CASE Start
    <3>1. \/ UNCHANGED <<num_queries, issued>>
          \/ num_queries' = 0 /\ issued' = issued + 1
      BY <2>1, StartShape
    <3> QED
      BY <3>1 DEF TypeOK
  <2>2. CASE ~Start
    BY <2>2, IssueStep DEF TypeOK, Issue
  <2> QED
    BY <2>1, <2>2
<1>6. failures' \in Nat /\ exhausted' \in BOOLEAN
  BY IssueStep DEF TypeOK
<1> QED
  BY <1>1, <1>2, <1>3, <1>4, <1>5, <1>6, QueriedGrows, StackStep, OpenWhileParsing DEF TypeOK

\* At first.
LEMMA TypeInit == Init => TypeOK /\ Distinct(stack)
<1> SUFFICES ASSUME Init PROVE TypeOK /\ Distinct(stack)
  OBVIOUS
<1>1. stack = <<>> /\ stack \in Seq(FrameType) /\ Len(stack) = 0 /\ DOMAIN stack = {}
  BY DEF Init
<1>2. Cardinality(Domain) \in Nat
  BY DnsAssumption, FS_CardinalityType
<1>3. txt \in [Domain -> Nat]
  BY DEF Init
<1>4. asked \subseteq Domain /\ domains \subseteq asked
  BY DnsAssumption DEF Init
<1>5. (pc = "parse") = (stack # <<>>)
  BY <1>1 DEF Init
<1>6. Len(stack) <= Cardinality(Domain)
  BY <1>1, <1>2
<1>7. /\ mode \in {"allowed", "import"} /\ pc \in {"start", "parse", "done"}
      /\ queried_domains \subseteq {"spf", "a", "mx"} \X Domain
      /\ num_queries \in Nat /\ issued \in Nat /\ failures \in Nat
      /\ verdict \in BOOLEAN /\ exhausted \in BOOLEAN
  BY DEF Init
<1> QED
  BY <1>1, <1>3, <1>4, <1>5, <1>6, <1>7 DEF TypeOK, Distinct

\* Every variable always has its type, and the recursion is never deeper than there are
\* domains, however records include each other.
THEOREM TypeCorrect == Spec => []TypeOK
<1>1. TypeOK /\ Distinct(stack) /\ [Next]_vars => TypeOK' /\ Distinct(stack)'
  BY TypeStep
<1> QED
  BY <1>1, TypeInit, PTL DEF Spec

\* One more domain has been begun with.
LEMMA Begun ==
  ASSUME TypeOK, NEW d \in domains
  PROVE  /\ Cardinality(asked \ domains) \in Nat
         /\ Cardinality(asked \ (domains \ {d})) = Cardinality(asked \ domains) + 1
<1>1. IsFiniteSet(asked) /\ IsFiniteSet(asked \ domains)
  BY DnsAssumption, FS_Subset DEF TypeOK
<1>2. asked \ (domains \ {d}) = (asked \ domains) \cup {d} /\ d \notin asked \ domains
  BY DEF TypeOK
<1> QED
  BY <1>1, <1>2, FS_AddElement, FS_CardinalityType

\* What a domain may cost.
LEMMA SpentMore ==
  ASSUME NEW n \in Nat, NEW k \in Nat, k >= n
  PROVE  /\ Spent(n) \in Nat /\ Spent(k) >= Spent(n)
         /\ Spent(n + 1) = Spent(n) + max_queries + 1
<1>1. max_queries \in Nat
  BY DnsAssumption
<1>2. PICK m \in Nat : k = n + m
  <2>1. k - n \in Nat /\ k = n + (k - n)
    OBVIOUS
  <2> QED
    BY <2>1
<1>3. n * (max_queries + 1) \in Nat /\ m * (max_queries + 1) \in Nat
  BY <1>1
<1>4. (n + m) * (max_queries + 1) = n * (max_queries + 1) + m * (max_queries + 1)
  BY <1>1
<1>5. (n + 1) * (max_queries + 1) = n * (max_queries + 1) + max_queries + 1
  BY <1>1
<1> QED
  BY <1>1, <1>2, <1>3, <1>4, <1>5 DEF Spent

\* Each action keeps the count: a query within the budget is counted, and a domain is begun
\* with when what the last one may cost has been paid for.
LEMMA BudgetStep ==
  ASSUME TypeOK, BudgetInv, [Next]_vars
  PROVE  BudgetInv'
<1> DEFINE begun == Cardinality(asked \ domains)
<1>1. Distinct(stack)'
  BY TypeStep DEF BudgetInv
<1>2. \A d \in Domain : txt'[d] <= 1 /\ (<<"spf", d>> \notin queried_domains' => txt'[d] = 0)
  <2>1. CASE UNCHANGED txt
    BY <2>1, QueriedGrows DEF BudgetInv
  <2>2. CASE \E d \in Domain : /\ txt' = [txt EXCEPT ![d] = @ + 1]
                               /\ <<"spf", d>> \notin queried_domains
                               /\ <<"spf", d>> \in queried_domains'
    <3>1. PICK e \in Domain : /\ txt' = [txt EXCEPT ![e] = @ + 1]
                              /\ <<"spf", e>> \notin queried_domains
                              /\ <<"spf", e>> \in queried_domains'
      BY <2>2
    <3>2. txt[e] = 0 /\ txt'[e] = 1
      BY <3>1 DEF BudgetInv, TypeOK
    <3>3. \A d \in Domain : d # e => txt'[d] = txt[d]
      BY <3>1 DEF TypeOK
    <3>4. \A d \in Domain : txt[d] <= 1 /\ (<<"spf", d>> \notin queried_domains => txt[d] = 0)
      BY DEF BudgetInv
    <3>5. ASSUME NEW d \in Domain
          PROVE  txt'[d] <= 1 /\ (<<"spf", d>> \notin queried_domains' => txt'[d] = 0)
      <4>1. CASE d = e
        BY <3>1, <3>2, <4>1
      <4>2. CASE d # e
        <5>1. txt'[d] = txt[d]
          BY <3>3, <4>2
        <5>2. <<"spf", d>> \notin queried_domains' => <<"spf", d>> \notin queried_domains
          BY QueriedGrows
        <5> QED
          BY <3>4, <5>1, <5>2
      <4> QED
        BY <4>1, <4>2
    <3> QED
      BY <3>5
  <2> QED
    BY <2>1, <2>2, TxtStep
<1>3. begun \in Nat /\ max_queries \in Nat /\ num_queries \in Nat /\ issued \in Nat
      /\ Spent(begun) \in Nat
  <2>1. begun \in Nat
    BY DnsAssumption, FS_Subset, FS_CardinalityType DEF TypeOK
  <2> QED
    BY <2>1, DnsAssumption, SpentMore DEF TypeOK
<1>4. CASE Start
  <2>1. PICK d \in domains :
          /\ pc = "start" /\ domains' = domains \ {d}
          /\ \/ UNCHANGED <<pc, stack, num_queries, issued>>
             \/ /\ num_queries' = 0 /\ issued' = issued + 1
                /\ pc' \in {"start", "parse"}
    BY <1>4, StartShape
  <2>2. Cardinality(asked' \ domains') = begun + 1
    BY <2>1, DomainsStep, Begun
  <2>3. Spent(begun + 1) = Spent(begun) + max_queries + 1
    BY <1>3, SpentMore
  <2>4. domains' # asked'
    BY <2>1, DomainsStep DEF TypeOK
  <2>5. num_queries' <= max_queries
    BY <1>3, <2>1 DEF BudgetInv
  <2>6. issued' <= Spent(begun) + max_queries + 1
    BY <1>3, <2>1 DEF BudgetInv
  <2>7. pc' = "parse" => issued' + max_queries <= Spent(begun) + max_queries + 1 + num_queries'
    BY <1>3, <2>1 DEF BudgetInv
  <2> QED
    BY <1>1, <1>2, <2>2, <2>3, <2>4, <2>5, <2>6, <2>7 DEF BudgetInv
<1>5. CASE ~Start
  <2>1. UNCHANGED <<asked, domains>>
    BY <1>5, DomainsStep
  <2>2. \/ UNCHANGED <<num_queries, issued>>
        \/ num_queries < max_queries /\ issued' = issued + 1 /\ num_queries' = num_queries + 1
    BY <1>5, IssueStep DEF WithinBudget, Issue
  <2>3. pc' = "parse" => pc = "parse"
    <3>1. ~Start /\ [Next]_vars /\ pc' = "parse" => UNCHANGED pc
      BY DEF Next, Skip, Include, NextStage, QueryA, QueryMX, QueryHost, NextMX, Return, Answer,
             vars, At
    <3> QED
      BY <1>5, <3>1
  <2>4. UNCHANGED <<num_queries, issued>> \/ pc = "parse"
    BY <1>5 DEF Next, Skip, Include, NextStage, QueryA, QueryMX, QueryHost, NextMX, Return, Answer,
               vars, At
  <2>5. /\ num_queries' <= max_queries
        /\ issued' <= Spent(begun)
        /\ pc' = "parse" => domains # asked /\ issued' + max_queries <= Spent(begun) + num_queries'
    BY <1>3, <2>2, <2>3, <2>4 DEF BudgetInv
  <2> QED
    BY <1>1, <1>2, <2>1, <2>5 DEF BudgetInv
<1> QED
  BY <1>4, <1>5

\* However records name one another, no record is asked for twice, and no more queries are
\* made than one more than the budget for each domain asked about.
THEOREM QueriesBounded == Spec => []BudgetRespected
<1>1. Init => TypeOK /\ BudgetInv
  <2> SUFFICES ASSUME Init PROVE BudgetInv
    BY TypeInit
  <2>1. max_queries \in Nat /\ asked \ domains = {}
    BY DnsAssumption DEF Init
  <2>2. Spent(Cardinality(asked \ domains)) = 0
    BY <2>1, FS_EmptySet DEF Spent
  <2> QED
    BY <2>1, <2>2, TypeInit DEF Init, BudgetInv, Distinct
<1>2. TypeOK /\ BudgetInv /\ [Next]_vars => TypeOK' /\ BudgetInv'
  BY TypeStep, BudgetStep DEF BudgetInv
<1>3. TypeOK /\ BudgetInv => BudgetRespected
  <2> SUFFICES ASSUME TypeOK, BudgetInv PROVE BudgetRespected
    OBVIOUS
  <2>1. IsFiniteSet(asked) /\ asked \ domains \in SUBSET asked
    BY DnsAssumption, FS_Subset DEF TypeOK
  <2>2. PICK n \in Nat, k \in Nat : /\ n = Cardinality(asked \ domains) /\ k = Cardinality(asked)
                                    /\ n <= k
    BY <2>1, FS_Subset, FS_CardinalityType
  <2>3. Spent(n) \in Nat /\ Spent(k) \in Nat /\ Spent(n) <= Spent(k)
    BY <2>2, SpentMore
  <2>4. issued <= Spent(k)
    BY <2>2, <2>3 DEF BudgetInv, TypeOK
  <2> QED
    BY <2>2, <2>4 DEF BudgetRespected, BudgetInv, Spent
<1> QED
  BY <1>1, <1>2, <1>3, PTL DEF Spec

-----------------------------------------------------------------------------
(* Which domains count *)

\* The domain itself counts, and with a record all that it includes.
LEMMA ReachableFacts ==
  ASSUME NEW d \in Domain
  PROVE  /\ d \in Reachable(d) /\ Reachable(d) \subseteq Domain
         /\ \A e \in Reachable(d) : Includes(e) \subseteq Reachable(d)
<1>1. ASSUME NEW e \in Reachable(d), NEW n \in Includes(e)
      PROVE  n \in Reachable(d)
  <2>1. e \in Domain /\ Live(e) /\ n \in Record[e].includes
    BY <1>1 DEF Reachable, Includes
  <2>2. n \in Domain
    BY <2>1, DnsAssumption DEF Live
  <2>3. \A set \in SUBSET Domain : d \in set /\ Closed(set) => n \in set
    BY <2>1 DEF Reachable, Closed, Live
  <2> QED
    BY <2>2, <2>3 DEF Reachable
<1> QED
  BY <1>1 DEF Reachable

\* And nothing else.
LEMMA ReachableLeast ==
  ASSUME NEW d \in Domain, NEW set \in SUBSET Domain, d \in set,
         \A e \in set : Includes(e) \subseteq set
  PROVE  Reachable(d) \subseteq set
<1>1. Closed(set)
  BY DEF Closed, Includes, Live
<1> QED
  BY <1>1 DEF Reachable

\* A domain without a record stands for itself alone.
LEMMA ReachableAlone ==
  ASSUME NEW d \in Domain, ~Live(d)
  PROVE  Reachable(d) = {d}
<1>1. Reachable(d) \subseteq {d}
  BY ReachableLeast DEF Includes
<1> QED
  BY <1>1, ReachableFacts

\* What the record of a domain that counts lists is among what may be found.
LEMMA NamedIsPossible ==
  ASSUME TypeOK, NEW d \in Domain, Live(d), CountsFor(d, asked)
  PROVE  /\ Ips(d) \subseteq AllPossible
         /\ \A n \in ANames(d) : A[n] \subseteq AllPossible
         /\ \A n \in MXNames(d) : \A h \in MX[n] : A[h] \subseteq AllPossible
<1>1. PICK e \in asked : d \in Reachable(e)
  BY DEF CountsFor
<1>2. e \in Domain
  BY DEF TypeOK
<1>3. Live(e)
  BY <1>1, <1>2, ReachableAlone
<1>4. Possible(e) = Named(e)
  BY <1>3 DEF Possible, Live
<1>5. Named(e) \subseteq AllPossible
  BY <1>4 DEF AllPossible
<1>6. d \in {x \in Reachable(e) : Record[x] # NoRecord}
  BY <1>1 DEF Live
<1>7. PICK addresses, hosts :
        /\ addresses = UNION {A[n] : n \in Record[d].a}
        /\ hosts = UNION {A[h] : h \in UNION {MX[n] : n \in Record[d].mx}}
  OBVIOUS
<1>8. Record[d].ips \cup addresses \cup hosts \subseteq Named(e)
  <2>1. Listed(d) \subseteq Named(e)
    BY <1>6 DEF Named
  <2>2. Listed(d) = Record[d].ips \cup addresses \cup hosts
    BY <1>7 DEF Listed
  <2> QED
    BY <2>1, <2>2
<1>9. Ips(d) \subseteq AllPossible
  BY <1>5, <1>8 DEF Ips
<1>10. ASSUME NEW n \in ANames(d) PROVE A[n] \subseteq AllPossible
  <2>1. A[n] \subseteq addresses
    BY <1>7 DEF ANames
  <2> QED
    BY <1>5, <1>8, <2>1
<1>11. ASSUME NEW n \in MXNames(d), NEW h \in MX[n] PROVE A[h] \subseteq AllPossible
  <2>1. h \in UNION {MX[m] : m \in Record[d].mx}
    BY DEF MXNames
  <2>2. A[h] \subseteq hosts
    BY <1>7, <2>1
  <2> QED
    BY <1>5, <1>8, <2>2
<1> QED
  BY <1>9, <1>10, <1>11

\* What a frame asks about is.
LEMMA FrameIsPossible ==
  ASSUME TypeOK, NEW f \in FrameType, FrameSound(f, asked \ domains, mode)
  PROVE  /\ f.stage = "a" => \A n \in f.left : A[n] \subseteq AllPossible
         /\ \A h \in f.hosts : A[h] \subseteq AllPossible
<1>1. f.domain \in Domain
  BY DEF FrameType
<1>2. CASE Live(f.domain)
  <2>1. CountsFor(f.domain, asked)
    BY DEF FrameSound, CountsFor
  <2>2. /\ \A n \in ANames(f.domain) : A[n] \subseteq AllPossible
        /\ \A n \in MXNames(f.domain) : \A h \in MX[n] : A[h] \subseteq AllPossible
    BY <1>1, <1>2, <2>1, NamedIsPossible
  <2> QED
    BY <2>2 DEF FrameSound
<1>3. CASE ~Live(f.domain)
  <2>1. mode = "import" /\ f.domain \in asked /\ MXNames(f.domain) = {f.domain}
        /\ ANames(f.domain) = {}
    BY <1>3 DEF FrameSound, MXNames, ANames
  <2>2. Possible(f.domain) = Servers(f.domain)
    BY <1>3, <2>1 DEF Possible, Live
  <2>3. Servers(f.domain) \subseteq AllPossible
    BY <2>1, <2>2 DEF AllPossible
  <2>4. \A h \in MX[f.domain] : A[h] \subseteq AllPossible
    BY <2>3 DEF Servers
  <2> QED
    BY <2>1, <2>4 DEF FrameSound
<1> QED
  BY <1>2, <1>3

-----------------------------------------------------------------------------
(* Nothing is found but what counts *)

\* More domains begun with do no harm.
LEMMA SoundLonger ==
  ASSUME NEW f, NEW m, NEW S, NEW T, S \subseteq T, FrameSound(f, S, m)
  PROVE  FrameSound(f, T, m)
<1>1. CountsFor(f.domain, T)
  BY DEF FrameSound, CountsFor
<1> QED
  BY <1>1 DEF FrameSound

\* A new call is sound when its domain counts.
LEMMA NewFrameSound ==
  ASSUME NEW d \in Domain, Live(d), NEW S, CountsFor(d, S), NEW m, NEW f, f = Frame(d, Record[d])
  PROVE  FrameSound(f, S, m)
<1>1. /\ f.domain = d /\ f.a = Record[d].a /\ f.mx = Record[d].mx /\ f.stage = "include"
      /\ f.left \subseteq Record[d].includes /\ f.hostnames = {} /\ f.hosts = {}
  BY DEF Frame
<1> QED
  BY <1>1 DEF FrameSound, Includes, ANames, MXNames

\* Only the top frame changes.
LEMMA FramesReplaced ==
  ASSUME TypeOK, FramesSound, NEW g, NEW f, Replaced(g, f), UNCHANGED <<asked, domains, mode>>
  PROVE  /\ FrameSound(g, asked \ domains, mode)
         /\ FrameSound(f, asked \ domains, mode) => FramesSound'
<1>1. stack \in Seq(FrameType)
  BY DEF TypeOK
<1>2. Len(stack) \in DOMAIN stack /\ g = stack[Len(stack)]
  BY <1>1, TopChanged DEF Replaced, top
<1>3. /\ DOMAIN stack' = DOMAIN stack
      /\ \A i \in DOMAIN stack : stack'[i] = IF i = Len(stack) THEN f ELSE stack[i]
  BY <1>1, TopChanged DEF Replaced
<1>4. FrameSound(g, asked \ domains, mode)
  BY <1>2 DEF FramesSound
<1>5. ASSUME FrameSound(f, asked \ domains, mode), NEW i \in DOMAIN stack'
      PROVE  FrameSound(stack'[i], asked' \ domains', mode')
  <2>1. i \in DOMAIN stack /\ (stack'[i] = f \/ stack'[i] = stack[i])
    BY <1>3
  <2>2. FrameSound(stack[i], asked \ domains, mode)
    BY <2>1 DEF FramesSound
  <2>3. FrameSound(stack'[i], asked \ domains, mode)
    BY <1>5, <2>1, <2>2
  <2> QED
    BY <2>3
<1> QED
  BY <1>4, <1>5 DEF FramesSound

\* The record that is asked for counts, since the record that includes it does.
LEMMA IncludeCounts ==
  ASSUME TypeOK, NEW g \in FrameType, FrameSound(g, asked \ domains, mode), g.stage = "include",
         NEW d \in g.left
  PROVE  CountsFor(d, asked \ domains)
<1>1. PICK e \in asked \ domains : g.domain \in Reachable(e)
  BY DEF FrameSound, CountsFor
<1>2. d \in Includes(g.domain)
  BY DEF FrameSound
<1>3. d \in Reachable(e)
  BY <1>1, <1>2, ReachableFacts DEF TypeOK
<1> QED
  BY <1>1, <1>3 DEF CountsFor

\* What a loop adds to the addresses is possible, and its frame stays sound.
LEMMA WorkSound ==
  ASSUME TypeOK, FramesSound, MarksSound, ips \subseteq AllPossible,
         Skip \/ NextStage \/ QueryA \/ QueryMX \/ QueryHost \/ NextMX
  PROVE  FramesSound' /\ MarksSound' /\ ips' \subseteq AllPossible
<1>1. UNCHANGED <<asked, domains, mode>>
  BY WorkShape
<1>2. ASSUME NEW g, NEW f, Replaced(g, f)
      PROVE  /\ g \in FrameType /\ FrameSound(g, asked \ domains, mode)
             /\ FrameSound(f, asked \ domains, mode) => FramesSound'
  BY <1>1, <1>2, FramesReplaced DEF Replaced
<1>3. (\A e \in Domain : <<"spf", e>> \in queried_domains' => <<"spf", e>> \in queried_domains)
      => MarksSound'
  BY <1>1 DEF MarksSound
<1>4. CASE Skip
  <2>1. PICK g, f, d :
           /\ Replaced(g, f) /\ d \in g.left /\ g.stage = "include"
           /\ f = [g EXCEPT !.left = @ \ {d}]
           /\ queried_domains' = queried_domains \cup {<<"spf", d>>}
           /\ UNCHANGED ips
    BY <1>4, SkipShape
  <2>2. FrameSound(g, asked \ domains, mode) /\ g \in FrameType
    BY <1>2, <2>1
  <2>3. FrameSound(f, asked \ domains, mode)
    BY <2>1, <2>2 DEF FrameSound, FrameType
  <2>4. CountsFor(d, asked \ domains)
    BY <2>1, <2>2, IncludeCounts
  <2>5. MarksSound'
    BY <1>1, <2>1, <2>4 DEF MarksSound
  <2> QED
    BY <1>2, <2>1, <2>3, <2>5
<1>5. CASE NextStage
  <2>1. PICK g, f :
           /\ Replaced(g, f)
           /\ \/ /\ g.stage = "include"
                 /\ f = [g EXCEPT !.stage = "a",
                                  !.left = {d \in g.a : <<"a", d>> \notin queried_domains}]
              \/ /\ g.stage = "a"
                 /\ f = [g EXCEPT !.stage = "mx",
                                  !.left = {d \in g.mx : <<"mx", d>> \notin queried_domains}]
           /\ UNCHANGED <<queried_domains, ips>>
    BY <1>5, NextStageShape
  <2>2. FrameSound(g, asked \ domains, mode) /\ g \in FrameType
    BY <1>2, <2>1
  <2>3. FrameSound(f, asked \ domains, mode)
    <3>1. /\ f.domain = g.domain /\ f.a = g.a /\ f.mx = g.mx /\ f.stage # "include"
          /\ f.stage # "hosts" /\ f.hosts = g.hosts /\ f.hostnames = g.hostnames
          /\ f.stage = "a" => f.left \subseteq g.a
          /\ f.stage = "mx" => f.left \subseteq g.mx
      BY <2>1, <2>2 DEF FrameType
    <3> QED
      BY <2>2, <3>1 DEF FrameSound
  <2> QED
    BY <1>2, <1>3, <2>1, <2>3
<1>6. CASE QueryA
  <2>1. PICK g, f :
           /\ Replaced(g, f) /\ g.stage = "a"
           /\ \/ f = [g EXCEPT !.left = {}] /\ UNCHANGED <<queried_domains, ips>>
              \/ \E d \in g.left :
                   /\ f = [g EXCEPT !.left = @ \ {d}]
                   /\ UNCHANGED <<queried_domains, ips>> \/ Answered(d)
    BY <1>6, QueryAShape
  <2>2. FrameSound(g, asked \ domains, mode) /\ g \in FrameType
    BY <1>2, <2>1
  <2>3. FrameSound(f, asked \ domains, mode)
    BY <2>1, <2>2 DEF FrameSound, FrameType
  <2>4. \A d \in g.left : A[d] \subseteq AllPossible
    BY <2>1, <2>2, FrameIsPossible
  <2>5. ips' \subseteq AllPossible
    BY <2>1, <2>4 DEF Answered
  <2>6. MarksSound'
    BY <1>3, <2>1 DEF Answered
  <2> QED
    BY <1>2, <2>1, <2>3, <2>5, <2>6
<1>7. CASE QueryMX
  <2>1. PICK g, f :
           /\ Replaced(g, f) /\ g.stage = "mx"
           /\ UNCHANGED <<queried_domains, ips>>
           /\ \/ f = [g EXCEPT !.left = {}]
              \/ \E d \in g.left :
                   \/ f = [g EXCEPT !.left = @ \ {d}]
                   \/ f = [g EXCEPT !.left = @ \ {d}, !.stage = "hosts", !.mx_domain = d,
                                    !.hostnames = g.hostnames \cup MX[d],
                                    !.hosts = g.hostnames \cup MX[d]]
    BY <1>7, QueryMXShape
  <2>2. FrameSound(g, asked \ domains, mode) /\ g \in FrameType
    BY <1>2, <2>1
  <2>3. FrameSound(f, asked \ domains, mode)
    <3>1. /\ f.domain = g.domain /\ f.a = g.a /\ f.mx = g.mx /\ f.left \subseteq g.left
          /\ \/ f.stage = "mx" /\ f.hosts = g.hosts /\ f.hostnames = g.hostnames
             \/ \E d \in g.left : /\ f.stage = "hosts" /\ f.mx_domain = d
                                  /\ f.hosts = f.hostnames
                                  /\ f.hostnames = g.hostnames \cup MX[d]
      <4>1. CASE \E set \in SUBSET g.left : f = [g EXCEPT !.left = set]
        BY <2>1, <2>2, <4>1 DEF FrameType
      <4>2. CASE \E d \in g.left :
                   f = [g EXCEPT !.left = @ \ {d}, !.stage = "hosts", !.mx_domain = d,
                                 !.hostnames = g.hostnames \cup MX[d],
                                 !.hosts = g.hostnames \cup MX[d]]
        BY <2>2, <4>2 DEF FrameType
      <4>3. \A d \in g.left : g.left \ {d} \in SUBSET g.left
        OBVIOUS
      <4>4. {} \in SUBSET g.left
        OBVIOUS
      <4> QED
        BY <2>1, <4>1, <4>2, <4>3, <4>4
    <3>3. g.left \subseteq MXNames(g.domain)
      BY <2>1, <2>2 DEF FrameSound
    <3>4. /\ f.hosts \subseteq f.hostnames
          /\ f.hostnames \subseteq UNION {MX[n] : n \in MXNames(g.domain)}
          /\ f.stage = "hosts" => f.mx_domain \in MXNames(g.domain)
      BY <2>2, <3>1, <3>3 DEF FrameSound
    <3> QED
      BY <2>2, <3>1, <3>3, <3>4 DEF FrameSound
  <2> QED
    BY <1>2, <1>3, <2>1, <2>3
<1>8. CASE QueryHost
  <2>1. PICK g, f :
           /\ Replaced(g, f) /\ g.stage = "hosts"
           /\ \/ f = [g EXCEPT !.hosts = {}] /\ UNCHANGED <<queried_domains, ips>>
              \/ \E d \in g.hosts :
                   /\ f = [g EXCEPT !.hosts = @ \ {d}]
                   /\ UNCHANGED <<queried_domains, ips>> \/ Answered(d)
    BY <1>8, QueryHostShape
  <2>2. FrameSound(g, asked \ domains, mode) /\ g \in FrameType
    BY <1>2, <2>1
  <2>3. FrameSound(f, asked \ domains, mode)
    BY <2>1, <2>2 DEF FrameSound, FrameType
  <2>4. \A d \in g.hosts : A[d] \subseteq AllPossible
    BY <2>2, FrameIsPossible
  <2>5. ips' \subseteq AllPossible
    BY <2>1, <2>4 DEF Answered
  <2>6. MarksSound'
    BY <1>3, <2>1 DEF Answered
  <2> QED
    BY <1>2, <2>1, <2>3, <2>5, <2>6
<1>9. CASE NextMX
  <2>1. PICK g, f :
           /\ Replaced(g, f) /\ g.stage = "hosts"
           /\ f = [g EXCEPT !.stage = "mx"]
           /\ queried_domains' =
                queried_domains \cup (IF MX[g.mx_domain] = {} THEN {} ELSE {<<"mx", g.mx_domain>>})
           /\ UNCHANGED ips
    BY <1>9, NextMXShape
  <2>2. FrameSound(g, asked \ domains, mode) /\ g \in FrameType
    BY <1>2, <2>1
  <2>3. FrameSound(f, asked \ domains, mode)
    BY <2>1, <2>2 DEF FrameSound, FrameType
  <2>4. MarksSound'
    BY <1>3, <2>1
  <2> QED
    BY <1>2, <2>1, <2>3, <2>4
<1> QED
  BY <1>4, <1>5, <1>6, <1>7, <1>8, <1>9

\* The same of an include that is asked for.
LEMMA IncludeSound ==
  ASSUME TypeOK, FramesSound, MarksSound, ips \subseteq AllPossible, Include
  PROVE  FramesSound' /\ MarksSound' /\ ips' \subseteq AllPossible
<1>1. UNCHANGED <<asked, domains, mode>>
  BY DEF Include
<1>2. stack \in Seq(FrameType)
  BY DEF TypeOK
<1>3. PICK g \in FrameType, d \in Domain, f \in FrameType :
        /\ g = top /\ d \in g.left /\ g.stage = "include"
        /\ queried_domains' = queried_domains \cup {<<"spf", d>>}
        /\ f = [g EXCEPT !.left = @ \ {d}] /\ f.domain = g.domain /\ stack # <<>>
        /\ \/ stack' = [stack EXCEPT ![Len(stack)] = f] /\ UNCHANGED ips
           \/ /\ Live(d) /\ ips' = ips \cup Record[d].ips
              /\ Frame(d, Record[d]) \in FrameType
              /\ stack' = Append([stack EXCEPT ![Len(stack)] = f], Frame(d, Record[d]))
  BY IncludeShape
<1>4. Len(stack) \in DOMAIN stack /\ g = stack[Len(stack)]
  BY <1>2, <1>3, TopChanged DEF top
<1>5. FrameSound(g, asked \ domains, mode)
  BY <1>4 DEF FramesSound
<1>6. FrameSound(f, asked \ domains, mode)
  BY <1>3, <1>5 DEF FrameSound, FrameType
<1>7. CountsFor(d, asked \ domains)
  BY <1>3, <1>5, IncludeCounts
<1>8. MarksSound'
  BY <1>1, <1>3, <1>7 DEF MarksSound
<1>9. CASE stack' = [stack EXCEPT ![Len(stack)] = f] /\ UNCHANGED ips
  <2>1. Replaced(g, f)
    BY <1>3, <1>9 DEF Replaced
  <2> QED
    BY <1>1, <1>6, <1>8, <1>9, <2>1, FramesReplaced
<1>10. CASE /\ Live(d) /\ ips' = ips \cup Record[d].ips
            /\ Frame(d, Record[d]) \in FrameType
            /\ stack' = Append([stack EXCEPT ![Len(stack)] = f], Frame(d, Record[d]))
  <2>1. PICK h \in FrameType : h = Frame(d, Record[d])
    BY <1>10
  <2>2. FrameSound(h, asked \ domains, mode)
    BY <1>7, <1>10, <2>1, NewFrameSound
  <2>3. /\ DOMAIN stack' = 1..(Len(stack) + 1) /\ DOMAIN stack = 1..Len(stack)
        /\ \A i \in DOMAIN stack : stack'[i] = IF i = Len(stack) THEN f ELSE stack[i]
        /\ stack'[Len(stack) + 1] = h /\ Len(stack) \in Nat
    BY <1>2, <1>3, <1>10, <2>1, Pushed
  <2>4. ASSUME NEW i \in DOMAIN stack'
        PROVE  FrameSound(stack'[i], asked \ domains, mode)
    <3>1. CASE i \in DOMAIN stack
      <4>1. FrameSound(stack[i], asked \ domains, mode)
        BY <3>1 DEF FramesSound
      <4> QED
        BY <1>6, <2>3, <3>1, <4>1
    <3>2. CASE i = Len(stack) + 1
      BY <2>2, <2>3, <3>2
    <3> QED
      BY <2>3, <3>1, <3>2
  <2>5. FramesSound'
    BY <1>1, <2>4 DEF FramesSound
  <2>6. Ips(d) \subseteq AllPossible
    <3>1. CountsFor(d, asked)
      BY <1>7 DEF CountsFor
    <3> QED
      BY <1>10, <3>1, NamedIsPossible
  <2> QED
    BY <1>8, <1>10, <2>5, <2>6 DEF Ips
<1> QED
  BY <1>3, <1>9, <1>10

\* And of a domain that is begun with.
LEMMA StartSound ==
  ASSUME TypeOK, FramesSound, MarksSound, ips \subseteq AllPossible, Start, Trusted'
  PROVE  FramesSound' /\ MarksSound' /\ ips' \subseteq AllPossible
<1>1. UNCHANGED <<asked, mode>>
  BY DEF Start
<1>2. PICK d \in domains :
        /\ d \in Domain /\ domains' = domains \ {d} /\ stack = <<>>
        /\ \/ UNCHANGED <<stack, queried_domains, ips>>
           \/ /\ queried_domains' = queried_domains \cup {<<"spf", d>>}
              /\ failures' \in {failures, failures + 1}
              /\ \/ UNCHANGED <<stack, ips>>
                 \/ \E f \in FrameType :
                      /\ stack' = <<f>>
                      /\ \/ /\ Live(d) /\ f = Frame(d, Record[d])
                            /\ ips' = ips \cup Record[d].ips
                         \/ /\ mode = "import" /\ UNCHANGED ips
                            /\ ~Live(d) \/ failures' = failures + 1
                            /\ f = MailFrame(d)
  BY StartShape
<1>3. d \in asked' \ domains' /\ asked \ domains \subseteq asked' \ domains' /\ d \in asked
  BY <1>1, <1>2 DEF TypeOK
<1>4. CountsFor(d, asked' \ domains')
  BY <1>2, <1>3, ReachableFacts DEF CountsFor
<1>5. MarksSound'
  <2>1. \A e \in Domain : CountsFor(e, asked \ domains) => CountsFor(e, asked' \ domains')
    BY <1>3 DEF CountsFor
  <2>2. ASSUME NEW e \in Domain, <<"spf", e>> \in queried_domains'
        PROVE  CountsFor(e, asked' \ domains')
    <3>1. e = d \/ <<"spf", e>> \in queried_domains
      BY <1>2, <2>2
    <3> QED
      BY <1>4, <2>1, <3>1 DEF MarksSound
  <2> QED
    BY <2>2 DEF MarksSound
<1>6. CASE UNCHANGED <<stack, ips>>
  BY <1>2, <1>5, <1>6 DEF FramesSound
<1>7. ASSUME NEW f \in FrameType, stack' = <<f>>, FrameSound(f, asked' \ domains', mode)
      PROVE  FramesSound'
  BY <1>1, <1>7 DEF FramesSound
<1>8. CASE \E f \in FrameType : /\ stack' = <<f>> /\ Live(d) /\ f = Frame(d, Record[d])
                                /\ ips' = ips \cup Record[d].ips
  <2>1. PICK f \in FrameType : /\ stack' = <<f>> /\ Live(d) /\ f = Frame(d, Record[d])
                               /\ ips' = ips \cup Record[d].ips
    BY <1>8
  <2>2. FrameSound(f, asked' \ domains', mode)
    BY <1>2, <1>4, <2>1, NewFrameSound
  <2>3. Ips(d) \subseteq AllPossible
    <3>1. CountsFor(d, asked)
      BY <1>2, <1>3, ReachableFacts DEF CountsFor
    <3> QED
      BY <1>2, <2>1, <3>1, NamedIsPossible
  <2> QED
    BY <1>5, <1>7, <2>1, <2>2, <2>3 DEF Ips
<1>9. CASE \E f \in FrameType : /\ stack' = <<f>> /\ mode = "import" /\ UNCHANGED ips
                                /\ ~Live(d) \/ failures' = failures + 1
                                /\ f = MailFrame(d)
  <2>1. PICK f \in FrameType : /\ stack' = <<f>> /\ mode = "import" /\ UNCHANGED ips
                               /\ ~Live(d) \/ failures' = failures + 1
                               /\ f = MailFrame(d)
    BY <1>9
  <2>2. ~Live(d)
    <3>1. failures' = 0
      BY <1>1, <2>1 DEF Trusted
    <3> QED
      BY <2>1, <3>1 DEF TypeOK
  <2>3. FrameSound(f, asked' \ domains', mode)
    BY <1>3, <1>4, <2>1, <2>2 DEF MailFrame, FrameSound, MXNames, ANames, Includes
  <2> QED
    BY <1>5, <1>7, <2>1, <2>3
<1> QED
  BY <1>2, <1>6, <1>8, <1>9

\* Nothing but what the records name is found; the verdict comes of what is found.
LEMMA SoundStep ==
  ASSUME TypeOK, SoundInv, [Next]_vars
  PROVE  SoundInv'
<1>1. UNCHANGED <<asked, mode>> /\ AllPossible' = AllPossible
  BY DomainsStep DEF AllPossible, Possible
<1>2. Trusted' => Trusted
  BY <1>1, IssueStep DEF Trusted, TypeOK
<1>3. ASSUME Trusted'
      PROVE  FramesSound' /\ MarksSound' /\ ips' \subseteq AllPossible
  <2>1. FramesSound /\ MarksSound /\ ips \subseteq AllPossible
    BY <1>2, <1>3 DEF SoundInv
  <2>2. CASE Start
    BY <1>3, <2>1, <2>2, StartSound
  <2>3. CASE Include
    BY <2>1, <2>3, IncludeSound
  <2>4. CASE Skip \/ NextStage \/ QueryA \/ QueryMX \/ QueryHost \/ NextMX
    BY <2>1, <2>4, WorkSound
  <2>5. CASE Return
    <3>1. PICK g \in FrameType : /\ g = top /\ stack # <<>>
                                /\ queried_domains' = queried_domains \cup {<<"spf", g.domain>>}
                                /\ stack' = SubSeq(stack, 1, Len(stack) - 1)
                                /\ UNCHANGED <<asked, domains, mode, ips>>
      BY <2>5, TopTyped DEF Return, At
    <3>2. /\ Len(stack) \in DOMAIN stack /\ g = stack[Len(stack)]
          /\ \A i \in DOMAIN stack' : i \in DOMAIN stack /\ stack'[i] = stack[i]
      BY <3>1, Popped DEF TypeOK, top
    <3>3. FramesSound'
      BY <2>1, <3>1, <3>2 DEF FramesSound
    <3>4. MarksSound'
      BY <2>1, <3>1, <3>2 DEF MarksSound, TypeOK
    <3> QED
      BY <2>1, <3>1, <3>3, <3>4
  <2>6. CASE UNCHANGED <<asked, domains, mode, stack, queried_domains, ips>>
    BY <2>1, <2>6 DEF FramesSound, MarksSound
  <2>7. Answer \/ UNCHANGED vars => UNCHANGED <<asked, domains, mode, stack, queried_domains, ips>>
    BY DEF Answer, vars
  <2> QED
    BY <2>2, <2>3, <2>4, <2>5, <2>6, <2>7 DEF Next
<1>4. ASSUME verdict'
      PROVE  /\ pc' = "done" /\ mode' = "allowed"
             /\ Client \in ips' \/ Containing \cap Recognised \cap ips' # {}
  <2>1. CASE Answer
    BY <1>4, <2>1, Zenon DEF Answer
  <2>2. CASE ~Answer
    <3>1. UNCHANGED verdict
      BY <2>2 DEF Next, Start, Skip, Include, NextStage, QueryA, QueryMX, QueryHost, NextMX, Return,
                  vars
    <3>2. pc = "done"
      BY <1>4, <3>1 DEF SoundInv
    <3>3. UNCHANGED <<pc, mode, ips>>
      BY <2>2, <3>2 DEF Next, Start, Skip, Include, NextStage, QueryA, QueryMX, QueryHost, NextMX,
                        Return, At, vars
    <3> QED
      BY <1>4, <3>1, <3>3 DEF SoundInv
  <2> QED
    BY <2>1, <2>2
<1> QED
  BY <1>1, <1>3, <1>4 DEF SoundInv

\* At first nothing is found.
LEMMA SoundInit == Init => SoundInv
BY DEF Init, SoundInv, MarksSound, FramesSound

\* What the plugin lets off greylisting is named by a record of the sender's domain, or of one
\* that this includes, whatever failed or was left out (plugins/greylisting.py:386).
THEOREM OnlyNamedAllowed == Spec => []NoFalseAllow
<1>1. TypeOK /\ Distinct(stack) /\ SoundInv /\ [Next]_vars => (TypeOK /\ Distinct(stack) /\ SoundInv)'
  BY TypeStep, SoundStep
<1>2. TypeOK /\ SoundInv => NoFalseAllow
  <2> SUFFICES ASSUME TypeOK, SoundInv, verdict
               PROVE  \E d \in asked : ({Client} \cup Containing) \cap Named(d) # {}
    BY DEF NoFalseAllow
  <2>1. mode = "allowed" /\ ips \subseteq AllPossible
    BY DEF SoundInv, Trusted
  <2>2. PICK x : x \in {Client} \cup Containing /\ x \in ips
    BY DEF SoundInv
  <2>3. PICK d \in asked : x \in Possible(d)
    BY <2>1, <2>2 DEF AllPossible
  <2>4. Possible(d) = Named(d)
    BY <2>1 DEF Possible
  <2> QED
    BY <2>2, <2>3, <2>4
<1> QED
  BY <1>1, <1>2, TypeInit, SoundInit, PTL DEF Spec

-----------------------------------------------------------------------------
(* Nothing that counts is missed *)

\* What is found and marked stays so.
LEMMA DoneLonger ==
  ASSUME NEW d, NEW found, NEW more, NEW queried, NEW marks,
         found \subseteq more, queried \subseteq marks, Done(d, found, queried)
  PROVE  Done(d, more, marks)
BY DEF Done

LEMMA FrameDoneLonger ==
  ASSUME NEW f, NEW found, NEW more, NEW queried, NEW marks,
         found \subseteq more, queried \subseteq marks, FrameDone(f, found, queried)
  PROVE  FrameDone(f, more, marks)
BY DEF FrameDone

\* Addresses are only added to.
LEMMA FoundGrows == [Next]_vars => ips \subseteq ips'
BY DEF Next, Start, Skip, Include, NextStage, QueryA, QueryMX, QueryHost, NextMX, Return, Answer,
       vars

\* Only the top frame changes, and no record is opened or done with.
LEMMA FramesDoneReplaced ==
  ASSUME TypeOK, FramesDone, RecordsDone, NEW g, NEW f, Replaced(g, f), [Next]_vars,
         UNCHANGED <<asked, domains, mode>>
  PROVE  /\ FrameDone(g, ips, queried_domains)
         /\ FrameDone(f, ips', queried_domains') => FramesDone'
         /\ (\A d \in Domain : <<"spf", d>> \in queried_domains' => <<"spf", d>> \in queried_domains)
            => RecordsDone'
<1>1. stack \in Seq(FrameType)
  BY DEF TypeOK
<1>2. Len(stack) \in DOMAIN stack /\ g = stack[Len(stack)]
  BY <1>1, TopChanged DEF Replaced, top
<1>3. /\ DOMAIN stack' = DOMAIN stack
      /\ \A i \in DOMAIN stack : stack'[i] = IF i = Len(stack) THEN f ELSE stack[i]
  BY <1>1, TopChanged DEF Replaced
<1>4. FrameDone(g, ips, queried_domains)
  BY <1>2 DEF FramesDone
<1>5. ips \subseteq ips' /\ queried_domains \subseteq queried_domains'
  BY FoundGrows, QueriedGrows
<1>6. ASSUME FrameDone(f, ips', queried_domains'), NEW i \in DOMAIN stack'
      PROVE  FrameDone(stack'[i], ips', queried_domains')
  <2>1. i \in DOMAIN stack /\ (stack'[i] = f \/ stack'[i] = stack[i])
    BY <1>3
  <2>2. FrameDone(stack[i], ips, queried_domains)
    BY <2>1 DEF FramesDone
  <2>3. FrameDone(stack[i], ips', queried_domains')
    BY <1>5, <2>2, FrameDoneLonger
  <2> QED
    BY <1>6, <2>1, <2>3
<1>7. \A i \in DOMAIN stack : stack'[i].domain = stack[i].domain
  BY <1>2, <1>3 DEF Replaced
<1>8. ASSUME NEW d \in Domain, <<"spf", d>> \in queried_domains, Owed(d)', ~Open(d)'
      PROVE  Done(d, ips', queried_domains')
  <2>1. Owed(d)
    BY <1>8 DEF Owed
  <2>2. ~Open(d)
    BY <1>3, <1>7, <1>8 DEF Open
  <2>3. Done(d, ips, queried_domains)
    BY <1>8, <2>1, <2>2 DEF RecordsDone
  <2> QED
    BY <1>5, <2>3, DoneLonger
<1> QED
  BY <1>4, <1>6, <1>8 DEF FramesDone, RecordsDone

\* A loop forgets nothing when its queries are answered.
LEMMA WorkDone ==
  ASSUME TypeOK, NamesDone, FramesDone, RecordsDone, Clean',
         Skip \/ NextStage \/ QueryA \/ QueryMX \/ QueryHost \/ NextMX
  PROVE  NamesDone' /\ FramesDone' /\ RecordsDone'
<1>1. [Next]_vars /\ UNCHANGED <<asked, domains, mode>>
  BY WorkShape DEF Next
<1>2. failures + 1 # failures' /\ ~exhausted'
  <2>1. failures \in Nat /\ failures' = 0
    BY DEF Clean, TypeOK
  <2> QED
    BY <2>1 DEF Clean
<1>3. ASSUME NEW g, NEW f, Replaced(g, f)
      PROVE  /\ g \in FrameType /\ f \in FrameType /\ f.domain = g.domain
             /\ FrameDone(g, ips, queried_domains)
             /\ FrameDone(f, ips', queried_domains') => FramesDone'
             /\ (\A d \in Domain : <<"spf", d>> \in queried_domains' => <<"spf", d>> \in queried_domains)
                => RecordsDone'
  BY <1>1, <1>3, FramesDoneReplaced DEF Replaced
<1>4. CASE Skip
  <2>1. PICK g, f, d :
           /\ Replaced(g, f) /\ d \in g.left /\ g.stage = "include"
           /\ f = [g EXCEPT !.left = @ \ {d}]
           /\ queried_domains' = queried_domains \cup {<<"spf", d>>}
           /\ <<"spf", d>> \in queried_domains
           /\ UNCHANGED ips
    BY <1>2, <1>4, SkipShape
  <2>2. /\ g \in FrameType /\ FrameDone(g, ips, queried_domains)
        /\ FrameDone(f, ips', queried_domains') => FramesDone'
        /\ (\A e \in Domain : <<"spf", e>> \in queried_domains' => <<"spf", e>> \in queried_domains)
                => RecordsDone'
    BY <1>3, <2>1
  <2>3. UNCHANGED <<queried_domains, ips>>
    BY <2>1
  <2>4. f.domain = g.domain /\ f.stage = "include" /\ f.a = g.a /\ f.mx = g.mx
        /\ f.left = g.left \ {d}
    BY <2>1, <2>2 DEF FrameType
  <2>5. FrameDone(f, ips', queried_domains')
    BY <2>1, <2>2, <2>3, <2>4 DEF FrameDone
  <2>6. RecordsDone'
    BY <2>2, <2>3
  <2> QED
    BY <2>2, <2>3, <2>5, <2>6 DEF NamesDone
<1>5. CASE NextStage
  <2>1. PICK g, f :
           /\ Replaced(g, f) /\ g.left = {}
           /\ \/ /\ g.stage = "include"
                 /\ f = [g EXCEPT !.stage = "a",
                                  !.left = {d \in g.a : <<"a", d>> \notin queried_domains}]
              \/ /\ g.stage = "a"
                 /\ f = [g EXCEPT !.stage = "mx",
                                  !.left = {d \in g.mx : <<"mx", d>> \notin queried_domains}]
           /\ UNCHANGED <<queried_domains, ips>>
    BY <1>5, NextStageShape
  <2>2. /\ g \in FrameType /\ FrameDone(g, ips, queried_domains)
        /\ FrameDone(f, ips', queried_domains') => FramesDone'
        /\ (\A e \in Domain : <<"spf", e>> \in queried_domains' => <<"spf", e>> \in queried_domains)
                => RecordsDone'
    BY <1>3, <2>1
  <2>3. f.domain = g.domain /\ f.a = g.a /\ f.mx = g.mx
        /\ \/ /\ g.stage = "include" /\ f.stage = "a"
              /\ f.left = {d \in g.a : <<"a", d>> \notin queried_domains}
           \/ /\ g.stage = "a" /\ f.stage = "mx"
              /\ f.left = {d \in g.mx : <<"mx", d>> \notin queried_domains}
    BY <2>1, <2>2 DEF FrameType
  <2>4. g.a \subseteq Domain /\ g.mx \subseteq Domain
    BY <2>2 DEF FrameType
  <2>5. CASE g.stage = "include" /\ f.stage = "a"
    <3>1. \A n \in ANames(f.domain) : A[n] \subseteq ips \/ n \in f.left
      BY <2>2, <2>3, <2>4, <2>5 DEF FrameDone, NamesDone
    <3> QED
      BY <2>1, <2>2, <2>3, <2>5, <3>1 DEF FrameDone, NamesDone
  <2>6. CASE g.stage = "a" /\ f.stage = "mx"
    <3>1. \A n \in MXNames(f.domain) : Servers(n) \subseteq ips \/ n \in f.left
      BY <2>2, <2>3, <2>4, <2>6 DEF FrameDone, NamesDone
    <3> QED
      BY <2>1, <2>2, <2>3, <2>6, <3>1 DEF FrameDone, NamesDone
  <2> QED
    BY <2>3, <2>5, <2>6
<1>6. CASE QueryA
  <2>1. PICK g, f, d :
           /\ Replaced(g, f) /\ g.stage = "a" /\ d \in g.left
           /\ f = [g EXCEPT !.left = @ \ {d}] /\ Answered(d)
    BY <1>2, <1>6, QueryAShape
  <2>2. /\ g \in FrameType /\ FrameDone(g, ips, queried_domains)
        /\ FrameDone(f, ips', queried_domains') => FramesDone'
        /\ (\A e \in Domain : <<"spf", e>> \in queried_domains' => <<"spf", e>> \in queried_domains)
                => RecordsDone'
    BY <1>3, <2>1
  <2>3. f.domain = g.domain /\ f.stage = "a" /\ f.a = g.a /\ f.mx = g.mx /\ f.left = g.left \ {d}
    BY <2>1, <2>2 DEF FrameType
  <2>4. FrameDone(g, ips', queried_domains')
    BY <1>1, <2>2, FoundGrows, QueriedGrows, FrameDoneLonger
  <2>5. A[d] \subseteq ips'
    BY <2>1 DEF Answered
  <2>6. FrameDone(f, ips', queried_domains')
    BY <2>1, <2>3, <2>4, <2>5 DEF FrameDone
  <2>7. RecordsDone'
    BY <2>1, <2>2 DEF Answered
  <2>8. NamesDone'
    BY <2>1 DEF NamesDone, Answered
  <2> QED
    BY <2>2, <2>6, <2>7, <2>8
<1>7. CASE QueryMX
  <2>1. PICK g, f, d :
           /\ Replaced(g, f) /\ g.stage = "mx" /\ d \in g.left
           /\ UNCHANGED <<queried_domains, ips>>
           /\ f = [g EXCEPT !.left = @ \ {d}, !.stage = "hosts", !.mx_domain = d,
                            !.hostnames = g.hostnames \cup MX[d],
                            !.hosts = g.hostnames \cup MX[d]]
    BY <1>2, <1>7, QueryMXShape
  <2>2. /\ g \in FrameType /\ FrameDone(g, ips, queried_domains)
        /\ FrameDone(f, ips', queried_domains') => FramesDone'
        /\ (\A e \in Domain : <<"spf", e>> \in queried_domains' => <<"spf", e>> \in queried_domains)
                => RecordsDone'
    BY <1>3, <2>1
  <2>3. /\ f.domain = g.domain /\ f.stage = "hosts" /\ f.mx_domain = d /\ f.left = g.left \ {d}
        /\ f.hosts = f.hostnames /\ MX[d] \subseteq f.hostnames
    BY <2>1, <2>2 DEF FrameType
  <2>4. FrameDone(f, ips', queried_domains')
    BY <2>1, <2>2, <2>3 DEF FrameDone
  <2> QED
    BY <2>1, <2>2, <2>4 DEF NamesDone
<1>8. CASE QueryHost
  <2>1. PICK g, f, d :
           /\ Replaced(g, f) /\ g.stage = "hosts" /\ d \in g.hosts
           /\ f = [g EXCEPT !.hosts = @ \ {d}] /\ Answered(d)
    BY <1>2, <1>8, QueryHostShape
  <2>2. /\ g \in FrameType /\ FrameDone(g, ips, queried_domains)
        /\ FrameDone(f, ips', queried_domains') => FramesDone'
        /\ (\A e \in Domain : <<"spf", e>> \in queried_domains' => <<"spf", e>> \in queried_domains)
                => RecordsDone'
    BY <1>3, <2>1
  <2>3. /\ f.domain = g.domain /\ f.stage = "hosts" /\ f.a = g.a /\ f.mx = g.mx /\ f.left = g.left
        /\ f.hostnames = g.hostnames /\ f.mx_domain = g.mx_domain /\ f.hosts = g.hosts \ {d}
    BY <2>1, <2>2 DEF FrameType
  <2>4. FrameDone(g, ips', queried_domains')
    BY <1>1, <2>2, FoundGrows, QueriedGrows, FrameDoneLonger
  <2>5. A[d] \subseteq ips'
    BY <2>1 DEF Answered
  <2>6. FrameDone(f, ips', queried_domains')
    BY <2>1, <2>3, <2>4, <2>5 DEF FrameDone
  <2>7. RecordsDone'
    BY <2>1, <2>2 DEF Answered
  <2>8. NamesDone'
    BY <2>1 DEF NamesDone, Answered
  <2> QED
    BY <2>2, <2>6, <2>7, <2>8
<1>9. CASE NextMX
  <2>1. PICK g, f :
           /\ Replaced(g, f) /\ g.stage = "hosts" /\ g.hosts = {}
           /\ f = [g EXCEPT !.stage = "mx"]
           /\ queried_domains' =
                queried_domains \cup (IF MX[g.mx_domain] = {} THEN {} ELSE {<<"mx", g.mx_domain>>})
           /\ UNCHANGED ips
    BY <1>9, NextMXShape
  <2>2. /\ g \in FrameType /\ FrameDone(g, ips, queried_domains)
        /\ FrameDone(f, ips', queried_domains') => FramesDone'
        /\ (\A e \in Domain : <<"spf", e>> \in queried_domains' => <<"spf", e>> \in queried_domains)
                => RecordsDone'
    BY <1>3, <2>1
  <2>3. f.domain = g.domain /\ f.stage = "mx" /\ f.left = g.left
    BY <2>1, <2>2 DEF FrameType
  <2>4. FrameDone(g, ips', queried_domains')
    BY <1>1, <2>2, FoundGrows, QueriedGrows, FrameDoneLonger
  <2>5. Servers(g.mx_domain) \subseteq ips'
    <3>1. \A h \in MX[g.mx_domain] : A[h] \subseteq ips'
      BY <2>1, <2>4 DEF FrameDone
    <3> QED
      BY <3>1 DEF Servers
  <2>6. FrameDone(f, ips', queried_domains')
    BY <2>1, <2>3, <2>4, <2>5 DEF FrameDone
  <2>7. RecordsDone'
    BY <2>1, <2>2
  <2>8. NamesDone'
    BY <2>1, <2>5 DEF NamesDone
  <2> QED
    BY <2>2, <2>6, <2>7, <2>8
<1> QED
  BY <1>4, <1>5, <1>6, <1>7, <1>8, <1>9

\* A new call has everything still to do.
LEMMA NewFrameDone ==
  ASSUME NEW d \in Domain, Live(d), NEW f, f = Frame(d, Record[d]),
         NEW found, Ips(d) \subseteq found
  PROVE  FrameDone(f, found, queried_domains')
<1>1. /\ f.domain = d /\ f.a = Record[d].a /\ f.mx = Record[d].mx /\ f.stage = "include"
      /\ f.left = {i \in Record[d].includes : <<"spf", i>> \notin queried_domains'}
  BY DEF Frame
<1>2. \A n \in Includes(d) : <<"spf", n>> \in queried_domains' \/ n \in f.left
  BY <1>1 DEF Includes
<1> QED
  BY <1>1, <1>2 DEF FrameDone, ANames, MXNames

\* A record that is included is worked through on its own; where there is none nothing is owed,
\* since the import counts that domain with the one that includes it.
LEMMA IncludeDone ==
  ASSUME TypeOK, NamesDone, FramesDone, RecordsDone, FramesSound, Clean', Include
  PROVE  NamesDone' /\ FramesDone' /\ RecordsDone'
<1>1. UNCHANGED <<asked, domains, mode>> /\ [Next]_vars
  BY DEF Include, Next
<1>2. stack \in Seq(FrameType)
  BY DEF TypeOK
<1>3. ips \subseteq ips' /\ queried_domains \subseteq queried_domains'
  BY <1>1, FoundGrows, QueriedGrows
<1>4. PICK g \in FrameType, d \in Domain, f \in FrameType :
        /\ g = top /\ d \in g.left /\ g.stage = "include"
        /\ <<"spf", d>> \notin queried_domains
        /\ queried_domains' = queried_domains \cup {<<"spf", d>>}
        /\ f = [g EXCEPT !.left = @ \ {d}] /\ f.domain = g.domain /\ stack # <<>>
        /\ \/ /\ stack' = [stack EXCEPT ![Len(stack)] = f] /\ UNCHANGED ips
              /\ failures' = failures + 1 \/ (~Live(d) /\ UNCHANGED failures)
           \/ /\ Live(d) /\ ips' = ips \cup Record[d].ips
              /\ Frame(d, Record[d]) \in FrameType /\ Frame(d, Record[d]).domain = d
              /\ stack' = Append([stack EXCEPT ![Len(stack)] = f], Frame(d, Record[d]))
  BY IncludeShape
<1>5. Len(stack) \in DOMAIN stack /\ g = stack[Len(stack)]
  BY <1>2, <1>4, TopChanged DEF top
<1>6. FrameSound(g, asked \ domains, mode) /\ FrameDone(g, ips, queried_domains)
  BY <1>5 DEF FramesSound, FramesDone
<1>7. FrameDone(f, ips', queried_domains')
  <2>1. FrameDone(g, ips', queried_domains')
    BY <1>3, <1>6, FrameDoneLonger
  <2>2. f.domain = g.domain /\ f.stage = "include" /\ f.a = g.a /\ f.mx = g.mx
        /\ f.left = g.left \ {d}
    BY <1>4 DEF FrameType
  <2> QED
    BY <1>4, <2>1, <2>2 DEF FrameDone
<1>8. NamesDone'
  BY <1>3, <1>4 DEF NamesDone
<1>9. ASSUME NEW e \in Domain, <<"spf", e>> \in queried_domains, Owed(e)', ~Open(e)
      PROVE  Done(e, ips', queried_domains')
  <2>1. Owed(e)
    BY <1>1, <1>9 DEF Owed
  <2>2. Done(e, ips, queried_domains)
    BY <1>9, <2>1 DEF RecordsDone
  <2> QED
    BY <1>3, <2>2, DoneLonger
<1>10. CASE stack' = [stack EXCEPT ![Len(stack)] = f] /\ ~Live(d)
  <2>1. /\ DOMAIN stack' = DOMAIN stack
        /\ \A i \in DOMAIN stack : stack'[i] = IF i = Len(stack) THEN f ELSE stack[i]
    BY <1>2, <1>4, <1>10, TopChanged
  <2>2. ~Owed(d)
    <3>1. d \in Includes(g.domain)
      BY <1>4, <1>6 DEF FrameSound
    <3>2. PICK e \in asked \ domains : g.domain \in Reachable(e)
      BY <1>6 DEF FrameSound, CountsFor
    <3>3. e \in Domain /\ d \in Reachable(e)
      BY <3>1, <3>2, ReachableFacts DEF TypeOK
    <3>4. e # d
      <4>1. Reachable(d) = {d}
        BY <1>10, ReachableAlone
      <4>2. Includes(d) = {}
        BY <1>10 DEF Includes
      <4> QED
        BY <3>1, <3>2, <4>1, <4>2
    <3> QED
      BY <1>10, <3>2, <3>3, <3>4 DEF Owed, CountsFor
  <2>3. \A i \in DOMAIN stack : stack'[i].domain = stack[i].domain
    BY <1>4, <1>5, <2>1
  <2>4. RecordsDone'
    <3> SUFFICES ASSUME NEW e \in Domain, <<"spf", e>> \in queried_domains', Owed(e)', ~Open(e)'
                 PROVE  Done(e, ips', queried_domains')
      BY DEF RecordsDone
    <3>1. e # d
      BY <1>1, <2>2 DEF Owed
    <3>2. <<"spf", e>> \in queried_domains
      BY <1>4, <3>1
    <3>3. ~Open(e)
      BY <2>1, <2>3 DEF Open
    <3> QED
      BY <1>9, <3>2, <3>3
  <2>5. FramesDone'
    <3> SUFFICES ASSUME NEW i \in DOMAIN stack'
                 PROVE  FrameDone(stack'[i], ips', queried_domains')
      BY DEF FramesDone
    <3>1. i \in DOMAIN stack /\ FrameDone(stack[i], ips, queried_domains)
      BY <2>1 DEF FramesDone
    <3>2. FrameDone(stack[i], ips', queried_domains')
      BY <1>3, <3>1, FrameDoneLonger
    <3> QED
      BY <1>7, <2>1, <3>1, <3>2
  <2> QED
    BY <1>8, <2>4, <2>5
<1>11. CASE /\ Live(d) /\ ips' = ips \cup Record[d].ips
            /\ Frame(d, Record[d]) \in FrameType /\ Frame(d, Record[d]).domain = d
            /\ stack' = Append([stack EXCEPT ![Len(stack)] = f], Frame(d, Record[d]))
  <2>1. PICK h \in FrameType : h = Frame(d, Record[d]) /\ h.domain = d
    BY <1>11
  <2>2. FrameDone(h, ips', queried_domains')
    <3>1. Ips(d) \subseteq ips'
      BY <1>11 DEF Ips
    <3> QED
      BY <1>11, <2>1, <3>1, NewFrameDone
  <2>3. /\ DOMAIN stack' = 1..(Len(stack) + 1) /\ DOMAIN stack = 1..Len(stack)
        /\ \A i \in DOMAIN stack : i \in DOMAIN stack'
                                   /\ stack'[i] = IF i = Len(stack) THEN f ELSE stack[i]
        /\ stack'[Len(stack) + 1] = h /\ Len(stack) \in Nat
    BY <1>2, <1>4, <1>11, <2>1, Pushed
  <2>4. \A i \in DOMAIN stack : stack'[i].domain = stack[i].domain
    BY <1>4, <1>5, <2>3
  <2>5. Len(stack) + 1 \in DOMAIN stack'
    BY <2>3
  <2>6. RecordsDone'
    <3> SUFFICES ASSUME NEW e \in Domain, <<"spf", e>> \in queried_domains', Owed(e)', ~Open(e)'
                 PROVE  Done(e, ips', queried_domains')
      BY DEF RecordsDone
    <3>1. e # d
      BY <2>1, <2>3, <2>5 DEF Open
    <3>2. <<"spf", e>> \in queried_domains
      BY <1>4, <3>1
    <3>3. ~Open(e)
      BY <2>3, <2>4 DEF Open
    <3> QED
      BY <1>9, <3>2, <3>3
  <2>7. FramesDone'
    <3> SUFFICES ASSUME NEW i \in DOMAIN stack'
                 PROVE  FrameDone(stack'[i], ips', queried_domains')
      BY DEF FramesDone
    <3>1. CASE i \in DOMAIN stack
      <4>1. FrameDone(stack[i], ips, queried_domains)
        BY <3>1 DEF FramesDone
      <4>2. FrameDone(stack[i], ips', queried_domains')
        BY <1>3, <4>1, FrameDoneLonger
      <4> QED
        BY <1>7, <2>3, <3>1, <4>2
    <3>2. CASE i = Len(stack) + 1
      BY <2>2, <2>3, <3>2
    <3> QED
      BY <2>3, <3>1, <3>2
  <2> QED
    BY <1>8, <2>6, <2>7
<1>12. failures' # failures + 1
  BY DEF Clean, TypeOK
<1> QED
  BY <1>4, <1>10, <1>11, <1>12

\* A record is done with when its call returns.
LEMMA ReturnDone ==
  ASSUME TypeOK, NamesDone, FramesDone, RecordsDone, Return
  PROVE  NamesDone' /\ FramesDone' /\ RecordsDone'
<1>1. PICK g \in FrameType : /\ g = top /\ stack # <<>> /\ g.stage = "mx" /\ g.left = {}
                            /\ queried_domains' = queried_domains \cup {<<"spf", g.domain>>}
                            /\ stack' = SubSeq(stack, 1, Len(stack) - 1)
                            /\ UNCHANGED <<asked, domains, mode, ips>>
  BY TopTyped DEF Return, At
<1>2. /\ Len(stack) \in DOMAIN stack /\ g = stack[Len(stack)] /\ Len(stack) \in Nat
      /\ DOMAIN stack' = 1..(Len(stack) - 1) /\ DOMAIN stack = 1..Len(stack)
      /\ \A i \in DOMAIN stack' : i \in DOMAIN stack /\ stack'[i] = stack[i]
  BY <1>1, Popped DEF TypeOK, top
<1>3. UNCHANGED queried_domains
  BY <1>1, <1>2 DEF TypeOK
<1>4. FrameDone(g, ips, queried_domains)
  BY <1>2 DEF FramesDone
<1>5. Done(g.domain, ips, queried_domains)
  BY <1>1, <1>4 DEF FrameDone, Done
<1>6. FramesDone'
  BY <1>1, <1>2, <1>3 DEF FramesDone
<1>7. RecordsDone'
  <2> SUFFICES ASSUME NEW e \in Domain, <<"spf", e>> \in queried_domains', Owed(e)', ~Open(e)'
               PROVE  Done(e, ips', queried_domains')
    BY DEF RecordsDone
  <2>1. CASE e = g.domain
    BY <1>1, <1>3, <1>5, <2>1
  <2>2. CASE e # g.domain
    <3>1. \A i \in DOMAIN stack : i \in DOMAIN stack' \/ i = Len(stack)
      BY <1>2
    <3>2. ~Open(e)
      BY <1>2, <2>2, <3>1 DEF Open
    <3>3. Owed(e)
      BY <1>1 DEF Owed
    <3> QED
      BY <1>1, <1>3, <3>2, <3>3 DEF RecordsDone
  <2> QED
    BY <2>1, <2>2
<1> QED
  BY <1>1, <1>3, <1>6, <1>7 DEF NamesDone

\* A domain that is begun with: what it owes was found with another, or is yet to be.
LEMMA StartDone ==
  ASSUME TypeOK, NamesDone, FramesDone, RecordsDone, MarksSound, Clean', Start
  PROVE  NamesDone' /\ FramesDone' /\ RecordsDone'
<1>1. UNCHANGED <<asked, mode>> /\ [Next]_vars
  BY DEF Start, Next
<1>2. PICK d \in domains :
        /\ d \in Domain /\ domains' = domains \ {d} /\ stack = <<>>
        /\ \/ /\ <<"spf", d>> \in queried_domains
              /\ UNCHANGED <<stack, queried_domains, ips>>
           \/ /\ queried_domains' = queried_domains \cup {<<"spf", d>>}
              /\ \/ /\ UNCHANGED <<stack, ips>>
                    /\ mode # "import"
                    /\ ~Live(d) \/ failures' = failures + 1
                 \/ \E f \in FrameType :
                      /\ stack' = <<f>> /\ f.domain = d
                      /\ \/ /\ Live(d) /\ f = Frame(d, Record[d])
                            /\ ips' = ips \cup Record[d].ips
                         \/ /\ mode = "import" /\ UNCHANGED ips
                            /\ ~Live(d) \/ failures' = failures + 1
                            /\ f = MailFrame(d)
  BY StartShape
<1>3. failures' # failures + 1
  BY DEF Clean, TypeOK
<1>4. ips \subseteq ips' /\ queried_domains \subseteq queried_domains'
  BY <1>1, FoundGrows, QueriedGrows
<1>5. NamesDone'
  <2>1. \A n : /\ <<"a", n>> \in queried_domains' => <<"a", n>> \in queried_domains
               /\ <<"mx", n>> \in queried_domains' => <<"mx", n>> \in queried_domains
    BY <1>2
  <2> QED
    BY <1>4, <2>1 DEF NamesDone
<1>6. ASSUME NEW e \in Domain, e # d, <<"spf", e>> \in queried_domains', Owed(e)'
      PROVE  Done(e, ips', queried_domains')
  <2>1. Owed(e)
    BY <1>1, <1>2, <1>6 DEF Owed
  <2>2. ~Open(e)
    BY <1>2 DEF Open
  <2>3. <<"spf", e>> \in queried_domains
    BY <1>2, <1>6
  <2>4. Done(e, ips, queried_domains)
    BY <2>1, <2>2, <2>3 DEF RecordsDone
  <2> QED
    BY <1>4, <2>4, DoneLonger
<1>7. CASE <<"spf", d>> \in queried_domains /\ UNCHANGED <<stack, queried_domains, ips>>
  <2>1. PICK e \in asked \ domains : d \in Reachable(e)
    BY <1>2, <1>7 DEF MarksSound, CountsFor
  <2>2. CountsFor(d, asked \ {d})
    BY <1>2, <2>1 DEF CountsFor
  <2>3. Owed(d)' => Live(d)
    BY <1>1, <2>2 DEF Owed
  <2>4. Owed(d)' => Done(d, ips', queried_domains')
    <3>1. Owed(d)' => Owed(d)
      BY <2>3 DEF Owed
    <3>2. ~Open(d)
      BY <1>2 DEF Open
    <3>3. Owed(d)' => Done(d, ips, queried_domains)
      BY <1>2, <1>7, <3>1, <3>2 DEF RecordsDone
    <3> QED
      BY <1>7, <3>3
  <2>5. FramesDone'
    BY <1>2, <1>7 DEF FramesDone
  <2> QED
    BY <1>5, <1>6, <2>4, <2>5 DEF RecordsDone
<1>8. CASE UNCHANGED <<stack, ips>> /\ mode # "import" /\ ~Live(d)
  <2>1. ~Owed(d)'
    BY <1>1, <1>8 DEF Owed
  <2>2. FramesDone'
    BY <1>2, <1>8 DEF FramesDone
  <2> QED
    BY <1>5, <1>6, <2>1, <2>2 DEF RecordsDone
<1>9. ASSUME NEW f \in FrameType, stack' = <<f>>, f.domain = d,
             FrameDone(f, ips', queried_domains')
      PROVE  FramesDone' /\ RecordsDone'
  <2>1. FramesDone'
    BY <1>9 DEF FramesDone
  <2>2. Open(d)'
    BY <1>9 DEF Open
  <2> QED
    BY <1>6, <2>1, <2>2 DEF RecordsDone
<1>10. CASE \E f \in FrameType : /\ stack' = <<f>> /\ f.domain = d
                                 /\ Live(d) /\ f = Frame(d, Record[d])
                                 /\ ips' = ips \cup Record[d].ips
  <2>1. PICK f \in FrameType : /\ stack' = <<f>> /\ f.domain = d
                               /\ Live(d) /\ f = Frame(d, Record[d])
                               /\ ips' = ips \cup Record[d].ips
    BY <1>10
  <2>2. Ips(d) \subseteq ips'
    BY <2>1 DEF Ips
  <2>3. FrameDone(f, ips', queried_domains')
    BY <1>2, <2>1, <2>2, NewFrameDone
  <2> QED
    BY <1>5, <1>9, <2>1, <2>3
<1>11. CASE \E f \in FrameType : /\ stack' = <<f>> /\ f.domain = d
                                 /\ ~Live(d) /\ f = MailFrame(d)
  <2>1. PICK f \in FrameType : /\ stack' = <<f>> /\ f.domain = d
                               /\ ~Live(d) /\ f = MailFrame(d)
    BY <1>11
  <2>2. FrameDone(f, ips', queried_domains')
    BY <2>1 DEF MailFrame, FrameDone, Ips, Includes, ANames, MXNames
  <2> QED
    BY <1>5, <1>9, <2>1, <2>2
<1> QED
  BY <1>2, <1>3, <1>7, <1>8, <1>10, <1>11

\* Nothing that the records name is lost on the way, as long as queries are answered and
\* the budget lasts.
LEMMA CompleteStep ==
  ASSUME TypeOK, SoundInv, CompleteInv, [Next]_vars
  PROVE  CompleteInv'
<1>1. UNCHANGED <<asked, mode>> /\ queried_domains \subseteq queried_domains'
  BY DomainsStep, QueriedGrows
<1>2. ASSUME NEW d \in asked' \ domains'
      PROVE  <<"spf", d>> \in queried_domains'
  <2>1. CASE Start
    <3>1. PICK e \in domains : domains' = domains \ {e} /\ <<"spf", e>> \in queried_domains'
      BY <2>1, StartShape
    <3> QED
      BY <1>1, <3>1 DEF CompleteInv
  <2>2. CASE UNCHANGED domains
    BY <1>1, <2>2 DEF CompleteInv
  <2> QED
    BY <2>1, <2>2, DomainsStep
<1>3. pc' = "done" => domains' = {}
  <2>1. CASE Answer
    BY <2>1 DEF Answer
  <2>2. CASE ~Answer
    <3>1. pc' = "done" => UNCHANGED <<pc, domains>>
      BY <2>2 DEF Next, Start, Skip, Include, NextStage, QueryA, QueryMX, QueryHost, NextMX, Return,
                  At, vars
    <3> QED
      BY <3>1 DEF CompleteInv
  <2> QED
    BY <2>1, <2>2
<1>4. ASSUME Clean'
      PROVE  NamesDone' /\ FramesDone' /\ RecordsDone'
  <2>1. failures = 0 /\ ~exhausted
    BY <1>4, IssueStep DEF Clean, TypeOK
  <2>2. NamesDone /\ FramesDone /\ RecordsDone /\ MarksSound /\ FramesSound
    BY <2>1 DEF CompleteInv, SoundInv, Clean, Trusted
  <2>3. CASE Start
    BY <1>4, <2>2, <2>3, StartDone
  <2>4. CASE Include
    BY <1>4, <2>2, <2>4, IncludeDone
  <2>5. CASE Skip \/ NextStage \/ QueryA \/ QueryMX \/ QueryHost \/ NextMX
    BY <1>4, <2>2, <2>5, WorkDone
  <2>6. CASE Return
    BY <2>2, <2>6, ReturnDone
  <2>7. CASE UNCHANGED <<asked, domains, mode, stack, queried_domains, ips>>
    BY <2>2, <2>7 DEF NamesDone, FramesDone, RecordsDone, Owed, Open
  <2>8. Answer \/ UNCHANGED vars => UNCHANGED <<asked, domains, mode, stack, queried_domains, ips>>
    BY DEF Answer, vars
  <2> QED
    BY <2>3, <2>4, <2>5, <2>6, <2>7, <2>8 DEF Next
<1> QED
  BY <1>2, <1>3, <1>4 DEF CompleteInv

\* At first nothing is marked.
LEMMA CompleteInit == Init => CompleteInv
BY DEF Init, CompleteInv, NamesDone, FramesDone, RecordsDone

\* In whatever order the sets are gone through, and however records share names and include
\* each other, all that they name is found and nothing else, when every query is answered and
\* none is left out (libs/dnsspf.py).
THEOREM FindsAllAndOnly == Spec => []Complete
<1>1. TypeOK /\ Distinct(stack) /\ SoundInv /\ CompleteInv /\ [Next]_vars
      => (TypeOK /\ Distinct(stack) /\ SoundInv /\ CompleteInv)'
  BY TypeStep, SoundStep, CompleteStep
<1>2. TypeOK /\ SoundInv /\ CompleteInv => Complete
  <2> SUFFICES ASSUME TypeOK, SoundInv, CompleteInv, pc = "done", failures = 0, ~exhausted
               PROVE  /\ UNION {Promised(d) : d \in asked} \subseteq ips
                      /\ ips \subseteq UNION {Possible(d) : d \in asked}
    BY DEF Complete
  <2>1. /\ domains = {} /\ stack = <<>> /\ RecordsDone /\ ips \subseteq AllPossible
        /\ \A d \in asked : <<"spf", d>> \in queried_domains
    BY DEF TypeOK, SoundInv, CompleteInv, Clean, Trusted
  <2>2. \A e \in Domain : <<"spf", e>> \in queried_domains /\ Owed(e)
                          => Done(e, ips, queried_domains)
    BY <2>1 DEF RecordsDone, Open
  <2>3. ASSUME NEW d \in asked
        PROVE  Promised(d) \subseteq ips
    <3>1. PICK set \in SUBSET Domain : set = {e \in Domain : <<"spf", e>> \in queried_domains}
      OBVIOUS
    <3>2. \A e \in set : Includes(e) \subseteq set
      <4> SUFFICES ASSUME NEW e \in set, NEW n \in Includes(e) PROVE n \in set
        OBVIOUS
      <4>1. Live(e) /\ n \in Domain
        BY <3>1, DnsAssumption DEF Includes, Live
      <4>2. Done(e, ips, queried_domains)
        BY <2>2, <3>1, <4>1 DEF Owed
      <4> QED
        BY <3>1, <4>1, <4>2 DEF Done
    <3>3. d \in set /\ d \in Domain
      BY <2>1, <3>1 DEF TypeOK
    <3>4. Reachable(d) \subseteq set
      BY <3>2, <3>3, ReachableLeast
    <3>5. ASSUME NEW e \in Reachable(d), Record[e] # NoRecord
          PROVE  Listed(e) \subseteq ips
      <4>1. Done(e, ips, queried_domains)
        BY <2>2, <3>1, <3>4, <3>5 DEF Owed, Live
      <4>2. /\ Record[e].ips \subseteq ips
            /\ \A n \in Record[e].a : A[n] \subseteq ips
            /\ \A n \in Record[e].mx : \A h \in MX[n] : A[h] \subseteq ips
        BY <3>5, <4>1 DEF Done, Ips, ANames, MXNames, Live, Servers
      <4>3. UNION {A[n] : n \in Record[e].a} \subseteq ips
        BY <4>2
      <4>4. UNION {A[h] : h \in UNION {MX[n] : n \in Record[e].mx}} \subseteq ips
        BY <4>2
      <4> QED
        BY <4>2, <4>3, <4>4 DEF Listed
    <3>6. Named(d) \subseteq ips
      BY <3>5 DEF Named
    <3>7. CASE ~Live(d) /\ mode = "import" /\ ~\E e \in asked \ {d} : d \in Reachable(e)
      <4>1. Done(d, ips, queried_domains)
        BY <2>1, <2>2, <3>3, <3>7 DEF Owed, CountsFor
      <4> QED
        BY <3>7, <4>1 DEF Promised, Done, MXNames, Live
    <3> QED
      BY <3>6, <3>7 DEF Promised, Live
  <2> QED
    BY <2>1, <2>3 DEF AllPossible
<1> QED
  BY <1>1, <1>2, TypeInit, SoundInit, CompleteInit, PTL DEF Spec
=============================================================================
