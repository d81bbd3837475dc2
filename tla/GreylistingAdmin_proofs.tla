-------------------------- MODULE GreylistingAdmin_proofs --------------------------
(***************************************************************************)
(* Proofs about GreylistingAdmin for any commands, addresses and bounds:   *)
(* that the settings are those last reported, that a request is judged by  *)
(* them, that no import takes back a whitelisting, and what an import      *)
(* leaves in its table.                                                    *)
(***************************************************************************)
EXTENDS GreylistingAdmin, TLAPS, SequenceTheorems

-----------------------------------------------------------------------------
(* The statements of a command                                             *)

\* What a statement that is yet to be executed may be about.
Good(s) ==
  /\ s.kind \in {"insert_setting", "delete_setting"} => <<s.account, s.sender>> \in Pairs
  /\ s.kind \in {"insert_domain", "delete_auto"} => s.sender.domain \in Domain
  /\ s.kind = "add_whitelist_sender" => s.sender.form \notin {"ip", "network"}
  /\ s.kind \in {"insert_whitelist", "add_whitelist_sender"} =>
       \A d \in Domain : s.comment # AutoUpdate(d)

\* Statements of which none deletes a setting.
Adding(q) ==
  q \in Seq(Range(q)) /\ \A s \in Range(q) : Good(s) /\ s.kind # "delete_setting"

\* Only the first statement of a command deletes a setting, and one that is to be replaced
\* is inserted next.
Deleting(q) ==
  /\ q \in Seq(Range(q)) /\ q # <<>> /\ Adding(Tail(q))
  /\ Good(Head(q)) /\ Head(q).kind = "delete_setting"
  /\ Head(q).active => /\ Tail(q) # <<>> /\ Head(Tail(q)).kind = "insert_setting"
                       /\ Head(Tail(q)).account = Head(q).account
                       /\ Head(Tail(q)).sender = Head(q).sender

TodoInv == todo = [p \in Admin |-> todo[p]] /\ \A p \in Admin : Adding(todo[p]) \/ Deleting(todo[p])

-----------------------------------------------------------------------------
(* Lemmas about sequences of statements                                    *)

\* No statement.
LEMMA AddingNone == Adding(<<>>)
<1>1. <<>> \in Seq({}) /\ Range(<<>>) = {}
  BY EmptySeq DEF Range
<1> QED
  BY <1>1 DEF Adding

\* One.
LEMMA AddingOne ==
  ASSUME NEW s, Good(s), s.kind # "delete_setting"
  PROVE  Adding(<<s>>)
<1>1. <<s>> \in Seq({s}) /\ Range(<<s>>) = {s}
  BY DEF Range
<1> QED
  BY <1>1 DEF Adding

\* Two parts of a command.
LEMMA AddingBoth ==
  ASSUME NEW q, NEW r, Adding(q), Adding(r)
  PROVE  Adding(q \o r)
<1> DEFINE S == Range(q) \cup Range(r)
<1>1. q \in Seq(S) /\ r \in Seq(S)
  BY SeqMonotonic DEF Adding
<1>2. q \o r \in Seq(S) /\ Range(q \o r) = S
  BY <1>1, ConcatProperties, RangeConcatenation
<1> QED
  BY <1>2 DEF Adding

\* Two statements are one and one.
LEMMA TwoStatements == ASSUME NEW s, NEW t PROVE <<s>> \o <<t>> = <<s, t>>
<1> DEFINE S == {s, t}
<1>1. <<s>> \in Seq(S) /\ <<t>> \in Seq(S) /\ <<s, t>> \in Seq(S)
  OBVIOUS
<1>2. Len(<<s>>) = 1 /\ Len(<<t>>) = 1 /\ Len(<<s, t>>) = 2
  OBVIOUS
<1>3. <<s>>[1] = s /\ <<t>>[1] = t /\ <<s, t>>[1] = s /\ <<s, t>>[2] = t
  OBVIOUS
<1>4. /\ <<s>> \o <<t>> \in Seq(S) /\ Len(<<s>> \o <<t>>) = 2
      /\ \A i \in 1..2 : (<<s>> \o <<t>>)[i] = IF i <= 1 THEN <<s>>[i] ELSE <<t>>[i - 1]
  BY <1>1, <1>2, ConcatProperties
<1>5. \A i \in 1..2 : (<<s>> \o <<t>>)[i] = <<s, t>>[i]
  <2>1. \A i \in 1..2 : i = 1 \/ i = 2
    OBVIOUS
  <2>2. (<<s>> \o <<t>>)[1] = s /\ (<<s>> \o <<t>>)[2] = t
    BY <1>3, <1>4
  <2> QED
    BY <1>3, <2>1, <2>2
<1> QED
  BY <1>1, <1>2, <1>4, <1>5, SeqEqual

\* What is left when the first has been executed.
LEMMA AddingRest ==
  ASSUME NEW q, Adding(q), q # <<>>
  PROVE  Adding(Tail(q)) /\ Good(Head(q)) /\ Head(q).kind # "delete_setting"
<1>1. Head(q) \in Range(q) /\ Tail(q) \in Seq(Range(q))
  BY HeadTailProperties DEF Adding
<1>2. Tail(q) \in Seq(Range(Tail(q))) /\ Range(Tail(q)) \subseteq Range(q)
  BY <1>1, SeqOfRange, RangeOfSeq
<1> QED
  BY <1>1, <1>2 DEF Adding

\* A setting is deleted, and perhaps inserted anew.
LEMMA DeletingFirst ==
  ASSUME NEW s, NEW r, Good(s), s.kind = "delete_setting", Adding(r),
         s.active => /\ r # <<>> /\ Head(r).kind = "insert_setting"
                     /\ Head(r).account = s.account /\ Head(r).sender = s.sender
  PROVE  Deleting(<<s>> \o r)
<1> DEFINE S == {s} \cup Range(r)
<1>1. <<s>> \in Seq(S) /\ r \in Seq(S) /\ Len(<<s>>) = 1 /\ <<s>>[1] = s
  BY SeqMonotonic DEF Adding
<1>2. <<s>> \o r \in Seq(S) /\ <<s>> \o r # <<>> /\ Head(<<s>> \o r) = s /\ Tail(<<s>> \o r) = r
  BY <1>1
<1>3. <<s>> \o r \in Seq(Range(<<s>> \o r))
  BY <1>2, SeqOfRange
<1> QED
  BY <1>2, <1>3 DEF Deleting

-----------------------------------------------------------------------------
(* What commands may do                                                    *)

\* An address of type "email" is spelt as one.
LEMMA EmailForm ==
  ASSUME NEW a, AddressType(a) = "email"
  PROVE  a.form = "user@domain"
BY DEF AddressType, Catchall, CatchallIP, AtDot

\* The comments of the programs that are not the import are not its own.
LEMMA CommentFacts ==
  ASSUME NEW d
  PROVE  Manual # AutoUpdate(d) /\ <<"AUTO-WHITELISTED">> # AutoUpdate(d)
BY DEF Manual, AutoUpdate

\* What settings are about.
LEMMA PairFacts ==
  /\ \A row \in InitSettings : <<row.account, row.sender>> \in Pairs
  /\ \A c \in Commands :
       /\ c.op \in {"enable", "disable", "delete"} => <<c.account, c.sender>> \in Pairs
       /\ c.op = "migrate" => <<c.member, Catchall>> \in Pairs /\ <<Catchall, Catchall>> \in Pairs
  /\ \A p \in Pairs : p = <<p[1], p[2]>>
BY DEF Pairs

\* libs/greylisting.py, enable_greylisting and disable_greylisting
LEMMA SetGood ==
  ASSUME NEW account, NEW sender, NEW active, <<account, sender>> \in Pairs
  PROVE  Deleting(SetGreylisting(account, sender, active))
<1> DEFINE s == Statement("delete_setting", account, sender, TRUE, Manual)
           t == Statement("insert_setting", account, sender, active, Manual)
<1>1. /\ Good(s) /\ s.kind = "delete_setting" /\ s.account = account /\ s.sender = sender
      /\ Good(t) /\ t.kind = "insert_setting" /\ t.account = account /\ t.sender = sender
  BY DEF Good, Statement
<1> HIDE DEF s, t
<1>2. Adding(<<t>>) /\ Head(<<t>>) = t /\ <<t>> # <<>>
  BY <1>1, AddingOne
<1>3. Deleting(<<s>> \o <<t>>)
  BY <1>1, <1>2, DeletingFirst
<1>4. <<s>> \o <<t>> = <<s, t>>
  BY TwoStatements
<1> QED
  BY <1>3, <1>4 DEF SetGreylisting, s, t

\* libs/greylisting.py, add_whitelist_sender
LEMMA WhitelistGood ==
  ASSUME NEW account, NEW sender, NEW comment, sender.form \notin {"ip", "network"},
         \A d \in Domain : comment # AutoUpdate(d)
  PROVE  Adding(AddWhitelistSender(account, sender, comment))
<1> DEFINE s == Statement("add_whitelist_sender", account, sender, FALSE, comment)
<1>1. Good(s) /\ s.kind = "add_whitelist_sender"
  BY DEF Good, Statement
<1> HIDE DEF s
<1>2. Adding(<<s>>)
  BY <1>1, AddingOne
<1> QED
  BY <1>2, AddingNone DEF AddWhitelistSender, s

\* One statement about a domain, or a whitelisting, or a setting.
LEMMA OneStatement ==
  ASSUME NEW kind, NEW account, NEW sender, NEW active
  PROVE  /\ kind \in {"insert_domain", "delete_domain", "delete_auto"} /\ sender.domain \in Domain
              => Adding(<<Statement(kind, account, sender, active, Manual)>>)
         /\ kind = "insert_whitelist" => Adding(<<Statement(kind, account, sender, active, Manual)>>)
         /\ kind = "insert_setting" /\ <<account, sender>> \in Pairs
              => Adding(<<Statement(kind, account, sender, active, Manual)>>)
<1> DEFINE s == Statement(kind, account, sender, active, Manual)
<1>1. s.kind = kind /\ s.account = account /\ s.sender = sender /\ s.comment = Manual
  BY DEF Statement
<1> HIDE DEF s
<1>2. kind \in {"insert_domain", "delete_domain", "delete_auto"} /\ sender.domain \in Domain
        => Good(s) /\ kind # "delete_setting"
  BY <1>1 DEF Good
<1>3. kind = "insert_whitelist" => Good(s) /\ kind # "delete_setting"
  BY <1>1, CommentFacts DEF Good
<1>4. kind = "insert_setting" /\ <<account, sender>> \in Pairs => Good(s) /\ kind # "delete_setting"
  BY <1>1 DEF Good
<1>5. Good(s) /\ kind # "delete_setting" => Adding(<<s>>)
  BY <1>1, AddingOne
<1> QED
  BY <1>2, <1>3, <1>4, <1>5 DEF s

\* tools/greylisting_admin.py
LEMMA AdminGood ==
  ASSUME NEW c \in Commands, c.op \notin {"outbound", "migrate"}
  PROVE  Adding(AdminStatements(c)) \/ Deleting(AdminStatements(c))
<1> DEFINE d == SenderDomain(c.sender)
<1>0. Bare(d).domain = d
  BY DEF Bare
<1>1. CASE ~ValidSender(c.sender)
  BY <1>1, AddingNone DEF AdminStatements
<1>2. CASE ValidSender(c.sender) /\ c.op \in {"enable", "disable"}
  <2>1. <<c.account, c.sender>> \in Pairs
    BY <1>2, PairFacts
  <2> QED
    BY <1>2, <2>1, SetGood DEF AdminStatements
<1>3. CASE ValidSender(c.sender) /\ c.op = "delete"
  <2> DEFINE s == Statement("delete_setting", c.account, c.sender, FALSE, Manual)
  <2>1. <<c.account, c.sender>> \in Pairs
    BY <1>3, PairFacts
  <2>2. Good(s) /\ s.kind = "delete_setting" /\ ~s.active
    BY <2>1 DEF Good, Statement
  <2>3. AdminStatements(c) = <<s>>
    BY <1>3 DEF AdminStatements
  <2> HIDE DEF s
  <2>4. Deleting(<<s>> \o <<>>)
    BY <2>2, AddingNone, DeletingFirst
  <2>5. <<s>> \o <<>> = <<s>>
    OBVIOUS
  <2> QED
    BY <2>3, <2>4, <2>5
<1>4. CASE ValidSender(c.sender) /\ c.op = "whitelist-domain"
  <2>1. Adding(AddWhitelistDomain(d))
    <3>1. IsDomain(d) => Adding(<<DomainStatement("insert_domain", d)>>)
      BY <1>0, <1>4, InputsAssumption, OneStatement DEF DomainStatement
    <3> QED
      BY <3>1, AddingNone DEF AddWhitelistDomain
  <2> QED
    BY <1>4, <2>1 DEF AdminStatements
<1>5. CASE ValidSender(c.sender) /\ c.op = "remove-whitelist-domain"
  <2> DEFINE s == DomainStatement("delete_domain", d)
             t == DomainStatement("delete_auto", d)
  <2>1. IsDomain(d) => Adding(<<s>>) /\ Adding(<<t>>)
    BY <1>0, <1>5, InputsAssumption, OneStatement DEF DomainStatement
  <2>2. AdminStatements(c) = IF IsDomain(d) THEN <<s, t>> ELSE <<>>
    BY <1>5 DEF AdminStatements
  <2> HIDE DEF s, t, d
  <2>3. <<s>> \o <<t>> = <<s, t>>
    BY TwoStatements
  <2>4. IsDomain(d) => Adding(<<s, t>>)
    BY <2>1, <2>3, AddingBoth
  <2> QED
    BY <2>2, <2>4, AddingNone
<1>6. CASE ValidSender(c.sender) /\ c.op = "add-whitelist"
  BY <1>6, OneStatement DEF AdminStatements
<1> QED
  BY <1>1, <1>2, <1>3, <1>4, <1>5, <1>6, InputsAssumption

\* plugins/whitelist_outbound_recipient.py
LEMMA OutboundGood ==
  ASSUME NEW c \in Commands, c.op = "outbound"
  PROVE  Adding(OutboundStatements(c))
<1> DEFINE account == CASE c.local_account = "user"   -> c.sasl_username
                        [] c.local_account = "domain" -> Bare(c.sasl_username.domain)
                        [] OTHER -> Catchall
           sender  == IF c.rcpt = "domain" THEN Bare(c.recipient.domain) ELSE c.recipient
           first   == IF c.without_spf THEN AddWhitelistSender(account, sender, Manual) ELSE <<>>
           second  == IF c.whitelist_domain THEN AddWhitelistDomain(c.recipient.domain)
                      ELSE AddWhitelistSender(c.sasl_username, c.recipient, <<"AUTO-WHITELISTED">>)
<1>1. CASE AddressType(c.recipient) # "email" \/ c.sasl_username.domain = c.recipient.domain
  BY <1>1, AddingNone DEF OutboundStatements
<1>2. CASE ~(AddressType(c.recipient) # "email" \/ c.sasl_username.domain = c.recipient.domain)
  <2>1. c.recipient.form \notin {"ip", "network"} /\ sender.form \notin {"ip", "network"}
    BY <1>2, EmailForm DEF Bare
  <2> HIDE DEF account, sender
  <2>2. Adding(first)
    BY <2>1, AddingNone, CommentFacts, WhitelistGood
  <2>3. Adding(AddWhitelistDomain(c.recipient.domain))
    <3> DEFINE d == c.recipient.domain
    <3>1. Bare(d).domain = d
      BY DEF Bare
    <3>2. IsDomain(d) => Adding(<<DomainStatement("insert_domain", d)>>)
      BY <3>1, InputsAssumption, OneStatement DEF DomainStatement
    <3> QED
      BY <3>2, AddingNone DEF AddWhitelistDomain
  <2>4. Adding(second)
    BY <2>1, <2>3, CommentFacts, WhitelistGood
  <2>5. OutboundStatements(c) = first \o second
    BY <1>2 DEF OutboundStatements, account, sender
  <2> QED
    BY <2>2, <2>4, <2>5, AddingBoth
<1> QED
  BY <1>1, <1>2

\* tools/migrate_cluebringer_greylisting.py
LEMMA MigrateGood ==
  ASSUME NEW c \in Commands, c.op = "migrate"
  PROVE  Adding(MigrateStatements(c))
<1> DEFINE first  == IF c.enabled /\ ~Has(greylisting, Catchall, Catchall)
                       THEN << Statement("insert_setting", Catchall, Catchall, TRUE, Manual) >>
                       ELSE <<>>
           second == IF AddressType(c.member) # "invalid"
                       THEN << Statement("insert_setting", c.member, Catchall, TRUE, Manual) >>
                       ELSE <<>>
           third  == << Statement("insert_whitelist", Catchall, c.white, FALSE, Manual) >>
<1>1. Adding(first) /\ Adding(second)
  BY PairFacts, AddingNone, OneStatement
<1>2. Adding(third)
  BY OneStatement
<1>3. MigrateStatements(c) = first \o second \o third
  BY DEF MigrateStatements
<1> QED
  BY <1>1, <1>2, <1>3, AddingBoth

\* Every command.
LEMMA CommandGood ==
  ASSUME NEW c \in Commands
  PROVE  Adding(StatementsOf(c)) \/ Deleting(StatementsOf(c))
<1>1. CASE c.op = "outbound"
  BY <1>1, OutboundGood DEF StatementsOf
<1>2. CASE c.op = "migrate"
  BY <1>2, MigrateGood DEF StatementsOf
<1>3. CASE c.op \notin {"outbound", "migrate"}
  <2>1. StatementsOf(c) = AdminStatements(c)
    BY <1>3 DEF StatementsOf
  <2> QED
    BY <1>3, <2>1, AdminGood
<1> QED
  BY <1>1, <1>2, <1>3

-----------------------------------------------------------------------------
(* The inductive invariant                                                 *)

\* What the import holds is about the domains of the table, each once.
ImportInv ==
  /\ domains \subseteq Domain /\ domain_ips \in Seq(Range(domain_ips))
  /\ \A a \in Range(domain_ips) : a.domain \in Domain
  /\ ipc \in {"delete", "delete_whitelists", "insert", "tracking"} => domain_ips # <<>>

\* A row says what was last reported of its pair, and a pair of which something was
\* reported has a row, is lost or is about to be inserted.
SettingsAgree ==
  /\ last \in [Pairs -> {"none", "on", "off"}]
  /\ \A row \in greylisting :
       /\ <<row.account, row.sender>> \in Pairs
       /\ last[<<row.account, row.sender>>] = IF row.active THEN "on" ELSE "off"
  /\ \A p \in Pairs :
       last[p] = "none" \/ p \in lost \/ Changing(p) \/ Has(greylisting, p[1], p[2])

AdminInv == TypeOK /\ TodoInv /\ ImportInv /\ SettingsAgree

\* No process has a command at first.
LEMMA AdminInit == Init => AdminInv
<1> SUFFICES ASSUME Init PROVE AdminInv
  OBVIOUS
<1> USE InputsAssumption DEF Init
<1>1. TodoInv
  BY AddingNone DEF TodoInv
<1>2. ImportInv
  <2>1. <<>> \in Seq(Range(<<>>)) /\ Range(<<>>) = {}
    BY EmptySeq DEF Range
  <2> QED
    BY <2>1 DEF ImportInv
<1>3. TypeOK
  BY DEF TypeOK
<1>4. SettingsAgree
  <2>1. \A row \in InitSettings :
          last[<<row.account, row.sender>>] = IF row.active THEN "on" ELSE "off"
    <3> SUFFICES ASSUME NEW row \in InitSettings
                 PROVE  last[<<row.account, row.sender>>] = IF row.active THEN "on" ELSE "off"
      OBVIOUS
    <3>1. \A other \in InitSettings :
            other.account = row.account /\ other.sender = row.sender <=> other = row
      BY DEF Keyed
    <3>2. (CHOOSE other \in InitSettings :
             other.account = row.account /\ other.sender = row.sender) = row
      BY <3>1
    <3>3. <<row.account, row.sender>> \in Pairs
      BY PairFacts
    <3> QED
      BY <3>2, <3>3 DEF InitialLast, Has
  <2>2. last \in [Pairs -> {"none", "on", "off"}]
    BY DEF InitialLast
  <2>3. \A p \in Pairs : last[p] = "none" \/ Has(greylisting, p[1], p[2])
    BY DEF InitialLast
  <2> QED
    BY <2>1, <2>2, <2>3, PairFacts DEF SettingsAgree
<1> QED
  BY <1>1, <1>2, <1>3, <1>4 DEF AdminInv

\* A statement leaves its command, or the command ends.
LEMMA CommandMoves ==
  ASSUME TodoInv, NEW p \in Admin, todo[p] # <<>>, Advance(p) \/ Abandon(p)
  PROVE  TodoInv'
<1>1. Adding(Tail(todo[p]))
  BY AddingRest DEF TodoInv, Deleting
<1>2. todo'[p] \in {Tail(todo[p]), <<>>} /\ \A q \in Admin : q # p => todo'[q] = todo[q]
  BY DEF TodoInv, Advance, Abandon
<1>3. todo' = [q \in Admin |-> todo'[q]]
  BY DEF TodoInv, Advance, Abandon
<1> QED
  BY <1>1, <1>2, <1>3, AddingNone DEF TodoInv

\* Every step keeps the order of the statements of a command.
LEMMA TodoStep == TodoInv /\ [Next]_vars => TodoInv'
<1> SUFFICES ASSUME TodoInv, [Next]_vars PROVE TodoInv'
  OBVIOUS
<1>1. ASSUME NEW p \in Admin, Give(p) PROVE TodoInv'
  <2>1. PICK c \in Commands : todo' = [todo EXCEPT ![p] = StatementsOf(c)]
    BY <1>1 DEF Give
  <2>2. todo'[p] = StatementsOf(c) /\ \A q \in Admin : q # p => todo'[q] = todo[q]
    BY <2>1 DEF TodoInv
  <2>3. todo' = [q \in Admin |-> todo'[q]]
    BY <2>1 DEF TodoInv
  <2> QED
    BY <2>2, <2>3, CommandGood DEF TodoInv
<1>2. ASSUME NEW p \in Admin, Command(p) PROVE TodoInv'
  <2>1. todo[p] # <<>> /\ (Advance(p) \/ Abandon(p))
    BY <1>2 DEF Command, DeleteSetting, InsertSetting, InsertWhitelist, ChangeDomains, DeleteAuto,
                StatementFails, IsNext
  <2> QED
    BY <2>1, CommandMoves
<1>3. CASE UNCHANGED todo
  BY <1>3 DEF TodoInv
<1>4. CASE Import \/ Publish \/ Daemon \/ UNCHANGED vars
  BY <1>3, <1>4 DEF Import, ImportStart, QueryDomain, WriteStart, DeleteOld, InsertNew, DeleteTracking,
                    WriteFails, NextDomain, WriteElsewhere, ImportElsewhere, Publish, Daemon, Receive,
                    IsWhitelisted, ShouldBeGreylisted, DaemonElsewhere, vars
<1> QED
  BY <1>1, <1>2, <1>4 DEF Next

\* What the import takes up and writes is about domains of the table.
LEMMA ImportStep == ImportInv /\ TypeOK /\ [Next]_vars => ImportInv'
<1> SUFFICES ASSUME ImportInv, TypeOK, [Next]_vars PROVE ImportInv'
  OBVIOUS
<1>1. CASE UNCHANGED importVars
  BY <1>1 DEF importVars, ImportInv
<1>2. CASE (\E p \in Admin : Give(p) \/ Command(p)) \/ Publish \/ Daemon \/ UNCHANGED vars
  BY <1>1, <1>2 DEF Give, Command, DeleteSetting, InsertSetting, InsertWhitelist, ChangeDomains,
                    DeleteAuto, StatementFails, SettingElsewhere, Publish, Daemon, Receive,
                    IsWhitelisted, ShouldBeGreylisted, DaemonElsewhere, vars
<1>3. CASE ImportStart
  <2>1. domains' \subseteq Domain /\ domain_ips' = <<>> /\ ipc' \in {"idle", "query"}
    BY <1>3 DEF ImportStart, TypeOK
  <2>2. <<>> \in Seq(Range(<<>>)) /\ Range(<<>>) = {}
    BY EmptySeq DEF Range
  <2> QED
    BY <2>1, <2>2 DEF ImportInv
<1>4. CASE QueryDomain
  <2>1. ipc = "query" /\ UNCHANGED ipc
    BY <1>4 DEF QueryDomain
  <2>2. CASE UNCHANGED domain_ips
    <3>1. domains' \subseteq domains
      BY <1>4 DEF QueryDomain
    <3> QED
      BY <2>1, <2>2, <3>1 DEF ImportInv
  <2>3. CASE \E d \in domains : \E i : /\ domains' = domains \ {d}
                                      /\ domain_ips' = Append(domain_ips, [domain |-> d, ips |-> i])
    <3>0. PICK d \in domains : \E i : /\ domains' = domains \ {d}
                                     /\ domain_ips' = Append(domain_ips, [domain |-> d, ips |-> i])
      BY <2>3
    <3>1. PICK i : domains' = domains \ {d} /\ domain_ips' = Append(domain_ips, [domain |-> d, ips |-> i])
      BY <3>0
    <3> DEFINE a == [domain |-> d, ips |-> i]
               S == Range(domain_ips) \cup {a}
    <3>2. domain_ips \in Seq(S) /\ a \in S
      BY SeqMonotonic DEF ImportInv
    <3>3. domain_ips' \in Seq(S)
      BY <3>1, <3>2, AppendProperties
    <3>4. domain_ips' \in Seq(Range(domain_ips')) /\ Range(domain_ips') \subseteq S
      BY <3>3, SeqOfRange, RangeOfSeq
    <3>5. \A x \in S : x.domain \in Domain
      BY <3>1 DEF ImportInv
    <3> QED
      BY <2>1, <3>1, <3>4, <3>5 DEF ImportInv
  <2> QED
    BY <1>4, <2>2, <2>3 DEF QueryDomain
<1>5. CASE WriteStart
  <2>1. UNCHANGED <<domains, domain_ips>> /\ ipc' \in {"idle", "delete"}
    BY <1>5 DEF WriteStart
  <2>2. ipc' = "delete" => Range(domain_ips) # {}
    BY <1>5 DEF WriteStart
  <2>3. Range(<<>>) = {}
    BY DEF Range
  <2> QED
    BY <2>1, <2>2, <2>3 DEF ImportInv
<1>6. CASE DeleteOld \/ InsertNew \/ DeleteTracking \/ WriteFails
  <2>1. UNCHANGED <<domains, domain_ips>>
        /\ ipc \in {"delete", "delete_whitelists", "insert", "tracking"}
    BY <1>6 DEF DeleteOld, InsertNew, DeleteTracking, WriteFails, WriteElsewhere
  <2> QED
    BY <2>1 DEF ImportInv
<1>7. CASE NextDomain
  <2>1. /\ domain_ips # <<>> /\ domain_ips' = Tail(domain_ips) /\ UNCHANGED domains
        /\ ipc' = IF domain_ips' = <<>> THEN "idle" ELSE "delete"
    BY <1>7 DEF NextDomain, WriteElsewhere, ImportInv
  <2>2. Tail(domain_ips) \in Seq(Range(domain_ips))
    BY <2>1, HeadTailProperties DEF ImportInv
  <2>3. domain_ips' \in Seq(Range(domain_ips')) /\ Range(domain_ips') \subseteq Range(domain_ips)
    BY <2>1, <2>2, SeqOfRange, RangeOfSeq
  <2> QED
    BY <2>1, <2>3 DEF ImportInv
<1> QED
  BY <1>2, <1>3, <1>4, <1>5, <1>6, <1>7 DEF Next, Import

-----------------------------------------------------------------------------
(* The tables                                                              *)

\* Deleting keeps a unique index, and so does inserting a row of a new key.
LEMMA KeyedStays ==
  ASSUME NEW table, Keyed(table)
  PROVE  /\ \A fewer \in SUBSET table : Keyed(fewer)
         /\ \A row : ~Has(table, row.account, row.sender) => Keyed(table \cup {row})
BY DEF Keyed, Has

\* The rows that the programs write have the account and sender they were told.
LEMMA RowFields ==
  ASSUME NEW account, NEW sender, NEW active, NEW comment
  PROVE  /\ Setting(account, sender, active).account = account
         /\ Setting(account, sender, active).sender = sender
         /\ Setting(account, sender, active).active = active
         /\ White(account, sender, comment).account = account
         /\ White(account, sender, comment).sender = sender
         /\ White(account, sender, comment).comment = comment
BY DEF Setting, White

\* Every statement keeps the types.
LEMMA TypeStep == AdminInv /\ [Next]_vars => TypeOK'
<1> SUFFICES ASSUME AdminInv, [Next]_vars PROVE TypeOK'
  OBVIOUS
<1>0. TypeOK /\ TodoInv
  BY DEF AdminInv
<1>1. ASSUME NEW p \in Admin, Give(p) PROVE TypeOK'
  BY <1>0, <1>1 DEF Give, TypeOK, settingVars, whiteVars, importVars, daemonVars
<1>2. ASSUME NEW p \in Admin, todo[p] # <<>> PROVE Good(Head(todo[p]))
  BY <1>0, <1>2, AddingRest DEF TodoInv, Deleting
<1>3. ASSUME NEW p \in Admin, DeleteSetting(p) PROVE TypeOK'
  <2>1. greylisting' \subseteq greylisting /\ DOMAIN last' = Pairs /\ lost' \subseteq lost
    BY <1>0, <1>3 DEF DeleteSetting, TypeOK
  <2>2. UNCHANGED <<whiteVars, greylisting_whitelist_domain_spf, greylisting_whitelist_domains,
                    pc, verdict, ipc>>
    BY <1>3 DEF DeleteSetting, SettingElsewhere, importVars, daemonVars
  <2>3. Keyed(greylisting)'
    BY <1>0, <2>1, KeyedStays DEF TypeOK
  <2> QED
    BY <1>0, <2>1, <2>2, <2>3 DEF TypeOK, whiteVars
<1>4. ASSUME NEW p \in Admin, InsertSetting(p) PROVE TypeOK'
  <2> DEFINE h == Head(todo[p])
  <2>1. UNCHANGED <<whiteVars, greylisting_whitelist_domain_spf, greylisting_whitelist_domains,
                    pc, verdict, ipc>>
    BY <1>4 DEF InsertSetting, SettingElsewhere, importVars, daemonVars
  <2>2. CASE UNCHANGED settingVars
    BY <1>0, <2>1, <2>2 DEF TypeOK, whiteVars, settingVars
  <2>3. CASE ~UNCHANGED settingVars
    <3> DEFINE new == Setting(h.account, h.sender, h.active)
    <3>1. /\ ~Has(greylisting, h.account, h.sender) /\ greylisting' = greylisting \cup {new}
          /\ DOMAIN last' = DOMAIN last /\ lost' \subseteq lost
      BY <1>4, <2>3 DEF InsertSetting
    <3>2. new.account = h.account /\ new.sender = h.sender /\ new.active = h.active
      BY RowFields
    <3>3. Keyed(greylisting)'
      BY <1>0, <3>1, <3>2, KeyedStays DEF TypeOK
    <3>4. \A row \in greylisting' : row = Setting(row.account, row.sender, row.active)
      BY <1>0, <3>1, <3>2 DEF TypeOK
    <3> QED
      BY <1>0, <2>1, <3>1, <3>3, <3>4 DEF TypeOK, whiteVars
  <2> QED
    BY <2>2, <2>3
<1>5. ASSUME NEW p \in Admin, InsertWhitelist(p) PROVE TypeOK'
  <2> DEFINE h == Head(todo[p])
  <2>1. UNCHANGED <<settingVars, greylisting_whitelist_domain_spf, greylisting_whitelist_domains,
                    pc, verdict, ipc>>
    BY <1>5 DEF InsertWhitelist, importVars, daemonVars
  <2>2. \/ UNCHANGED greylisting_whitelists
        \/ /\ ~Has(greylisting_whitelists, h.account, h.sender)
           /\ greylisting_whitelists' =
                greylisting_whitelists \cup {White(h.account, h.sender, h.comment)}
    BY <1>5 DEF InsertWhitelist
  <2>3. Keyed(greylisting_whitelists)'
    BY <1>0, <2>2, KeyedStays, RowFields DEF TypeOK
  <2> QED
    BY <1>0, <2>1, <2>3 DEF TypeOK, settingVars
<1>6. ASSUME NEW p \in Admin, ChangeDomains(p) PROVE TypeOK'
  <2>1. UNCHANGED <<settingVars, whiteVars, greylisting_whitelist_domain_spf, pc, verdict, ipc>>
    BY <1>6 DEF ChangeDomains, importVars, daemonVars
  <2>2. greylisting_whitelist_domains' \subseteq Domain
    <3>1. CASE IsNext(p, "insert_domain")
      <4>1. Head(todo[p]).sender.domain \in Domain
        BY <1>2, <3>1 DEF IsNext, Good
      <4> QED
        BY <1>0, <1>6, <4>1 DEF ChangeDomains, TypeOK
    <3>2. CASE ~IsNext(p, "insert_domain")
      BY <1>0, <1>6, <3>2 DEF ChangeDomains, TypeOK
    <3> QED
      BY <3>1, <3>2
  <2> QED
    BY <1>0, <2>1, <2>2 DEF TypeOK, settingVars, whiteVars
<1>7. ASSUME NEW p \in Admin, DeleteAuto(p) PROVE TypeOK'
  <2>1. UNCHANGED <<settingVars, greylisting_whitelist_domain_spf, greylisting_whitelist_domains,
                    pc, verdict, ipc>> /\ greylisting_whitelists' \subseteq greylisting_whitelists
    BY <1>7 DEF DeleteAuto, importVars, daemonVars
  <2>2. Keyed(greylisting_whitelists)'
    BY <1>0, <2>1, KeyedStays DEF TypeOK
  <2> QED
    BY <1>0, <2>1, <2>2 DEF TypeOK, settingVars
<1>8. ASSUME NEW p \in Admin, StatementFails(p) PROVE TypeOK'
  <2>1. UNCHANGED <<greylisting, last, whiteVars, greylisting_whitelist_domain_spf,
                    greylisting_whitelist_domains, pc, verdict, ipc>>
    BY <1>8 DEF StatementFails, SettingElsewhere, importVars, daemonVars
  <2>2. lost' \subseteq Pairs
    BY <1>0, <1>2, <1>8 DEF StatementFails, TypeOK, Good
  <2> QED
    BY <1>0, <2>1, <2>2 DEF TypeOK, whiteVars
<1>9. CASE Import
  <2>1. UNCHANGED <<settingVars, greylisting_whitelist_domains, pc, verdict>>
    BY <1>9 DEF Import, ImportStart, QueryDomain, WriteStart, DeleteOld, InsertNew, DeleteTracking,
                WriteFails, NextDomain, WriteElsewhere, ImportElsewhere, daemonVars
  <2>2. ipc' \in {"idle", "query", "delete", "delete_whitelists", "insert", "tracking"}
    BY <1>0, <1>9 DEF Import, ImportStart, QueryDomain, WriteStart, DeleteOld, InsertNew,
                      DeleteTracking, WriteFails, NextDomain, TypeOK
  <2>3. greylisting_whitelists' \subseteq greylisting_whitelists
    BY <1>9 DEF Import, ImportStart, QueryDomain, WriteStart, DeleteOld, InsertNew, DeleteTracking,
                WriteFails, NextDomain, whiteVars
  <2>4. \/ greylisting_whitelist_domain_spf' \subseteq greylisting_whitelist_domain_spf
        \/ \E i \in ips :
             /\ ~Has(greylisting_whitelist_domain_spf, Catchall, i)
             /\ greylisting_whitelist_domain_spf' = greylisting_whitelist_domain_spf
                  \cup {White(Catchall, i, AutoUpdate(Head(domain_ips).domain))}
    <3>1. CASE InsertNew
      BY <3>1 DEF InsertNew, Has
    <3>2. CASE ~InsertNew
      BY <1>9, <3>2 DEF Import, ImportStart, QueryDomain, WriteStart, DeleteOld, DeleteTracking,
                        WriteFails, NextDomain
    <3> QED
      BY <3>1, <3>2
  <2>5. Keyed(greylisting_whitelists)' /\ Keyed(greylisting_whitelist_domain_spf)'
    BY <1>0, <2>3, <2>4, KeyedStays, RowFields DEF TypeOK
  <2> QED
    BY <1>0, <2>1, <2>2, <2>5 DEF TypeOK, settingVars
<1>10. CASE Publish \/ UNCHANGED vars
  BY <1>0, <1>10 DEF Publish, vars, TypeOK, settingVars, whiteVars, importVars, daemonVars
<1>11. CASE Daemon
  <2>1. UNCHANGED <<settingVars, whiteVars, greylisting_whitelist_domain_spf,
                    greylisting_whitelist_domains, ipc>>
    BY <1>11 DEF Daemon, Receive, IsWhitelisted, ShouldBeGreylisted, DaemonElsewhere, importVars
  <2>2. /\ pc' \in {"idle", "spf", "whitelists", "setting"}
        /\ verdict' \in {"none", "dunno", "greylist"}
    BY <1>0, <1>11 DEF Daemon, Receive, IsWhitelisted, ShouldBeGreylisted, TypeOK
  <2> QED
    BY <1>0, <2>1, <2>2 DEF TypeOK, settingVars, whiteVars
<1> QED
  BY <1>1, <1>3, <1>4, <1>5, <1>6, <1>7, <1>8, <1>9, <1>10, <1>11 DEF Next, Command

-----------------------------------------------------------------------------
(* The settings are those last reported                                    *)

\* A pair that a process has yet to insert stays so while others go on.
LEMMA ChangingStays ==
  ASSUME TodoInv, NEW p \in Admin, NEW rest, todo' = [todo EXCEPT ![p] = rest],
         NEW pair, Changing(pair),
         ~(IsNext(p, "insert_setting") /\ <<Head(todo[p]).account, Head(todo[p]).sender>> = pair)
  PROVE  Changing(pair)'
<1>1. PICK q \in Admin : /\ IsNext(q, "insert_setting")
                         /\ <<Head(todo[q]).account, Head(todo[q]).sender>> = pair
  BY DEF Changing
<1>2. todo'[q] = todo[q]
  BY <1>1 DEF TodoInv
<1> QED
  BY <1>1, <1>2 DEF Changing, IsNext

\* A step that does not touch the settings, and inserts none.
LEMMA SettingsStay ==
  ASSUME SettingsAgree, TodoInv, UNCHANGED settingVars,
         \/ UNCHANGED todo
         \/ \E p \in Admin, rest \in {todo'[q] : q \in Admin} :
              todo' = [todo EXCEPT ![p] = rest] /\ ~IsNext(p, "insert_setting")
  PROVE  SettingsAgree'
<1>1. \A pair \in Pairs : Changing(pair) => Changing(pair)'
  <2>1. CASE UNCHANGED todo
    BY <2>1 DEF Changing, IsNext
  <2>2. CASE \E p \in Admin, rest \in {todo'[q] : q \in Admin} :
               todo' = [todo EXCEPT ![p] = rest] /\ ~IsNext(p, "insert_setting")
    BY <2>2, ChangingStays
  <2> QED
    BY <2>1, <2>2
<1> QED
  BY <1>1 DEF SettingsAgree, settingVars

\* What a command writes of a setting, it reports, or remembers as lost.
LEMMA SettingsStep == AdminInv /\ [Next]_vars => SettingsAgree'
<1> SUFFICES ASSUME AdminInv, [Next]_vars PROVE SettingsAgree'
  OBVIOUS
<1>0. TypeOK /\ TodoInv /\ SettingsAgree
  BY DEF AdminInv
<1>1. ASSUME NEW p \in Admin, Give(p) PROVE SettingsAgree'
  <2>1. UNCHANGED settingVars /\ ~IsNext(p, "insert_setting")
    BY <1>1 DEF Give, IsNext
  <2>2. PICK c \in Commands : todo' = [todo EXCEPT ![p] = StatementsOf(c)]
    BY <1>1 DEF Give
  <2>3. todo'[p] = StatementsOf(c)
    BY <1>0, <2>2 DEF TodoInv
  <2> QED
    BY <1>0, <2>1, <2>2, <2>3, SettingsStay
<1>2. ASSUME NEW p \in Admin, InsertWhitelist(p) \/ ChangeDomains(p) \/ DeleteAuto(p)
      PROVE  SettingsAgree'
  <2>1. /\ UNCHANGED settingVars /\ ~IsNext(p, "insert_setting")
        /\ todo' = [todo EXCEPT ![p] = Tail(todo[p])]
    BY <1>2 DEF InsertWhitelist, ChangeDomains, DeleteAuto, IsNext, Advance
  <2>2. todo'[p] = Tail(todo[p])
    BY <1>0, <2>1 DEF TodoInv
  <2> QED
    BY <1>0, <2>1, <2>2, SettingsStay
<1>3. CASE UNCHANGED <<settingVars, todo>>
  BY <1>0, <1>3, SettingsStay
<1>4. CASE Import \/ Publish \/ Daemon \/ UNCHANGED vars
  BY <1>3, <1>4 DEF Import, ImportStart, QueryDomain, WriteStart, DeleteOld, InsertNew, DeleteTracking,
                    WriteFails, NextDomain, WriteElsewhere, ImportElsewhere, Publish, Daemon, Receive,
                    IsWhitelisted, ShouldBeGreylisted, DaemonElsewhere, vars
<1>5. ASSUME NEW p \in Admin, DeleteSetting(p) PROVE SettingsAgree'
  <2>a. PICK h : h = Head(todo[p])
    OBVIOUS
  <2>b. PICK pair : pair = <<h.account, h.sender>>
    OBVIOUS
  <2>c. pair[1] = h.account /\ pair[2] = h.sender
    BY <2>b
  <2>1. /\ ~IsNext(p, "insert_setting") /\ todo' = [todo EXCEPT ![p] = Tail(todo[p])]
        /\ greylisting' = {row \in greylisting : ~(row.account = h.account /\ row.sender = h.sender)}
        /\ last' = IF h.active THEN last ELSE [last EXCEPT ![pair] = "none"]
        /\ lost' = IF h.active THEN lost ELSE lost \ {pair}
    BY <1>5, <2>a, <2>b DEF DeleteSetting, IsNext, Advance
  <2>2. todo[p] # <<>> /\ h.kind = "delete_setting" /\ Deleting(todo[p])
    BY <1>0, <1>5, <2>a, AddingRest DEF DeleteSetting, IsNext, TodoInv
  <2>3. pair \in Pairs
    BY <2>2, <2>a, <2>b DEF Deleting, Good
  <2>4. \A row \in greylisting' : row \in greylisting /\ <<row.account, row.sender>> # pair
    BY <2>1, <2>b
  <2>5. \A q \in Pairs : q # pair => last'[q] = last[q] /\ (q \in lost => q \in lost')
    BY <1>0, <2>1 DEF SettingsAgree
  <2>6. last' \in [Pairs -> {"none", "on", "off"}]
    BY <1>0, <2>1 DEF SettingsAgree
  <2>7. \A q \in Pairs : q # pair /\ Changing(q) => Changing(q)'
    BY <1>0, <2>1, ChangingStays
  <2>8. \A q \in Pairs : q # pair /\ Has(greylisting, q[1], q[2]) => Has(greylisting, q[1], q[2])'
    BY <2>1, <2>b, PairFacts DEF Has
  <2>9. last'[pair] = "none" \/ Changing(pair)'
    <3>1. CASE h.active
      <4>1. todo'[p] = Tail(todo[p])
        BY <1>0, <2>1 DEF TodoInv
      <4> QED
        BY <2>2, <2>a, <2>b, <3>1, <4>1 DEF Deleting, Changing, IsNext
    <3>2. CASE ~h.active
      BY <1>0, <2>1, <2>3, <3>2 DEF SettingsAgree
    <3> QED
      BY <3>1, <3>2
  <2>10. \A row \in greylisting' :
           /\ <<row.account, row.sender>> \in Pairs
           /\ last'[<<row.account, row.sender>>] = IF row.active THEN "on" ELSE "off"
    BY <1>0, <2>4, <2>5 DEF SettingsAgree
  <2>11. \A q \in Pairs :
           last'[q] = "none" \/ q \in lost' \/ Changing(q)' \/ Has(greylisting, q[1], q[2])'
    <3> TAKE q \in Pairs
    <3>1. CASE q = pair
      BY <2>9, <3>1
    <3>2. CASE q # pair
      <4>1. last[q] = "none" \/ q \in lost \/ Changing(q) \/ Has(greylisting, q[1], q[2])
        BY <1>0 DEF SettingsAgree
      <4> QED
        BY <2>5, <2>7, <2>8, <3>2, <4>1
    <3> QED
      BY <3>1, <3>2
  <2> QED
    BY <2>6, <2>10, <2>11 DEF SettingsAgree
<1>6. ASSUME NEW p \in Admin, InsertSetting(p) PROVE SettingsAgree'
  <2>a. PICK h : h = Head(todo[p])
    OBVIOUS
  <2>b. PICK pair : pair = <<h.account, h.sender>>
    OBVIOUS
  <2>c. pair[1] = h.account /\ pair[2] = h.sender
    BY <2>b
  <2>d. PICK new : new = Setting(h.account, h.sender, h.active)
    OBVIOUS
  <2>1. IsNext(p, "insert_setting") /\ todo' = [todo EXCEPT ![p] = Tail(todo[p])]
    BY <1>6 DEF InsertSetting, Advance
  <2>2. pair \in Pairs
    BY <1>0, <2>1, <2>a, <2>b, AddingRest DEF IsNext, TodoInv, Deleting, Good
  <2>3. \A q \in Pairs : q # pair /\ Changing(q) => Changing(q)'
    BY <1>0, <2>1, <2>a, <2>b, ChangingStays
  <2>4. CASE Has(greylisting, h.account, h.sender)
    <3>1. UNCHANGED settingVars
      BY <1>6, <2>4, <2>a DEF InsertSetting
    <3>2. Has(greylisting, pair[1], pair[2])
      BY <2>4, <2>c
    <3> QED
      BY <1>0, <2>3, <3>1, <3>2 DEF SettingsAgree, settingVars
  <2>5. CASE ~Has(greylisting, h.account, h.sender)
    <3>1. /\ greylisting' = greylisting \cup {new}
          /\ last' = [last EXCEPT ![pair] = IF h.active THEN "on" ELSE "off"]
          /\ lost' = lost \ {pair}
      BY <1>6, <2>5, <2>a, <2>b, <2>d DEF InsertSetting
    <3>2. new.account = h.account /\ new.sender = h.sender /\ new.active = h.active
      BY <2>d, RowFields
    <3>3. last'[pair] = IF h.active THEN "on" ELSE "off"
      BY <1>0, <2>2, <3>1 DEF SettingsAgree
    <3>4. \A row \in greylisting : <<row.account, row.sender>> # pair
      BY <2>5, <2>b DEF Has
    <3>5. \A q \in Pairs : q # pair => last'[q] = last[q] /\ (q \in lost => q \in lost')
      BY <1>0, <3>1 DEF SettingsAgree
    <3>6. last' \in [Pairs -> {"none", "on", "off"}]
      BY <1>0, <3>1 DEF SettingsAgree
    <3>7. Has(greylisting, pair[1], pair[2])' /\ <<new.account, new.sender>> = pair
      <4>1. new \in greylisting' /\ <<new.account, new.sender>> = pair
        BY <2>b, <3>1, <3>2
      <4> QED
        BY <2>c, <3>2, <4>1 DEF Has
    <3>8. \A q \in Pairs : Has(greylisting, q[1], q[2]) => Has(greylisting, q[1], q[2])'
      BY <3>1 DEF Has
    <3>9. last'[pair] = IF new.active THEN "on" ELSE "off"
      BY <3>2, <3>3
    <3>10. \A row \in greylisting' :
             /\ <<row.account, row.sender>> \in Pairs
             /\ last'[<<row.account, row.sender>>] = IF row.active THEN "on" ELSE "off"
      <4>1. ASSUME NEW row \in greylisting
            PROVE  /\ <<row.account, row.sender>> \in Pairs
                   /\ last'[<<row.account, row.sender>>] = IF row.active THEN "on" ELSE "off"
        BY <1>0, <3>4, <3>5 DEF SettingsAgree
      <4>2. /\ <<new.account, new.sender>> \in Pairs
            /\ last'[<<new.account, new.sender>>] = IF new.active THEN "on" ELSE "off"
        BY <2>2, <3>7, <3>9
      <4> QED
        BY <3>1, <4>1, <4>2
    <3>11. \A q \in Pairs :
             last'[q] = "none" \/ q \in lost' \/ Changing(q)' \/ Has(greylisting, q[1], q[2])'
      <4> TAKE q \in Pairs
      <4>1. CASE q = pair
        BY <3>7, <4>1
      <4>2. CASE q # pair
        <5>1. last[q] = "none" \/ q \in lost \/ Changing(q) \/ Has(greylisting, q[1], q[2])
          BY <1>0 DEF SettingsAgree
        <5> QED
          BY <2>3, <3>5, <3>8, <4>2, <5>1
      <4> QED
        BY <4>1, <4>2
    <3> QED
      BY <3>6, <3>10, <3>11 DEF SettingsAgree
  <2> QED
    BY <2>4, <2>5
<1>7. ASSUME NEW p \in Admin, StatementFails(p) PROVE SettingsAgree'
  <2>a. PICK h : h = Head(todo[p])
    OBVIOUS
  <2>b. PICK pair : pair = <<h.account, h.sender>>
    OBVIOUS
  <2>c. pair[1] = h.account /\ pair[2] = h.sender
    BY <2>b
  <2>1. /\ todo[p] # <<>> /\ UNCHANGED <<greylisting, last>> /\ lost \subseteq lost'
        /\ \E rest \in {Tail(todo[p]), <<>>} : todo' = [todo EXCEPT ![p] = rest]
    BY <1>7 DEF StatementFails, Advance, Abandon
  <2>2. \A q \in Pairs : Changing(q) /\ ~(h.kind = "insert_setting" /\ q = pair) => Changing(q)'
    BY <1>0, <2>1, <2>a, <2>b, ChangingStays DEF IsNext
  <2>3. /\ h.kind = "insert_setting" /\ last[pair] # "none" /\ ~Has(greylisting, h.account, h.sender)
        => pair \in lost'
    BY <1>7, <2>a, <2>b DEF StatementFails
  <2>4. \A q \in Pairs :
          last'[q] = "none" \/ q \in lost' \/ Changing(q)' \/ Has(greylisting, q[1], q[2])'
    BY <1>0, <2>1, <2>2, <2>3, <2>c DEF SettingsAgree
  <2> QED
    BY <1>0, <2>1, <2>4 DEF SettingsAgree
<1> QED
  BY <1>1, <1>2, <1>4, <1>5, <1>6, <1>7 DEF Next, Command

\* The tables, the reports and the commands agree in every state.
LEMMA AdminInvariant == Spec => []AdminInv
<1>1. AdminInv /\ [Next]_vars => AdminInv'
  BY TypeStep, TodoStep, ImportStep, SettingsStep DEF AdminInv
<1> QED
  BY AdminInit, <1>1, PTL DEF Spec

\* However the statements of several administrators, of the migration and of the outbound
\* plugin interleave or fail, a setting in the table is the one last reported as made, and
\* one reported is in the table unless its replacement is under way or has failed
\* (libs/greylisting.py:23-75, tools/greylisting_admin.py).
THEOREM ReportsHold == Spec => []SettingsAsReported
<1>1. AdminInv => SettingsAsReported
  <2> SUFFICES ASSUME AdminInv, NEW p \in Pairs
               PROVE  \/ p \in lost
                      \/ Changing(p)
                      \/ ~Has(greylisting, p[1], p[2]) /\ last[p] = "none"
                      \/ \E row \in greylisting : /\ row.account = p[1] /\ row.sender = p[2]
                                                  /\ last[p] = IF row.active THEN "on" ELSE "off"
    BY DEF AdminInv, SettingsAsReported
  <2>1. p = <<p[1], p[2]>>
    BY PairFacts
  <2>2. CASE Has(greylisting, p[1], p[2])
    <3>1. PICK row \in greylisting : row.account = p[1] /\ row.sender = p[2]
      BY <2>2 DEF Has
    <3>2. last[p] = IF row.active THEN "on" ELSE "off"
      BY <2>1, <3>1 DEF AdminInv, SettingsAgree
    <3> QED
      BY <3>1, <3>2
  <2>3. CASE ~Has(greylisting, p[1], p[2])
    BY <2>3 DEF AdminInv, SettingsAgree
  <2> QED
    BY <2>2, <2>3
<1> QED
  BY <1>1, AdminInvariant, PTL

-----------------------------------------------------------------------------
(* A whitelisting reported is honoured                                     *)

\* A row the import wrote is one of an address or a network.
ImportedRows ==
  \A row \in greylisting_whitelists, d \in Domain :
    row.comment = AutoUpdate(d) => row.sender.form \in {"ip", "network"}

\* A whitelisting reported has a row that no import deletes.
GrantedKept ==
  \A g \in granted : \E row \in greylisting_whitelists :
    /\ row.account = g[1] /\ row.sender = g[2]
    /\ \A d \in Domain : row.comment # AutoUpdate(d)

\* A whitelisting spares the request being judged.
Spares(g) ==
  g[1] \in Recipients(req) /\ (g[2] \in Senders(req) \/ InNetwork(req.client, g[2]))

\* Those reported before it came are still there, and have been looked at before the
\* setting is.
DueKept ==
  /\ due \subseteq granted
  /\ pc = "setting" \/ (pc = "idle" /\ verdict = "greylist") => \A g \in due : ~Spares(g)

\* The initial state.
LEMMA GrantedInit == Init => ImportedRows /\ GrantedKept /\ DueKept
BY InputsAssumption DEF Init, ImportedRows, GrantedKept, DueKept

\* The whitelistings stay, or go with what the import wrote of a domain.
LEMMA RowsGoWithDomain ==
  ASSUME ImportedRows, GrantedKept, UNCHANGED granted, NEW d \in Domain,
         \/ UNCHANGED greylisting_whitelists
         \/ greylisting_whitelists' = {row \in greylisting_whitelists : row.comment # AutoUpdate(d)}
  PROVE  ImportedRows' /\ GrantedKept'
BY DEF ImportedRows, GrantedKept

\* Only rows that the import wrote are deleted, and none of them is taken for a
\* whitelisting reported.
LEMMA GrantedStep == AdminInv /\ ImportedRows /\ GrantedKept /\ [Next]_vars => ImportedRows' /\ GrantedKept'
<1> SUFFICES ASSUME AdminInv, ImportedRows, GrantedKept, [Next]_vars
             PROVE  ImportedRows' /\ GrantedKept'
  OBVIOUS
<1>1. CASE UNCHANGED whiteVars
  BY <1>1 DEF whiteVars, ImportedRows, GrantedKept
<1>2. ASSUME NEW p \in Admin, todo[p] # <<>> PROVE Good(Head(todo[p]))
  BY <1>2, AddingRest DEF AdminInv, TodoInv, Deleting
<1>3. ASSUME NEW p \in Admin,
             Give(p) \/ DeleteSetting(p) \/ InsertSetting(p) \/ ChangeDomains(p) \/ StatementFails(p)
      PROVE  ImportedRows' /\ GrantedKept'
  BY <1>1, <1>3 DEF Give, DeleteSetting, InsertSetting, ChangeDomains, StatementFails, SettingElsewhere
<1>4. ASSUME NEW p \in Admin, DeleteAuto(p) PROVE ImportedRows' /\ GrantedKept'
  <2>1. Head(todo[p]).sender.domain \in Domain
    BY <1>2, <1>4 DEF DeleteAuto, IsNext, Good
  <2> QED
    BY <1>4, <2>1, RowsGoWithDomain DEF DeleteAuto
<1>5. ASSUME NEW p \in Admin, InsertWhitelist(p) PROVE ImportedRows' /\ GrantedKept'
  <2>a. PICK h : h = Head(todo[p])
    OBVIOUS
  <2>b. PICK new : new = White(h.account, h.sender, h.comment)
    OBVIOUS
  <2>1. /\ todo[p] # <<>> /\ h.kind \in {"insert_whitelist", "add_whitelist_sender"}
        /\ \A d \in Domain : h.comment # AutoUpdate(d)
        /\ h.kind = "add_whitelist_sender" => h.sender.form \notin {"ip", "network"}
    BY <1>2, <1>5, <2>a DEF InsertWhitelist, IsNext, Good
  <2>2. new.account = h.account /\ new.sender = h.sender /\ new.comment = h.comment
    BY <2>b, RowFields
  <2>3. CASE Has(greylisting_whitelists, h.account, h.sender)
    <3>1. UNCHANGED greylisting_whitelists
      BY <1>5, <2>a, <2>3 DEF InsertWhitelist
    <3>2. \/ UNCHANGED granted
          \/ /\ h.kind = "add_whitelist_sender"
             /\ granted' = granted \cup {<<h.account, h.sender>>}
      BY <1>5, <2>a, <2>1, <2>3 DEF InsertWhitelist
    <3>3. PICK row \in greylisting_whitelists : row.account = h.account /\ row.sender = h.sender
      BY <2>3 DEF Has
    <3>4. h.kind = "add_whitelist_sender" => \A d \in Domain : row.comment # AutoUpdate(d)
      BY <2>1, <3>3 DEF ImportedRows
    <3> QED
      BY <3>1, <3>2, <3>3, <3>4 DEF ImportedRows, GrantedKept
  <2>4. CASE ~Has(greylisting_whitelists, h.account, h.sender)
    <3>1. /\ greylisting_whitelists' = greylisting_whitelists \cup {new}
          /\ granted' = granted \cup {<<h.account, h.sender>>}
      BY <1>5, <2>a, <2>b, <2>4 DEF InsertWhitelist
    <3>2. ImportedRows'
      BY <2>1, <2>2, <3>1 DEF ImportedRows
    <3>3. GrantedKept'
      BY <2>1, <2>2, <3>1 DEF GrantedKept
    <3> QED
      BY <3>2, <3>3
  <2> QED
    BY <2>3, <2>4
<1>6. CASE DeleteOld
  <2>1. Head(domain_ips).domain \in Domain
    <3>1. Head(domain_ips) \in Range(domain_ips)
      BY <1>6, HeadTailProperties DEF AdminInv, ImportInv, DeleteOld
    <3> QED
      BY <3>1 DEF AdminInv, ImportInv
  <2> QED
    BY <1>6, <2>1, RowsGoWithDomain DEF DeleteOld, WriteElsewhere
<1>7. CASE (Import /\ ~DeleteOld) \/ Publish \/ Daemon \/ UNCHANGED vars
  BY <1>1, <1>7 DEF Import, ImportStart, QueryDomain, WriteStart, InsertNew, DeleteTracking, WriteFails,
                    NextDomain, WriteElsewhere, whiteVars, Publish, Daemon, Receive, IsWhitelisted,
                    ShouldBeGreylisted, DaemonElsewhere, vars
<1> QED
  BY <1>3, <1>4, <1>5, <1>6, <1>7 DEF Next, Command

\* The daemon looks at the whitelistings of the table after those that were due, and goes
\* on only when none spares the request.
LEMMA DueStep == GrantedKept /\ GrantedKept' /\ DueKept /\ [Next]_vars => DueKept'
<1> SUFFICES ASSUME GrantedKept, GrantedKept', DueKept, [Next]_vars PROVE DueKept'
  OBVIOUS
<1>1. CASE Receive
  BY <1>1 DEF Receive, DaemonElsewhere, whiteVars, DueKept
<1>2. CASE IsWhitelisted
  <2>1. UNCHANGED <<due, req, granted>> /\ pc \in {"spf", "whitelists"}
    BY <1>2 DEF IsWhitelisted, DaemonElsewhere, whiteVars
  <2>2. CASE pc' # "setting"
    <3>1. pc' = "idle" => verdict' = "dunno"
      BY <1>2, <2>1 DEF IsWhitelisted
    <3> QED
      BY <2>1, <2>2, <3>1 DEF DueKept
  <2>3. CASE pc' = "setting"
    <3>1. PICK wls : wls = {row.sender : row \in {row \in greylisting_whitelists : row.account \in Recipients(req)}}
      OBVIOUS
    <3>2. Senders(req) \cap wls = {} /\ \A net \in wls : ~InNetwork(req.client, net)
      BY <1>2, <2>3, <3>1 DEF IsWhitelisted
    <3>3. ASSUME NEW g \in due, g[1] \in Recipients(req) PROVE g[2] \in wls
      BY <3>1, <3>3 DEF GrantedKept, DueKept
    <3>4. \A g \in due : ~Spares(g)
      BY <3>2, <3>3 DEF Spares
    <3>5. \A g \in due : ~Spares(g)'
      BY <2>1, <3>4 DEF Spares
    <3> QED
      BY <2>1, <3>5 DEF DueKept
  <2> QED
    BY <2>2, <2>3
<1>3. CASE ShouldBeGreylisted
  BY <1>3 DEF ShouldBeGreylisted, DaemonElsewhere, whiteVars, DueKept, Spares
<1>4. CASE UNCHANGED daemonVars /\ granted \subseteq granted'
  BY <1>4 DEF daemonVars, DueKept, Spares
<1>5. ASSUME NEW p \in Admin, Give(p) \/ Command(p) PROVE DueKept'
  BY <1>4, <1>5 DEF Give, Command, DeleteSetting, InsertSetting, InsertWhitelist, ChangeDomains,
                    DeleteAuto, StatementFails, SettingElsewhere, whiteVars
<1>6. CASE Import \/ Publish \/ UNCHANGED vars
  BY <1>4, <1>6 DEF Import, ImportStart, QueryDomain, WriteStart, DeleteOld, InsertNew, DeleteTracking,
                    WriteFails, NextDomain, WriteElsewhere, ImportElsewhere, whiteVars, Publish, vars
<1> QED
  BY <1>1, <1>2, <1>3, <1>5, <1>6 DEF Next, Daemon

\* A whitelisting reported as made before a request came in spares the request, whatever
\* the import deletes and writes anew, whichever domain is removed and whatever fails
\* (libs/greylisting.py:77-133, plugins/greylisting.py:32-104,
\* tools/spf_to_greylist_whitelists.py).
THEOREM GrantsHold == Spec => []GrantedHonoured
<1>1. AdminInv /\ ImportedRows /\ GrantedKept /\ DueKept /\ [Next]_vars
        => ImportedRows' /\ GrantedKept' /\ DueKept'
  BY GrantedStep, DueStep
<1>2. DueKept => GrantedHonoured
  BY DEF DueKept, Spares, GrantedHonoured
<1> QED
  BY GrantedInit, AdminInvariant, <1>1, <1>2, PTL DEF Spec

-----------------------------------------------------------------------------
(* What an import leaves in the table                                      *)

\* The answers whose old rows are yet to be deleted.
ToDelete ==
  IF ipc = "delete" THEN Range(domain_ips)
  ELSE IF ipc = "idle" THEN {} ELSE Range(Tail(domain_ips))

\* Address i is still to be looked for and, perhaps, inserted.
Pending(i) ==
  \/ \E a \in ToDelete : i \in a.ips
  \/ ipc = "delete_whitelists" /\ i \in Head(domain_ips).ips
  \/ ipc \in {"insert", "tracking"} /\ i \in ips

\* It has a row, which the import is not to delete, or not before it has seen it.
Kept(i) ==
  \E row \in greylisting_whitelist_domain_spf :
    /\ row.account = Catchall /\ row.sender = i
    /\ \A a \in ToDelete : row.comment = AutoUpdate(a.domain) => <<i, row.comment>> \in skipped

\* It was passed over for a row of a domain that names it no more.
PassedOver(i) ==
  \E s \in skipped : s[1] = i /\ \E d \in Domain : s[2] = AutoUpdate(d) /\ <<d, i>> \notin found

\* No domain is answered for twice.
Distinct(q) == \A m, n \in 1..Len(q) : q[m].domain = q[n].domain => m = n

\* While nothing fails, every address found is pending, has a row that stays or is passed
\* over; what is found of an answer is among its addresses until it has been written.
ListedInv ==
  /\ failures \in Nat
  /\ failures = 0 =>
       /\ Distinct(domain_ips)
       /\ ipc = "query" => found = {} /\ \A a \in Range(domain_ips) : a.domain \notin domains
       /\ ipc \notin {"idle", "query"} =>
            \A f \in found, a \in Range(domain_ips) : a.domain = f[1] => f[2] \in a.ips
       /\ \A f \in found : Pending(f[2]) \/ Kept(f[2]) \/ PassedOver(f[2])

\* What is left to write is the answer at hand and those that follow.
LEMMA AnswersLeft ==
  ASSUME NEW q, q \in Seq(Range(q)), q # <<>>
  PROVE  /\ Head(q) \in Range(q)
         /\ Range(q) = {Head(q)} \cup Range(Tail(q))
         /\ Distinct(q) => /\ Distinct(Tail(q))
                           /\ \A a \in Range(Tail(q)) : a.domain # Head(q).domain
<1>1. /\ Len(q) \in Nat /\ Len(q) >= 1 /\ DOMAIN q = 1..Len(q) /\ Head(q) = q[1]
      /\ Tail(q) \in Seq(Range(q)) /\ Len(Tail(q)) = Len(q) - 1
      /\ \A n \in 1..Len(Tail(q)) : Tail(q)[n] = q[n + 1]
  BY HeadTailProperties, LenProperties
<1>2. DOMAIN Tail(q) = 1..(Len(q) - 1)
  BY <1>1, LenProperties
<1>3. Head(q) \in Range(q)
  BY <1>1 DEF Range
<1>4. Range(Tail(q)) \subseteq Range(q)
  BY <1>1, RangeOfSeq
<1>5. ASSUME NEW a \in Range(q) PROVE a = Head(q) \/ a \in Range(Tail(q))
  <2>1. PICK n \in 1..Len(q) : a = q[n]
    BY <1>1 DEF Range
  <2>2. CASE n = 1
    BY <1>1, <2>1, <2>2
  <2>3. CASE n # 1
    <3>1. n - 1 \in 1..(Len(q) - 1) /\ (n - 1) + 1 = n
      BY <1>1, <2>1, <2>3
    <3>2. Tail(q)[n - 1] = a
      BY <1>1, <2>1, <3>1
    <3> QED
      BY <1>2, <3>1, <3>2 DEF Range
  <2> QED
    BY <2>2, <2>3
<1>6. ASSUME Distinct(q) PROVE Distinct(Tail(q))
  <2>1. SUFFICES ASSUME NEW m \in 1..Len(Tail(q)), NEW n \in 1..Len(Tail(q)),
                        Tail(q)[m].domain = Tail(q)[n].domain
                 PROVE  m = n
    BY DEF Distinct
  <2>2. m + 1 \in 1..Len(q) /\ n + 1 \in 1..Len(q)
    BY <1>1, <2>1
  <2>3. q[m + 1].domain = q[n + 1].domain
    BY <1>1, <2>1
  <2>4. m + 1 = n + 1
    BY <1>6, <2>2, <2>3 DEF Distinct
  <2> QED
    BY <2>1, <2>4
<1>7. ASSUME Distinct(q), NEW a \in Range(Tail(q)), a.domain = Head(q).domain PROVE FALSE
  <2>1. PICK n \in 1..(Len(q) - 1) : a = Tail(q)[n]
    BY <1>2, <1>7 DEF Range
  <2>2. n + 1 \in 1..Len(q) /\ 1 \in 1..Len(q) /\ n + 1 # 1
    BY <1>1, <2>1
  <2>3. q[n + 1].domain = q[1].domain
    BY <1>1, <1>7, <2>1
  <2> QED
    BY <1>7, <2>2, <2>3 DEF Distinct
<1> QED
  BY <1>3, <1>4, <1>5, <1>6, <1>7

\* An answer for a domain that has none yet keeps the answers distinct.
LEMMA AnswerNew ==
  ASSUME NEW q, q \in Seq(Range(q)), Distinct(q), NEW b, \A a \in Range(q) : a.domain # b.domain
  PROVE  Distinct(Append(q, b)) /\ Range(Append(q, b)) \subseteq Range(q) \cup {b}
<1> DEFINE S == Range(q) \cup {b}
<1>1. q \in Seq(S) /\ b \in S
  BY SeqMonotonic
<1>2. /\ Append(q, b) \in Seq(S) /\ Len(Append(q, b)) = Len(q) + 1 /\ Len(q) \in Nat
      /\ \A n \in 1..Len(q) : Append(q, b)[n] = q[n]
      /\ Append(q, b)[Len(q) + 1] = b
  BY <1>1, AppendProperties, LenProperties
<1>3. Range(Append(q, b)) \subseteq S
  BY <1>2, RangeOfSeq
<1>4. \A n \in 1..Len(q) : q[n] \in Range(q)
  BY LenProperties DEF Range
<1>5. Distinct(Append(q, b))
  <2>1. SUFFICES ASSUME NEW m \in 1..(Len(q) + 1), NEW n \in 1..(Len(q) + 1),
                        Append(q, b)[m].domain = Append(q, b)[n].domain
                 PROVE  m = n
    BY <1>2 DEF Distinct
  <2>2. (m \in 1..Len(q) \/ m = Len(q) + 1) /\ (n \in 1..Len(q) \/ n = Len(q) + 1)
    BY <1>2
  <2>3. CASE m \in 1..Len(q) /\ n \in 1..Len(q)
    BY <1>2, <2>1, <2>3 DEF Distinct
  <2>4. CASE m \in 1..Len(q) /\ n = Len(q) + 1
    BY <1>2, <1>4, <2>1, <2>4
  <2>5. CASE m = Len(q) + 1 /\ n \in 1..Len(q)
    BY <1>2, <1>4, <2>1, <2>5
  <2> QED
    BY <2>2, <2>3, <2>4, <2>5
<1> QED
  BY <1>3, <1>5

\* Of two answers for one domain, each is the other.
LEMMA SameAnswer ==
  ASSUME NEW q, q \in Seq(Range(q)), Distinct(q), NEW a \in Range(q), NEW b \in Range(q),
         a.domain = b.domain
  PROVE  a = b
<1>1. PICK m \in 1..Len(q) : a = q[m]
  BY LenProperties DEF Range
<1>2. PICK n \in 1..Len(q) : b = q[n]
  BY LenProperties DEF Range
<1> QED
  BY <1>1, <1>2 DEF Distinct

\* Nothing is found at first.
LEMMA ListedInit == Init => ListedInv
<1> SUFFICES ASSUME Init PROVE ListedInv
  OBVIOUS
<1>1. failures = 0 /\ domain_ips = <<>> /\ found = {} /\ ipc = "idle"
  BY DEF Init
<1>2. Len(<<>>) = 0 /\ 1..0 = {}
  OBVIOUS
<1>3. Distinct(domain_ips)
  BY <1>1, <1>2 DEF Distinct
<1> QED
  BY <1>1, <1>3 DEF ListedInv

\* The import takes up the domains of the table.
LEMMA ListedStart == ListedInv /\ ImportStart => ListedInv'
<1> SUFFICES ASSUME ListedInv, ImportStart PROVE ListedInv'
  OBVIOUS
<1>1. /\ failures' = failures /\ failures \in Nat /\ domain_ips' = <<>>
      /\ found' = {} /\ ipc' \in {"idle", "query"}
  BY DEF ImportStart, ListedInv
<1>2. Len(<<>>) = 0 /\ 1..0 = {} /\ Range(<<>>) = {}
  BY DEF Range
<1>3. Distinct(<<>>)
  BY <1>2 DEF Distinct
<1>4. Distinct(domain_ips)'
  BY <1>1, <1>3 DEF Distinct
<1> QED
  BY <1>1, <1>2, <1>4 DEF ListedInv

\* A domain is answered for once.
LEMMA ListedQuery == ImportInv /\ ListedInv /\ QueryDomain => ListedInv'
<1> SUFFICES ASSUME ImportInv, ListedInv, QueryDomain PROVE ListedInv'
  OBVIOUS
<1>1. CASE failures' # 0
  <2>1. failures' \in Nat
    BY DEF QueryDomain, ListedInv
  <2> QED
    BY <1>1, <2>1 DEF ListedInv
<1>2. CASE failures' = 0
  <2>1. failures = 0 /\ ipc = "query" /\ ipc' = "query" /\ found' = found
    BY <1>2 DEF QueryDomain, ListedInv
  <2>2. PICK d \in domains :
          /\ domains' = domains \ {d}
          /\ \/ UNCHANGED domain_ips
             \/ \E i : domain_ips' = Append(domain_ips, [domain |-> d, ips |-> i])
    BY DEF QueryDomain
  <2>3. Distinct(domain_ips) /\ found = {} /\ \A a \in Range(domain_ips) : a.domain \notin domains
    BY <2>1 DEF ListedInv
  <2>4. CASE UNCHANGED domain_ips
    <3>1. Distinct(domain_ips)'
      BY <2>3, <2>4 DEF Distinct
    <3>2. \A a \in Range(domain_ips') : a.domain \notin domains'
      BY <2>2, <2>3, <2>4
    <3> QED
      BY <1>2, <2>1, <2>3, <3>1, <3>2 DEF ListedInv
  <2>5. CASE \E i : domain_ips' = Append(domain_ips, [domain |-> d, ips |-> i])
    <3>1. PICK i : domain_ips' = Append(domain_ips, [domain |-> d, ips |-> i])
      BY <2>5
    <3>2. PICK b : b = [domain |-> d, ips |-> i]
      OBVIOUS
    <3>3. b.domain = d /\ domain_ips' = Append(domain_ips, b)
      BY <3>1, <3>2
    <3>4. \A a \in Range(domain_ips) : a.domain # b.domain
      BY <2>2, <2>3, <3>3
    <3>5. Distinct(Append(domain_ips, b)) /\ Range(Append(domain_ips, b)) \subseteq Range(domain_ips) \cup {b}
      BY <2>3, <3>4, AnswerNew DEF ImportInv
    <3>6. Distinct(domain_ips)'
      BY <3>3, <3>5 DEF Distinct
    <3>7. \A a \in Range(domain_ips') : a.domain \notin domains'
      BY <2>2, <2>3, <3>3, <3>5
    <3> QED
      BY <1>2, <2>1, <2>3, <3>6, <3>7 DEF ListedInv
  <2> QED
    BY <2>2, <2>4, <2>5
<1> QED
  BY <1>1, <1>2

\* All that is found is pending.
LEMMA ListedWrite == ImportInv /\ ListedInv /\ WriteStart => ListedInv'
<1> SUFFICES ASSUME ImportInv, ListedInv, WriteStart PROVE ListedInv'
  OBVIOUS
<1>1. /\ failures' = failures /\ failures \in Nat /\ UNCHANGED domain_ips
      /\ found' = UNION {{<<a.domain, i>> : i \in a.ips} : a \in Range(domain_ips)}
      /\ ipc' = IF found' = {} THEN "idle" ELSE "delete"
  BY DEF WriteStart, ListedInv
<1>2. SUFFICES ASSUME failures = 0 PROVE ListedInv'
  BY <1>1 DEF ListedInv
<1>3. Distinct(domain_ips) /\ Distinct(domain_ips)'
  BY <1>1, <1>2 DEF ListedInv, Distinct
<1>4. \A f \in found' : \E a \in Range(domain_ips) : \E i \in a.ips : f = <<a.domain, i>>
  BY <1>1
<1>5. ASSUME NEW f \in found' PROVE Pending(f[2])'
  <2>1. PICK a \in Range(domain_ips) : \E i \in a.ips : f = <<a.domain, i>>
    BY <1>4, <1>5
  <2>2. f[2] \in a.ips
    BY <2>1
  <2>3. ipc' = "delete"
    BY <1>1, <1>5
  <2>4. a \in ToDelete'
    BY <1>1, <2>1, <2>3 DEF ToDelete
  <2> QED
    BY <2>2, <2>4 DEF Pending
<1>6. ASSUME NEW f \in found', NEW b \in Range(domain_ips'), b.domain = f[1] PROVE f[2] \in b.ips
  <2>1. PICK a \in Range(domain_ips) : \E i \in a.ips : f = <<a.domain, i>>
    BY <1>4, <1>6
  <2>2. f[2] \in a.ips /\ f[1] = a.domain
    BY <2>1
  <2>3. b \in Range(domain_ips)
    BY <1>1, <1>6
  <2>4. a = b
    BY <1>3, <1>6, <2>1, <2>2, <2>3, SameAnswer DEF ImportInv
  <2> QED
    BY <2>2, <2>4
<1> QED
  BY <1>1, <1>3, <1>5, <1>6 DEF ListedInv

\* An address whose old row is deleted is pending, or passed over for the domain it had.
LEMMA ListedDelete == ImportInv /\ ListedInv /\ DeleteOld => ListedInv'
<1> SUFFICES ASSUME ImportInv, ListedInv, DeleteOld PROVE ListedInv'
  OBVIOUS
<1>1. /\ ipc \in {"delete", "delete_whitelists"} /\ domain_ips # <<>>
      /\ UNCHANGED <<failures, domain_ips, found, skipped, domains>> /\ failures \in Nat
  BY DEF DeleteOld, WriteElsewhere, ImportInv, ListedInv
<1>2. SUFFICES ASSUME failures = 0 PROVE ListedInv'
  BY <1>1 DEF ListedInv
<1>3. /\ Distinct(domain_ips) /\ Distinct(domain_ips)'
      /\ \A f \in found, a \in Range(domain_ips) : a.domain = f[1] => f[2] \in a.ips
  BY <1>1, <1>2 DEF ListedInv, Distinct
<1>4. /\ Head(domain_ips) \in Range(domain_ips)
      /\ Range(domain_ips) = {Head(domain_ips)} \cup Range(Tail(domain_ips))
  BY <1>1, AnswersLeft DEF ImportInv
<1>5. ASSUME NEW f \in found PROVE Pending(f[2])' \/ Kept(f[2])' \/ PassedOver(f[2])'
  <2>1. PassedOver(f[2]) => PassedOver(f[2])'
    BY <1>1 DEF PassedOver
  <2>2. CASE ipc = "delete"
    <3>1. /\ ipc' = "delete_whitelists"
          /\ greylisting_whitelist_domain_spf' =
               {row \in greylisting_whitelist_domain_spf :
                  row.comment # AutoUpdate(Head(domain_ips).domain)}
      BY <2>2 DEF DeleteOld
    <3>2. ToDelete = Range(domain_ips) /\ ToDelete' = Range(Tail(domain_ips))
      BY <1>1, <2>2, <3>1 DEF ToDelete
    <3>3. Pending(f[2]) => Pending(f[2])'
      <4>1. Pending(f[2]) => \E a \in Range(domain_ips) : f[2] \in a.ips
        BY <2>2, <3>2 DEF Pending
      <4>2. f[2] \in Head(domain_ips).ips => Pending(f[2])'
        BY <1>1, <3>1 DEF Pending
      <4>3. (\E a \in Range(Tail(domain_ips)) : f[2] \in a.ips) => Pending(f[2])'
        BY <3>2 DEF Pending
      <4> QED
        BY <1>4, <4>1, <4>2, <4>3
    <3>4. ASSUME Kept(f[2]) PROVE Pending(f[2])' \/ Kept(f[2])' \/ PassedOver(f[2])'
      <4>1. PICK row \in greylisting_whitelist_domain_spf :
              /\ row.account = Catchall /\ row.sender = f[2]
              /\ \A a \in ToDelete : row.comment = AutoUpdate(a.domain) => <<f[2], row.comment>> \in skipped
        BY <3>4 DEF Kept
      <4>2. CASE row.comment # AutoUpdate(Head(domain_ips).domain)
        <5>1. row \in greylisting_whitelist_domain_spf'
          BY <3>1, <4>1, <4>2
        <5>2. \A a \in ToDelete' : row.comment = AutoUpdate(a.domain) => <<f[2], row.comment>> \in skipped'
          BY <1>1, <1>4, <3>2, <4>1
        <5> QED
          BY <4>1, <5>1, <5>2 DEF Kept
      <4>3. CASE row.comment = AutoUpdate(Head(domain_ips).domain)
        <5>1. <<f[2], AutoUpdate(Head(domain_ips).domain)>> \in skipped'
          BY <1>1, <1>4, <3>2, <4>1, <4>3
        <5>2. CASE <<Head(domain_ips).domain, f[2]>> \in found
          <6>1. f[2] \in Head(domain_ips).ips
            BY <1>3, <1>4, <5>2
          <6> QED
            BY <1>1, <3>1, <6>1 DEF Pending
        <5>3. CASE <<Head(domain_ips).domain, f[2]>> \notin found
          <6>1. PICK d \in Domain : d = Head(domain_ips).domain
            BY <1>4 DEF ImportInv
          <6>2. <<f[2], AutoUpdate(d)>> \in skipped' /\ <<d, f[2]>> \notin found'
            BY <1>1, <5>1, <5>3, <6>1
          <6>3. <<f[2], AutoUpdate(d)>>[1] = f[2] /\ <<f[2], AutoUpdate(d)>>[2] = AutoUpdate(d)
            OBVIOUS
          <6> QED
            BY <6>1, <6>2, <6>3 DEF PassedOver
        <5> QED
          BY <5>2, <5>3
      <4> QED
        BY <4>2, <4>3
    <3> QED
      BY <1>2, <1>5, <2>1, <3>3, <3>4 DEF ListedInv
  <2>3. CASE ipc = "delete_whitelists"
    <3>1. ipc' = "insert" /\ ips' = Head(domain_ips).ips /\ UNCHANGED greylisting_whitelist_domain_spf
      BY <2>3 DEF DeleteOld
    <3>2. ToDelete' = ToDelete
      BY <1>1, <2>3, <3>1 DEF ToDelete
    <3>3. Pending(f[2]) => Pending(f[2])'
      BY <2>3, <3>1, <3>2 DEF Pending
    <3>4. Kept(f[2]) => Kept(f[2])'
      BY <1>1, <3>1, <3>2 DEF Kept
    <3> QED
      BY <1>2, <1>5, <2>1, <3>3, <3>4 DEF ListedInv
  <2> QED
    BY <1>1, <2>2, <2>3
<1>6. ipc' # "query" /\ \A f \in found', a \in Range(domain_ips') : a.domain = f[1] => f[2] \in a.ips
  <2>1. ipc' # "query"
    BY DEF DeleteOld
  <2> QED
    BY <1>1, <1>3, <2>1
<1> QED
  BY <1>1, <1>3, <1>5, <1>6 DEF ListedInv

\* An address looked for has a row, its own or the import's, and then is not deleted
\* unseen: the row inserted is of an answer that does not come again.
LEMMA ListedInsert == ImportInv /\ ListedInv /\ InsertNew => ListedInv'
<1> SUFFICES ASSUME ImportInv, ListedInv, InsertNew PROVE ListedInv'
  OBVIOUS
<1>1. /\ ipc = "insert" /\ ipc' \in {"insert", "tracking"} /\ domain_ips # <<>>
      /\ UNCHANGED <<failures, domain_ips, found, domains>> /\ failures \in Nat
  BY DEF InsertNew, WriteElsewhere, ImportInv, ListedInv
<1>2. SUFFICES ASSUME failures = 0 PROVE ListedInv'
  BY <1>1 DEF ListedInv
<1>3. /\ Distinct(domain_ips) /\ Distinct(domain_ips)'
      /\ \A f \in found, a \in Range(domain_ips) : a.domain = f[1] => f[2] \in a.ips
  BY <1>1, <1>2 DEF ListedInv, Distinct
<1>4. \A a \in Range(Tail(domain_ips)) : a.domain # Head(domain_ips).domain
  BY <1>1, <1>3, AnswersLeft DEF ImportInv
<1>5. ToDelete = Range(Tail(domain_ips)) /\ ToDelete' = Range(Tail(domain_ips))
  BY <1>1 DEF ToDelete
<1>6. PICK i \in ips :
        /\ ips' = ips \ {i}
        /\ \/ \E row \in greylisting_whitelist_domain_spf :
                /\ row.account = Catchall /\ row.sender = i
                /\ skipped \cup {<<i, row.comment>>} \subseteq skipped'
                /\ UNCHANGED greylisting_whitelist_domain_spf
           \/ /\ greylisting_whitelist_domain_spf' = greylisting_whitelist_domain_spf
                   \cup {White(Catchall, i, AutoUpdate(Head(domain_ips).domain))}
              /\ UNCHANGED skipped
  BY DEF InsertNew
<1>7. skipped \subseteq skipped' /\ greylisting_whitelist_domain_spf \subseteq greylisting_whitelist_domain_spf'
  BY <1>6
<1>8. Kept(i)'
  <2>1. CASE \E row \in greylisting_whitelist_domain_spf :
               /\ row.account = Catchall /\ row.sender = i
               /\ skipped \cup {<<i, row.comment>>} \subseteq skipped'
               /\ UNCHANGED greylisting_whitelist_domain_spf
    BY <2>1 DEF Kept
  <2>2. CASE greylisting_whitelist_domain_spf' = greylisting_whitelist_domain_spf
               \cup {White(Catchall, i, AutoUpdate(Head(domain_ips).domain))}
    <3>1. PICK row : row = White(Catchall, i, AutoUpdate(Head(domain_ips).domain))
      OBVIOUS
    <3>2. /\ row.account = Catchall /\ row.sender = i
          /\ row.comment = AutoUpdate(Head(domain_ips).domain)
      BY <3>1, RowFields
    <3>3. \A a \in ToDelete' : row.comment # AutoUpdate(a.domain)
      BY <1>4, <1>5, <3>2 DEF AutoUpdate
    <3>4. row \in greylisting_whitelist_domain_spf'
      BY <2>2, <3>1
    <3> QED
      BY <3>2, <3>3, <3>4 DEF Kept
  <2> QED
    BY <1>6, <2>1, <2>2
<1>9. ASSUME NEW f \in found PROVE Pending(f[2])' \/ Kept(f[2])' \/ PassedOver(f[2])'
  <2>1. PassedOver(f[2]) => PassedOver(f[2])'
    BY <1>1, <1>7 DEF PassedOver
  <2>2. Kept(f[2]) => Kept(f[2])'
    BY <1>5, <1>7 DEF Kept
  <2>3. Pending(f[2]) => f[2] = i \/ Pending(f[2])'
    BY <1>1, <1>5, <1>6 DEF Pending
  <2>4. f[2] = i => Kept(f[2])'
    BY <1>8
  <2> QED
    BY <1>2, <1>9, <2>1, <2>2, <2>3, <2>4 DEF ListedInv
<1>10. ipc' # "query" /\ \A f \in found', a \in Range(domain_ips') : a.domain = f[1] => f[2] \in a.ips
  BY <1>1, <1>3
<1> QED
  BY <1>1, <1>3, <1>9, <1>10 DEF ListedInv

\* The tracking rows are not the import's rows.
LEMMA ListedTracking == ImportInv /\ ListedInv /\ DeleteTracking => ListedInv'
<1> SUFFICES ASSUME ImportInv, ListedInv, DeleteTracking PROVE ListedInv'
  OBVIOUS
<1>1. /\ ipc = "tracking" /\ ipc' = "insert" /\ failures \in Nat
      /\ UNCHANGED <<failures, domain_ips, found, domains, skipped, ips, greylisting_whitelist_domain_spf>>
  BY DEF DeleteTracking, WriteElsewhere, ListedInv
<1>2. ToDelete' = ToDelete /\ Distinct(domain_ips)' = Distinct(domain_ips)
  BY <1>1 DEF ToDelete, Distinct
<1>3. ASSUME NEW f \in found
      PROVE  /\ Pending(f[2]) => Pending(f[2])'
             /\ Kept(f[2]) => Kept(f[2])'
             /\ PassedOver(f[2]) => PassedOver(f[2])'
  BY <1>1, <1>2 DEF Pending, Kept, PassedOver
<1> QED
  BY <1>1, <1>2, <1>3 DEF ListedInv

\* The next answer is taken up when nothing is pending of the one before.
LEMMA ListedNext == ImportInv /\ ListedInv /\ NextDomain => ListedInv'
<1> SUFFICES ASSUME ImportInv, ListedInv, NextDomain PROVE ListedInv'
  OBVIOUS
<1>1. /\ ipc = "insert" /\ ips = {} /\ domain_ips # <<>> /\ domain_ips' = Tail(domain_ips)
      /\ ipc' = IF domain_ips' = <<>> THEN "idle" ELSE "delete"
      /\ UNCHANGED <<failures, found, domains, skipped, greylisting_whitelist_domain_spf>> /\ failures \in Nat
  BY DEF NextDomain, WriteElsewhere, ImportInv, ListedInv
<1>2. SUFFICES ASSUME failures = 0 PROVE ListedInv'
  BY <1>1 DEF ListedInv
<1>3. /\ Distinct(domain_ips)
      /\ \A f \in found, a \in Range(domain_ips) : a.domain = f[1] => f[2] \in a.ips
  BY <1>1, <1>2 DEF ListedInv
<1>4. /\ Range(domain_ips) = {Head(domain_ips)} \cup Range(Tail(domain_ips))
      /\ Distinct(Tail(domain_ips))
  BY <1>1, <1>3, AnswersLeft DEF ImportInv
<1>5. Distinct(domain_ips)'
  BY <1>1, <1>4 DEF Distinct
<1>6. ToDelete = Range(Tail(domain_ips)) /\ ToDelete' = Range(Tail(domain_ips))
  <2>1. Range(<<>>) = {}
    BY DEF Range
  <2> QED
    BY <1>1, <2>1 DEF ToDelete
<1>7. ASSUME NEW f \in found PROVE Pending(f[2])' \/ Kept(f[2])' \/ PassedOver(f[2])'
  <2>1. Pending(f[2]) => Pending(f[2])'
    BY <1>1, <1>6 DEF Pending
  <2>2. Kept(f[2]) => Kept(f[2])'
    BY <1>1, <1>6 DEF Kept
  <2>3. PassedOver(f[2]) => PassedOver(f[2])'
    BY <1>1 DEF PassedOver
  <2> QED
    BY <1>2, <1>7, <2>1, <2>2, <2>3 DEF ListedInv
<1>8. ipc' # "query" /\ \A f \in found', a \in Range(domain_ips') : a.domain = f[1] => f[2] \in a.ips
  BY <1>1, <1>3, <1>4
<1> QED
  BY <1>1, <1>5, <1>7, <1>8 DEF ListedInv

\* Nobody but the import writes its table.
LEMMA ListedElsewhere ==
  ASSUME ListedInv, UNCHANGED <<importVars, greylisting_whitelist_domain_spf>>,
         failures' \in {failures, failures + 1}
  PROVE  ListedInv'
<1>1. failures' \in Nat /\ (failures' = 0 => failures = 0)
  BY DEF ListedInv
<1>2. /\ UNCHANGED <<ipc, domains, domain_ips, ips, found, skipped>>
      /\ ToDelete' = ToDelete /\ Distinct(domain_ips)' = Distinct(domain_ips)
  BY DEF importVars, ToDelete, Distinct
<1>3. ASSUME NEW f \in found
      PROVE  /\ Pending(f[2]) => Pending(f[2])'
             /\ Kept(f[2]) => Kept(f[2])'
             /\ PassedOver(f[2]) => PassedOver(f[2])'
  BY <1>2 DEF Pending, Kept, PassedOver
<1> QED
  BY <1>1, <1>2, <1>3 DEF ListedInv

\* No step of anybody loses an address that the import found.
LEMMA ListedStep == ImportInv /\ ListedInv /\ [Next]_vars => ListedInv'
<1> SUFFICES ASSUME ImportInv, ListedInv, [Next]_vars PROVE ListedInv'
  OBVIOUS
<1>1. ASSUME NEW p \in Admin, Give(p) \/ Command(p) PROVE ListedInv'
  <2>1. UNCHANGED <<importVars, greylisting_whitelist_domain_spf>> /\ failures' \in {failures, failures + 1}
    BY <1>1 DEF Give, Command, DeleteSetting, InsertSetting, InsertWhitelist, ChangeDomains,
                DeleteAuto, StatementFails, SettingElsewhere
  <2> QED
    BY <2>1, ListedElsewhere
<1>2. CASE Publish \/ Daemon \/ UNCHANGED vars
  <2>1. UNCHANGED <<importVars, greylisting_whitelist_domain_spf>> /\ failures' \in {failures, failures + 1}
    BY <1>2 DEF Publish, Daemon, Receive, IsWhitelisted, ShouldBeGreylisted, DaemonElsewhere, vars
  <2> QED
    BY <2>1, ListedElsewhere
<1>3. CASE WriteFails
  <2>1. failures \in Nat /\ failures' = failures + 1
    BY <1>3 DEF WriteFails, ListedInv
  <2> QED
    BY <2>1 DEF ListedInv
<1> QED
  BY <1>1, <1>2, <1>3, ListedStart, ListedQuery, ListedWrite, ListedDelete, ListedInsert,
     ListedTracking, ListedNext DEF Next, Import

\* An import that nothing fails under leaves a row for every address it found, whatever
\* commands, requests and changes of DNS come between its statements, but for those whose
\* old row belonged to a domain that names them no more: the import passes such an address
\* over and then deletes the row (tools/spf_to_greylist_whitelists.py:125-192).
THEOREM ImportComplete == Spec => []ImportListed
<1>1. AdminInv /\ ListedInv /\ [Next]_vars => ListedInv'
  BY ListedStep DEF AdminInv
<1>2. ListedInv => ImportListed
  <2> SUFFICES ASSUME ListedInv, ipc = "idle", failures = 0, NEW f \in found
               PROVE  \/ Has(greylisting_whitelist_domain_spf, Catchall, f[2])
                      \/ PassedOver(f[2])
    BY DEF ImportListed, PassedOver
  <2>1. Pending(f[2]) \/ Kept(f[2]) \/ PassedOver(f[2])
    BY DEF ListedInv
  <2>2. ~Pending(f[2])
    BY DEF Pending, ToDelete
  <2>3. Kept(f[2]) => Has(greylisting_whitelist_domain_spf, Catchall, f[2])
    BY DEF Kept, Has
  <2> QED
    BY <2>1, <2>2, <2>3
<1> QED
  BY ListedInit, AdminInvariant, <1>1, <1>2, PTL DEF Spec

-----------------------------------------------------------------------------
(* A request is judged by what was reported                                *)

\* The priorities of libs/__init__.py, and which address has 70.
LEMMA PriorityFacts ==
  ASSUME NEW a
  PROVE  AccountPriority(a) \in 0..100 /\ (AccountPriority(a) = 70 => a.form = "ip")
<1>1. PICK t : t = AddressType(a)
  OBVIOUS
<1>2. /\ AccountPriority(a) \in {0, 40, 50, 60, 70, 80, 90, 100}
      /\ AccountPriority(a) = 70 => t = "wildcard_ip"
  BY <1>1 DEF AccountPriority
<1>3. t = "wildcard_ip" => a.form = "ip"
  BY <1>1 DEF AddressType
<1> QED
  BY <1>2, <1>3

\* A row about a request is found by the sender alone: a setting never has the priority
\* that its network is looked at for.
LEMMA SettingOfSender ==
  ASSUME TypeOK, NEW row \in greylisting, NEW r
  PROVE  SettingMatches(row, r) <=> row.sender \in Senders(r)
<1>1. row.sender_priority = AccountPriority(row.sender)
  BY DEF TypeOK, Setting
<1>2. row.sender_priority = 70 => ~InNetwork(r.client, row.sender)
  BY <1>1, PriorityFacts DEF InNetwork
<1> QED
  BY <1>2 DEF SettingMatches

\* What was reported about a request is in the table, and nothing else is, when no setting
\* about it is half written.
LEMMA AboutRows ==
  ASSUME AdminInv, NEW r, NEW p \in Pairs, p[1] \in Recipients(r), p[2] \in Senders(r),
         p \notin lost, ~Changing(p), last[p] # "none"
  PROVE  \E row \in greylisting : /\ row.account = p[1] /\ row.sender = p[2]
                                 /\ SettingMatches(row, r)
<1>1. Has(greylisting, p[1], p[2])
  BY DEF AdminInv, SettingsAgree
<1>2. PICK row \in greylisting : row.account = p[1] /\ row.sender = p[2]
  BY <1>1 DEF Has
<1> QED
  BY <1>2, SettingOfSender DEF AdminInv

\* The daemon judges a request as the reported settings say, the most specific account and
\* sender first, when none about it is half written (plugins/greylisting.py:125-190).
THEOREM VerdictAsReported == Spec => JudgedAsReported
<1> DEFINE Due == /\ pc = "setting" /\ pc' = "idle"
                  /\ ~\E p \in Pairs : p[1] \in Recipients(req) /\ (p \in lost \/ Changing(p))
                  => verdict' \in ReportedFor(req)
<1>1. AdminInv /\ [Next]_vars => [Due]_vars
  <2> SUFFICES ASSUME AdminInv, [Next]_vars, pc = "setting", pc' = "idle",
                      ~\E p \in Pairs : p[1] \in Recipients(req) /\ (p \in lost \/ Changing(p))
               PROVE  verdict' \in ReportedFor(req)
    OBVIOUS
  <2>1. ShouldBeGreylisted
    <3>1. pc' # pc
      OBVIOUS
    <3>2. Daemon
      BY <3>1 DEF Next, Give, Command, DeleteSetting, InsertSetting, InsertWhitelist, ChangeDomains,
                  DeleteAuto, StatementFails, SettingElsewhere, Import, ImportStart, QueryDomain,
                  WriteStart, DeleteOld, InsertNew, DeleteTracking, WriteFails, NextDomain,
                  WriteElsewhere, ImportElsewhere, Publish, daemonVars, vars
    <3> QED
      BY <3>2 DEF Daemon, Receive, IsWhitelisted
  <2>2. PICK about : about = {p \in Pairs : /\ last[p] # "none" /\ p[1] \in Recipients(req)
                                            /\ p[2] \in Senders(req)}
    OBVIOUS
  <2>3. PICK rows : rows = {row \in greylisting :
                              row.account \in Recipients(req) /\ SettingMatches(row, req)}
    OBVIOUS
  <2>4. ASSUME NEW p \in about
        PROVE  \E row \in rows : row.account = p[1] /\ row.sender = p[2]
    BY <2>2, <2>3, AboutRows
  <2>5. ASSUME NEW row \in rows
        PROVE  /\ <<row.account, row.sender>> \in about
               /\ last[<<row.account, row.sender>>] = IF row.active THEN "on" ELSE "off"
               /\ row.priority = AccountPriority(row.account)
               /\ row.sender_priority = AccountPriority(row.sender)
    <3>1. /\ <<row.account, row.sender>> \in Pairs
          /\ last[<<row.account, row.sender>>] = IF row.active THEN "on" ELSE "off"
      BY <2>3 DEF AdminInv, SettingsAgree
    <3>2. row.account \in Recipients(req) /\ row.sender \in Senders(req)
      BY <2>3, SettingOfSender DEF AdminInv
    <3>3. row = Setting(row.account, row.sender, row.active)
      BY <2>3 DEF AdminInv, TypeOK
    <3> QED
      BY <2>2, <3>1, <3>2, <3>3 DEF Setting
  <2>6. CASE rows = {}
    <3>1. verdict' = "dunno" /\ about = {}
      BY <2>1, <2>3, <2>4, <2>6 DEF ShouldBeGreylisted
    <3> QED
      BY <2>2, <3>1 DEF ReportedFor
  <2>7. CASE rows # {}
    <3>1. PICK row \in rows : /\ ~\E other \in rows : Before(other, row)
                             /\ verdict' = IF row.active THEN "greylist" ELSE "dunno"
      BY <2>1, <2>3, <2>7 DEF ShouldBeGreylisted
    <3>2. PICK p \in about : p = <<row.account, row.sender>>
      BY <2>5
    <3>3. verdict' = IF last[p] = "on" THEN "greylist" ELSE "dunno"
      BY <2>5, <3>1, <3>2
    <3>4. ASSUME NEW o \in about
          PROVE  1000 * AccountPriority(p[1]) + AccountPriority(p[2])
                   >= 1000 * AccountPriority(o[1]) + AccountPriority(o[2])
      <4>1. PICK other \in rows : other.account = o[1] /\ other.sender = o[2]
        BY <2>4
      <4>2. /\ row.priority = AccountPriority(p[1]) /\ row.sender_priority = AccountPriority(p[2])
            /\ other.priority = AccountPriority(o[1]) /\ other.sender_priority = AccountPriority(o[2])
        BY <2>5, <3>2, <4>1
      <4>3. ~Before(other, row)
        BY <3>1
      <4>4. PICK a \in 0..100, b \in 0..100 :
              a = AccountPriority(p[1]) /\ b = AccountPriority(p[2])
        BY PriorityFacts
      <4>5. PICK c \in 0..100, d \in 0..100 :
              c = AccountPriority(o[1]) /\ d = AccountPriority(o[2])
        BY PriorityFacts
      <4>6. ~(c > a \/ (c = a /\ d > b))
        BY <4>2, <4>3, <4>4, <4>5 DEF Before
      <4>7. 1000 * a + b >= 1000 * c + d
        BY <4>6
      <4> QED
        BY <4>4, <4>5, <4>7
    <3> QED
      BY <2>2, <3>3, <3>4 DEF ReportedFor
  <2> QED
    BY <2>6, <2>7
<1> QED
  BY <1>1, AdminInvariant, PTL DEF Spec, JudgedAsReported

=============================================================================
