-------------------------- MODULE GreylistingAdmin --------------------------
(***************************************************************************)
(* Everything that writes the greylisting settings and whitelists while    *)
(* the daemon reads them: tools/greylisting_admin.py, the migration from   *)
(* Cluebringer, plugin whitelist_outbound_recipient (all through           *)
(* libs/greylisting.py) and the import of SPF records,                     *)
(* tools/spf_to_greylist_whitelists.py, which cron runs.                   *)
(*                                                                         *)
(* A command is the sequence of its SQL statements, each a transaction of  *)
(* its own; two commands, the import and a request of the daemon           *)
(* interleave, and a statement may fail.  What DNS publishes changes.      *)
(***************************************************************************)
EXTENDS Addresses, Functions

CONSTANTS
  Admin,        \* processes that give commands
  Commands,     \* commands they may give
  Requests,     \* what the daemon is asked: records of recipient, sender, client
  Domain,       \* sender domains
  Includes,     \* domains the SPF record of a domain includes
  InitSettings, InitWhitelists, InitSpf, InitDomains, InitPublished,
  NewPublished, \* pairs of a domain and what it may come to publish
  MaxCommands, MaxRequests, MaxImports, MaxFailures   \* bounds

VARIABLES
  greylisting,                      \* table: settings
  greylisting_whitelists,           \* table
  greylisting_whitelist_domain_spf, \* table
  greylisting_whitelist_domains,    \* table
  greylisting_tracking,             \* table: the clients in it
  published,                        \* DNS: networks and addresses a domain lists
  todo,                             \* statements left, of each process
  pc, req, whitelists,              \* the daemon: next SELECT, request, senders read
  verdict,
  ipc, domains, queried, domain_ips, ips, ip,   \* locals of the import
  (* history *)
  commands, requests, imports, failures,
  last,      \* the setting last reported as made, of each pair
  lost,      \* pairs whose INSERT failed after the DELETE
  granted,   \* whitelistings reported as made
  due,       \* those made before the request came
  found,     \* pairs of a domain and an address in the answers of the import
  skipped    \* addresses the import found in the table, and the comment of the row

settingVars == <<greylisting, last, lost>>
whiteVars   == <<greylisting_whitelists, granted>>
importVars  == <<ipc, domains, queried, domain_ips, ips, ip, imports, found, skipped>>
daemonVars  == <<pc, req, whitelists, verdict, requests, due>>
vars == <<settingVars, whiteVars, greylisting_whitelist_domain_spf, greylisting_whitelist_domains,
          greylisting_tracking, published, todo, commands, failures, importVars, daemonVars>>

-----------------------------------------------------------------------------
(* Rows and statements.  A DELETE of a setting with `active` is the one that
   an INSERT follows. *)

Setting(account, sender, active) ==
  [account |-> account, priority |-> AccountPriority(account),
   sender |-> sender, sender_priority |-> AccountPriority(sender), active |-> active]
White(account, sender, comment) == [account |-> account, sender |-> sender, comment |-> comment]
AutoUpdate(d) == <<"AUTO-UPDATE", d>>
Manual        == <<"">>

Has(table, account, sender) == \E row \in table : row.account = account /\ row.sender = sender

Statement(kind, account, sender, active, comment) ==
  [kind |-> kind, account |-> account, sender |-> sender, active |-> active, comment |-> comment]
DomainStatement(kind, domain) == Statement(kind, Catchall, Bare(domain), FALSE, Manual)

\* libs/greylisting.py is_valid_sender; is_ip takes networks too.
ValidSender(a) ==
  AddressType(a) \in {"ip", "cidr_network", "catchall", "top_level_domain", "domain", "subdomain", "email"}
ValidAccount(a) == AddressType(a) \in {"catchall", "domain", "subdomain", "email"}

SetGreylisting(account, sender, active) ==
  << Statement("delete_setting", account, sender, TRUE, Manual),
     Statement("insert_setting", account, sender, active, Manual) >>
AddWhitelistSender(account, sender, comment) ==
  IF ValidSender(sender) /\ ValidAccount(account)
    THEN << Statement("add_whitelist_sender", account, sender, FALSE, comment) >> ELSE <<>>
AddWhitelistDomain(domain) ==
  IF IsDomain(domain) THEN << DomainStatement("insert_domain", domain) >> ELSE <<>>

\* The sender of a command `--whitelist-domain`: '' unless it is an @domain,
\* and no domain name for an @.domain.
SenderDomain(a) == IF AddressType(a) = "domain" THEN a.domain ELSE <<>>

\* greylisting_admin.py: the operation and its statements, none when an
\* argument is refused.
AdminStatements(c) ==
  IF ~ValidSender(c.sender) THEN <<>>
  ELSE CASE c.op = "enable"  -> SetGreylisting(c.account, c.sender, TRUE)
         [] c.op = "disable" -> SetGreylisting(c.account, c.sender, FALSE)
         [] c.op = "delete"  -> << Statement("delete_setting", c.account, c.sender, FALSE, Manual) >>
         [] c.op = "whitelist-domain" -> AddWhitelistDomain(SenderDomain(c.sender))
         [] c.op = "remove-whitelist-domain" ->
              IF IsDomain(SenderDomain(c.sender))
                THEN << DomainStatement("delete_domain", SenderDomain(c.sender)),
                        DomainStatement("delete_auto", SenderDomain(c.sender)) >>
                ELSE <<>>
         [] c.op = "add-whitelist" ->
              << Statement("insert_whitelist", c.account, c.sender, FALSE, Manual) >>

\* whitelist_outbound_recipient.py: the options are fields of the command.
OutboundStatements(c) ==
  LET account == CASE c.local_account = "user"   -> c.sasl_username
                   [] c.local_account = "domain" -> Bare(c.sasl_username.domain)
                   [] OTHER -> Catchall
      sender  == IF c.rcpt = "domain" THEN Bare(c.recipient.domain) ELSE c.recipient
  IN  IF AddressType(c.recipient) # "email" \/ c.sasl_username.domain = c.recipient.domain THEN <<>>
      ELSE (IF c.without_spf THEN AddWhitelistSender(account, sender, Manual) ELSE <<>>)
        \o (IF c.whitelist_domain THEN AddWhitelistDomain(c.recipient.domain)
            ELSE AddWhitelistSender(c.sasl_username, c.recipient, <<"AUTO-WHITELISTED">>))

\* migrate_cluebringer_greylisting.py; the accounts exempted by name are
\* inserted with active=1.
MigrateStatements(c) ==
  (IF c.enabled /\ ~Has(greylisting, Catchall, Catchall)
     THEN << Statement("insert_setting", Catchall, Catchall, TRUE, Manual) >> ELSE <<>>)
  \o (IF AddressType(c.member) # "invalid"
        THEN << Statement("insert_setting", c.member, Catchall, TRUE, Manual) >> ELSE <<>>)
  \o << Statement("insert_whitelist", Catchall, c.white, FALSE, Manual) >>

\* What settings may come to be about.
Pairs ==
  {<<row.account, row.sender>> : row \in InitSettings}
    \cup {<<c.account, c.sender>> : c \in {c \in Commands : c.op \in {"enable", "disable", "delete"}}}
    \cup UNION {{<<c.member, Catchall>>, <<Catchall, Catchall>>} : c \in {c \in Commands : c.op = "migrate"}}

StatementsOf(c) ==
  CASE c.op = "outbound" -> OutboundStatements(c)
    [] c.op = "migrate"  -> MigrateStatements(c)
    [] OTHER             -> AdminStatements(c)

-----------------------------------------------------------------------------
(* Commands *)

Give(p) ==
  /\ todo[p] = <<>> /\ commands < MaxCommands
  /\ commands' = commands + 1
  /\ \E c \in Commands : todo' = [todo EXCEPT ![p] = StatementsOf(c)]
  /\ UNCHANGED <<settingVars, whiteVars, greylisting_whitelist_domain_spf,
                 greylisting_whitelist_domains, greylisting_tracking, published, failures,
                 importVars, daemonVars>>

IsNext(p, kind) == todo[p] # <<>> /\ Head(todo[p]).kind = kind
Advance(p)      == todo' = [todo EXCEPT ![p] = Tail(@)]
Abandon(p)      == todo' = [todo EXCEPT ![p] = <<>>]

SettingElsewhere ==
  UNCHANGED <<whiteVars, greylisting_whitelist_domain_spf, greylisting_whitelist_domains,
              greylisting_tracking, published, commands, importVars, daemonVars>>

DeleteSettingOfAccount(p) ==     \* seeded fault: WHERE account only
  /\ IsNext(p, "delete_setting")
  /\ LET s == Head(todo[p])
     IN  /\ greylisting' = {row \in greylisting : row.account # s.account}
         /\ last' = IF s.active THEN last ELSE [last EXCEPT ![<<s.account, s.sender>>] = "none"]
         /\ lost' = IF s.active THEN lost ELSE lost \ {<<s.account, s.sender>>}
  /\ Advance(p)
  /\ UNCHANGED failures /\ SettingElsewhere

DeleteSetting(p) ==
  /\ IsNext(p, "delete_setting")
  /\ LET s == Head(todo[p])
     IN  /\ greylisting' = {row \in greylisting : ~(row.account = s.account /\ row.sender = s.sender)}
         /\ last' = IF s.active THEN last ELSE [last EXCEPT ![<<s.account, s.sender>>] = "none"]
         /\ lost' = IF s.active THEN lost ELSE lost \ {<<s.account, s.sender>>}
  /\ Advance(p)
  /\ UNCHANGED failures /\ SettingElsewhere

\* The unique index refuses a second row; the command then reports a failure.
InsertSetting(p) ==
  /\ IsNext(p, "insert_setting")
  /\ LET s == Head(todo[p])
     IN  IF Has(greylisting, s.account, s.sender)
           THEN UNCHANGED settingVars
         ELSE /\ greylisting' = greylisting \cup {Setting(s.account, s.sender, s.active)}
              /\ last' = [last EXCEPT ![<<s.account, s.sender>>] = IF s.active THEN "on" ELSE "off"]
              /\ lost' = lost \ {<<s.account, s.sender>>}
  /\ Advance(p)
  /\ UNCHANGED failures /\ SettingElsewhere

\* A duplicate is a failure to the tool and a success to add_whitelist_sender.
InsertWhitelist(p) ==
  /\ IsNext(p, "insert_whitelist") \/ IsNext(p, "add_whitelist_sender")
  /\ LET s == Head(todo[p])  duplicate == Has(greylisting_whitelists, s.account, s.sender)
     IN  /\ greylisting_whitelists' =
              IF duplicate THEN greylisting_whitelists
              ELSE greylisting_whitelists \cup {White(s.account, s.sender, s.comment)}
         /\ granted' = IF duplicate /\ s.kind = "insert_whitelist" THEN granted
                       ELSE granted \cup {<<s.account, s.sender>>}
  /\ Advance(p)
  /\ UNCHANGED <<settingVars, greylisting_whitelist_domain_spf, greylisting_whitelist_domains,
                 greylisting_tracking, published, commands, failures, importVars, daemonVars>>

ChangeDomains(p) ==
  /\ \/ /\ IsNext(p, "insert_domain")
        /\ greylisting_whitelist_domains' = greylisting_whitelist_domains \cup {Head(todo[p]).sender.domain}
     \/ /\ IsNext(p, "delete_domain")
        /\ greylisting_whitelist_domains' = greylisting_whitelist_domains \ {Head(todo[p]).sender.domain}
  /\ Advance(p)
  /\ UNCHANGED <<settingVars, whiteVars, greylisting_whitelist_domain_spf, greylisting_tracking,
                 published, commands, failures, importVars, daemonVars>>

\* Rows of table greylisting_whitelists only.
DeleteAuto(p) ==
  /\ IsNext(p, "delete_auto")
  /\ greylisting_whitelists' =
       {row \in greylisting_whitelists : row.comment # AutoUpdate(Head(todo[p]).sender.domain)}
  /\ Advance(p)
  /\ UNCHANGED <<settingVars, granted, greylisting_whitelist_domain_spf, greylisting_whitelist_domains,
                 greylisting_tracking, published, commands, failures, importVars, daemonVars>>

\* enable and disable pass over a failed DELETE, the migration over a failed
\* INSERT but that of the global setting; any other failure ends the command.
StatementFails(p) ==
  /\ todo[p] # <<>> /\ failures < MaxFailures
  /\ failures' = failures + 1
  /\ LET s == Head(todo[p])
     IN  /\ IF \/ s.kind \in {"delete_setting", "insert_whitelist", "add_whitelist_sender"}
               \/ s.kind = "insert_setting" /\ s.account # Catchall
              THEN Advance(p) ELSE Abandon(p)
         /\ lost' = IF /\ s.kind = "insert_setting" /\ last[<<s.account, s.sender>>] # "none"
                       /\ ~Has(greylisting, s.account, s.sender)
                      THEN lost \cup {<<s.account, s.sender>>} ELSE lost
  /\ UNCHANGED <<greylisting, last>> /\ SettingElsewhere

Command(p) ==
  \/ DeleteSetting(p) \/ InsertSetting(p) \/ InsertWhitelist(p) \/ ChangeDomains(p)
  \/ DeleteAuto(p) \/ StatementFails(p)

-----------------------------------------------------------------------------
(* The import of SPF records *)

ImportElsewhere ==
  UNCHANGED <<settingVars, greylisting_whitelist_domains, published, todo, commands, daemonVars>>

\* SELECT domain FROM greylisting_whitelist_domains
ImportStart ==
  /\ ipc = "idle" /\ imports < MaxImports
  /\ imports' = imports + 1
  /\ domains' = {d \in greylisting_whitelist_domains : IsDomain(d)}
  /\ ipc' = IF domains' = {} THEN "idle" ELSE "query"
  /\ queried' = {} /\ domain_ips' = <<>> /\ found' = {} /\ skipped' = {}
  /\ UNCHANGED <<whiteVars, greylisting_whitelist_domain_spf, greylisting_tracking, failures, ips, ip>>
  /\ ImportElsewhere

\* The domains whose records are read for d: through include, but none read before.
Reached(d) ==
  LET reach[n \in 0..Cardinality(Domain)] ==
        IF n = 0 THEN {d}
        ELSE reach[n - 1] \cup ((UNION {Includes[e] : e \in reach[n - 1]}) \ queried)
  IN  reach[Cardinality(Domain)]

\* query_spf and parse_spf, or query_mx, of one domain; DNS may not answer.
\* A domain read on the way to another is passed over.
QueryDomain ==
  /\ ipc = "query" /\ domains # {}
  /\ \E d \in domains :
       /\ domains' = domains \ {d}
       /\ \/ d \in queried /\ UNCHANGED <<queried, domain_ips, failures>>
          \/ /\ d \notin queried
             /\ queried' = queried \cup Reached(d)
             /\ domain_ips' = Append(domain_ips,
                                 [domain |-> d, ips |-> UNION {published[e] : e \in Reached(d)}])
             /\ UNCHANGED failures
          \/ /\ d \notin queried /\ failures < MaxFailures
             /\ failures' = failures + 1
             /\ queried' = queried \cup {d}
             /\ domain_ips' = Append(domain_ips, [domain |-> d, ips |-> {}])
  /\ UNCHANGED <<whiteVars, greylisting_whitelist_domain_spf, greylisting_tracking, ipc, ips,
                 ip, imports, found, skipped>>
  /\ ImportElsewhere

\* `if not all_ips: sys.exit()`
WriteStart ==
  /\ ipc = "query" /\ domains = {}
  /\ LET answers == Range(domain_ips)
     IN  /\ found' = UNION {{<<a.domain, i>> : i \in a.ips} : a \in answers}
         /\ ipc' = IF found' = {} THEN "idle" ELSE "delete"
  /\ UNCHANGED <<whiteVars, greylisting_whitelist_domain_spf, greylisting_tracking, failures,
                 domains, queried, domain_ips, ips, ip, imports, skipped>>
  /\ ImportElsewhere

WriteElsewhere ==
  /\ UNCHANGED <<granted, domains, queried, imports, found>>
  /\ ImportElsewhere

DeleteOldOfAccount ==     \* seeded fault: WHERE account, not comment
  /\ ipc \in {"delete", "delete_whitelists"}
  /\ IF ipc = "delete"
       THEN /\ greylisting_whitelist_domain_spf' = {}
            /\ ipc' = "delete_whitelists"
            /\ UNCHANGED <<greylisting_whitelists, ips>>
       ELSE /\ greylisting_whitelists' = {row \in greylisting_whitelists : row.account # Catchall}
            /\ ipc' = "insert" /\ ips' = Head(domain_ips).ips
            /\ UNCHANGED greylisting_whitelist_domain_spf
  /\ UNCHANGED <<greylisting_tracking, failures, domain_ips, ip, skipped>>
  /\ WriteElsewhere

\* The old rows of the domain, from both tables.
DeleteOld ==
  /\ ipc \in {"delete", "delete_whitelists"}
  /\ LET Others(table) == {row \in table : row.comment # AutoUpdate(Head(domain_ips).domain)}
     IN  IF ipc = "delete"
           THEN /\ greylisting_whitelist_domain_spf' = Others(greylisting_whitelist_domain_spf)
                /\ ipc' = "delete_whitelists"
                /\ UNCHANGED <<greylisting_whitelists, ips>>
           ELSE /\ greylisting_whitelists' = Others(greylisting_whitelists)
                /\ ipc' = "insert" /\ ips' = Head(domain_ips).ips
                /\ UNCHANGED greylisting_whitelist_domain_spf
  /\ UNCHANGED <<greylisting_tracking, failures, domain_ips, ip, skipped>>
  /\ WriteElsewhere

InsertNewUntilKnown ==     \* seeded fault: a known address ends the loop
  /\ ipc = "insert"
  /\ \E i \in ips :
       LET rows == {row \in greylisting_whitelist_domain_spf :
                      row.account = Catchall /\ row.sender = i}
       IN  IF rows # {}
             THEN /\ skipped' = skipped \cup {<<i, row.comment>> : row \in rows}
                  /\ ips' = {}
                  /\ UNCHANGED <<greylisting_whitelist_domain_spf, ipc, ip>>
             ELSE /\ greylisting_whitelist_domain_spf' = greylisting_whitelist_domain_spf
                       \cup {White(Catchall, i, AutoUpdate(Head(domain_ips).domain))}
                  /\ ip' = i /\ ips' = ips \ {i} /\ ipc' = "tracking"
                  /\ UNCHANGED skipped
  /\ UNCHANGED <<greylisting_whitelists, greylisting_tracking, failures, domain_ips>>
  /\ WriteElsewhere

\* SELECT, then INSERT if there is no such row.
InsertNew ==
  /\ ipc = "insert"
  /\ \E i \in ips :
       LET rows == {row \in greylisting_whitelist_domain_spf :
                      row.account = Catchall /\ row.sender = i}
       IN  IF rows # {}
             THEN /\ skipped' = skipped \cup {<<i, row.comment>> : row \in rows}
                  /\ ips' = ips \ {i}
                  /\ UNCHANGED <<greylisting_whitelist_domain_spf, ipc, ip>>
             ELSE /\ greylisting_whitelist_domain_spf' = greylisting_whitelist_domain_spf
                       \cup {White(Catchall, i, AutoUpdate(Head(domain_ips).domain))}
                  /\ ip' = i /\ ips' = ips \ {i} /\ ipc' = "tracking"
                  /\ UNCHANGED skipped
  /\ UNCHANGED <<greylisting_whitelists, greylisting_tracking, failures, domain_ips>>
  /\ WriteElsewhere

\* The client need not wait any more.
DeleteTracking ==
  /\ ipc = "tracking"
  /\ ipc' = "insert"
  /\ greylisting_tracking' = greylisting_tracking \ {ip}
  /\ UNCHANGED <<greylisting_whitelists, greylisting_whitelist_domain_spf, failures, domain_ips,
                 ips, ip, skipped>>
  /\ WriteElsewhere

\* Each failure is logged; the import goes on.
WriteFails ==
  /\ failures < MaxFailures
  /\ failures' = failures + 1
  /\ \/ ipc \in {"delete", "delete_whitelists"} /\ ips' = Head(domain_ips).ips
     \/ ipc = "insert" /\ \E i \in ips : ips' = ips \ {i}
     \/ ipc = "tracking" /\ UNCHANGED ips
  /\ ipc' = "insert"
  /\ UNCHANGED <<greylisting_whitelists, greylisting_whitelist_domain_spf, greylisting_tracking,
                 domain_ips, ip, skipped>>
  /\ WriteElsewhere

NextDomain ==
  /\ ipc = "insert" /\ ips = {}
  /\ domain_ips' = Tail(domain_ips)
  /\ ipc' = IF domain_ips' = <<>> THEN "idle" ELSE "delete"
  /\ UNCHANGED <<greylisting_whitelists, greylisting_whitelist_domain_spf, greylisting_tracking,
                 failures, ips, ip, skipped>>
  /\ WriteElsewhere

Import ==
  \/ ImportStart \/ QueryDomain \/ WriteStart \/ DeleteOld \/ InsertNew \/ DeleteTracking
  \/ WriteFails \/ NextDomain

Publish ==
  /\ \E new \in NewPublished :
       /\ published[new[1]] # new[2]
       /\ published' = [published EXCEPT ![new[1]] = new[2]]
  /\ UNCHANGED <<settingVars, whiteVars, greylisting_whitelist_domain_spf,
                 greylisting_whitelist_domains, greylisting_tracking, todo, commands, failures,
                 importVars, daemonVars>>

-----------------------------------------------------------------------------
(* A request of the daemon *)

Senders(r)    == PolicyAddresses(r.sender) \cup {r.client}
Recipients(r) == PolicyAddresses(r.recipient)

DaemonElsewhere ==
  UNCHANGED <<settingVars, whiteVars, greylisting_whitelist_domain_spf,
              greylisting_whitelist_domains, published, todo, commands, failures, importVars>>

Receive ==
  /\ pc = "idle" /\ requests < MaxRequests
  /\ requests' = requests + 1
  /\ req' \in Requests
  /\ pc' = "spf" /\ whitelists' = {} /\ verdict' = "none" /\ due' = granted
  /\ UNCHANGED greylisting_tracking /\ DaemonElsewhere

\* _is_whitelisted: a client or sender listed by name at each table, then the
\* networks of both.
IsWhitelisted ==
  /\ pc \in {"spf", "whitelists"}
  /\ LET table  == IF pc = "spf" THEN greylisting_whitelist_domain_spf ELSE greylisting_whitelists
         wls    == {row.sender : row \in {row \in table : row.account \in Recipients(req)}}
         listed == Senders(req) \cap wls # {}
         inside == pc = "whitelists" /\ \E net \in whitelists \cup wls : InNetwork(req.client, net)
     IN  IF listed \/ inside
           THEN pc' = "idle" /\ verdict' = "dunno" /\ UNCHANGED whitelists
           ELSE /\ pc' = IF pc = "spf" THEN "whitelists" ELSE "setting"
                /\ whitelists' = whitelists \cup wls
                /\ UNCHANGED verdict
  /\ UNCHANGED <<greylisting_tracking, req, requests, due>> /\ DaemonElsewhere

SettingMatches(row, r) ==
  \/ row.sender \in Senders(r)
  \/ row.sender_priority = 70 /\ InNetwork(r.client, row.sender)

\* ORDER BY priority DESC, sender_priority DESC
Before(row, other) ==
  \/ row.priority > other.priority
  \/ row.priority = other.priority /\ row.sender_priority > other.sender_priority

ShouldBeGreylistedAnySender ==   \* seeded fault: the sender is not looked at
  /\ pc = "setting" /\ pc' = "idle"
  /\ LET rows == {row \in greylisting : row.account \in Recipients(req)}
     IN  IF rows = {} THEN verdict' = "dunno"
         ELSE \E row \in rows : /\ ~\E other \in rows : Before(other, row)
                                /\ verdict' = IF row.active THEN "greylist" ELSE "dunno"
  /\ UNCHANGED <<req, whitelists, requests, due, greylisting_tracking>> /\ DaemonElsewhere

\* The first row of the SELECT that matches decides, and a greylisted client
\* is tracked.
ShouldBeGreylisted ==
  /\ pc = "setting"
  /\ pc' = "idle"
  /\ LET rows == {row \in greylisting :
                    row.account \in Recipients(req) /\ SettingMatches(row, req)}
     IN  IF rows = {} THEN verdict' = "dunno"
         ELSE \E row \in rows : /\ ~\E other \in rows : Before(other, row)
                                /\ verdict' = IF row.active THEN "greylist" ELSE "dunno"
  /\ greylisting_tracking' =
       greylisting_tracking \cup (IF verdict' = "greylist" THEN {req.client} ELSE {})
  /\ UNCHANGED <<req, whitelists, requests, due>> /\ DaemonElsewhere

Daemon == Receive \/ IsWhitelisted \/ ShouldBeGreylisted

-----------------------------------------------------------------------------
\* The unique index on account and sender.
Keyed(table) == \A row, other \in table :
  row.account = other.account /\ row.sender = other.sender => row = other

\* What the tables hold at first, and what commands are about: rows of the tables' indexes
\* with the priorities of their addresses, domains of Domain, and rows the import wrote
\* for what an SPF record lists.
ASSUME InputsAssumption ==
  /\ InitDomains \subseteq Domain
  /\ Keyed(InitSettings) /\ Keyed(InitWhitelists) /\ Keyed(InitSpf)
  /\ \A row \in InitSettings : row = Setting(row.account, row.sender, row.active)
  /\ \A row \in InitWhitelists, d \in Domain :
       row.comment = AutoUpdate(d) => row.sender.form \in {"ip", "network"}
  /\ \A c \in Commands :
       /\ c.op \in {"enable", "disable", "delete", "whitelist-domain", "remove-whitelist-domain",
                    "add-whitelist", "outbound", "migrate"}
       /\ /\ c.op \in {"whitelist-domain", "remove-whitelist-domain"}
          /\ IsDomain(SenderDomain(c.sender))
          => SenderDomain(c.sender) \in Domain
       /\ c.op = "outbound" /\ IsDomain(c.recipient.domain) => c.recipient.domain \in Domain

InitialLast(p) ==
  IF ~Has(InitSettings, p[1], p[2]) THEN "none"
  ELSE IF (CHOOSE row \in InitSettings : row.account = p[1] /\ row.sender = p[2]).active
    THEN "on" ELSE "off"

Init ==
  /\ greylisting = InitSettings
  /\ greylisting_whitelists = InitWhitelists
  /\ greylisting_whitelist_domain_spf = InitSpf
  /\ greylisting_whitelist_domains = InitDomains
  /\ greylisting_tracking = {}
  /\ published = InitPublished
  /\ todo = [p \in Admin |-> <<>>]
  /\ pc = "idle" /\ req \in Requests /\ whitelists = {} /\ verdict = "none"
  /\ ipc = "idle" /\ domains = {} /\ queried = {} /\ domain_ips = <<>> /\ ips = {}
  /\ ip = Catchall
  /\ commands = 0 /\ requests = 0 /\ imports = 0 /\ failures = 0
  /\ last = [p \in Pairs |-> InitialLast(p)]
  /\ lost = {} /\ found = {} /\ skipped = {} /\ due = {}
  /\ granted = {<<row.account, row.sender>> :
                  row \in {row \in InitWhitelists : \A d \in Domain : row.comment # AutoUpdate(d)}}

Next ==
  \/ \E p \in Admin : Give(p) \/ Command(p)
  \/ Import
  \/ Publish
  \/ Daemon

Spec == Init /\ [][Next]_vars

-----------------------------------------------------------------------------
(* Properties *)

\* The unique indexes hold, and a setting carries the priorities of its two
\* addresses, whichever program wrote it (get_gl_base_setting, the migration).
TypeOK ==
  /\ Keyed(greylisting) /\ Keyed(greylisting_whitelists) /\ Keyed(greylisting_whitelist_domain_spf)
  /\ \A row \in greylisting : row = Setting(row.account, row.sender, row.active)
  /\ greylisting_whitelist_domains \subseteq Domain
  /\ pc \in {"idle", "spf", "whitelists", "setting"}
  /\ verdict \in {"none", "dunno", "greylist"}
  /\ ipc \in {"idle", "query", "delete", "delete_whitelists", "insert", "tracking"}
  /\ DOMAIN last = Pairs /\ lost \subseteq Pairs

\* Some process has yet to insert the setting.
Changing(pair) ==
  \E p \in Admin : /\ IsNext(p, "insert_setting")
                   /\ <<Head(todo[p]).account, Head(todo[p]).sender>> = pair

\* Between commands, and however the two transactions of several of them
\* interleave or fail, the table holds what the last command to report success
\* said, unless a command that failed has deleted it (libs/greylisting.py:44).
\* No table ever has two rows of one key.
SettingsAsReported ==
  /\ TypeOK
  /\ \A p \in Pairs :
       \/ p \in lost
       \/ Changing(p)
       \/ ~Has(greylisting, p[1], p[2]) /\ last[p] = "none"
       \/ \E row \in greylisting : /\ row.account = p[1] /\ row.sender = p[2]
                                   /\ last[p] = IF row.active THEN "on" ELSE "off"

\* The reported setting of the most specific account, and for it of the most
\* specific sender, that the request is about.
ReportedFor(r) ==
  LET about == {p \in Pairs : /\ last[p] # "none" /\ p[1] \in Recipients(r)
                              /\ p[2] \in Senders(r)}
      Rank(p) == 1000 * AccountPriority(p[1]) + AccountPriority(p[2])
  IN  {IF last[p] = "on" THEN "greylist" ELSE "dunno" :
         p \in {q \in about : \A o \in about : Rank(q) >= Rank(o)}}
        \cup (IF about = {} THEN {"dunno"} ELSE {})

\* A request is greylisted as the reported settings say, when no setting about
\* it is half written (plugins/greylisting.py:125).
JudgedAsReported ==
  [][/\ pc = "setting" /\ pc' = "idle"
     /\ ~\E p \in Pairs : p[1] \in Recipients(req) /\ (p \in lost \/ Changing(p))
     => verdict' \in ReportedFor(req)]_vars

\* A whitelisting reported before a request came in spares its sender, whatever
\* the import, the removal of a domain and other commands do meanwhile.
GrantedHonoured ==
  pc = "idle" /\ verdict = "greylist" =>
    ~\E g \in due : /\ g[1] \in Recipients(req)
                    /\ g[2] \in Senders(req) \/ InNetwork(req.client, g[2])

\* After an import without failures every address its answers name is
\* whitelisted, but one whose row belonged to a domain that names it no more
\* (tools/spf_to_greylist_whitelists.py:169): that row is deleted when its own
\* domain's turn comes, and nothing replaces it before the next import.
ImportListed ==
  ipc = "idle" /\ failures = 0 =>
    \A f \in found :
      \/ Has(greylisting_whitelist_domain_spf, Catchall, f[2])
      \/ \E s \in skipped : s[1] = f[2] /\ \E d \in Domain : s[2] = AutoUpdate(d) /\ <<d, f[2]>> \notin found
=============================================================================
