------------------------------ MODULE Dispatch ------------------------------
(***************************************************************************)
(* The modelers (libs/sql/modeler.py, libs/ldaplib/modeler.py): the plugins*)
(* that `load_enabled_plugins` has put in the order of their priorities    *)
(* judge a request one after the other, until one answers other than DUNNO.*)
(* A plugin that raises counts as one that agrees.  The plugins that keep  *)
(* no state of their own are here in full, those of SenderLogin and        *)
(* ListAccess among them; of the others throttle is here, for the one that *)
(* is asked at the end of the message.                                     *)
(***************************************************************************)
EXTENDS SenderLogin, ListAccess

CONSTANTS
  Worlds,     \* {[listed, settings, dir, unset]}: settings.plugins, other settings, the
              \* directory, and the connection settings left empty, <<database, name>>
  Requests,   \* {[state, sasl, sender, recipient, trusted, spf, rdns,
              \*  over]}: `spf` and `over` are what SPF and throttle say of the client
  none

VARIABLES
  world, req,
  plugins,    \* those still to apply
  verdict, by,     \* the answer, and the plugin that gave it
  faulted     \* history: plugins one of whose queries failed

vars == <<world, req, plugins, verdict, by, faulted>>

-----------------------------------------------------------------------------
(* Loading                                                                 *)

\* PLUGIN_PRIORITIES.  The two plugins for password changes are there under names
\* that are not those of their files.
PLUGIN_PRIORITIES ==
  [reject_null_sender |-> 100, reject_to_hostname |-> 100, wblist_rdns |-> 99,
   reject_sender_login_mismatch |-> 90, greylisting |-> 80,
   ldap_force_change_password_in_days |-> 70, sql_force_change_password_in_days |-> 70,
   throttle |-> 60, ldap_maillist_access_policy |-> 50, sql_ml_access_policy |-> 51,
   sql_alias_access_policy |-> 50, amavisd_wblist |-> 40,
   whitelist_outbound_recipient |-> 30, senderscore |-> 10]

Files ==
  (DOMAIN PLUGIN_PRIORITIES
     \ {"ldap_force_change_password_in_days", "sql_force_change_password_in_days"})
  \cup {"ldap_force_change_password", "sql_force_change_password"}

Priority(p) == IF p \in DOMAIN PLUGIN_PRIORITIES THEN PLUGIN_PRIORITIES[p] ELSE 0

load_enabled_pluginsAsListed(listed) ==     \* seeded fault: the settings' order is kept
  SelectSeq(listed, LAMBDA p : p \in Files)

\* A stable sort, the highest priority first; a plugin without a file is left out.
load_enabled_plugins(listed) ==
  LET pnl == {i \in DOMAIN listed : listed[i] \in Files}
      Before(j, i) == \/ Priority(listed[j]) > Priority(listed[i])
                      \/ Priority(listed[j]) = Priority(listed[i]) /\ j < i
      Place(i) == Cardinality({j \in pnl : Before(j, i)}) + 1
  IN  [n \in 1..Cardinality(pnl) |-> listed[CHOOSE i \in pnl : Place(i) = n]]

-----------------------------------------------------------------------------
(* Connections                                                             *)

\* create_db_engine: none, rather than an exception, when a setting is missing.  The
\* port has a default.
create_db_engine(w, db) ==
  IF {<<db, k>> : k \in {"user", "password", "server", "name"}} \cap w.unset = {}
    THEN {db} ELSE {}

\* What is connected once the daemon has started; each plugin finds out by itself.
get_required_db_conns(w) ==
  (IF w.dir.backend = "ldap" THEN {"vmail" : uri \in {<<"vmail", "ldap_uri">>} \ w.unset}
                             ELSE create_db_engine(w, "vmail"))
    \cup create_db_engine(w, "iredapd")

\* The connections that a plugin uses.  Throttle asks for the domain that the sender's
\* is an alias of; the LDAP form of that query finds nothing without a connection.
ConnectionsOf(p, w) ==
  CASE p \in {"reject_null_sender", "reject_to_hostname"} -> {}
    [] p = "wblist_rdns" -> {"iredapd"}
    [] p = "throttle" -> {"iredapd"} \cup IF w.dir.backend = "sql" THEN {"vmail"} ELSE {}
    [] OTHER -> {"vmail"}

-----------------------------------------------------------------------------
(* The small plugins                                                       *)

reject_null_sender(r) ==
  IF r.sasl # Null /\ r.sender = Null THEN "reject_null_sender" ELSE "DUNNO"

\* Bounces to rewritten addresses come to the server's own name.
reject_to_hostname(dir, r) ==
  IF /\ r.sasl = Null /\ ~r.trusted
     /\ r.recipient.domain = dir.hostname /\ r.recipient.user[1] \notin {"srs0=", "srs1="}
    THEN "reject_not_authorized" ELSE "DUNNO"

\* The whitelist is asked before the blacklist, each for the name and for every
\* `.name` that it ends with.
wblist_rdns(dir, r, fault) ==
  LET names == {Bare(r.rdns)} \cup {AtDot(d) : d \in Parents(r.rdns)}
      Has(wb) == \E n \in names : <<n, wb>> \in dir.rdns
  IN  IF r.sasl # Null \/ r.rdns = <<"unknown">> \/ r.trusted THEN "DUNNO"
      ELSE IF fault = "account" THEN "RAISE"
      ELSE IF ~Has("W") /\ Has("B") THEN "reject_blacklisted" ELSE "DUNNO"

\* Of either backend: the one raises when its query fails, the other has no LDIF.
force_change_password(settings, dir, r, fault) ==
  IF /\ r.sasl # Null
     /\ {r.sasl, Bare(r.sasl.domain)} \cap settings.never_expire = {}
     /\ fault = "none"
     /\ \E u \in dir.users :
          u.stale /\ \/ r.sasl = u.mail
                     \/ dir.backend = "ldap" /\ r.sasl \in u.names
    THEN "reject_change_password" ELSE "DUNNO"

\* What a plugin answers.
Judge(p, settings, dir, r, fault) ==
  CASE p = "reject_null_sender" -> reject_null_sender(r)
    [] p = "reject_to_hostname" -> reject_to_hostname(dir, r)
    [] p = "wblist_rdns" -> wblist_rdns(dir, r, fault)
    [] p = "reject_sender_login_mismatch" -> reject_sender_login_mismatch(settings, dir, r, fault)
    [] p \in {"sql_force_change_password", "ldap_force_change_password"} ->
         force_change_password(settings, dir, r, fault)
    [] p = "sql_alias_access_policy" -> sql_alias_access_policy(dir, r, fault)
    [] p = "sql_ml_access_policy" -> sql_ml_access_policy(dir, r, fault)
    [] p = "ldap_maillist_access_policy" -> ldap_maillist_access_policy(dir, r, fault)
    [] p = "throttle" -> IF fault = "account" THEN "RAISE"
                         ELSE IF r.over THEN "reject_quota_exceeded" ELSE "DUNNO"

\* SMTP_PROTOCOL_STATE
TargetStates(p) == IF p = "throttle" THEN {"END-OF-MESSAGE"} ELSE {"RCPT"}

Rejections ==
  {"reject", "reject_null_sender", "reject_not_authorized", "reject_blacklisted",
   "reject_change_password", "reject_forged_sender", "reject_sender_login_mismatch",
   "reject_quota_exceeded"}

-----------------------------------------------------------------------------
\* The queries of a plugin that may fail, and "none".  Without a connection its first
\* query always fails.
Faults(p) ==
  IF ~(ConnectionsOf(p, world) \subseteq get_required_db_conns(world)) THEN {"account"}
  ELSE {"none"} \cup
  CASE p = "reject_sender_login_mismatch" -> {"account", "api"}
    [] p = "ldap_maillist_access_policy" -> {"account", "domain", "search"}
    [] p \in {"reject_null_sender", "reject_to_hostname"} -> {}
    [] OTHER -> {"account"}

\* An exception leaves `action` at its default.
apply_plugin(action) == IF action = "RAISE" THEN "DUNNO" ELSE action

Receive ==
  /\ req = none
  /\ req' \in Requests
  /\ plugins' = load_enabled_plugins(world.listed)
  /\ UNCHANGED <<world, verdict, by, faulted>>

Skip ==
  /\ verdict = none /\ plugins # <<>> /\ req # none
  /\ req.state \notin TargetStates(Head(plugins))
  /\ plugins' = Tail(plugins)
  /\ UNCHANGED <<world, req, verdict, by, faulted>>

Apply ==
  /\ verdict = none /\ plugins # <<>> /\ req # none
  /\ req.state \in TargetStates(Head(plugins))
  /\ \E fault \in Faults(Head(plugins)) :
       LET p == Head(plugins)
           action == apply_plugin(Judge(p, world.settings, world.dir, req, fault))
       IN  /\ IF action = "DUNNO" THEN UNCHANGED <<verdict, by>> ELSE verdict' = action /\ by' = p
           /\ faulted' = IF fault = "none" THEN faulted ELSE faulted \cup {p}
  /\ plugins' = Tail(plugins)
  /\ UNCHANGED <<world, req>>

Agree ==
  /\ req # none /\ verdict = none /\ plugins = <<>>
  /\ verdict' = "DUNNO"
  /\ UNCHANGED <<world, req, plugins, by, faulted>>

Init ==
  /\ world \in Worlds
  /\ req = none /\ plugins = <<>> /\ verdict = none /\ by = none
  /\ faulted = {}

Next == Receive \/ Skip \/ Apply \/ Agree
Spec == Init /\ [][Next]_vars

-----------------------------------------------------------------------------
(* What the constants may be                                               *)

\* The plugins of a backend that are here.
PluginsOf(backend) ==
  {"reject_null_sender", "reject_to_hostname", "wblist_rdns", "reject_sender_login_mismatch",
   "throttle"}
  \cup IF backend = "sql"
         THEN {"sql_alias_access_policy", "sql_ml_access_policy", "sql_force_change_password"}
         ELSE {"ldap_maillist_access_policy", "ldap_force_change_password"}

\* Domains whose mail is kept here, under every name they have.
Hosted(dir) ==
  LET kept == {d \in dir.domains : d.active /\ ~d.backupmx}
  IN  {dir.hostname} \cup {d.name : d \in kept}
        \cup UNION {AliasDomains(dir, d.name) : d \in kept}

\* The names of a list's domain.
Near(dir, l) == {l.mail.domain} \cup AliasDomains(dir, l.mail.domain)

IsEmail(a) == a = Email(a.user, a.domain)

\* The domains of this host have a dot in their names, and none is an alias of another.
DomainsFit(dir) ==
  /\ \A d \in Hosted(dir) : IsDomain(d)
  /\ \A pair \in dir.alias_domain :
       pair = <<pair[1], pair[2]>> /\ \A d \in dir.domains : d.name # pair[1]

\* The mailbox of a user is one of its addresses, and who authenticates has one.
UsersFit(dir) ==
  /\ \A u \in dir.users : u.mail \in u.names
  /\ \A r \in Requests : r.sasl = Null \/ \E u \in dir.users : u.mail = r.sasl

\* An address is that of one list at most (`address` is the key of alias and of maillists,
\* and the tools that write them look in both), under its own domain or an alias of it.  The
\* lists of table maillists are mlmmj's; in LDAP the members in the list's own domain are
\* users with memberOfGroup.
ListsFit(dir) ==
  \A l \in dir.lists :
    /\ l.kind \in {"alias", "maillist"}
    /\ l.mail \in l.names /\ \A n \in l.names : n.domain \in Near(dir, l)
    /\ \A k \in dir.lists : k.names \cap l.names # {} => k = l
    /\ \A pair \in dir.alias_domain : pair[1] # l.mail.domain
    /\ \A m \in l.members : IsEmail(m)
    /\ dir.backend = "sql" /\ l.kind = "maillist" => l.mlmmj
    /\ dir.backend = "ldap" =>
         \A m \in l.members : m.domain = l.mail.domain => \E u \in dir.users : u.mail = m

\* Addresses are mailboxes, empty ones included.  Of the plugins that are named after a
\* backend (`sql_`, `ldap_`) only those for the one in use are enabled.
ASSUME DispatchAssumption ==
  /\ none \notin Requests /\ none \notin {"DUNNO"} \cup Rejections \cup Files
  /\ \A r \in Requests : IsEmail(r.sasl) /\ IsEmail(r.sender) /\ IsEmail(r.recipient)
  /\ \A w \in Worlds :
       /\ w.listed \in Seq(STRING) /\ w.dir.backend \in {"sql", "ldap"}
       /\ ToSet(w.listed) \cap Files \subseteq PluginsOf(w.dir.backend)
       /\ DomainsFit(w.dir) /\ UsersFit(w.dir) /\ ListsFit(w.dir)

-----------------------------------------------------------------------------
(* Properties                                                              *)

\* The answers are Postfix actions, the plugin that gave one is known, and what is
\* left to apply is the end of the loaded list.
TypeOK ==
  /\ world \in Worlds /\ req \in Requests \cup {none}
  /\ verdict \in {none, "DUNNO"} \cup Rejections
  /\ by = none <=> verdict \in {none, "DUNNO"}
  /\ faulted \subseteq ToSet(world.listed)
  /\ req # none =>
       LET loaded == load_enabled_plugins(world.listed)
       IN  \E k \in 0..Len(loaded) : plugins = SubSeq(loaded, k + 1, Len(loaded))

\* "The order defined in `plugins = []` doesn't matter at all": whatever that order,
\* the answer comes from the plugin of the highest priority that refuses; one that
\* raises changes no other's judgement, and no two of the same priority refuse the
\* same request (modeler.handle_data, load_enabled_plugins, apply_plugin).  Answers are
\* always Postfix actions (TypeOK).
Refusing ==
  {p \in ToSet(world.listed) \ faulted :
     /\ p \in Files /\ req.state \in TargetStates(p)
     /\ apply_plugin(Judge(p, world.settings, world.dir, req, "none")) # "DUNNO"}

DecidedByPriority ==
  /\ TypeOK
  /\ verdict # none =>
       \A p \in Refusing : by # none /\ (p = by \/ Priority(p) < Priority(by))

\* A plugin let the request pass, and none of its queries failed.
Agreed(p) ==
  /\ verdict = "DUNNO" /\ p \in ToSet(world.listed) \ faulted
  /\ req.state \in TargetStates(p)

\* Nobody sends as a hosted domain who has not authenticated, unless the client or
\* the sender is exempt or SPF permits the client (reject_sender_login_mismatch).
NoSpoof ==
  /\ Agreed("reject_sender_login_mismatch")
  /\ req.sasl = Null /\ req.sender.domain \in Hosted(world.dir)
  => \/ req.trusted \/ ~world.settings.check_forged_sender
     \/ world.settings.check_spf /\ req.spf
     \/ \E a \in world.settings.allowed_forged_senders :
          a.user \in {<<>>, req.sender.user} /\ a.domain \in {<<>>, req.sender.domain}

\* The mailboxes an address stands for: alias addresses belong to a mailbox, and in
\* the SQL backends every user of a domain exists in its alias domains too.
MailboxesOf(dir, name) ==
  {u.mail : u \in UserNamed(dir, name)}
    \cup IF dir.backend = "ldap" THEN {}
         ELSE {Email(name.user, d) : d \in {pair[2] : pair \in
                                              {q \in dir.alias_domain : q[1] = name.domain}}}

\* The lists a user may send for, by any name of the list.
ListsOf(dir, sasl, sender) ==
  {l \in dir.lists : /\ l.mail \in MailboxesOf(dir, sender) \/ sender \in l.names
                     /\ ({sasl} \cup MailboxesOf(dir, sasl)) \cap l.members # {}}

\* Who authenticates sends as itself, under a name of its mailbox, as a list it is a
\* member of, or is exempt, and each only where the setting for it is on.  (With
\* LDAP, `is_strict` is enough to send as an mlmmj list.)
SendsAsEntitled ==
  /\ Agreed("reject_sender_login_mismatch")
  /\ req.sasl # Null /\ req.sender \notin {Null, req.sasl}
  => \/ world.settings.is_strict /\ req.sasl \in MailboxesOf(world.dir, req.sender)
     \/ \E l \in ListsOf(world.dir, req.sasl, req.sender) :
          \/ world.settings.allow_list_member
          \/ world.settings.is_strict /\ world.dir.backend = "ldap" /\ l.mlmmj
     \/ \E a \in world.settings.allowed_senders :
          \/ a \in {req.sasl, Bare(req.sasl.domain)}
          \/ a.domain \in {<<>>, req.sasl.domain} /\ req.sender.domain = req.sasl.domain

\* And it is never refused the names of its own mailbox where `is_strict` is on, nor
\* those of its lists where members may use them.
OwnNamesAccepted ==
  /\ by = "reject_sender_login_mismatch" /\ by \notin faulted /\ req.sasl # Null
  => /\ world.settings.is_strict => req.sasl \notin MailboxesOf(world.dir, req.sender)
     /\ world.settings.allow_list_member =>
          ~\E l \in world.dir.lists : l.active /\ l.mail = req.sender /\ req.sasl \in l.members

\* Whether two addresses are the same person's.
Same(dir, l, a, b) ==
  \/ a = b
  \/ a.user = b.user /\ {a.domain, b.domain} \subseteq Near(dir, l)
  \/ \E u \in dir.users : {a, b} \subseteq u.names

IsMember(dir, l, a) == \E m \in l.members : Same(dir, l, a, m)
IsModerator(dir, l, a) ==
  \E m \in l.moderators \cup l.owners \cup ToSet(l.allowed) :
    \/ Same(dir, l, a, m)
    \/ m.form \in {"@domain", "domain"} /\ m.domain = a.domain
    \/ m.form = "@.domain" /\ m.domain \in Parents(a.domain)

\* Who may write to a list, by its policy.
Entitled(dir, l, a) ==
  CASE PolicyOf(l) = "domain" -> a.domain \in Near(dir, l)
    [] PolicyOf(l) = "subdomain" ->
         \E d \in Near(dir, l) : a.domain = d \/ IsSubdomain(a.domain, d)
    [] PolicyOf(l) = "membersonly" -> IsMember(dir, l, a)
    [] PolicyOf(l) = "moderatorsonly" -> IsModerator(dir, l, a)
    [] PolicyOf(l) = "membersandmoderatorsonly" ->
         IsMember(dir, l, a) \/ IsModerator(dir, l, a) \/ a \in l.names
    [] OTHER -> TRUE

\* mlmmj applies these policies itself.
LeftToMlmmj(l) ==
  l.mlmmj /\ PolicyOf(l) \in {"membersonly", "moderatorsonly", "membersandmoderatorsonly"}

\* The plugin that guards a list.
GuardOf(dir, l) ==
  IF dir.backend = "ldap" THEN "ldap_maillist_access_policy"
  ELSE IF l.kind = "alias" THEN "sql_alias_access_policy" ELSE "sql_ml_access_policy"

AddressedLists(dir, mail) ==
  IF dir.backend = "ldap" THEN {l \in ListNamed(dir, mail) : l.kind = "maillist"}
  ELSE Addressed(dir, mail, "alias") \cup Addressed(dir, mail, "maillist")

\* Whoever the plugins let write to a list may do so by its policy, under some name
\* of theirs; in LDAP, as long as the list is addressed under its domain's own name
\* (the *_access_policy plugins).
WritersEntitled ==
  \A l \in IF req = none THEN {} ELSE AddressedLists(world.dir, req.recipient) :
    Agreed(GuardOf(world.dir, l)) =>
      \/ Entitled(world.dir, l, req.sender)
      \/ l.kind = "maillist" /\ IsModerator(world.dir, l, req.sender)
      \/ LeftToMlmmj(l)
      \/ /\ world.dir.backend = "ldap"
         /\ ~HasTree(world.dir, req.recipient.domain) \/ req.sasl = req.recipient

\* The list's policy lets in nobody under the names it knows a sender by: in SQL that in
\* the list's domain, too, of who writes from an alias of it.
NotHeard(dir, l, a) ==
  LET heard == {a} \cup {Email(a.user, l.mail.domain) :
                           d \in {a.domain} \cap AliasDomains(dir, l.mail.domain)}
      known == IF dir.backend = "ldap" THEN {a} ELSE heard
      policy == PolicyOf(l)
  IN  /\ policy = "domain" => a.domain \notin Near(dir, l)
      /\ policy = "subdomain" => ~IsSubdomain(a.domain, l.mail.domain)
      /\ policy \in {"membersonly", "membersandmoderatorsonly"} =>
           known \cap l.members
             \cap (IF dir.backend = "ldap" THEN {Email(a.user, l.mail.domain)}
                                           ELSE known) = {}
      /\ policy \in {"moderatorsonly", "membersandmoderatorsonly"} =>
           known \cap l.moderators = {}

\* Members and moderators write to the list under the addresses it knows them by, and
\* in SQL under the same name in an alias of its domain; the list's own domains and
\* sub-domains where the policy says so.  The list is addressed by its own name.
EntitledHeard ==
  \A l \in IF req = none THEN {} ELSE {k \in world.dir.lists : k.active /\ k.mail = req.recipient} :
    by = GuardOf(world.dir, l) /\ by \notin faulted => NotHeard(world.dir, l, req.sender)
=============================================================================
