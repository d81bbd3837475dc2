----------------------------- MODULE ListAccess -----------------------------
(***************************************************************************)
(* Who may write to a list: plugins/sql_alias_access_policy.py,            *)
(* plugins/sql_ml_access_policy.py and plugins/ldap_maillist_access_policy *)
(* .py.  `fault` is the query that fails: "account" for the first one,     *)
(* "domain" for that of alias domains, "search" for a later one.           *)
(***************************************************************************)
EXTENDS Directory, SequencesExt

Policies == {"public", "domain", "subdomain", "membersonly", "moderatorsonly", "allowedonly",
             "membersandmoderatorsonly", "unsupported"}

\* `allowedonly` is the name older releases gave to `moderatorsonly`.
PolicyOf(l) == IF l.policy = "allowedonly" THEN "moderatorsonly" ELSE l.policy

\* rcpt_alias_domains: the sender's domain, if it is an alias of the list's.
SenderAlias(dir, l, req) == {req.sender.domain} \cap AliasDomains(dir, l.mail.domain)

\* The policies `domain` and `subdomain`, of either kind of list.
DomainAllows(dir, l, req) ==
  LET d == req.sender.domain
      domains == {req.recipient.domain, l.mail.domain}
  IN  \/ d \in domains \cup SenderAlias(dir, l, req)
      \/ PolicyOf(l) = "subdomain" /\ \E e \in domains : IsSubdomain(d, e)

\* is_allowed_alias_domain_user
is_allowed_alias_domain_user(dir, l, req, restricted_members) ==
  /\ SenderAlias(dir, l, req) # {}
  /\ {req.sender, Email(req.sender.user, req.recipient.domain)} \cap restricted_members # {}

MembersAllowByUser(dir, l, req, restricted_members) ==     \* seeded fault: any domain will do
  \E m \in restricted_members : m.user = req.sender.user

MembersAllowListed(dir, l, req, restricted_members) ==     \* seeded fault: names in alias domains are forgotten
  {req.sender, AtDomain(req.sender.domain)} \cap restricted_members # {}

\* The members and moderators whom the policy names, and their names in the alias
\* domain the sender writes from.
MembersAllow(dir, l, req, restricted_members) ==
  \/ req.sender \in restricted_members
  \/ AtDomain(req.sender.domain) \in restricted_members
  \/ is_allowed_alias_domain_user(dir, l, req, restricted_members)

\* sql_alias_access_policy
SqlAliasAllows(dir, l, req) ==
  CASE PolicyOf(l) \in {"domain", "subdomain"} -> DomainAllows(dir, l, req)
    [] PolicyOf(l) = "membersonly"    -> MembersAllow(dir, l, req, l.members)
    [] PolicyOf(l) = "moderatorsonly" -> MembersAllow(dir, l, req, l.moderators)
    [] PolicyOf(l) = "membersandmoderatorsonly" ->
         MembersAllow(dir, l, req, l.members \cup l.moderators)
    [] OTHER -> TRUE

sql_alias_access_policy(dir, req, fault) ==
  IF fault # "none" THEN "RAISE"
  ELSE IF \E l \in Addressed(dir, req.recipient, "alias") : ~SqlAliasAllows(dir, l, req)
    THEN "reject_not_authorized" ELSE "DUNNO"

\* sql_ml_access_policy: mlmmj judges members and moderators.  The moderators and
\* owners who are let through otherwise are those of the address as it was written,
\* not those of the list that it stands for.
SqlMaillistAllows(dir, l, req) ==
  LET addresses == {req.recipient}
                     \cup {Email(req.recipient.user, d) : d \in SenderAlias(dir, l, req)}
  IN  PolicyOf(l) \in {"domain", "subdomain"} =>
        \/ \E k \in dir.lists : k.mail \in addresses /\ req.sender \in k.moderators \cup k.owners
        \/ DomainAllows(dir, l, req)

sql_ml_access_policy(dir, req, fault) ==
  IF fault # "none" THEN "RAISE"
  ELSE IF \E l \in Addressed(dir, req.recipient, "maillist") : ~SqlMaillistAllows(dir, l, req)
    THEN "reject_not_authorized" ELSE "DUNNO"

-----------------------------------------------------------------------------
(* The LDAP plugin                                                         *)

\* listAllowedUser: the sender, its domain, `*@domain`, or `.domain` for the domain
\* and its parents.
ExplicitlyAllowedToWrite(l, sender) ==
  ToSet(l.allowed)
    \cap ({sender, Bare(sender.domain), AtDomain(sender.domain)}
            \cup {AtDot(d) : d \in Parents(sender.domain)}) # {}

\* The loop takes entries out of the list it goes through, and so passes over the
\* entry after each one it takes: of those it could take in a row, every other one.
\* What it collects in _users.
Collected(l, domain) ==
  LET entries == {i \in DOMAIN l.allowed : l.allowed[i].form # "@domain"}
      Taken(i) == l.allowed[i].form # "user@domain" \/ l.allowed[i].domain = domain
      Row(i) == {k \in entries : k < i /\ \A j \in entries \cap (k..i) : Taken(j)}
  IN  {l.allowed[i] : i \in {j \in entries : /\ l.allowed[j].form = "user@domain" /\ Taken(j)
                                             /\ Cardinality(Row(j)) % 2 = 0}}

\* The users found in the tree of the recipient's domain, which exists for a
\* domain's own name only, with the names that mail and shadowAddress give them.
HasTree(dir, domain) == \E d \in dir.domains : d.name = domain
NamesOf(dir, domain, mails) ==
  UNION {u.names : u \in {v \in dir.users : v.mail.domain = domain /\ v.names \cap mails # {}}}

\* memberOfGroup is compared with the recipient as it was written.
MemberNames(dir, l, req) ==
  IF req.recipient = l.mail
    THEN UNION {u.names : u \in {v \in dir.users : /\ v.mail.domain = req.recipient.domain
                                                   /\ v.mail \in l.members}}
    ELSE {}

Authorized(allowed) == IF allowed THEN "DUNNO" ELSE "reject_not_authorized"

\* The policies that ask for another search.  That of alias domains in
\* `moderatorsonly` is left out: its results are bytes and match nothing.
LdapPolicy(dir, l, req, fault) ==
  LET sender == req.sender
      tree == HasTree(dir, req.recipient.domain) /\ fault # "search"
      valid == IF fault = "domain" THEN {}
               ELSE get_primary_and_alias_domains(dir, req.recipient.domain)
  IN  CASE PolicyOf(l) = "domain" -> Authorized(sender.domain \in valid)
        [] PolicyOf(l) = "subdomain" ->
             Authorized(\E d \in valid : sender.domain = d \/ IsSubdomain(sender.domain, d))
        [] PolicyOf(l) = "membersonly" ->
             IF tree THEN Authorized(sender \in MemberNames(dir, l, req)) ELSE "RAISE"
        [] PolicyOf(l) = "membersandmoderatorsonly" ->
             Authorized(\/ ~tree \/ sender \in MemberNames(dir, l, req)
                        \/ req.recipient = l.mail /\ sender \in l.names)
        [] PolicyOf(l) = "moderatorsonly" ->
             LET users == Collected(l, req.recipient.domain)
             IN  IF req.sasl = Null THEN "reject_not_authorized"
                 ELSE IF users # {} /\ ~tree THEN "RAISE"
                 ELSE Authorized(sender \in NamesOf(dir, req.recipient.domain, users))
        [] OTHER -> "DUNNO"

LdapListVerdict(dir, l, req, fault) ==
  CASE ~l.active -> "reject"
    [] l.active /\ \/ PolicyOf(l) = "public"
                   \/ l.mlmmj /\ PolicyOf(l) \in {"membersonly", "moderatorsonly"}
                   \* None is no list to join: the plugin raises
                   \/ fault # "domain" /\ get_primary_and_alias_domains(dir, req.recipient.domain) = {}
                   \/ req.sender \in l.moderators \cup l.owners
                   \/ ExplicitlyAllowedToWrite(l, req.sender) -> "DUNNO"
    [] OTHER -> LdapPolicy(dir, l, req, fault)

\* The modeler looks the recipient up first; a search that fails finds no account.
ldap_maillist_access_policy(dir, req, fault) ==
  LET found == {l \in ListNamed(dir, req.recipient) : l.kind = "maillist"}
  IN  IF req.sasl = req.recipient \/ fault = "account" \/ found = {} THEN "DUNNO"
      ELSE LdapListVerdict(dir, CHOOSE l \in found : TRUE, req, fault)
=============================================================================
