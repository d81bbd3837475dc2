----------------------------- MODULE Directory -----------------------------
(***************************************************************************)
(* The directory of domains, users and lists that the access plugins ask,  *)
(* in its two forms: the `vmail` tables of the SQL backends                *)
(* (libs/sql/__init__.py) and the LDAP tree (libs/ldaplib/conn_utils.py).  *)
(* Each operator is a query, and takes the directory `dir` it asks:        *)
(*                                                                         *)
(*   backend       "sql" or "ldap"                                         *)
(*   hostname      socket.gethostname()                                    *)
(*   domains       {[name, active, backupmx]}                              *)
(*   alias_domain  {<<alias domain, target domain>>}                       *)
(*   users         {[mail, names, stale]}: names are the mailbox and its   *)
(*                 alias addresses (rows of `forwardings` with is_alias,   *)
(*                 values of shadowAddress), stale says that its password  *)
(*                 is CHANGE_PASSWORD_DAYS old                             *)
(*   lists         {[mail, names, kind, active, policy, mlmmj, members,    *)
(*                 moderators, owners, allowed]}: kind is "alias" or       *)
(*                 "maillist", allowed is the sequence listAllowedUser     *)
(*   rdns          {<<name, "W" or "B">>}, the table wblist_rdns           *)
(***************************************************************************)
EXTENDS Addresses

\* An absent SASL name, and the empty sender of a bounce.
Null == Email(<<>>, <<>>)

\* `sender.endswith('.' + domain)`
IsSubdomain(d, domain) ==
  /\ Len(d) > Len(domain)
  /\ SubSeq(d, Len(d) - Len(domain) + 1, Len(d)) = domain

Backupmx(d, include_backupmx) == include_backupmx \/ ~d.backupmx

\* Of the tables domain and alias_domain: only the first query leaves out domains
\* this host is a backup MX of.
SqlLocalDomain(dir, domain, include_backupmx) ==
  \E d \in {e \in dir.domains : e.active} :
    \/ d.name = domain /\ Backupmx(d, include_backupmx)
    \/ <<domain, d.name>> \in dir.alias_domain

\* Of the LDAP tree: one filter for both names.
LdapLocalDomain(dir, domain, include_backupmx) ==
  \E d \in {e \in dir.domains : e.active /\ Backupmx(e, include_backupmx)} :
    d.name = domain \/ <<domain, d.name>> \in dir.alias_domain

is_local_domainByName(dir, domain, include_backupmx, answers) ==     \* seeded fault: no alias domains
  \E d \in dir.domains : answers /\ d.name = domain /\ d.active /\ Backupmx(d, include_backupmx)

\* is_local_domain, with include_alias_domain; `answers` says whether the queries
\* succeed: one that fails finds nothing.
is_local_domain(dir, domain, include_backupmx, answers) ==
  /\ IsDomain(domain)
  /\ \/ domain = dir.hostname
     \/ /\ answers
        /\ \/ dir.backend = "sql" /\ SqlLocalDomain(dir, domain, include_backupmx)
           \/ dir.backend = "ldap" /\ LdapLocalDomain(dir, domain, include_backupmx)

\* get_alias_target_domain: the domain it names, or none.
get_alias_target_domain(dir, alias_domain) ==
  {d.name : d \in {e \in dir.domains : /\ IsDomain(alias_domain) /\ e.active
                                      /\ <<alias_domain, e.name>> \in dir.alias_domain}}

AliasDomains(dir, domain) == {pair[1] : pair \in {p \in dir.alias_domain : p[2] = domain}}

\* get_primary_and_alias_domains
get_primary_and_alias_domains(dir, domain) ==
  UNION {{d.name} \cup AliasDomains(dir, d.name) :
           d \in {e \in dir.domains : \/ e.name = domain
                                      \/ <<domain, e.name>> \in dir.alias_domain}}

\* get_access_policy: the accounts of a kind that have the address, and a policy.
get_access_policy(dir, mail, kind) == {l \in dir.lists : l.kind = kind /\ l.mail = mail}

\* The lists whose policy applies to mail for an address: it, or else the same user
\* of the domain that its own is an alias of.
Addressed(dir, mail, kind) ==
  LET known == get_access_policy(dir, mail, kind)
  IN  IF known # {} THEN known
      ELSE UNION {get_access_policy(dir, Email(mail.user, d), kind) :
                    d \in get_alias_target_domain(dir, mail.domain)}

\* get_account_ldif by name, for a list and for a user.
ListNamed(dir, mail) == {l \in dir.lists : mail \in l.names}
UserNamed(dir, mail) == {u \in dir.users : mail \in u.names}
=============================================================================
