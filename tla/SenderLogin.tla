---------------------------- MODULE SenderLogin ----------------------------
(***************************************************************************)
(* plugins/reject_sender_login_mismatch.py: whether a client that has not  *)
(* authenticated may use a local sender, and an authenticated one a sender *)
(* other than its own address.  `settings` holds the plugin's settings,    *)
(* `dir` the directory, `req` the request and `fault` the query that fails *)
(* ("none", or "account" for the directory, "api" for mlmmjadmin).         *)
(***************************************************************************)
EXTENDS Directory

\* ALLOWED_FORGED_SENDERS names addresses, domains and users of any domain.
AllowedForged(settings, sender) ==
  {sender, Bare(sender.domain), Anywhere(sender.user)} \cap settings.allowed_forged_senders # {}

ForgedSender(settings, dir, req, fault) ==
  /\ ~req.trusted /\ settings.check_forged_sender
  /\ ~AllowedForged(settings, req.sender)
  /\ \/ req.sender.domain = req.recipient.domain
     \/ is_local_domain(dir, req.sender.domain, FALSE, fault # "account")
  /\ ~(settings.check_spf /\ req.spf)

\* ALLOWED_LOGIN_MISMATCH_SENDERS; `@domain` and `@.` only allow other senders of
\* the user's own domain.
ExplicitlyAllowed(settings, sasl, sender) ==
  \/ {sasl, Bare(sasl.domain)} \cap settings.allowed_senders # {}
  \/ /\ {AtDomain(sasl.domain), Catchall} \cap settings.allowed_senders # {}
     /\ sasl.domain = sender.domain

OwnAliasByUser(dir, sasl, sender) ==     \* seeded fault: the alias domain is not looked up
  sender.user = sasl.user

OwnAliasByRow(dir, sasl, sender) ==     \* seeded fault: alias domains are forgotten
  \E u \in dir.users : sender \in u.names \ {u.mail} /\ u.mail = sasl

\* A row of `forwardings` makes the sender an alias address of the user, or the
\* sender's domain is an alias of the user's, and the user is the same.
OwnAlias(dir, sasl, sender) ==
  \/ \E u \in dir.users : sender \in u.names \ {u.mail} /\ u.mail = sasl
  \/ <<sender.domain, sasl.domain>> \in dir.alias_domain /\ sender.user = sasl.user

\* `real_sender`, which only the strict checks set.
RealSender(settings, dir, sasl, sender) ==
  IF settings.is_strict /\ <<sender.domain, sasl.domain>> \in dir.alias_domain
    THEN Email(sender.user, sasl.domain) ELSE sender

\* mlmmjadmin's `has_subscriber`, which says no of a list it has not.
HasSubscriber(dir, list, sasl, fault) ==
  /\ fault # "api"
  /\ \E l \in dir.lists : l.kind = "maillist" /\ l.mlmmj /\ l.mail = list /\ sasl \in l.members

SqlAllowed(settings, dir, sasl, sender, fault) ==
  LET real_sender == RealSender(settings, dir, sasl, sender)
  IN  \/ settings.is_strict /\ OwnAlias(dir, sasl, sender)
      \/ /\ settings.allow_list_member
         /\ \/ \E l \in dir.lists : l.kind = "alias" /\ l.mail = real_sender /\ sasl \in l.members
            \/ /\ \E l \in dir.lists : l.kind = "maillist" /\ l.active /\ l.mail = real_sender
               /\ HasSubscriber(dir, real_sender, sasl, fault)

\* The filter for mlmmj lists names no list, so the service is asked about any
\* sender as soon as there is one, whichever of the two settings is on.
LdapAllowed(settings, dir, sasl, sender, fault) ==
  /\ fault # "account"
  /\ \/ settings.is_strict /\ \E u \in dir.users : u.mail = sasl /\ sender \in u.names \ {u.mail}
     \/ /\ settings.allow_list_member
        /\ \E l \in dir.lists :
             \/ l.kind = "maillist" /\ l.mail = sender
                  /\ \E u \in UserNamed(dir, sasl) : u.mail \in l.members
             \/ l.kind = "alias" /\ sender \in l.names /\ sasl \in l.members
     \/ /\ \E l \in dir.lists : l.kind = "maillist" /\ l.mlmmj /\ l.active
        /\ HasSubscriber(dir, sender, sasl, fault)

\* What an authenticated client may do that uses another sender.  A failed SQL
\* statement raises; a failed LDAP search finds nothing.
Mismatch(settings, dir, sasl, sender, fault) ==
  LET asks == settings.is_strict \/ settings.allow_list_member
  IN  IF ExplicitlyAllowed(settings, sasl, sender) THEN "DUNNO"
      ELSE IF asks /\ dir.backend = "sql" /\ fault = "account" THEN "RAISE"
      ELSE IF /\ asks
              /\ IF dir.backend = "sql" THEN SqlAllowed(settings, dir, sasl, sender, fault)
                                        ELSE LdapAllowed(settings, dir, sasl, sender, fault)
        THEN "DUNNO"
      ELSE "reject_sender_login_mismatch"

reject_sender_login_mismatch(settings, dir, req, fault) ==
  CASE req.sasl = Null ->
         IF ForgedSender(settings, dir, req, fault) THEN "reject_forged_sender" ELSE "DUNNO"
    [] req.sasl # Null /\ req.sender \in {Null, req.sasl} -> "DUNNO"
    [] OTHER -> Mismatch(settings, dir, req.sasl, req.sender, fault)
=============================================================================
