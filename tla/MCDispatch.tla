---------------------------- MODULE MCDispatch ----------------------------
(***************************************************************************)
(* Worlds and requests for Dispatch: a domain with two alias domains, a    *)
(* sub-domain of it and one of an alias, and a domain elsewhere; a list,   *)
(* two users, one with an alias address.  Three families of worlds: the    *)
(* settings of the login checks, the policies of lists, and the order and  *)
(* the failures of plugins.                                                *)
(***************************************************************************)
EXTENDS Dispatch

Main == <<"main", "org">>      Alias1 == <<"one", "org">>   Alias2 == <<"two", "org">>
Sub  == <<"sub", "main", "org">>   SubAlias == <<"sub", "one", "org">>
Else == <<"else", "net">>      Host == <<"mx", "main", "org">>

At(u, d) == Email(<<u>>, d)
Ann == At("ann", Main)
Bob == At("bob", Main)
List == At("list", Main)

Senders == {Null} \cup {At(u, d) : u \in {"ann", "bob"}, d \in {Main, Alias1, Else}}
             \cup {At("ann", Sub), At("ann", SubAlias), At("info", Main), List, At("list", Alias1)}

Request(sasl, sender, recipient) ==
  [state |-> "RCPT", sasl |-> sasl, sender |-> sender, recipient |-> recipient,
   trusted |-> FALSE, spf |-> FALSE, rdns |-> Else, over |-> FALSE]

TheRequests ==
  {Request(sasl, sender, r) : sasl \in {Null, Ann}, sender \in Senders,
                              r \in {List, At("list", Alias1), At("list", Alias2), Bob}}
  \cup {[Request(Null, sender, Bob) EXCEPT !.trusted = t, !.spf = s, !.rdns = n] :
          sender \in {Ann, At("ann", Alias1), At("ann", Else)}, t \in BOOLEAN, s \in BOOLEAN,
          n \in {Else, Main, <<"unknown">>}}
  \cup {Request(Null, At("ann", Else), Email(<<u>>, Host)) : u \in {"ann", "srs0="}}
  \cup {[Request(Ann, Ann, Bob) EXCEPT !.state = "END-OF-MESSAGE", !.over = o] : o \in BOOLEAN}

-----------------------------------------------------------------------------
TheList(kind, policy) ==
  [mail |-> List, names |-> {List, At("list", Alias1)}, kind |-> kind, active |-> TRUE,
   policy |-> policy, mlmmj |-> FALSE, members |-> {Ann, At("bob", Else)},
   moderators |-> {Bob}, owners |-> {}, allowed |-> <<>>]

Dir(backend, lists) ==
  [backend |-> backend, hostname |-> Host,
   domains |-> {[name |-> Main, active |-> TRUE, backupmx |-> FALSE],
                [name |-> Else, active |-> FALSE, backupmx |-> FALSE]},
   alias_domain |-> {<<Alias1, Main>>, <<Alias2, Main>>},
   users |-> {[mail |-> Ann, names |-> {Ann, At("info", Main)}, stale |-> TRUE],
              [mail |-> Bob, names |-> {Bob, At("bob", Alias1)}, stale |-> FALSE]},
   lists |-> lists,
   rdns |-> {<<AtDot(<<"net">>), "B">>, <<AtDot(Main), "B">>, <<AtDot(<<"org">>), "W">>}]

Settings(strict, member, allowed) ==
  [check_forged_sender |-> TRUE, allowed_forged_senders |-> {}, check_spf |-> TRUE,
   allowed_senders |-> allowed, is_strict |-> strict, allow_list_member |-> member,
   never_expire |-> {}]

World(listed, settings, dir) ==
  [listed |-> listed, settings |-> settings, dir |-> dir, unset |-> {}]
Backends == {"sql", "ldap"}

LoginWorlds ==
  {World(<<"reject_sender_login_mismatch">>, Settings(s, m, a),
         Dir(b, {[TheList(k, "public") EXCEPT !.mlmmj = k = "maillist"]})) :
     s \in BOOLEAN, m \in BOOLEAN, a \in {{}, {Bare(Main)}, {AtDomain(Main)}, {Bob}},
     b \in Backends, k \in {"alias", "maillist"}}
  \cup {World(<<"reject_sender_login_mismatch">>,
              [Settings(TRUE, TRUE, {}) EXCEPT !.allowed_forged_senders = {a}, !.check_spf = FALSE],
              Dir(b, {})) :
          a \in {Ann, Bare(Alias1), Anywhere(<<"bob">>)}, b \in Backends}

Guards(b) == IF b = "ldap" THEN <<"ldap_maillist_access_policy">>
             ELSE <<"sql_alias_access_policy", "sql_ml_access_policy">>

\* An entry for every form that listAllowedUser has; three addresses show the loop that
\* passes over the second.
Alloweds == {<<>>, <<Ann, At("bob", Else), Bob>>, <<Bob, Ann, At("ann", Sub)>>,
             <<AtDot(Main)>>, <<AtDomain(Else), Bob>>}

ListWorlds ==
  {World(Guards("sql"), Settings(TRUE, FALSE, {}),
         Dir("sql", {[TheList(k, p) EXCEPT !.moderators = m, !.mlmmj = k = "maillist"]})) :
     k \in {"alias", "maillist"}, p \in Policies, m \in {{Bob}, {AtDomain(Else)}}}
  \cup {World(Guards("ldap"), Settings(TRUE, FALSE, {}),
              Dir("ldap", {[TheList("maillist", p) EXCEPT !.allowed = a, !.active = act,
                                                          !.mlmmj = mlmmj]})) :
          p \in Policies, act \in BOOLEAN, a \in Alloweds, mlmmj \in BOOLEAN}

Everything(b) ==
  <<"throttle", "reject_sender_login_mismatch", "reject_null_sender">>
    \o (IF b = "sql" THEN <<"sql_alias_access_policy", "sql_force_change_password">>
        ELSE <<"ldap_maillist_access_policy", "ldap_force_change_password">>)
    \o <<"reject_to_hostname">>

\* An order, and its opposite, with one plugin more in front; all databases connected,
\* or one of them not.
OrderWorlds ==
  UNION {{[World(<<p>> \o o, Settings(FALSE, FALSE, {}),
                  Dir(b, {[TheList(k, "moderatorsonly") EXCEPT !.mlmmj = b = "sql" /\ k = "maillist"]}))
             EXCEPT !.unset = u] :
            u \in {{}, {<<"iredapd", "password">>}, {<<"vmail", "name">>, <<"vmail", "ldap_uri">>}},
            k \in {"alias", "maillist"}, p \in {"wblist_rdns", "no_such_plugin"},
            o \in {Everything(b), Reverse(Everything(b))}} : b \in Backends}

TheWorlds == LoginWorlds \cup ListWorlds \cup OrderWorlds

\* TLC evaluates a definition without parameters once, but what a constant is given in
\* a .cfg at every use.
MCRequests == TheRequests
MCWorlds   == TheWorlds
=============================================================================
