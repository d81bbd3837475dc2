------------------------- MODULE MCGreylistingAdmin -------------------------
(* Instances of GreylistingAdmin for TLC. *)
EXTENDS GreylistingAdmin, TLC

X == <<"x", "com">>              \* sender domains
Y == <<"y", "com">>
B == <<"b", "org">>              \* the local domain
Ann == Email(<<"ann">>, X)
Bob == Email(<<"bob">>, B)
Far  == IP(<<"10", "1", "1", "1">>)
Near == IP(<<"10", "2", "2", "2">>)
NearNet == Network(<<"10", "2">>)
FarNet  == Network(<<"10", "1">>)

TheDomain   == {X, Y}
TheIncludes == (X :> {Y}) @@ (Y :> {})

From(sender, client) == [sender |-> sender, recipient |-> Bob, client |-> client]
TheRequests == {From(Ann, Far)}

Set(op, account, sender) == [op |-> op, account |-> account, sender |-> sender]
Outbound(account, rcpt, whitelist_domain) ==
  [op |-> "outbound", sasl_username |-> Bob, recipient |-> Ann, local_account |-> account,
   rcpt |-> rcpt, without_spf |-> TRUE, whitelist_domain |-> whitelist_domain]

SettingCommands ==
  {Set("disable", AtDomain(B), AtDomain(X)),
   Set("enable", AtDomain(B), AtDomain(X)), Set("delete", AtDomain(B), AtDomain(X)),
   [op |-> "migrate", enabled |-> TRUE, member |-> Bob, white |-> FarNet]}
WhitelistCommands ==
  {Set("remove-whitelist-domain", Catchall, AtDomain(X)), Outbound("user", "domain", TRUE)}
TheCommands == SettingCommands \cup WhitelistCommands

\* Greylisting is on for everybody, and an earlier import found Far at X.
TheInitSettings   == {Setting(Catchall, Catchall, TRUE), Setting(AtDomain(B), AtDomain(X), TRUE),
                     Setting(AtDomain(B), AtDomain(Y), FALSE)}
TheInitWhitelists == {White(Catchall, Near, AutoUpdate(X)), White(Bob, AtDomain(Y), Manual)}
TheInitSpf        == {White(Catchall, Far, AutoUpdate(X))}
TheInitDomains    == {X, Y}

\* Far moves from X to Y.
TheInitPublished == (X :> {NearNet}) @@ (Y :> {Far, Near})
TheNewPublished  == {<<X, {Near}>>}

AdminSymmetry == Permutations(Admin)

\* TLC evaluates a definition without parameters once, but what a constant is given in
\* a .cfg at every use.
MCCommands       == TheCommands
MCRequests       == TheRequests
MCDomain         == TheDomain
MCIncludes       == TheIncludes
MCInitSettings   == TheInitSettings
MCInitWhitelists == TheInitWhitelists
MCInitSpf        == TheInitSpf
MCInitDomains    == TheInitDomains
MCInitPublished  == TheInitPublished
MCNewPublished   == TheNewPublished
=============================================================================
