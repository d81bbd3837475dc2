------------------------------ MODULE MCWblist ------------------------------
(* Instances of Wblist for TLC. *)
EXTENDS Wblist, TLC

X == <<"x", "com">>              \* an external domain
B == <<"b", "org">>              \* local domains; D is an alias of B
C == <<"c", "org">>
D == <<"d", "org">>
Ann  == Email(<<"ann">>, X)
Bob  == Email(<<"bob">>, B)
BobD == Email(<<"bob">>, D)
Carl == Email(<<"carl">>, C)
Far     == IP(<<"10", "1", "1", "1">>)
FarNet  == Network(<<"10", "1">>)
NearNet == Network(<<"10", "2">>)

TheAliasTarget  == (X :> {}) @@ (B :> {}) @@ (C :> {}) @@ (D :> {B})
TheLocalDomains == {B, C}

Command_(op, dir, account, addresses, wb) ==
  [op |-> op, direction |-> dir, account |-> account, addresses |-> addresses, wb |-> wb]
TheCommands ==
  {Command_("add", "inbound", Bob, {Ann}, "W"),
   Command_("add", "inbound", Bob, {Ann, AtDomain(X)}, "B"),
   Command_("delete", "inbound", AtDomain(B), {AtDomain(X), FarNet}, "B"),
   Command_("add", "outbound", AtDomain(C), {Bob}, "B"),
   Command_("add", "inbound", AtDomain(B), {Ann}, "B"),
   Command_("delete-all", "inbound", AtDomain(B), {}, "B")}

Request(sasl, sender, recipient) ==
  [sasl |-> sasl, sender |-> sender, recipient |-> recipient, client |-> Far]
TheRequests == {Request(FALSE, Ann, BobD), Request(TRUE, Carl, Bob), Request(TRUE, Carl, Ann),
               Request(FALSE, Ann, Carl), Request(TRUE, Bob, Bob)}

TheInitLists ==
  {<<"inbound", Bob, AtDomain(X), "B">>, <<"inbound", AtDomain(B), FarNet, "B">>,
   <<"inbound", AtDomain(B), Ann, "W">>, <<"inbound", Carl, NearNet, "B">>,
   <<"outbound", Bob, Ann, "B">>}

TheInitUsers    == <<AtDomain(B), Carl, Bob>>
TheInitMailaddr == <<Ann, AtDomain(X), FarNet, NearNet>>

AdminSymmetry == Permutations(Admin)

\* TLC evaluates a definition without parameters once, but what a constant is given in
\* a .cfg at every use.
MCCommands     == TheCommands
MCRequests     == TheRequests
MCAliasTarget  == TheAliasTarget
MCLocalDomains == TheLocalDomains
MCInitLists    == TheInitLists
MCInitUsers    == TheInitUsers
MCInitMailaddr == TheInitMailaddr
=============================================================================
