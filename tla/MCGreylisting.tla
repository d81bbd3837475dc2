--------------------------- MODULE MCGreylisting ---------------------------
(* Instances of Greylisting for TLC. *)
EXTENDS Greylisting, TLC

Ann  == "ann@x"                  \* external senders
Eve  == "eve@y"
Bob  == "bob@b"                  \* a local recipient
Far  == "10.1.1.1"
Near == "10.2.2.2"

TheUser        == {Ann, Eve, Bob}
TheClient      == {Far, Near}
TheDomainOf    == (Ann :> "x") @@ (Eve :> "y") @@ (Bob :> "b")
ThePolicyAddrs == (Ann :> {Ann, "@x", "@."}) @@ (Eve :> {Eve, "@y", "@."})
                   @@ (Bob :> {Bob, "@b", "@."})
TheCidrs       == (Far :> {"10.1.0.0/16"}) @@ (Near :> {"10.2.0.0/16"})

From(sender, client) == [sender |-> sender, recipient |-> Bob, client |-> client, sasl |-> FALSE]

Setting(account, priority, sender, sender_priority, active) ==
  [account |-> account, priority |-> priority, sender |-> sender,
   sender_priority |-> sender_priority, active |-> active]

Everybody == Setting("@.", 0, "@.", 0, TRUE)

TheTwoClients == {From(Ann, Far), From(Eve, Far), From(Ann, Near)}

\* A network is exempt, and a domain too, but not for one recipient.
TheExemptSettings == {Everybody, Setting("@b", 60, "10.2.0.0/16", 70, FALSE),
                   Setting("@b", 60, "@y", 60, FALSE), Setting(Bob, 100, "@y", 60, TRUE)}

\* TLC evaluates a definition without parameters once, but what a constant is given in
\* a .cfg at every use.
MCUser         == TheUser
MCClient       == TheClient
MCDomainOf     == TheDomainOf
MCPolicyAddrs  == ThePolicyAddrs
MCCidrs        == TheCidrs
ExemptSettings == TheExemptSettings
TwoClients     == TheTwoClients
=============================================================================
