----------------------------- MODULE Addresses -----------------------------
(***************************************************************************)
(* Addresses as settings, white/blacklists and requests name them          *)
(* (libs/utils.py, libs/regxes.py): what kind of address a text is, which  *)
(* addresses cover a mailbox or a client, and which of two that do goes    *)
(* first.                                                                  *)
(*                                                                         *)
(* A user is the sequence of the parts its recipient delimiter makes, a    *)
(* domain that of its labels, an IPv4 address that of its numbers, with    *)
(* "*" for any number.  The spelling that tells the kinds apart (a leading *)
(* `@` or `@.`, a slash) is the field `form`.                              *)
(***************************************************************************)
EXTENDS Naturals, Sequences, FiniteSets

Email(user, domain) == [form |-> "user@domain", user |-> user, domain |-> domain]
AtDomain(domain)    == [form |-> "@domain",     user |-> <<>>, domain |-> domain]
AtDot(domain)       == [form |-> "@.domain",    user |-> <<>>, domain |-> domain]
Bare(domain)        == [form |-> "domain",      user |-> <<>>, domain |-> domain]
Anywhere(user)      == [form |-> "user@*",      user |-> user, domain |-> <<>>]
IP(numbers)         == [form |-> "ip",          user |-> <<>>, domain |-> numbers]
\* The network of the addresses that begin with these numbers.
Network(numbers)    == [form |-> "network",     user |-> <<>>, domain |-> numbers]
Catchall            == AtDot(<<>>)
CatchallIP          == [form |-> "@ip",         user |-> <<>>, domain |-> <<>>]

\* utils.is_domain asks for a dot, which a top level domain has not.
IsDomain(domain) == Len(domain) > 1

\* utils.is_valid_amavisd_address
AddressType(a) ==
  CASE a = Catchall -> "catchall"
    [] a.form = "@.domain" /\ IsDomain(a.domain) -> "subdomain"
    [] a.form = "@.domain" /\ Len(a.domain) = 1 -> "top_level_domain"
    [] a = CatchallIP -> "catchall_ip"
    [] a.form = "@domain" /\ IsDomain(a.domain) -> "domain"
    [] a.form = "user@domain" /\ IsDomain(a.domain) -> "email"
    [] a.form = "user@*" -> "wildcard_addr"
    [] a.form = "ip" /\ ~\E i \in DOMAIN a.domain : a.domain[i] = "*" -> "ip"
    [] a.form = "ip" /\ (\E i \in DOMAIN a.domain : a.domain[i] = "*") -> "wildcard_ip"
    [] a.form = "network" -> "cidr_network"
    [] OTHER -> "invalid"

\* ACCOUNT_PRIORITIES; a type that is no key of it, "cidr_network" among them
\* (the key is "cidr"), has priority 0.
AccountPriority(a) ==
  LET t == AddressType(a)
  IN  CASE t = "email" -> 100 [] t = "wildcard_addr" -> 90 [] t = "ip" -> 80
        [] t = "wildcard_ip" -> 70 [] t = "domain" -> 60 [] t = "subdomain" -> 50
        [] t = "top_level_domain" -> 40 [] OTHER -> 0

\* MAILADDR_PRIORITIES
MailaddrPriority(a) ==
  LET t == AddressType(a)
  IN  CASE t = "email" -> 10 [] t = "ip" -> 9 [] t = "wildcard_ip" -> 8
        [] t \in {"cidr_network", "wildcard_addr"} -> 7 [] t = "domain" -> 5
        [] t = "subdomain" -> 3 [] t = "top_level_domain" -> 2 [] t = "catchall_ip" -> 1
        [] OTHER -> 0

\* `for (_index, _sub) in enumerate(_domain_parts)`: the domain, its parents
\* and the top level domain.
Parents(domain) == {SubSeq(domain, i, Len(domain)) : i \in 1..Len(domain)}

\* utils.get_policy_addresses_from_email
PolicyAddresses(mail) ==
  IF AddressType(mail) # "email" THEN {Catchall}
  ELSE {mail, AtDomain(mail.domain), Catchall} \cup {AtDot(d) : d \in Parents(mail.domain)}

\* utils.wildcard_ipv4, without ENABLE_ALL_WILDCARD_IP: a.b.c.* and a.b.*.d
WildcardIPv4(ip) ==
  {IP([ip.domain EXCEPT ![4] = "*"]), IP([ip.domain EXCEPT ![3] = "*"])}

\* ipaddress: `ip in network`
InNetwork(ip, network) ==
  /\ network.form = "network"
  /\ SubSeq(ip.domain, 1, Len(network.domain)) = network.domain

=============================================================================
