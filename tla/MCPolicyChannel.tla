-------------------------- MODULE MCPolicyChannel --------------------------
(* Instances of PolicyChannel for TLC. *)
EXTENDS PolicyChannel

MCAddresses  == {"sender", "sasl_username"}
MCAttributes == MCAddresses \cup {"protocol_state", "client_address", "instance", "sasl_sender"}
MCSuffixOf   == {<<"sasl_sender", "sender">>}

L(name, value) == [name |-> name, value |-> value]

\* The attributes of a message; "unknown" is one the daemon drops.
Message(id, sender, login) ==
  << L("client_address", "ip"), L("unknown", ""), L("instance", id), L("sender", sender),
     L("sasl_username", login), L("sasl_sender", "") >>

\* The defaults, each bypass, and no log at all.
MCLogSettings ==
  {[on |-> TRUE, bypass_greylisting |-> g, bypass_whitelist |-> w] : g \in BOOLEAN, w \in BOOLEAN}
  \cup {[on |-> FALSE, bypass_greylisting |-> FALSE, bypass_whitelist |-> FALSE]}

Single    == << Message("m1", "a@x", "a@x") >>
Malformed == << Message("m1", "a@x", "a@x"), Message("m2", "latin-1", ""), Message("m3", "b@x", "") >>
=============================================================================
