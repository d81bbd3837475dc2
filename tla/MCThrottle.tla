----------------------------- MODULE MCThrottle -----------------------------
(* An instance of Throttle for TLC, with the settings that the tools leave. *)
EXTENDS ThrottleSettings, TLC

Alice == "alice@a.org"
Bob   == "bob@b.org"
IP    == "10.1.1.1"

AnyNat == Nat

MCUser    == {Alice, Bob}
MCClient  == {IP}
TheAddresses ==
  (Alice :> A!Email(<<"alice">>, <<"a", "org">>)) @@ (Bob :> A!Email(<<"bob">>, <<"b", "org">>))
    @@ (IP :> A!IP(<<"10", "1", "1", "1">>)) @@ ("@a.org" :> A!AtDomain(<<"a", "org">>))
    @@ ("@." :> A!Catchall)
MCAccount == {Alice, Bob, IP, "@a.org", "@."}
Text(address) == CHOOSE a \in MCAccount : TheAddresses[a] = address

TheDomains == (Alice :> "a.org") @@ (Bob :> "b.org")
Covering(a) == {c \in MCAccount : TheAddresses[c] \in A!PolicyAddresses(TheAddresses[a])}
TheAddrs == (Alice :> Covering(Alice)) @@ (Bob :> Covering(Bob)) @@ (IP :> {IP})
Type(a) == a :> A!AddressType(TheAddresses[a])
TheTypes == Type(Alice) @@ Type(Bob) @@ Type(IP) @@ Type("@a.org") @@ Type("@.")

Outbound(size, rcpts) == [sender |-> Alice, recipient |-> Bob, client |-> IP,
                          sasl |-> TRUE, size |-> size, rcpts |-> rcpts]
TheRequests == {Outbound(3, 1), Outbound(1, 2)}

-----------------------------------------------------------------------------
\* What an administrator has written: a limit for everybody, and one for Alice with
\* the priority of the sample in throttle.py, which is below that of her domain.
Setting(account, priority, period, msg_size, max_msgs) ==
  [id |-> 0, account |-> account, kind |-> "outbound", priority |-> priority,
   period |-> period,
   limit |-> [msg_size |-> msg_size, max_rcpts |-> -1, max_msgs |-> max_msgs, max_quota |-> -1]]

Written == InsertSetting(InsertSetting(<<>>, Setting(A!Catchall, 0, 1, 3, -1)),
                         Setting(TheAddresses[Alice], 10, 2, -1, 2))

\* What Cluebringer has: Alice inherits max_quota from her domain, whose max_msgs she
\* hides; everybody's is there already; one is disabled.
Quota(id, of, kind, period, disabled) ==
  [id |-> id, of |-> of, kind |-> kind, period |-> period, disabled |-> disabled]
Quotas == << Quota(1, A!Bare(<<"a", "org">>), "outbound", 1, FALSE),
             Quota(2, TheAddresses[Bob], "inbound", 2, FALSE),
             Quota(3, A!Catchall, "outbound", 1, FALSE),
             Quota(4, TheAddresses[IP], "outbound", 1, TRUE) >>
CbLimit(quotasid, type, counterlimit) ==
  [quotasid |-> quotasid, type |-> type, counterlimit |-> counterlimit]
Limits == << CbLimit(1, "MessageCount", 1), CbLimit(1, "MessageCumulativeSize", 2),
             CbLimit(2, "MessageCount", 3), CbLimit(3, "MessageCount", 1),
             CbLimit(2, "MessageCumulativeSize", 0), CbLimit(4, "MessageCount", 1) >>

TheSettings ==
  {[s EXCEPT !.account = Text(@)] :
     s \in S!ToSet(FixPriorities(Migrate(Written, Quotas, Limits), 1))}

\* TLC keeps the value of a definition, but not of one that a constant stands for.
MCPolicyAddrs == TheAddrs
MCAddrType    == TheTypes
MCAddressOf   == TheAddresses
MCDomainOf    == TheDomains
MCRequests    == TheRequests
MCSettings    == TheSettings
=============================================================================
