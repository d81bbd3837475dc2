------------------------------ MODULE MCDnsSpf ------------------------------
(* Instances of DnsSpf for TLC. *)
EXTENDS DnsSpf, TLC

\* s and i include each other; j is included twice; h is named by a and by mx;
\* n has no record; t takes more queries than the budget.
MCDomain == {"s", "i", "j", "h", "k", "n", "t"}
Rec(addresses, includes, a, mx) == [ips |-> addresses, includes |-> includes, a |-> a, mx |-> mx]
MCRecord == [d \in MCDomain |->
  CASE d = "s" -> Rec({"10.2.0.0/16"}, {"i", "j"}, {}, {})
    [] d = "i" -> Rec({"10.1.0.0/16"}, {"s", "j"}, {"h", "i"}, {})
    [] d = "j" -> Rec({"10.1.1.128/25"}, {"n"}, {"h"}, {"j"})
    [] d = "t" -> Rec({"10.9.9.9"}, {"s"}, {"t"}, {"s", "j"})
    [] d = "k" -> Rec({"10.2.0.0/16"}, {}, {}, {})
    [] OTHER   -> NoRecord]
MCA  == [d \in MCDomain |-> CASE d = "h" -> {"10.1.1.1"} [] d = "t" -> {"10.4.4.4"}
                           [] d = "i" -> {"10.5.5.5"} [] OTHER -> {}]
MCMX == [d \in MCDomain |-> CASE d = "j" -> {"h", "k"} [] d = "n" -> {"t"} [] OTHER -> {}]

MCAsked == {{"k"}, {"s"}, {"j"}, {"n"}, {"t"}, {"i"}, {"s", "t"}, {"n", "i"}, {"n", "i", "j"}}

MCClient     == "10.1.1.200"
MCContaining == {"10.1.1.128/25", "10.1.0.0/16"}
MCRecognised == {"10.2.0.0/16", "10.1.0.0/16"}
=============================================================================
