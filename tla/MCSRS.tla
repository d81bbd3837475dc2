------------------------------- MODULE MCSRS -------------------------------
(* Instances of SRS for TLC. *)
EXTENDS SRS, TLC

\* Two servers share a secret.  One domain is excluded by the second server, one
\* is local to the third; one message was already rewritten by another program.
TheHost    == {"a.srs", "b.srs", "c.srs"}
TheDomain  == {"x.org", "y.org", "other.srs", "mx.a", "mx.b", "mx.c"}
TheUser    == {"Alice", "alice"}
TheLower   == [u \in TheUser |-> "alice"]
TheInitial == "a.srs" :> <<"s1">> @@ "b.srs" :> <<"s2">> @@ "c.srs" :> <<"s1">>
TheName    == "a.srs" :> "mx.a" @@ "b.srs" :> "mx.b" @@ "c.srs" :> "mx.c"
ThePrimary == [h \in TheHost |-> IF h = "c.srs" THEN {"x.org"} ELSE {}]
TheAlias   == [h \in TheHost |-> IF h = "a.srs" THEN {"y.org"} ELSE {}]
TheExcluded == [h \in TheHost |-> IF h = "b.srs" THEN {"y.org"} ELSE {}]
TheSenders == {Plain("Alice", "x.org"), Plain("Alice", "y.org"), SRS0(CHOOSE o \in Foreign : TRUE, "other.srs")}

\* TLC evaluates a definition without parameters once, but what a constant is given in
\* a .cfg at every use.
MCHost     == TheHost
MCDomain   == TheDomain
MCUser     == TheUser
MCLower    == TheLower
MCName     == TheName
MCPrimary  == ThePrimary
MCAlias    == TheAlias
MCExcluded == TheExcluded
MCInitial  == TheInitial
MCSenders  == TheSenders
=============================================================================
