--------------------------- MODULE Dispatch_proofs ---------------------------
(***************************************************************************)
(* Theorems about Dispatch, for any settings, directories and requests:    *)
(* the plugin of the highest priority decides, and the checks of senders   *)
(* and of lists let through whom they may and refuse nobody they must not. *)
(***************************************************************************)
EXTENDS Dispatch, Senderscore, FiniteSetTheorems, TLAPS

-----------------------------------------------------------------------------
(* Loading                                                                 *)

\* Every plugin has a priority (PLUGIN_PRIORITIES, 0 for one it does not name).
LEMMA PriorityType == \A p : Priority(p) \in Nat
BY DEF Priority, PLUGIN_PRIORITIES

\* The priorities of the plugins that are here.
LEMMA PriorityOf ==
  /\ Priority("reject_null_sender") = 100 /\ Priority("reject_to_hostname") = 100
  /\ Priority("wblist_rdns") = 99 /\ Priority("reject_sender_login_mismatch") = 90
  /\ Priority("throttle") = 60
  /\ Priority("sql_alias_access_policy") = 50 /\ Priority("sql_ml_access_policy") = 51
  /\ Priority("ldap_maillist_access_policy") = 50
  /\ Priority("sql_force_change_password") = 0 /\ Priority("ldap_force_change_password") = 0
BY DEF Priority, PLUGIN_PRIORITIES

\* What is loaded are the plugins listed that have a file, each after all of a higher
\* priority, whatever the order they are listed in (modeler.py, utils.py:528-597).
LEMMA Loading ==
  ASSUME NEW listed \in Seq(STRING), NEW L, L = load_enabled_plugins(listed)
  PROVE  /\ L \in Seq(STRING)
         /\ \A n \in 1..Len(L) : L[n] \in ToSet(listed) \cap Files
         /\ \A p \in ToSet(listed) \cap Files : \E n \in 1..Len(L) : L[n] = p
         /\ \A m, n \in 1..Len(L) : m < n => Priority(L[m]) >= Priority(L[n])
<1> DEFINE pnl == {i \in DOMAIN listed : listed[i] \in Files}
           Before(j, i) == \/ Priority(listed[j]) > Priority(listed[i])
                           \/ Priority(listed[j]) = Priority(listed[i]) /\ j < i
           Ahead(i) == {j \in pnl : Before(j, i)}
           Place(i) == Cardinality(Ahead(i)) + 1
           C == Cardinality(pnl)
           At(n) == CHOOSE i \in pnl : Place(i) = n
           f == [i \in pnl |-> Place(i)]
<1>1. L = [n \in 1..C |-> listed[At(n)]]
  BY DEF load_enabled_plugins
<1>2. pnl \subseteq 1..Len(listed) /\ Len(listed) \in Nat
  OBVIOUS
<1>3. IsFiniteSet(pnl) /\ C \in Nat
  <2> HIDE DEF pnl
  <2>1. IsFiniteSet(1..Len(listed))
    BY <1>2, FS_Interval
  <2>2. IsFiniteSet(pnl)
    BY <1>2, <2>1, FS_Subset
  <2> QED
    BY <2>2, FS_CardinalityType
<1>4. \A i \in pnl : /\ Ahead(i) \subseteq pnl \ {i} /\ IsFiniteSet(Ahead(i))
                     /\ Cardinality(Ahead(i)) \in Nat /\ Cardinality(Ahead(i)) < C
  <2> TAKE i \in pnl
  <2>1. Ahead(i) \subseteq pnl \ {i}
    BY <1>2, PriorityType
  <2>2. IsFiniteSet(pnl \ {i}) /\ Cardinality(pnl \ {i}) = C - 1
    BY <1>3, FS_RemoveElement
  <2> HIDE DEF Ahead, pnl
  <2> QED
    BY <1>3, <2>1, <2>2, FS_Subset, FS_CardinalityType
<1>5. \A i, j \in pnl : Before(j, i) => Place(j) < Place(i)
  <2> SUFFICES ASSUME NEW i \in pnl, NEW j \in pnl, Before(j, i) PROVE Place(j) < Place(i)
    OBVIOUS
  <2>1. \A k \in pnl : Before(k, j) => Before(k, i)
    <3> TAKE k \in pnl
    <3>1. Priority(listed[i]) \in Nat /\ Priority(listed[j]) \in Nat /\ Priority(listed[k]) \in Nat
      BY PriorityType
    <3>2. i \in Nat /\ j \in Nat /\ k \in Nat
      BY <1>2
    <3> QED
      BY <3>1, <3>2
  <2>2. Ahead(j) \subseteq Ahead(i) /\ j \in Ahead(i)
    BY <2>1
  <2>3. j \notin Ahead(j)
    BY <1>4
  <2> HIDE DEF Ahead, pnl, Before
  <2>4. Cardinality(Ahead(j)) < Cardinality(Ahead(i))
    <3>1. Ahead(j) # Ahead(i)
      BY <2>2, <2>3
    <3> QED
      BY <1>4, <2>2, <3>1, FS_Subset
  <2> QED
    BY <1>4, <2>4
<1>6. \A i, j \in pnl : i = j \/ Before(i, j) \/ Before(j, i)
  <2> TAKE i, j \in pnl
  <2>1. Priority(listed[i]) \in Nat /\ Priority(listed[j]) \in Nat
    BY PriorityType
  <2> QED
    BY <1>2, <2>1
<1>7. \A i \in pnl : Place(i) \in 1..C
  <2> HIDE DEF Ahead, pnl, C
  <2> QED
    BY <1>3, <1>4
<1>8. \A i, j \in pnl : Place(i) = Place(j) => i = j
  <2> HIDE DEF pnl, Before, Place
  <2> QED
    BY <1>5, <1>6, <1>7
<1> HIDE DEF Place, pnl, C
<1>9. f \in Injection(pnl, 1..C)
  BY <1>7, <1>8 DEF Injection, IsInjective
<1>10. \A n \in 1..C : At(n) \in pnl /\ Place(At(n)) = n
  <2>1. IsFiniteSet(1..C) /\ Cardinality(1..C) = C
    BY <1>3, FS_Interval
  <2>2. f \in Surjection(pnl, 1..C)
    BY <1>9, <2>1, FS_Injection DEF C
  <2>3. \A n \in 1..C : \E i \in pnl : Place(i) = n
    BY <2>2 DEF Surjection
  <2> QED
    BY <2>3
<1> HIDE DEF At
<1>11. L \in Seq(STRING) /\ Len(L) = C
  <2>1. \A n \in 1..C : listed[At(n)] \in STRING
    <3>1. \A i \in 1..Len(listed) : listed[i] \in STRING
      OBVIOUS
    <3> QED
      BY <1>10, <1>2, <3>1
  <2> QED
    BY <1>1, <1>3, <2>1
<1>12. \A n \in 1..C : L[n] = listed[At(n)] /\ L[n] \in ToSet(listed) \cap Files
  BY <1>1, <1>10 DEF pnl, ToSet
<1>13. \A p \in ToSet(listed) \cap Files : \E n \in 1..C : L[n] = p
  <2> TAKE p \in ToSet(listed) \cap Files
  <2>1. PICK i \in pnl : listed[i] = p
    BY DEF pnl, ToSet
  <2>2. At(Place(i)) = i
    BY <1>7, <1>8, <1>10
  <2> QED
    BY <1>7, <1>12, <2>1, <2>2
<1>14. \A m, n \in 1..C : m < n => Priority(L[m]) >= Priority(L[n])
  <2> SUFFICES ASSUME NEW m \in 1..C, NEW n \in 1..C, m < n
               PROVE  Priority(L[m]) >= Priority(L[n])
    OBVIOUS
  <2>1. At(m) \in pnl /\ At(n) \in pnl /\ Place(At(m)) = m /\ Place(At(n)) = n
    BY <1>10
  <2>2. At(m) # At(n) /\ ~Before(At(n), At(m))
    <3> HIDE DEF Before
    <3> QED
      BY <1>5, <2>1, <1>3
  <2>3. Before(At(m), At(n))
    BY <1>6, <2>1, <2>2
  <2>4. Priority(listed[At(m)]) \in Nat /\ Priority(listed[At(n)]) \in Nat
    BY PriorityType
  <2> QED
    BY <1>12, <2>3, <2>4
<1> QED
  BY <1>11, <1>12, <1>13, <1>14

\* What is still to apply after some of the plugins (the loop of handle_data).
LEMMA Rest ==
  ASSUME NEW L \in Seq(STRING), NEW k \in 0..Len(L)
  PROVE  LET rest == SubSeq(L, k + 1, Len(L))
         IN  /\ rest = <<>> => k = Len(L)
             /\ rest # <<>> => /\ k + 1 \in 1..Len(L) /\ Head(rest) = L[k + 1]
                               /\ Tail(rest) = SubSeq(L, (k + 1) + 1, Len(L))
<1> DEFINE rest == SubSeq(L, k + 1, Len(L))
<1>1. rest \in Seq(STRING) /\ Len(rest) = Len(L) - k
  OBVIOUS
<1>2. CASE k = Len(L)
  BY <1>1, <1>2
<1>3. CASE k # Len(L)
  <2>1. k + 1 \in 1..Len(L) /\ rest # <<>> /\ Head(rest) = L[k + 1]
    <3>1. k + 1 \in 1..Len(L) /\ Len(rest) > 0 /\ rest[1] = L[k + 1]
      BY <1>1, <1>3
    <3>2. rest # <<>> /\ Head(rest) = rest[1]
      <4> HIDE DEF rest
      <4> QED
        BY <1>1, <3>1
    <3> QED
      BY <3>1, <3>2
  <2>2. Tail(rest) = SubSeq(L, (k + 1) + 1, Len(L))
    BY <1>1, <1>3
  <2> QED
    BY <1>3, <2>1, <2>2
<1> QED
  BY <1>2, <1>3

-----------------------------------------------------------------------------
(* What the plugins answer                                                 *)

\* The plugin to check senders refuses in two ways.
LEMMA LoginAnswers ==
  ASSUME NEW settings, NEW dir, NEW r, NEW fault
  PROVE  reject_sender_login_mismatch(settings, dir, r, fault)
           \in {"DUNNO", "RAISE", "reject_forged_sender", "reject_sender_login_mismatch"}
BY DEF reject_sender_login_mismatch, Mismatch

\* The plugins of lists reject as unauthorized, or as inactive with LDAP.
LEMMA ListAnswers ==
  ASSUME NEW dir, NEW r, NEW fault
  PROVE  /\ sql_alias_access_policy(dir, r, fault) \in {"DUNNO", "RAISE", "reject_not_authorized"}
         /\ sql_ml_access_policy(dir, r, fault) \in {"DUNNO", "RAISE", "reject_not_authorized"}
         /\ ldap_maillist_access_policy(dir, r, fault)
              \in {"DUNNO", "RAISE", "reject", "reject_not_authorized"}
<1>1. \A a : Authorized(a) \in {"DUNNO", "reject_not_authorized"}
  BY DEF Authorized
<1>2. \A l : LdapPolicy(dir, l, r, fault) \in {"DUNNO", "RAISE", "reject_not_authorized"}
  BY <1>1 DEF LdapPolicy
<1>3. \A l : LdapListVerdict(dir, l, r, fault) \in {"DUNNO", "RAISE", "reject", "reject_not_authorized"}
  BY <1>2 DEF LdapListVerdict
<1> QED
  BY <1>3 DEF sql_alias_access_policy, sql_ml_access_policy, ldap_maillist_access_policy

\* The answer of each plugin, by its name.
LEMMA JudgeOf ==
  ASSUME NEW settings, NEW dir, NEW r, NEW fault
  PROVE  /\ Judge("reject_null_sender", settings, dir, r, fault) = reject_null_sender(r)
         /\ Judge("reject_to_hostname", settings, dir, r, fault) = reject_to_hostname(dir, r)
         /\ Judge("wblist_rdns", settings, dir, r, fault) = wblist_rdns(dir, r, fault)
         /\ Judge("reject_sender_login_mismatch", settings, dir, r, fault)
              = reject_sender_login_mismatch(settings, dir, r, fault)
         /\ Judge("sql_force_change_password", settings, dir, r, fault)
              = force_change_password(settings, dir, r, fault)
         /\ Judge("ldap_force_change_password", settings, dir, r, fault)
              = force_change_password(settings, dir, r, fault)
         /\ Judge("sql_alias_access_policy", settings, dir, r, fault)
              = sql_alias_access_policy(dir, r, fault)
         /\ Judge("sql_ml_access_policy", settings, dir, r, fault)
              = sql_ml_access_policy(dir, r, fault)
         /\ Judge("ldap_maillist_access_policy", settings, dir, r, fault)
              = ldap_maillist_access_policy(dir, r, fault)
         /\ Judge("throttle", settings, dir, r, fault)
              \in {"DUNNO", "RAISE", "reject_quota_exceeded"}
BY DEF Judge

\* Every plugin answers a Postfix action, or raises.
LEMMA Answers ==
  ASSUME NEW backend, NEW p \in PluginsOf(backend), NEW settings, NEW dir, NEW r, NEW fault
  PROVE  /\ Judge(p, settings, dir, r, fault) \in {"DUNNO", "RAISE"} \cup Rejections
         /\ apply_plugin(Judge(p, settings, dir, r, fault)) \in {"DUNNO"} \cup Rejections
<1> DEFINE Fits(q) == Judge(q, settings, dir, r, fault) \in {"DUNNO", "RAISE"} \cup Rejections
<1>2. /\ Fits("reject_null_sender") /\ Fits("reject_to_hostname") /\ Fits("wblist_rdns")
      /\ Fits("sql_force_change_password") /\ Fits("ldap_force_change_password")
  <2>1. reject_null_sender(r) \in {"DUNNO", "reject_null_sender"}
    BY DEF reject_null_sender
  <2>2. reject_to_hostname(dir, r) \in {"DUNNO", "reject_not_authorized"}
    BY DEF reject_to_hostname
  <2>3. wblist_rdns(dir, r, fault) \in {"DUNNO", "RAISE", "reject_blacklisted"}
    BY Zenon DEF wblist_rdns
  <2>4. force_change_password(settings, dir, r, fault) \in {"DUNNO", "reject_change_password"}
    BY DEF force_change_password
  <2> QED
    BY <2>1, <2>2, <2>3, <2>4, JudgeOf DEF Rejections
<1>3. /\ Fits("reject_sender_login_mismatch") /\ Fits("throttle")
      /\ Fits("sql_alias_access_policy") /\ Fits("sql_ml_access_policy")
      /\ Fits("ldap_maillist_access_policy")
  BY JudgeOf, LoginAnswers, ListAnswers DEF Rejections
<1>1. Fits(p)
  <2> HIDE DEF Fits
  <2> QED
    BY <1>2, <1>3 DEF PluginsOf
<1> QED
  BY <1>1 DEF apply_plugin

-----------------------------------------------------------------------------
(* The inductive invariant                                                 *)

Loaded == load_enabled_plugins(world.listed)

\* The request reached a plugin that refuses it when all its queries succeed.
Refuses(p) ==
  /\ req.state \in TargetStates(p)
  /\ apply_plugin(Judge(p, world.settings, world.dir, req, "none")) # "DUNNO"

\* Among the first plugins none has refused but for a failed query.
NoneRefuses(n) == \A i \in 1..n : Loaded[i] \in faulted \/ ~Refuses(Loaded[i])

\* The k-th plugin gave the answer.
DecidedBy(k) ==
  /\ k > 0 /\ by = Loaded[k] /\ NoneRefuses(k - 1)
  /\ req.state \in TargetStates(by)
  /\ \E fault \in {"none", "account", "api", "domain", "search"} :
       /\ verdict = apply_plugin(Judge(by, world.settings, world.dir, req, fault))
       /\ fault = "none" \/ by \in faulted

\* The first k plugins were asked, and what they said.
AskedTo(k) ==
  /\ plugins = SubSeq(Loaded, k + 1, Len(Loaded))
  /\ \/ verdict = none /\ by = none /\ NoneRefuses(k)
     \/ verdict = "DUNNO" /\ by = none /\ k = Len(Loaded) /\ NoneRefuses(k)
     \/ verdict \in Rejections /\ DecidedBy(k)

OrderInv ==
  /\ world \in Worlds /\ req \in Requests \cup {none}
  /\ faulted \subseteq ToSet(world.listed)
  /\ req = none => plugins = <<>> /\ verdict = none /\ by = none /\ faulted = {}
  /\ req # none => \E k \in 0..Len(Loaded) : AskedTo(k)

\* What is loaded, for the world at hand.
LEMMA LoadedFacts ==
  ASSUME world \in Worlds
  PROVE  /\ Loaded \in Seq(STRING) /\ Len(Loaded) \in Nat
         /\ \A n \in 1..Len(Loaded) : /\ Loaded[n] \in ToSet(world.listed) \cap Files
                                      /\ Loaded[n] \in PluginsOf(world.dir.backend)
         /\ \A p \in ToSet(world.listed) \cap Files : \E n \in 1..Len(Loaded) : Loaded[n] = p
         /\ \A m, n \in 1..Len(Loaded) : m < n => Priority(Loaded[m]) >= Priority(Loaded[n])
<1>1. world.listed \in Seq(STRING) /\ ToSet(world.listed) \cap Files \subseteq PluginsOf(world.dir.backend)
  BY DispatchAssumption
<1>2. /\ Loaded \in Seq(STRING)
      /\ \A n \in 1..Len(Loaded) : Loaded[n] \in ToSet(world.listed) \cap Files
      /\ \A p \in ToSet(world.listed) \cap Files : \E n \in 1..Len(Loaded) : Loaded[n] = p
      /\ \A m, n \in 1..Len(Loaded) : m < n => Priority(Loaded[m]) >= Priority(Loaded[n])
  BY <1>1, Loading DEF Loaded
<1> QED
  BY <1>1, <1>2

\* A query that fails is one of those the code has.
LEMMA FaultNames == \A p : Faults(p) \subseteq {"none", "account", "api", "domain", "search"}
BY DEF Faults

\* Before a request comes nothing is asked.
LEMMA OrderInit == Init => OrderInv
BY DEF Init, OrderInv

\* handle_data begins with the first plugin.
LEMMA ReceiveOrder == OrderInv /\ Receive => OrderInv'
<1> SUFFICES ASSUME OrderInv, Receive PROVE OrderInv'
  OBVIOUS
<1>1. /\ world' = world /\ verdict' = none /\ by' = none /\ faulted' = {}
      /\ req' \in Requests /\ plugins' = Loaded /\ world \in Worlds
  BY DEF OrderInv, Receive, Loaded
<1>2. Loaded \in Seq(STRING) /\ Len(Loaded) \in Nat
  BY <1>1, LoadedFacts
<1>3. Loaded = SubSeq(Loaded, 0 + 1, Len(Loaded)) /\ 0 \in 0..Len(Loaded)
  BY <1>2
<1>4. Loaded' = Loaded
  BY <1>1 DEF Loaded
<1>5. NoneRefuses(0)'
  BY DEF NoneRefuses
<1>6. AskedTo(0)'
  BY <1>1, <1>3, <1>4, <1>5 DEF AskedTo
<1>7. req' # none
  BY <1>1, DispatchAssumption
<1> QED
  BY <1>1, <1>3, <1>4, <1>6, <1>7 DEF OrderInv

\* The plugin at the head is the next of those loaded.
LEMMA NextPlugin ==
  ASSUME OrderInv, req # none, verdict = none, plugins # <<>>
  PROVE  \E k \in 1..Len(Loaded) :
           /\ Head(plugins) = Loaded[k] /\ Tail(plugins) = SubSeq(Loaded, k + 1, Len(Loaded))
           /\ by = none /\ NoneRefuses(k - 1)
<1>1. PICK n \in 0..Len(Loaded) : AskedTo(n)
  BY DEF OrderInv
<1>2. Loaded \in Seq(STRING) /\ Len(Loaded) \in Nat
  BY LoadedFacts DEF OrderInv
<1>3. /\ plugins = SubSeq(Loaded, n + 1, Len(Loaded))
      /\ by = none /\ NoneRefuses(n)
  BY <1>1, DispatchAssumption DEF AskedTo
<1>4. /\ n + 1 \in 1..Len(Loaded) /\ Head(plugins) = Loaded[n + 1]
      /\ Tail(plugins) = SubSeq(Loaded, (n + 1) + 1, Len(Loaded))
  BY <1>2, <1>3, Rest
<1>5. (n + 1) - 1 = n
  OBVIOUS
<1> QED
  BY <1>3, <1>4, <1>5

\* A plugin of another protocol state is passed over.
LEMMA SkipOrder == OrderInv /\ Skip => OrderInv'
<1> SUFFICES ASSUME OrderInv, Skip PROVE OrderInv'
  OBVIOUS
<1>1. /\ world' = world /\ req' = req /\ verdict' = verdict /\ by' = by /\ faulted' = faulted
      /\ verdict = none /\ req # none /\ plugins # <<>> /\ plugins' = Tail(plugins)
      /\ req.state \notin TargetStates(Head(plugins))
  BY DEF Skip
<1>2. PICK k \in 1..Len(Loaded) :
        /\ Head(plugins) = Loaded[k] /\ Tail(plugins) = SubSeq(Loaded, k + 1, Len(Loaded))
        /\ by = none /\ NoneRefuses(k - 1)
  BY <1>1, NextPlugin
<1>3. Loaded' = Loaded /\ Len(Loaded) \in Nat
  BY <1>1, LoadedFacts DEF Loaded, OrderInv
<1>4. ~Refuses(Loaded[k])
  BY <1>1, <1>2 DEF Refuses
<1>5. NoneRefuses(k)
  BY <1>2, <1>4 DEF NoneRefuses
<1>6. NoneRefuses(k)' <=> NoneRefuses(k)
  BY <1>1, <1>3 DEF NoneRefuses, Refuses
<1>7. AskedTo(k)'
  BY <1>1, <1>2, <1>3, <1>5, <1>6 DEF AskedTo
<1>8. k \in 0..Len(Loaded)
  BY <1>3
<1> QED
  BY <1>1, <1>3, <1>7, <1>8 DEF OrderInv

\* A plugin is asked, and its answer ends the loop unless it is DUNNO (apply_plugin).
LEMMA ApplyOrder == OrderInv /\ Apply => OrderInv'
<1> SUFFICES ASSUME OrderInv, Apply PROVE OrderInv'
  OBVIOUS
<1>1. /\ world' = world /\ req' = req
      /\ verdict = none /\ req # none /\ plugins # <<>> /\ plugins' = Tail(plugins)
      /\ req.state \in TargetStates(Head(plugins))
  BY DEF Apply
<1>2. PICK k \in 1..Len(Loaded) :
        /\ Head(plugins) = Loaded[k] /\ Tail(plugins) = SubSeq(Loaded, k + 1, Len(Loaded))
        /\ by = none /\ NoneRefuses(k - 1)
  BY <1>1, NextPlugin
<1> DEFINE p == Loaded[k]
           Answer(fault) == apply_plugin(Judge(p, world.settings, world.dir, req, fault))
<1>3. PICK fault \in Faults(p) :
        /\ IF Answer(fault) = "DUNNO" THEN UNCHANGED <<verdict, by>>
                                      ELSE verdict' = Answer(fault) /\ by' = p
        /\ faulted' = IF fault = "none" THEN faulted ELSE faulted \cup {p}
  <2>1. PICK fault \in Faults(Head(plugins)) :
          /\ IF apply_plugin(Judge(Head(plugins), world.settings, world.dir, req, fault)) = "DUNNO"
               THEN UNCHANGED <<verdict, by>>
               ELSE /\ verdict' = apply_plugin(Judge(Head(plugins), world.settings, world.dir, req, fault))
                    /\ by' = Head(plugins)
          /\ faulted' = IF fault = "none" THEN faulted ELSE faulted \cup {Head(plugins)}
    BY Zenon DEF Apply
  <2>2. Head(plugins) = p
    BY <1>2
  <2> HIDE DEF p
  <2> QED
    BY <2>1, <2>2
<1>4. Loaded' = Loaded /\ Len(Loaded) \in Nat /\ p \in ToSet(world.listed)
      /\ p \in PluginsOf(world.dir.backend)
  BY <1>1, LoadedFacts DEF Loaded, OrderInv
<1>5. faulted \subseteq faulted' /\ faulted' \subseteq ToSet(world.listed)
  BY <1>3, <1>4 DEF OrderInv
<1>6. k \in 0..Len(Loaded) /\ k \in Nat /\ k > 0
  BY <1>4
<1>7. \A q : Refuses(q)' <=> Refuses(q)
  BY <1>1 DEF Refuses
<1>8. NoneRefuses(k - 1)'
  BY <1>2, <1>4, <1>5, <1>7 DEF NoneRefuses
<1>9. CASE Answer(fault) = "DUNNO"
  <2>1. verdict' = none /\ by' = none
    BY <1>1, <1>2, <1>3, <1>9
  <2>2. p \in faulted' \/ ~Refuses(p)
    BY <1>3, <1>9 DEF Refuses
  <2>3. NoneRefuses(k)'
    <3> SUFFICES ASSUME NEW i \in 1..k PROVE Loaded[i] \in faulted' \/ ~Refuses(Loaded[i])
      BY <1>4, <1>7 DEF NoneRefuses
    <3>1. CASE i = k
      BY <2>2, <3>1
    <3>2. CASE i # k
      BY <1>4, <1>6, <1>7, <1>8, <3>2 DEF NoneRefuses
    <3> QED
      BY <3>1, <3>2
  <2>4. AskedTo(k)'
    BY <1>1, <1>2, <1>4, <2>1, <2>3 DEF AskedTo
  <2> QED
    BY <1>1, <1>4, <1>5, <1>6, <2>4 DEF OrderInv
<1>10. CASE Answer(fault) # "DUNNO"
  <2>1. verdict' = Answer(fault) /\ by' = p
    BY <1>3, <1>10
  <2>2. verdict' \in Rejections
    BY <1>4, <1>10, <2>1, Answers
  <2>3. fault \in {"none", "account", "api", "domain", "search"}
    BY FaultNames
  <2>4. fault = "none" \/ p \in faulted'
    BY <1>3
  <2>5. verdict' = apply_plugin(Judge(by', world.settings', world.dir', req', fault))
    BY <1>1, <2>1
  <2>6. DecidedBy(k)'
    <3> HIDE DEF p
    <3>1. p = Loaded'[k] /\ req'.state \in TargetStates(by')
      BY <1>1, <1>2, <1>4, <2>1 DEF p
    <3> QED
      BY <1>6, <1>8, <2>1, <2>3, <2>4, <2>5, <3>1 DEF DecidedBy
  <2>7. AskedTo(k)'
    BY <1>1, <1>2, <1>4, <2>2, <2>6 DEF AskedTo
  <2> QED
    BY <1>1, <1>4, <1>5, <1>6, <2>7 DEF OrderInv
<1> QED
  BY <1>9, <1>10

\* When no plugin is left, the default action is given.
LEMMA AgreeOrder == OrderInv /\ Agree => OrderInv'
<1> SUFFICES ASSUME OrderInv, Agree PROVE OrderInv'
  OBVIOUS
<1>1. /\ world' = world /\ req' = req /\ plugins' = plugins /\ by' = by /\ faulted' = faulted
      /\ verdict = none /\ req # none /\ plugins = <<>> /\ verdict' = "DUNNO"
  BY DEF Agree
<1>2. PICK k \in 0..Len(Loaded) : AskedTo(k)
  BY <1>1 DEF OrderInv
<1>3. Loaded \in Seq(STRING) /\ Loaded' = Loaded
  BY <1>1, LoadedFacts DEF OrderInv, Loaded
<1>4. plugins = SubSeq(Loaded, k + 1, Len(Loaded)) /\ by = none /\ NoneRefuses(k)
  BY <1>1, <1>2, DispatchAssumption DEF AskedTo
<1>5. k = Len(Loaded)
  BY <1>1, <1>3, <1>4, Rest
<1>6. NoneRefuses(k)' <=> NoneRefuses(k)
  BY <1>1, <1>3 DEF NoneRefuses, Refuses
<1>7. AskedTo(k)'
  BY <1>1, <1>3, <1>4, <1>5, <1>6 DEF AskedTo
<1> QED
  BY <1>1, <1>3, <1>7 DEF OrderInv

\* The invariant is kept.
LEMMA OrderStep == OrderInv /\ [Next]_vars => OrderInv'
<1> SUFFICES ASSUME OrderInv, [Next]_vars PROVE OrderInv'
  OBVIOUS
<1>1. CASE UNCHANGED vars
  <2>1. /\ world' = world /\ req' = req /\ plugins' = plugins
        /\ verdict' = verdict /\ by' = by /\ faulted' = faulted
    BY <1>1 DEF vars
  <2>2. Loaded' = Loaded
    BY <2>1 DEF Loaded
  <2>3. \A n : (NoneRefuses(n)' <=> NoneRefuses(n)) /\ (DecidedBy(n)' <=> DecidedBy(n))
    BY <2>1, <2>2 DEF DecidedBy, NoneRefuses, Refuses
  <2>4. \A n : AskedTo(n)' <=> AskedTo(n)
    BY <2>1, <2>2, <2>3 DEF AskedTo
  <2> QED
    BY <2>1, <2>2, <2>4 DEF OrderInv
<1> QED
  BY <1>1, ReceiveOrder, SkipOrder, ApplyOrder, AgreeOrder DEF Next

-----------------------------------------------------------------------------
(* The order of plugins                                                    *)

\* A request for which there is an answer: none of the plugins refused it, or one did
\* after those before it had not.
LEMMA Answered ==
  ASSUME OrderInv, verdict # none
  PROVE  /\ req \in Requests /\ req # none
         /\ \/ verdict = "DUNNO" /\ by = none /\ NoneRefuses(Len(Loaded))
            \/ verdict \in Rejections /\ \E k \in 1..Len(Loaded) : DecidedBy(k)
<1>1. req \in Requests /\ req # none
  BY DEF OrderInv
<1>2. PICK k \in 0..Len(Loaded) : AskedTo(k)
  BY <1>1 DEF OrderInv
<1>3. Len(Loaded) \in Nat
  BY LoadedFacts DEF OrderInv
<1> QED
  BY <1>1, <1>2, <1>3 DEF AskedTo, DecidedBy

LEMMA TypeFromOrder == OrderInv => TypeOK
<1> SUFFICES ASSUME OrderInv PROVE TypeOK
  OBVIOUS
<1>1. CASE req = none
  BY <1>1 DEF OrderInv, TypeOK
<1>2. CASE req # none
  <2>1. PICK k \in 0..Len(Loaded) : AskedTo(k)
    BY <1>2 DEF OrderInv
  <2>2. \A n \in 1..Len(Loaded) : Loaded[n] \in Files /\ Len(Loaded) \in Nat
    BY LoadedFacts DEF OrderInv
  <2>3. verdict \in Rejections => by \in Files
    BY <2>1, <2>2, DispatchAssumption DEF AskedTo, DecidedBy, Rejections
  <2>4. verdict \in {none, "DUNNO"} \cup Rejections
    BY <2>1 DEF AskedTo
  <2>5. by = none <=> verdict \in {none, "DUNNO"}
    BY <2>1, <2>3, DispatchAssumption DEF AskedTo, Rejections
  <2>6. \E n \in 0..Len(load_enabled_plugins(world.listed)) :
          plugins = SubSeq(load_enabled_plugins(world.listed), n + 1,
                           Len(load_enabled_plugins(world.listed)))
    BY <2>1 DEF AskedTo, Loaded
  <2> QED
    BY <2>4, <2>5, <2>6 DEF OrderInv, TypeOK
<1> QED
  BY <1>1, <1>2

\* Two plugins of one backend have the same priority only if one is for clients that
\* have authenticated and the other for those that have not.
LEMMA Ties ==
  ASSUME NEW backend, NEW p \in PluginsOf(backend), NEW q \in PluginsOf(backend),
         Priority(p) = Priority(q), p # q
  PROVE  {p, q} = {"reject_null_sender", "reject_to_hostname"}
BY PriorityOf DEF PluginsOf

\* Of these two, one agrees.
LEMMA TiesAgree ==
  ASSUME NEW settings, NEW dir, NEW r, NEW fault, NEW other,
         apply_plugin(Judge("reject_null_sender", settings, dir, r, fault)) # "DUNNO"
  PROVE  apply_plugin(Judge("reject_to_hostname", settings, dir, r, other)) = "DUNNO"
<1>1. r.sasl # Null
  BY JudgeOf DEF reject_null_sender, apply_plugin
<1> QED
  BY <1>1, JudgeOf DEF reject_to_hostname, apply_plugin

LEMMA PriorityFromOrder == OrderInv => DecidedByPriority
<1> SUFFICES ASSUME OrderInv, verdict # none, NEW p \in Refusing
             PROVE  by # none /\ (p = by \/ Priority(p) < Priority(by))
  BY TypeFromOrder DEF DecidedByPriority
<1>1. world \in Worlds /\ Len(Loaded) \in Nat
  BY LoadedFacts DEF OrderInv
<1>2. p \in ToSet(world.listed) \cap Files /\ p \notin faulted /\ Refuses(p)
  BY DEF Refusing, Refuses
<1>3. PICK n \in 1..Len(Loaded) : Loaded[n] = p
  BY <1>1, <1>2, LoadedFacts
<1>4. PICK k \in 1..Len(Loaded) : verdict \in Rejections /\ DecidedBy(k)
  BY <1>2, <1>3, Answered DEF NoneRefuses
<1>5. by = Loaded[k] /\ NoneRefuses(k - 1)
  BY <1>4 DEF DecidedBy
<1>6. by # none
  BY <1>1, <1>5, LoadedFacts, DispatchAssumption
<1>7. ~(n < k)
  BY <1>1, <1>2, <1>3, <1>5 DEF NoneRefuses
<1>8. CASE n = k
  BY <1>3, <1>5, <1>6, <1>8
<1>9. CASE k < n
  <2>1. Priority(by) >= Priority(p) /\ Priority(by) \in Nat /\ Priority(p) \in Nat
    BY <1>1, <1>3, <1>5, <1>9, LoadedFacts, PriorityType
  <2>2. by \in PluginsOf(world.dir.backend) /\ p \in PluginsOf(world.dir.backend)
    BY <1>1, <1>3, <1>5, LoadedFacts
  <2>3. CASE Priority(p) = Priority(by) /\ p # by
    <3>1. {p, by} = {"reject_null_sender", "reject_to_hostname"}
      BY <2>2, <2>3, Ties
    <3>2. PICK fault \in {"none", "account", "api", "domain", "search"} :
            verdict = apply_plugin(Judge(by, world.settings, world.dir, req, fault))
      BY <1>4 DEF DecidedBy
    <3>3. apply_plugin(Judge(by, world.settings, world.dir, req, fault)) # "DUNNO"
      BY <1>4, <3>2 DEF Rejections
    <3>4. apply_plugin(Judge(p, world.settings, world.dir, req, "none")) # "DUNNO"
      BY <1>2 DEF Refuses
    <3>5. \/ p = "reject_null_sender" /\ by = "reject_to_hostname"
          \/ by = "reject_null_sender" /\ p = "reject_to_hostname"
      BY <2>3, <3>1
    <3> QED
      BY <3>3, <3>4, <3>5, TiesAgree
  <2> QED
    BY <1>6, <2>1, <2>3
<1> QED
  BY <1>1, <1>7, <1>8, <1>9

LEMMA OrderInvariant == Spec => []OrderInv
BY OrderInit, OrderStep, PTL DEF Spec

\* Every variable has its type, and what is left to apply is always the end of the list.
THEOREM TypeCorrect == Spec => []TypeOK
BY OrderInvariant, TypeFromOrder, PTL

\* In whatever order the plugins are listed, whatever connections are missing and whatever
\* queries fail, the answer is that of the plugin of the highest priority which refuses
\* (modeler.py, utils.py:88-125, 528-597).
THEOREM HighestDecides == Spec => []DecidedByPriority
BY OrderInvariant, PriorityFromOrder, PTL

-----------------------------------------------------------------------------
(* What an answer says of one plugin                                       *)

\* Who was let pass was not refused by a plugin whose queries succeeded.
LEMMA AgreedMeans ==
  ASSUME OrderInv, NEW p \in Files, Agreed(p)
  PROVE  /\ world \in Worlds /\ req \in Requests
         /\ p \in PluginsOf(world.dir.backend)
         /\ Judge(p, world.settings, world.dir, req, "none") \in {"DUNNO", "RAISE"}
<1>1. verdict = "DUNNO" /\ p \in ToSet(world.listed) \cap Files /\ p \notin faulted
      /\ req.state \in TargetStates(p)
  BY DEF Agreed
<1>2. verdict # none /\ verdict \notin Rejections
  BY <1>1, DispatchAssumption DEF Rejections
<1>3. world \in Worlds /\ req \in Requests /\ NoneRefuses(Len(Loaded))
  BY <1>2, Answered DEF OrderInv
<1>4. PICK n \in 1..Len(Loaded) : Loaded[n] = p
  BY <1>1, <1>3, LoadedFacts
<1>5. ~Refuses(p)
  BY <1>1, <1>3, <1>4 DEF NoneRefuses
<1>6. p \in PluginsOf(world.dir.backend)
  BY <1>3, <1>4, LoadedFacts
<1>7. apply_plugin(Judge(p, world.settings, world.dir, req, "none")) = "DUNNO"
  BY <1>1, <1>5 DEF Refuses
<1> QED
  BY <1>3, <1>6, <1>7 DEF apply_plugin

\* Who was refused was so by a plugin's own judgement, if none of its queries failed.
LEMMA RefusedMeans ==
  ASSUME OrderInv, by # none, by \notin faulted
  PROVE  /\ world \in Worlds /\ req \in Requests
         /\ by \in PluginsOf(world.dir.backend)
         /\ Judge(by, world.settings, world.dir, req, "none") \in Rejections
<1>1. world \in Worlds /\ verdict # none
  <2>1. PICK k \in 0..Len(Loaded) : AskedTo(k)
    BY DEF OrderInv
  <2>2. verdict \in Rejections
    BY <2>1 DEF AskedTo
  <2> QED
    BY <2>2, DispatchAssumption DEF OrderInv
<1>2. PICK k \in 1..Len(Loaded) : verdict \in Rejections /\ DecidedBy(k)
  BY <1>1, Answered
<1>3. by = Loaded[k] /\ verdict = apply_plugin(Judge(by, world.settings, world.dir, req, "none"))
  BY <1>2 DEF DecidedBy
<1>4. by \in PluginsOf(world.dir.backend)
  BY <1>1, <1>3, LoadedFacts
<1>5. req \in Requests
  BY <1>1, Answered
<1> QED
  BY <1>1, <1>2, <1>3, <1>4, <1>5, Answers DEF apply_plugin, Rejections

-----------------------------------------------------------------------------
(* The login checks                                                        *)

\* A domain of this host is found to be local, by any of its names, if the queries
\* are answered (is_local_domain).
LEMMA HostedIsLocal ==
  ASSUME NEW w \in Worlds, NEW domain \in Hosted(w.dir)
  PROVE  is_local_domain(w.dir, domain, FALSE, TRUE)
<1> DEFINE kept == {d \in w.dir.domains : d.active /\ ~d.backupmx}
<1>1. IsDomain(domain) /\ w.dir.backend \in {"sql", "ldap"}
  BY DispatchAssumption DEF DomainsFit
<1>2. CASE domain = w.dir.hostname
  BY <1>1, <1>2 DEF is_local_domain
<1>3. CASE \E d \in kept : domain = d.name \/ domain \in AliasDomains(w.dir, d.name)
  <2>1. PICK d \in kept : domain = d.name \/ domain \in AliasDomains(w.dir, d.name)
    BY <1>3
  <2>2. domain = d.name \/ <<domain, d.name>> \in w.dir.alias_domain
    <3>1. CASE domain \in AliasDomains(w.dir, d.name)
      <4>1. PICK pair \in w.dir.alias_domain : pair[2] = d.name /\ domain = pair[1]
        BY <3>1 DEF AliasDomains
      <4>2. pair = <<pair[1], pair[2]>>
        BY DispatchAssumption DEF DomainsFit
      <4> QED
        BY <4>1, <4>2
    <3> QED
      BY <2>1, <3>1
  <2>3. d \in w.dir.domains /\ d.active /\ Backupmx(d, FALSE)
    BY DEF Backupmx
  <2>4. SqlLocalDomain(w.dir, domain, FALSE) /\ LdapLocalDomain(w.dir, domain, FALSE)
    BY <2>2, <2>3 DEF SqlLocalDomain, LdapLocalDomain
  <2> QED
    BY <1>1, <2>4 DEF is_local_domain
<1> QED
  BY <1>2, <1>3 DEF Hosted

LEMMA NoSpoofFromOrder == OrderInv => NoSpoof
<1> SUFFICES ASSUME OrderInv, Agreed("reject_sender_login_mismatch"),
                    req.sasl = Null, req.sender.domain \in Hosted(world.dir)
             PROVE  \/ req.trusted \/ ~world.settings.check_forged_sender
                    \/ world.settings.check_spf /\ req.spf
                    \/ \E a \in world.settings.allowed_forged_senders :
                         /\ a.user \in {<<>>, req.sender.user}
                         /\ a.domain \in {<<>>, req.sender.domain}
  BY DEF NoSpoof
<1>1. "reject_sender_login_mismatch" \in Files
  BY DEF Files, PLUGIN_PRIORITIES
<1>2. /\ world \in Worlds /\ req \in Requests
      /\ reject_sender_login_mismatch(world.settings, world.dir, req, "none") \in {"DUNNO", "RAISE"}
  BY <1>1, AgreedMeans, JudgeOf
<1>3. ~ForgedSender(world.settings, world.dir, req, "none")
  BY <1>2 DEF reject_sender_login_mismatch
<1>4. is_local_domain(world.dir, req.sender.domain, FALSE, TRUE)
  BY <1>2, HostedIsLocal
<1>5. \/ req.trusted \/ ~world.settings.check_forged_sender
      \/ world.settings.check_spf /\ req.spf
      \/ AllowedForged(world.settings, req.sender)
  BY <1>3, <1>4 DEF ForgedSender
<1>6. AllowedForged(world.settings, req.sender) =>
        \E a \in world.settings.allowed_forged_senders :
          a \in {req.sender, Bare(req.sender.domain), Anywhere(req.sender.user)}
  BY DEF AllowedForged
<1>7. \A a \in {req.sender, Bare(req.sender.domain), Anywhere(req.sender.user)} :
        a.user \in {<<>>, req.sender.user} /\ a.domain \in {<<>>, req.sender.domain}
  BY DEF Bare, Anywhere
<1> QED
  BY <1>5, <1>6, <1>7

\* Nobody sends as a domain of this host, by whatever name, who has not authenticated and
\* is not exempt (reject_sender_login_mismatch.py:281-380).
THEOREM NobodySpoofs == Spec => []NoSpoof
BY OrderInvariant, NoSpoofFromOrder, PTL

\* What makes the plugin let an authenticated client use another sender.
Excused(settings, dir, sasl, sender) ==
  \/ ExplicitlyAllowed(settings, sasl, sender)
  \/ /\ settings.is_strict \/ settings.allow_list_member
     /\ IF dir.backend = "sql" THEN SqlAllowed(settings, dir, sasl, sender, "none")
                               ELSE LdapAllowed(settings, dir, sasl, sender, "none")

LEMMA MismatchMeans ==
  ASSUME NEW settings, NEW dir, NEW r, r.sasl # Null, r.sender \notin {Null, r.sasl}
  PROVE  /\ reject_sender_login_mismatch(settings, dir, r, "none")
              = Mismatch(settings, dir, r.sasl, r.sender, "none")
         /\ Excused(settings, dir, r.sasl, r.sender)
              => Mismatch(settings, dir, r.sasl, r.sender, "none") = "DUNNO"
         /\ ~Excused(settings, dir, r.sasl, r.sender)
              => Mismatch(settings, dir, r.sasl, r.sender, "none") = "reject_sender_login_mismatch"
BY DEF reject_sender_login_mismatch, Mismatch, Excused

\* An own alias is a name of the same mailbox.
LEMMA OwnAliasMeans ==
  ASSUME NEW w \in Worlds, NEW sasl, NEW sender, IsEmail(sasl), sasl # sender,
         w.dir.backend = "sql"
  PROVE  OwnAlias(w.dir, sasl, sender) <=> sasl \in MailboxesOf(w.dir, sender)
<1> DEFINE targets == {pair[2] : pair \in {q \in w.dir.alias_domain : q[1] = sender.domain}}
<1>1. MailboxesOf(w.dir, sender) = {u.mail : u \in UserNamed(w.dir, sender)}
                                     \cup {Email(sender.user, d) : d \in targets}
  BY DEF MailboxesOf
<1>2. \A d : d \in targets <=> <<sender.domain, d>> \in w.dir.alias_domain
  <2>1. \A pair \in w.dir.alias_domain : pair = <<pair[1], pair[2]>>
    BY DispatchAssumption DEF DomainsFit
  <2> QED
    BY <2>1
<1>3. sasl = Email(sasl.user, sasl.domain)
  BY DEF IsEmail
<1>4. (\E d \in targets : sasl = Email(sender.user, d))
        <=> <<sender.domain, sasl.domain>> \in w.dir.alias_domain /\ sender.user = sasl.user
  <2> HIDE DEF targets
  <2>1. \A d : Email(sender.user, d).domain = d /\ Email(sender.user, d).user = sender.user
    BY DEF Email
  <2> QED
    BY <1>2, <1>3, <2>1
<1>5. (\E u \in UserNamed(w.dir, sender) : u.mail = sasl)
        <=> \E u \in w.dir.users : sender \in u.names \ {u.mail} /\ u.mail = sasl
  BY DEF UserNamed
<1> HIDE DEF targets
<1> QED
  BY <1>1, <1>4, <1>5 DEF OwnAlias

\* A list under the name that the plugin looks for has the sender's address.
LEMMA RealSenderMeans ==
  ASSUME NEW w \in Worlds, NEW settings, NEW sasl, NEW sender, NEW l \in w.dir.lists,
         w.dir.backend = "sql", l.mail = RealSender(settings, w.dir, sasl, sender),
         sasl \in l.members
  PROVE  l \in ListsOf(w.dir, sasl, sender)
<1>1. l.mail \in l.names
  BY DispatchAssumption DEF ListsFit
<1>2. CASE RealSender(settings, w.dir, sasl, sender) = sender
  BY <1>1, <1>2 DEF ListsOf
<1>3. CASE RealSender(settings, w.dir, sasl, sender) # sender
  <2>1. /\ <<sender.domain, sasl.domain>> \in w.dir.alias_domain
        /\ l.mail = Email(sender.user, sasl.domain)
    BY <1>3 DEF RealSender
  <2>2. l.mail \in MailboxesOf(w.dir, sender)
    BY <2>1 DEF MailboxesOf
  <2> QED
    BY <2>2 DEF ListsOf
<1> QED
  BY <1>2, <1>3

LEMMA EntitledFromOrder == OrderInv => SendsAsEntitled
<1> DEFINE sasl == req.sasl
           sender == req.sender
           settings == world.settings
           dir == world.dir
           Goal == \/ settings.is_strict /\ sasl \in MailboxesOf(dir, sender)
                   \/ \E l \in ListsOf(dir, sasl, sender) :
                        \/ settings.allow_list_member
                        \/ settings.is_strict /\ dir.backend = "ldap" /\ l.mlmmj
                   \/ \E a \in settings.allowed_senders :
                        \/ a \in {sasl, Bare(sasl.domain)}
                        \/ a.domain \in {<<>>, sasl.domain} /\ sender.domain = sasl.domain
<1> SUFFICES ASSUME OrderInv, Agreed("reject_sender_login_mismatch"),
                    sasl # Null, sender \notin {Null, sasl}
             PROVE  Goal
  BY DEF SendsAsEntitled
<1>1. "reject_sender_login_mismatch" \in Files
  BY DEF Files, PLUGIN_PRIORITIES
<1>2. /\ world \in Worlds /\ req \in Requests
      /\ reject_sender_login_mismatch(settings, dir, req, "none") \in {"DUNNO", "RAISE"}
  BY <1>1, AgreedMeans, JudgeOf
<1>3. Excused(settings, dir, sasl, sender)
  BY <1>2, MismatchMeans
<1>4. IsEmail(sasl) /\ dir.backend \in {"sql", "ldap"} /\ \A l \in dir.lists : l.mail \in l.names
  BY <1>2, DispatchAssumption DEF ListsFit
<1> HIDE DEF sasl, sender, settings
<1>5. CASE ExplicitlyAllowed(settings, sasl, sender)
  <2>1. CASE {sasl, Bare(sasl.domain)} \cap settings.allowed_senders # {}
    BY <2>1
  <2>2. CASE /\ {AtDomain(sasl.domain), Catchall} \cap settings.allowed_senders # {}
             /\ sasl.domain = sender.domain
    <3>1. AtDomain(sasl.domain).domain = sasl.domain /\ Catchall.domain = <<>>
      BY DEF AtDomain, Catchall, AtDot
    <3> QED
      BY <2>2, <3>1
  <2> QED
    BY <1>5, <2>1, <2>2 DEF ExplicitlyAllowed
<1>6. CASE dir.backend = "sql" /\ SqlAllowed(settings, dir, sasl, sender, "none")
  <2>1. CASE settings.is_strict /\ OwnAlias(dir, sasl, sender)
    BY <1>2, <1>4, <1>6, <2>1, OwnAliasMeans DEF sasl, sender
  <2>2. CASE /\ settings.allow_list_member
             /\ \E l \in dir.lists : /\ l.mail = RealSender(settings, dir, sasl, sender)
                                     /\ sasl \in l.members
    BY <1>2, <1>6, <2>2, RealSenderMeans
  <2> QED
    BY <1>6, <2>1, <2>2 DEF SqlAllowed, HasSubscriber
<1>7. CASE dir.backend = "ldap" /\ LdapAllowed(settings, dir, sasl, sender, "none")
  <2>1. \A u \in dir.users : sender \in u.names => u.mail \in MailboxesOf(dir, sender)
    BY DEF MailboxesOf, UserNamed
  <2>2. \A u \in UserNamed(dir, sasl) : u.mail \in MailboxesOf(dir, sasl)
    BY DEF MailboxesOf
  <2>3. \A l \in dir.lists :
          sender \in l.names /\ ({sasl} \cup MailboxesOf(dir, sasl)) \cap l.members # {}
            => l \in ListsOf(dir, sasl, sender)
    BY DEF ListsOf
  <2>4. CASE settings.is_strict /\ \E u \in dir.users : u.mail = sasl /\ sender \in u.names \ {u.mail}
    BY <2>1, <2>4
  <2>5. CASE /\ settings.allow_list_member
             /\ \E l \in dir.lists :
                  \/ l.kind = "maillist" /\ l.mail = sender
                       /\ \E u \in UserNamed(dir, sasl) : u.mail \in l.members
                  \/ l.kind = "alias" /\ sender \in l.names /\ sasl \in l.members
    BY <1>4, <2>2, <2>3, <2>5
  <2>6. CASE HasSubscriber(dir, sender, sasl, "none")
    <3>1. PICK l \in dir.lists : l.mlmmj /\ l.mail = sender /\ sasl \in l.members
      BY <2>6 DEF HasSubscriber
    <3>2. l \in ListsOf(dir, sasl, sender)
      BY <1>4, <2>3, <3>1
    <3> QED
      BY <1>3, <1>5, <1>7, <3>1, <3>2 DEF Excused
  <2> QED
    BY <1>7, <2>4, <2>5, <2>6 DEF LdapAllowed
<1> QED
  BY <1>3, <1>4, <1>5, <1>6, <1>7 DEF Excused

\* Who has authenticated sends under the names of its mailbox, those of lists it belongs
\* to and those that the settings allow it, and each only where the setting for it is on
\* (reject_sender_login_mismatch.py:381-560).
THEOREM SendersEntitled == Spec => []SendsAsEntitled
BY OrderInvariant, EntitledFromOrder, PTL

LEMMA OwnNamesFromOrder == OrderInv => OwnNamesAccepted
<1> DEFINE sasl == req.sasl
           sender == req.sender
           settings == world.settings
           dir == world.dir
<1> SUFFICES ASSUME OrderInv, by = "reject_sender_login_mismatch", by \notin faulted, sasl # Null
             PROVE  /\ settings.is_strict => sasl \notin MailboxesOf(dir, sender)
                    /\ settings.allow_list_member =>
                         ~\E l \in dir.lists : l.active /\ l.mail = sender /\ sasl \in l.members
  BY DEF OwnNamesAccepted
<1>1. "reject_sender_login_mismatch" \in Files
  BY DEF Files, PLUGIN_PRIORITIES
<1>2. /\ world \in Worlds /\ req \in Requests
      /\ reject_sender_login_mismatch(settings, dir, req, "none") \in Rejections
  BY <1>1, RefusedMeans, JudgeOf, DispatchAssumption
<1>3. sender \notin {Null, sasl}
  BY <1>2 DEF reject_sender_login_mismatch, Rejections
<1>4. ~Excused(settings, dir, sasl, sender)
  BY <1>2, <1>3, MismatchMeans DEF Rejections
<1>5. /\ IsEmail(sasl) /\ dir.backend \in {"sql", "ldap"}
      /\ \A l \in dir.lists :
           /\ l.mail \in l.names /\ l.kind \in {"alias", "maillist"}
           /\ <<sender.domain, sasl.domain>> \in dir.alias_domain => l.mail # sender
           /\ dir.backend = "sql" /\ l.kind = "maillist" => l.mlmmj
  <2>1. \A l \in dir.lists : \A pair \in dir.alias_domain : pair[1] # l.mail.domain
    BY <1>2, DispatchAssumption DEF ListsFit
  <2> QED
    BY <1>2, <2>1, DispatchAssumption DEF ListsFit
<1>6. \E u \in dir.users : u.mail = sasl /\ u.mail \in u.names
  BY <1>2, DispatchAssumption DEF UsersFit
<1> HIDE DEF sasl, sender, settings
<1>7. CASE dir.backend = "sql"
  <2>1. \/ ~SqlAllowed(settings, dir, sasl, sender, "none")
        \/ ~(settings.is_strict \/ settings.allow_list_member)
    BY <1>4, <1>7 DEF Excused
  <2>2. settings.is_strict => sasl \notin MailboxesOf(dir, sender)
    BY <1>2, <1>3, <1>5, <1>7, <2>1, OwnAliasMeans DEF SqlAllowed, sasl, sender
  <2>3. ASSUME settings.allow_list_member, NEW l \in dir.lists, l.active, l.mail = sender,
               sasl \in l.members
        PROVE  FALSE
    <3>1. l.mail = RealSender(settings, dir, sasl, sender)
      BY <1>5, <2>3 DEF RealSender
    <3>2. CASE l.kind = "alias"
      BY <2>1, <2>3, <3>1, <3>2 DEF SqlAllowed
    <3>3. CASE l.kind = "maillist"
      <4>1. HasSubscriber(dir, RealSender(settings, dir, sasl, sender), sasl, "none")
        BY <1>5, <1>7, <2>3, <3>1, <3>3 DEF HasSubscriber
      <4> QED
        BY <2>1, <2>3, <3>1, <3>3, <4>1 DEF SqlAllowed
    <3> QED
      BY <1>5, <3>2, <3>3
  <2> QED
    BY <2>2, <2>3
<1>8. CASE dir.backend = "ldap"
  <2>1. \/ ~LdapAllowed(settings, dir, sasl, sender, "none")
        \/ ~(settings.is_strict \/ settings.allow_list_member)
    BY <1>4, <1>8 DEF Excused
  <2>2. settings.is_strict => sasl \notin MailboxesOf(dir, sender)
    BY <1>3, <1>8, <2>1 DEF LdapAllowed, MailboxesOf, UserNamed
  <2>3. settings.allow_list_member =>
          ~\E l \in dir.lists : l.active /\ l.mail = sender /\ sasl \in l.members
    BY <1>5, <1>6, <2>1 DEF LdapAllowed, UserNamed
  <2> QED
    BY <2>2, <2>3
<1> QED
  BY <1>5, <1>7, <1>8

\* Nobody is refused the names of the own mailbox, nor those of the own lists, where the
\* settings let them be used (reject_sender_login_mismatch.py:381-560).
THEOREM OwnNamesUsable == Spec => []OwnNamesAccepted
BY OrderInvariant, OwnNamesFromOrder, PTL

-----------------------------------------------------------------------------
(* The lists                                                               *)

LEMMA AliasPairs ==
  ASSUME NEW w \in Worlds
  PROVE  \A d, e : d \in AliasDomains(w.dir, e) <=> <<d, e>> \in w.dir.alias_domain
<1>1. \A pair \in w.dir.alias_domain : pair = <<pair[1], pair[2]>>
  BY DispatchAssumption DEF DomainsFit
<1>2. \A d, e : d \in AliasDomains(w.dir, e) => <<d, e>> \in w.dir.alias_domain
  <2> SUFFICES ASSUME NEW d, NEW e, d \in AliasDomains(w.dir, e)
               PROVE  <<d, e>> \in w.dir.alias_domain
    OBVIOUS
  <2>1. PICK pair \in w.dir.alias_domain : pair[2] = e /\ d = pair[1]
    BY DEF AliasDomains
  <2> QED
    BY <1>1, <2>1
<1>3. \A d, e : <<d, e>> \in w.dir.alias_domain => d \in AliasDomains(w.dir, e)
  <2> SUFFICES ASSUME NEW d, NEW e, <<d, e>> \in w.dir.alias_domain
               PROVE  d \in AliasDomains(w.dir, e)
    OBVIOUS
  <2>1. <<d, e>>[1] = d /\ <<d, e>>[2] = e
    OBVIOUS
  <2> QED
    BY <2>1 DEF AliasDomains
<1> QED
  BY <1>2, <1>3

\* A list of the SQL tables that is addressed has the address, or that of the same user in
\* the domain its domain is an alias of.
LEMMA AddressedMeans ==
  ASSUME NEW w \in Worlds, NEW mail, NEW kind, NEW l \in Addressed(w.dir, mail, kind)
  PROVE  /\ l \in w.dir.lists /\ l.kind = kind /\ mail.domain \in Near(w.dir, l)
         /\ l.mail = mail \/ <<mail.domain, l.mail.domain>> \in w.dir.alias_domain
<1>1. CASE get_access_policy(w.dir, mail, kind) # {}
  BY <1>1 DEF Addressed, get_access_policy, Near
<1>2. CASE get_access_policy(w.dir, mail, kind) = {}
  <2>1. PICK d \in get_alias_target_domain(w.dir, mail.domain) :
          l \in get_access_policy(w.dir, Email(mail.user, d), kind)
    BY <1>2 DEF Addressed
  <2>2. <<mail.domain, d>> \in w.dir.alias_domain
    BY DEF get_alias_target_domain
  <2>3. l \in w.dir.lists /\ l.kind = kind /\ l.mail.domain = d
    BY <2>1 DEF get_access_policy, Email
  <2>4. mail.domain \in AliasDomains(w.dir, d)
    BY <2>2, AliasPairs
  <2> QED
    BY <2>2, <2>3, <2>4 DEF Near
<1> QED
  BY <1>1, <1>2

\* A sender's domain that is an alias of the list's is one of the list's names.
LEMMA SenderAliasNear ==
  ASSUME NEW dir, NEW l, NEW r
  PROVE  SenderAlias(dir, l, r) \subseteq Near(dir, l) /\ SenderAlias(dir, l, r) \subseteq {r.sender.domain}
BY DEF SenderAlias, Near

\* The policies `domain` and `subdomain` let in who is of one of the list's domains.
LEMMA DomainMeans ==
  ASSUME NEW dir, NEW l, NEW r, r.recipient.domain \in Near(dir, l),
         PolicyOf(l) \in {"domain", "subdomain"}, DomainAllows(dir, l, r)
  PROVE  Entitled(dir, l, r.sender)
<1>1. {r.recipient.domain, l.mail.domain} \subseteq Near(dir, l)
  BY DEF Near
<1>2. \/ r.sender.domain \in Near(dir, l)
      \/ PolicyOf(l) = "subdomain" /\ \E e \in Near(dir, l) : IsSubdomain(r.sender.domain, e)
  BY <1>1, SenderAliasNear DEF DomainAllows
<1>3. CASE PolicyOf(l) = "domain"
  BY <1>2, <1>3 DEF Entitled
<1>4. CASE PolicyOf(l) = "subdomain"
  BY <1>2, <1>4 DEF Entitled
<1> QED
  BY <1>3, <1>4

\* Among the members or moderators who are let in is the sender, under some name, or the
\* whole of its domain.
LEMMA MembersMeans ==
  ASSUME NEW dir, NEW l, NEW r, NEW restricted, r.recipient.domain \in Near(dir, l),
         MembersAllow(dir, l, r, restricted)
  PROVE  \/ \E m \in restricted : Same(dir, l, r.sender, m)
         \/ AtDomain(r.sender.domain) \in restricted
<1>1. CASE r.sender \in restricted
  BY <1>1 DEF Same
<1>2. CASE is_allowed_alias_domain_user(dir, l, r, restricted)
  <2>1. r.sender.domain \in Near(dir, l)
    BY <1>2, SenderAliasNear DEF is_allowed_alias_domain_user
  <2>2. \/ r.sender \in restricted
        \/ Email(r.sender.user, r.recipient.domain) \in restricted
    BY <1>2 DEF is_allowed_alias_domain_user
  <2>3. Same(dir, l, r.sender, Email(r.sender.user, r.recipient.domain))
    BY <2>1 DEF Same, Email
  <2> QED
    BY <1>1, <2>2, <2>3
<1> QED
  BY <1>1, <1>2 DEF MembersAllow

\* A domain is no member, and a domain as moderator makes its users moderators.
LEMMA MembersEntitled ==
  ASSUME NEW w \in Worlds, NEW l \in w.dir.lists, NEW r, r.recipient.domain \in Near(w.dir, l)
  PROVE  /\ MembersAllow(w.dir, l, r, l.members) => IsMember(w.dir, l, r.sender)
         /\ MembersAllow(w.dir, l, r, l.moderators) => IsModerator(w.dir, l, r.sender)
         /\ MembersAllow(w.dir, l, r, l.members \cup l.moderators) =>
              IsMember(w.dir, l, r.sender) \/ IsModerator(w.dir, l, r.sender)
<1>1. AtDomain(r.sender.domain) \notin l.members
  <2>1. \A m \in l.members : IsEmail(m)
    BY DispatchAssumption DEF ListsFit
  <2>2. ~IsEmail(AtDomain(r.sender.domain))
    BY DEF IsEmail, AtDomain, Email
  <2> QED
    BY <2>1, <2>2
<1>2. AtDomain(r.sender.domain).form = "@domain" /\ AtDomain(r.sender.domain).domain = r.sender.domain
  BY DEF AtDomain
<1>3. AtDomain(r.sender.domain) \in l.moderators => IsModerator(w.dir, l, r.sender)
  BY <1>2 DEF IsModerator
<1>4. /\ (\E m \in l.members : Same(w.dir, l, r.sender, m)) => IsMember(w.dir, l, r.sender)
      /\ (\E m \in l.moderators : Same(w.dir, l, r.sender, m)) => IsModerator(w.dir, l, r.sender)
  BY DEF IsMember, IsModerator
<1>5. MembersAllow(w.dir, l, r, l.members) => IsMember(w.dir, l, r.sender)
  BY <1>1, <1>4, MembersMeans
<1>6. MembersAllow(w.dir, l, r, l.moderators) => IsModerator(w.dir, l, r.sender)
  BY <1>3, <1>4, MembersMeans
<1>7. ASSUME MembersAllow(w.dir, l, r, l.members \cup l.moderators)
      PROVE  IsMember(w.dir, l, r.sender) \/ IsModerator(w.dir, l, r.sender)
  <2>1. \/ \E m \in l.members \cup l.moderators : Same(w.dir, l, r.sender, m)
        \/ AtDomain(r.sender.domain) \in l.members \cup l.moderators
    BY <1>7, MembersMeans
  <2> QED
    BY <1>1, <1>3, <1>4, <2>1
<1> QED
  BY <1>5, <1>6, <1>7

\* sql_alias_access_policy.py
LEMMA AliasEntitled ==
  ASSUME NEW w \in Worlds, NEW l \in w.dir.lists, NEW r, r.recipient.domain \in Near(w.dir, l),
         SqlAliasAllows(w.dir, l, r)
  PROVE  Entitled(w.dir, l, r.sender)
<1>1. CASE PolicyOf(l) \in {"domain", "subdomain"}
  BY <1>1, DomainMeans DEF SqlAliasAllows
<1>2. CASE PolicyOf(l) = "membersonly"
  BY <1>2, MembersEntitled DEF SqlAliasAllows, Entitled
<1>3. CASE PolicyOf(l) = "moderatorsonly"
  BY <1>3, MembersEntitled DEF SqlAliasAllows, Entitled
<1>4. CASE PolicyOf(l) = "membersandmoderatorsonly"
  BY <1>4, MembersEntitled DEF SqlAliasAllows, Entitled
<1>5. CASE PolicyOf(l) \notin {"domain", "subdomain", "membersonly", "moderatorsonly",
                               "membersandmoderatorsonly"}
  BY <1>5 DEF Entitled
<1> QED
  BY <1>1, <1>2, <1>3, <1>4, <1>5

\* sql_ml_access_policy.py: the moderators it looks for under the address as it was written
\* are those of the list.
LEMMA MaillistEntitled ==
  ASSUME NEW w \in Worlds, w.dir.backend = "sql", NEW r,
         NEW l \in Addressed(w.dir, r.recipient, "maillist"), SqlMaillistAllows(w.dir, l, r)
  PROVE  \/ Entitled(w.dir, l, r.sender)
         \/ IsModerator(w.dir, l, r.sender)
         \/ LeftToMlmmj(l)
<1>1. /\ l \in w.dir.lists /\ l.kind = "maillist" /\ r.recipient.domain \in Near(w.dir, l)
      /\ l.mail = r.recipient \/ <<r.recipient.domain, l.mail.domain>> \in w.dir.alias_domain
  BY AddressedMeans
<1>2. CASE PolicyOf(l) \in {"domain", "subdomain"} /\ DomainAllows(w.dir, l, r)
  BY <1>1, <1>2, DomainMeans
<1>3. ASSUME NEW k \in w.dir.lists,
             k.mail \in {r.recipient}
                          \cup {Email(r.recipient.user, d) : d \in SenderAlias(w.dir, l, r)},
             r.sender \in k.moderators \cup k.owners
      PROVE  IsModerator(w.dir, l, r.sender)
  <2>1. \A d : <<k.mail.domain, d>> \notin w.dir.alias_domain
    <3>1. \A pair \in w.dir.alias_domain : pair[1] # k.mail.domain
      BY DispatchAssumption DEF ListsFit
    <3> QED
      BY <3>1
  <2>2. k.mail = r.recipient
    <3>1. \A d \in SenderAlias(w.dir, l, r) : <<d, l.mail.domain>> \in w.dir.alias_domain
      BY AliasPairs DEF SenderAlias
    <3>2. \A d : Email(r.recipient.user, d).domain = d
      BY DEF Email
    <3> QED
      BY <1>3, <2>1, <3>1, <3>2
  <2>3. l.mail = k.mail
    BY <1>1, <2>1, <2>2
  <2>4. k = l
    <3>1. k.mail \in k.names /\ l.mail \in l.names /\ (k.names \cap l.names # {} => k = l)
      BY <1>1, DispatchAssumption DEF ListsFit
    <3> QED
      BY <2>3, <3>1
  <2> QED
    BY <1>3, <2>4 DEF IsModerator, Same
<1>4. CASE PolicyOf(l) \in {"membersonly", "moderatorsonly", "membersandmoderatorsonly"}
  BY <1>1, <1>4, DispatchAssumption DEF ListsFit, LeftToMlmmj
<1>5. CASE PolicyOf(l) \notin {"domain", "subdomain", "membersonly", "moderatorsonly",
                               "membersandmoderatorsonly"}
  BY <1>5 DEF Entitled
<1> QED
  BY <1>2, <1>3, <1>4, <1>5 DEF SqlMaillistAllows

\* The names that LDAP knows a domain under are those of the list's domain.
LEMMA PrimaryMeans ==
  ASSUME NEW w \in Worlds, NEW domain, HasTree(w.dir, domain)
  PROVE  get_primary_and_alias_domains(w.dir, domain) = {domain} \cup AliasDomains(w.dir, domain)
<1>1. PICK d \in w.dir.domains : d.name = domain
  BY DEF HasTree
<1>2. \A e : <<domain, e>> \notin w.dir.alias_domain
  <2>1. \A pair \in w.dir.alias_domain : pair[1] # domain
    BY <1>1, DispatchAssumption DEF DomainsFit
  <2> QED
    BY <2>1
<1>3. {e \in w.dir.domains : e.name = domain \/ <<domain, e.name>> \in w.dir.alias_domain}
        = {e \in w.dir.domains : e.name = domain}
  BY <1>2
<1> QED
  BY <1>1, <1>3 DEF get_primary_and_alias_domains

\* A list addressed in a domain that has a tree is of that domain.
LEMMA TreeOfList ==
  ASSUME NEW w \in Worlds, NEW l \in w.dir.lists, NEW mail \in l.names, HasTree(w.dir, mail.domain)
  PROVE  /\ l.mail.domain = mail.domain
         /\ get_primary_and_alias_domains(w.dir, mail.domain) = Near(w.dir, l)
<1>1. mail.domain \in Near(w.dir, l)
  BY DispatchAssumption DEF ListsFit
<1>2. mail.domain \notin AliasDomains(w.dir, l.mail.domain)
  <2>1. PICK d \in w.dir.domains : d.name = mail.domain
    BY DEF HasTree
  <2>2. \A pair \in w.dir.alias_domain : pair[1] # mail.domain
    BY <2>1, DispatchAssumption DEF DomainsFit
  <2> QED
    BY <2>2 DEF AliasDomains
<1>3. l.mail.domain = mail.domain
  BY <1>1, <1>2 DEF Near
<1> QED
  BY <1>3, PrimaryMeans DEF Near

\* The users that the loop collects are entries of listAllowedUser.
LEMMA CollectedListed ==
  ASSUME NEW l, NEW domain
  PROVE  Collected(l, domain) \subseteq ToSet(l.allowed)
BY DEF Collected, ToSet

\* Who is a moderator under another address of the same mailbox.
LEMMA NamesModerate ==
  ASSUME NEW dir, NEW l, NEW domain, NEW sender, NEW mails, mails \subseteq ToSet(l.allowed),
         sender \in NamesOf(dir, domain, mails)
  PROVE  IsModerator(dir, l, sender)
<1>1. PICK u \in dir.users : u.names \cap mails # {} /\ sender \in u.names
  BY DEF NamesOf
<1>2. PICK m \in mails : m \in u.names
  BY <1>1
<1>3. Same(dir, l, sender, m)
  BY <1>1, <1>2 DEF Same
<1> QED
  BY <1>2, <1>3 DEF IsModerator

\* Who listAllowedUser names, or a domain of whom.
LEMMA AllowedModerate ==
  ASSUME NEW dir, NEW l, NEW sender, ExplicitlyAllowedToWrite(l, sender)
  PROVE  IsModerator(dir, l, sender)
<1>1. PICK m \in ToSet(l.allowed) :
        m \in {sender, Bare(sender.domain), AtDomain(sender.domain)}
                \cup {AtDot(d) : d \in Parents(sender.domain)}
  BY DEF ExplicitlyAllowedToWrite
<1>2. m = sender => Same(dir, l, sender, m)
  BY DEF Same
<1>3. m \in {Bare(sender.domain), AtDomain(sender.domain)} =>
        m.form \in {"@domain", "domain"} /\ m.domain = sender.domain
  BY DEF Bare, AtDomain
<1>4. m \in {AtDot(d) : d \in Parents(sender.domain)} =>
        m.form = "@.domain" /\ m.domain \in Parents(sender.domain)
  BY DEF AtDot
<1> QED
  BY <1>1, <1>2, <1>3, <1>4 DEF IsModerator

\* A member found by memberOfGroup writes under any name of its mailbox.
LEMMA MemberNamesMean ==
  ASSUME NEW w \in Worlds, NEW l, NEW r, r.sender \in MemberNames(w.dir, l, r)
  PROVE  IsMember(w.dir, l, r.sender)
<1>1. PICK u \in w.dir.users : u.mail \in l.members /\ r.sender \in u.names
  BY DEF MemberNames
<1>2. u.mail \in u.names
  BY DispatchAssumption DEF UsersFit
<1>3. Same(w.dir, l, r.sender, u.mail)
  BY <1>1, <1>2 DEF Same
<1> QED
  BY <1>1, <1>3 DEF IsMember

\* The policies of the LDAP plugin, when the list is addressed in its own domain.
LEMMA PolicyEntitled ==
  ASSUME NEW w \in Worlds, NEW l \in w.dir.lists, NEW r, r.recipient \in l.names,
         HasTree(w.dir, r.recipient.domain),
         LdapPolicy(w.dir, l, r, "none") \in {"DUNNO", "RAISE"}
  PROVE  Entitled(w.dir, l, r.sender)
<1> DEFINE valid == get_primary_and_alias_domains(w.dir, r.recipient.domain)
<1>1. valid = Near(w.dir, l)
  BY TreeOfList
<1>2. LdapPolicy(w.dir, l, r, "none") # "reject_not_authorized"
  OBVIOUS
<1> HIDE DEF valid
<1>3. CASE PolicyOf(l) = "domain"
  <2>1. r.sender.domain \in valid
    BY <1>2, <1>3 DEF LdapPolicy, Authorized, valid
  <2> QED
    BY <1>1, <1>2, <1>3, <2>1 DEF Entitled
<1>4. CASE PolicyOf(l) = "subdomain"
  <2>1. \E d \in valid : r.sender.domain = d \/ IsSubdomain(r.sender.domain, d)
    BY <1>2, <1>4 DEF LdapPolicy, Authorized, valid
  <2> QED
    BY <1>1, <1>4, <2>1 DEF Entitled
<1>5. CASE PolicyOf(l) = "membersonly"
  <2>1. r.sender \in MemberNames(w.dir, l, r)
    BY <1>2, <1>5 DEF LdapPolicy, Authorized
  <2> QED
    BY <1>5, <2>1, MemberNamesMean DEF Entitled
<1>6. CASE PolicyOf(l) = "membersandmoderatorsonly"
  <2>1. r.sender \in MemberNames(w.dir, l, r) \/ r.sender \in l.names
    BY <1>2, <1>6 DEF LdapPolicy, Authorized
  <2> QED
    BY <1>6, <2>1, MemberNamesMean DEF Entitled
<1>7. CASE PolicyOf(l) = "moderatorsonly"
  <2> DEFINE users == Collected(l, r.recipient.domain)
  <2>1. r.sender \in NamesOf(w.dir, r.recipient.domain, users)
    <3> HIDE DEF users
    <3>1. LdapPolicy(w.dir, l, r, "none")
            = IF r.sasl = Null THEN "reject_not_authorized"
              ELSE Authorized(r.sender \in NamesOf(w.dir, r.recipient.domain, users))
      BY <1>7 DEF LdapPolicy, users
    <3> QED
      BY <1>2, <3>1 DEF Authorized
  <2> QED
    BY <1>7, <2>1, CollectedListed, NamesModerate DEF Entitled
<1>8. CASE PolicyOf(l) \notin {"domain", "subdomain", "membersonly", "moderatorsonly",
                               "membersandmoderatorsonly"}
  BY <1>8 DEF Entitled
<1> QED
  BY <1>3, <1>4, <1>5, <1>6, <1>7, <1>8

\* ldap_maillist_access_policy.py
LEMMA LdapEntitled ==
  ASSUME NEW w \in Worlds, NEW l \in w.dir.lists, NEW r, r.recipient \in l.names,
         l.kind = "maillist", r.sasl # r.recipient, HasTree(w.dir, r.recipient.domain),
         ldap_maillist_access_policy(w.dir, r, "none") \in {"DUNNO", "RAISE"}
  PROVE  \/ Entitled(w.dir, l, r.sender)
         \/ IsModerator(w.dir, l, r.sender)
         \/ LeftToMlmmj(l)
<1> DEFINE found == {k \in ListNamed(w.dir, r.recipient) : k.kind = "maillist"}
<1>1. found = {l}
  <2>1. l \in found
    BY DEF ListNamed
  <2>2. \A k \in found : k = l
    BY DispatchAssumption DEF ListNamed, ListsFit
  <2> QED
    BY <2>1, <2>2
<1>2. (CHOOSE k \in found : TRUE) = l
  BY <1>1
<1> HIDE DEF found
<1>3. LdapListVerdict(w.dir, l, r, "none") \in {"DUNNO", "RAISE"}
  BY <1>1, <1>2 DEF ldap_maillist_access_policy, found
<1>4. get_primary_and_alias_domains(w.dir, r.recipient.domain) # {}
  BY TreeOfList DEF Near
<1>5. \/ PolicyOf(l) = "public"
      \/ l.mlmmj /\ PolicyOf(l) \in {"membersonly", "moderatorsonly"}
      \/ r.sender \in l.moderators \cup l.owners
      \/ ExplicitlyAllowedToWrite(l, r.sender)
      \/ LdapPolicy(w.dir, l, r, "none") \in {"DUNNO", "RAISE"}
  BY <1>3, <1>4 DEF LdapListVerdict
<1>6. CASE PolicyOf(l) = "public"
  BY <1>6 DEF Entitled
<1>7. CASE r.sender \in l.moderators \cup l.owners
  BY <1>7 DEF IsModerator, Same
<1> QED
  BY <1>5, <1>6, <1>7, AllowedModerate, PolicyEntitled DEF LeftToMlmmj

LEMMA WritersFromOrder == OrderInv => WritersEntitled
<1> SUFFICES ASSUME OrderInv, req # none, NEW l \in AddressedLists(world.dir, req.recipient),
                    Agreed(GuardOf(world.dir, l))
             PROVE  \/ Entitled(world.dir, l, req.sender)
                    \/ l.kind = "maillist" /\ IsModerator(world.dir, l, req.sender)
                    \/ LeftToMlmmj(l)
                    \/ /\ world.dir.backend = "ldap"
                       /\ ~HasTree(world.dir, req.recipient.domain) \/ req.sasl = req.recipient
  BY DEF WritersEntitled
<1>1. /\ "ldap_maillist_access_policy" \in Files /\ "sql_alias_access_policy" \in Files
      /\ "sql_ml_access_policy" \in Files
  BY DEF Files, PLUGIN_PRIORITIES
<1>2. world \in Worlds /\ world.dir.backend \in {"sql", "ldap"}
  BY DispatchAssumption DEF OrderInv
<1>3. CASE world.dir.backend = "sql" /\ l \in Addressed(world.dir, req.recipient, "alias")
  <2>1. l \in world.dir.lists /\ l.kind = "alias" /\ req.recipient.domain \in Near(world.dir, l)
    BY <1>2, <1>3, AddressedMeans
  <2>2. GuardOf(world.dir, l) = "sql_alias_access_policy"
    BY <1>3, <2>1 DEF GuardOf
  <2>3. sql_alias_access_policy(world.dir, req, "none") \in {"DUNNO", "RAISE"}
    BY <1>1, <2>2, AgreedMeans, JudgeOf
  <2>4. SqlAliasAllows(world.dir, l, req)
    BY <1>3, <2>3 DEF sql_alias_access_policy
  <2> QED
    BY <1>2, <2>1, <2>4, AliasEntitled
<1>4. CASE world.dir.backend = "sql" /\ l \in Addressed(world.dir, req.recipient, "maillist")
  <2>1. l \in world.dir.lists /\ l.kind = "maillist"
    BY <1>2, <1>4, AddressedMeans
  <2>2. GuardOf(world.dir, l) = "sql_ml_access_policy"
    BY <1>4, <2>1 DEF GuardOf
  <2>3. sql_ml_access_policy(world.dir, req, "none") \in {"DUNNO", "RAISE"}
    BY <1>1, <2>2, AgreedMeans, JudgeOf
  <2>4. SqlMaillistAllows(world.dir, l, req)
    BY <1>4, <2>3 DEF sql_ml_access_policy
  <2> QED
    BY <1>2, <1>4, <2>1, <2>4, MaillistEntitled
<1>5. CASE world.dir.backend = "ldap"
  <2>1. l \in world.dir.lists /\ req.recipient \in l.names /\ l.kind = "maillist"
    BY <1>5 DEF AddressedLists, ListNamed
  <2>2. GuardOf(world.dir, l) = "ldap_maillist_access_policy"
    BY <1>5 DEF GuardOf
  <2>3. ldap_maillist_access_policy(world.dir, req, "none") \in {"DUNNO", "RAISE"}
    BY <1>1, <2>2, AgreedMeans, JudgeOf
  <2> QED
    BY <1>2, <1>5, <2>1, <2>3, LdapEntitled
<1> QED
  BY <1>2, <1>3, <1>4, <1>5 DEF AddressedLists

\* Whoever is let write to a list may do so by its policy, under some name of theirs, in
\* either backend (sql_alias_access_policy.py, sql_ml_access_policy.py,
\* ldap_maillist_access_policy.py).
THEOREM OnlyEntitledWrite == Spec => []WritersEntitled
BY OrderInvariant, WritersFromOrder, PTL

\* A list that is addressed by its own name is the only one its plugin judges.
LEMMA OwnNameAlone ==
  ASSUME NEW w \in Worlds, NEW l \in w.dir.lists,
         NEW k \in Addressed(w.dir, l.mail, l.kind)
  PROVE  k = l
<1>1. l \in get_access_policy(w.dir, l.mail, l.kind)
  BY DEF get_access_policy
<1>2. k \in w.dir.lists /\ k.mail = l.mail
  BY <1>1 DEF Addressed, get_access_policy
<1> QED
  BY <1>2, DispatchAssumption DEF ListsFit

\* Who is turned away by the policy of domains is of none of them.
LEMMA DomainUnheard ==
  ASSUME NEW dir, NEW l, NEW r, r.recipient = l.mail, ~DomainAllows(dir, l, r)
  PROVE  /\ PolicyOf(l) = "domain" => r.sender.domain \notin Near(dir, l)
         /\ PolicyOf(l) = "subdomain" => ~IsSubdomain(r.sender.domain, l.mail.domain)
BY DEF DomainAllows, Near, SenderAlias

\* Who is turned away as no member is none under the name in the list's domain either.
LEMMA MembersUnheard ==
  ASSUME NEW dir, NEW l, NEW r, r.recipient = l.mail, NEW restricted,
         ~MembersAllow(dir, l, r, restricted)
  PROVE  ({r.sender} \cup {Email(r.sender.user, l.mail.domain) :
                             d \in {r.sender.domain} \cap AliasDomains(dir, l.mail.domain)})
           \cap restricted = {}
<1>1. r.sender \notin restricted
  BY DEF MembersAllow
<1>2. {r.sender.domain} \cap AliasDomains(dir, l.mail.domain) # {}
        => Email(r.sender.user, l.mail.domain) \notin restricted
  BY DEF MembersAllow, is_allowed_alias_domain_user, SenderAlias
<1> QED
  BY <1>1, <1>2

LEMMA AliasUnheard ==
  ASSUME NEW w \in Worlds, w.dir.backend = "sql", NEW l, NEW r, r.recipient = l.mail,
         ~SqlAliasAllows(w.dir, l, r)
  PROVE  NotHeard(w.dir, l, r.sender)
<1>1. w.dir.backend # "ldap"
  OBVIOUS
<1>2. CASE PolicyOf(l) \in {"domain", "subdomain"}
  BY <1>1, <1>2, DomainUnheard DEF SqlAliasAllows, NotHeard
<1>3. CASE PolicyOf(l) = "membersonly"
  <2>1. ~MembersAllow(w.dir, l, r, l.members)
    BY <1>3 DEF SqlAliasAllows
  <2> QED
    BY <1>1, <1>3, <2>1, MembersUnheard DEF NotHeard
<1>4. CASE PolicyOf(l) = "moderatorsonly"
  <2>1. ~MembersAllow(w.dir, l, r, l.moderators)
    BY <1>4 DEF SqlAliasAllows
  <2> QED
    BY <1>1, <1>4, <2>1, MembersUnheard DEF NotHeard
<1>5. CASE PolicyOf(l) = "membersandmoderatorsonly"
  <2>1. ~MembersAllow(w.dir, l, r, l.members \cup l.moderators)
    BY <1>5 DEF SqlAliasAllows
  <2> QED
    BY <1>1, <1>5, <2>1, MembersUnheard DEF NotHeard
<1> QED
  BY <1>2, <1>3, <1>4, <1>5 DEF SqlAliasAllows

LEMMA MaillistUnheard ==
  ASSUME NEW dir, NEW l, NEW r, r.recipient = l.mail, ~SqlMaillistAllows(dir, l, r)
  PROVE  NotHeard(dir, l, r.sender)
BY DomainUnheard DEF SqlMaillistAllows, NotHeard

\* With LDAP a member is found if its own name is the one in the list's domain.
LEMMA MemberFound ==
  ASSUME NEW w \in Worlds, w.dir.backend = "ldap", NEW l \in w.dir.lists, NEW r,
         r.recipient = l.mail, r.sender \in l.members,
         r.sender = Email(r.sender.user, l.mail.domain)
  PROVE  r.sender \in MemberNames(w.dir, l, r)
<1>1. r.sender.domain = l.mail.domain
  BY DEF Email
<1>2. PICK u \in w.dir.users : u.mail = r.sender
  BY <1>1, DispatchAssumption DEF ListsFit
<1>3. u.mail \in u.names
  BY DispatchAssumption DEF UsersFit
<1> QED
  BY <1>1, <1>2, <1>3 DEF MemberNames

LEMMA LdapUnheard ==
  ASSUME NEW w \in Worlds, w.dir.backend = "ldap", NEW l \in w.dir.lists, l.active, NEW r,
         r.recipient = l.mail,
         ldap_maillist_access_policy(w.dir, r, "none") \in Rejections
  PROVE  NotHeard(w.dir, l, r.sender)
<1> DEFINE found == {k \in ListNamed(w.dir, r.recipient) : k.kind = "maillist"}
           chosen == CHOOSE k \in found : TRUE
           valid == get_primary_and_alias_domains(w.dir, l.mail.domain)
<1>1. found # {} /\ LdapListVerdict(w.dir, chosen, r, "none") \in Rejections
  BY DEF ldap_maillist_access_policy, Rejections
<1>2. chosen = l
  <2>1. chosen \in found
    BY <1>1
  <2>2. chosen \in w.dir.lists /\ l.mail \in chosen.names
    BY <2>1 DEF ListNamed
  <2>3. l.mail \in l.names
    BY DispatchAssumption DEF ListsFit
  <2> HIDE DEF chosen
  <2> QED
    BY <2>2, <2>3, DispatchAssumption DEF ListsFit
<1>3. /\ LdapPolicy(w.dir, l, r, "none") \in Rejections
      /\ valid # {} /\ r.sender \notin l.moderators
  <2> HIDE DEF chosen
  <2> QED
    BY <1>1, <1>2 DEF LdapListVerdict, Rejections
<1>4. HasTree(w.dir, l.mail.domain)
  <2>1. \A pair \in w.dir.alias_domain : pair[1] # l.mail.domain
    BY DispatchAssumption DEF ListsFit
  <2>2. PICK d \in w.dir.domains : d.name = l.mail.domain \/ <<l.mail.domain, d.name>> \in w.dir.alias_domain
    BY <1>3 DEF get_primary_and_alias_domains
  <2> QED
    BY <2>1, <2>2 DEF HasTree
<1>5. valid = Near(w.dir, l)
  BY <1>4, PrimaryMeans DEF Near
<1> HIDE DEF valid
<1>6. LdapPolicy(w.dir, l, r, "none") # "DUNNO" /\ LdapPolicy(w.dir, l, r, "none") # "RAISE"
  BY <1>3 DEF Rejections
<1>7. PolicyOf(l) = "domain" => r.sender.domain \notin Near(w.dir, l)
  BY <1>5, <1>6 DEF LdapPolicy, Authorized, valid
<1>8. PolicyOf(l) = "subdomain" => ~IsSubdomain(r.sender.domain, l.mail.domain)
  <2>1. l.mail.domain \in valid
    BY <1>5 DEF Near
  <2> SUFFICES ASSUME PolicyOf(l) = "subdomain"
               PROVE  ~\E d \in valid : r.sender.domain = d \/ IsSubdomain(r.sender.domain, d)
    BY <2>1
  <2> QED
    BY <1>6 DEF LdapPolicy, Authorized, valid
<1>9. PolicyOf(l) \in {"membersonly", "membersandmoderatorsonly"} =>
        r.sender \notin MemberNames(w.dir, l, r)
  <2>1. PolicyOf(l) = "membersonly" => r.sender \notin MemberNames(w.dir, l, r)
    BY <1>6 DEF LdapPolicy, Authorized
  <2>2. PolicyOf(l) = "membersandmoderatorsonly" => r.sender \notin MemberNames(w.dir, l, r)
    BY <1>6 DEF LdapPolicy, Authorized
  <2> QED
    BY <2>1, <2>2
<1>10. PolicyOf(l) \in {"membersonly", "membersandmoderatorsonly"} =>
         {r.sender} \cap l.members \cap {Email(r.sender.user, l.mail.domain)} = {}
  BY <1>9, MemberFound
<1>11. {r.sender} \cap l.moderators = {}
  BY <1>3
<1> QED
  BY <1>7, <1>8, <1>10, <1>11 DEF NotHeard

LEMMA HeardFromOrder == OrderInv => EntitledHeard
<1> SUFFICES ASSUME OrderInv, req # none, NEW l \in world.dir.lists, l.active,
                    l.mail = req.recipient, by = GuardOf(world.dir, l), by \notin faulted
             PROVE  NotHeard(world.dir, l, req.sender)
  BY DEF EntitledHeard
<1>1. /\ "ldap_maillist_access_policy" \in Files /\ "sql_alias_access_policy" \in Files
      /\ "sql_ml_access_policy" \in Files
  BY DEF Files, PLUGIN_PRIORITIES
<1>2. by # none
  BY <1>1, DispatchAssumption DEF GuardOf
<1>3. /\ world \in Worlds /\ world.dir.backend \in {"sql", "ldap"} /\ l.kind \in {"alias", "maillist"}
      /\ Judge(by, world.settings, world.dir, req, "none") \in Rejections
  BY <1>2, RefusedMeans, DispatchAssumption DEF ListsFit
<1>4. CASE world.dir.backend = "sql" /\ l.kind = "alias"
  <2>1. sql_alias_access_policy(world.dir, req, "none") \in Rejections
    BY <1>3, <1>4, JudgeOf DEF GuardOf
  <2>2. \E k \in Addressed(world.dir, req.recipient, "alias") : ~SqlAliasAllows(world.dir, k, req)
    BY <2>1 DEF sql_alias_access_policy, Rejections
  <2>3. ~SqlAliasAllows(world.dir, l, req)
    BY <1>3, <1>4, <2>2, OwnNameAlone
  <2> QED
    BY <1>3, <1>4, <2>3, AliasUnheard
<1>5. CASE world.dir.backend = "sql" /\ l.kind = "maillist"
  <2>1. sql_ml_access_policy(world.dir, req, "none") \in Rejections
    BY <1>3, <1>5, JudgeOf DEF GuardOf
  <2>2. \E k \in Addressed(world.dir, req.recipient, "maillist") : ~SqlMaillistAllows(world.dir, k, req)
    BY <2>1 DEF sql_ml_access_policy, Rejections
  <2>3. ~SqlMaillistAllows(world.dir, l, req)
    BY <1>3, <1>5, <2>2, OwnNameAlone
  <2> QED
    BY <2>3, MaillistUnheard
<1>6. CASE world.dir.backend = "ldap"
  <2>1. ldap_maillist_access_policy(world.dir, req, "none") \in Rejections
    BY <1>3, <1>6, JudgeOf DEF GuardOf
  <2> QED
    BY <1>3, <1>6, <2>1, LdapUnheard
<1> QED
  BY <1>3, <1>4, <1>5, <1>6

\* Members, moderators and the users of the list's domains, where its policy names them,
\* are never refused under the addresses that the list knows them by
\* (sql_alias_access_policy.py, sql_ml_access_policy.py, ldap_maillist_access_policy.py).
THEOREM MembersHeard == Spec => []EntitledHeard
BY OrderInvariant, HeardFromOrder, PTL

-----------------------------------------------------------------------------
(***************************************************************************)
(* Plugin senderscore, for any clients, commands, scores and bounds: a     *)
(* reported whitelisting lasts and is heeded, only a score of DNS rejects, *)
(* and a finished cleanup leaves nothing too old.                          *)
(***************************************************************************)

\* A row that the table may hold is no NoRow.
LEMMA ScoreRow ==
  ASSUME NEW s \in Nat, NEW t \in Nat
  PROVE  Row(s, t) # NoRow /\ Row(s, t).score = s /\ Row(s, t).time = t
BY SenderscoreAssumption DEF Row

\* The row that the administration tool inserts.
LEMMA WhitelistRow ==
  /\ Row(100, Forever) # NoRow
  /\ Row(100, Forever).score = 100 /\ Row(100, Forever).time = Forever
BY ScoreRow, SenderscoreAssumption

LEMMA ScoreTypesInit == ScoreInit => ScoreTypeOK
<1> SUFFICES ASSUME ScoreInit PROVE ScoreTypeOK
  OBVIOUS
<1> USE SenderscoreAssumption DEF ScoreInit
<1>1. cache \in [Client -> [score : 0..100, time : 0..MaxDay \cup {Forever}] \cup {NoRow}]
  OBVIOUS
<1>2. ips \in Seq(Client)
  OBVIOUS
<1>3. score \in Scores \cup (0..100) /\ day \in 0..MaxDay /\ expire \in Int /\ cleanups \in 0..MaxCleanups
  OBVIOUS
<1> QED
  BY <1>1, <1>2, <1>3 DEF ScoreTypeOK

-----------------------------------------------------------------------------
\* Every variable keeps its type, and the table scores of 0 to 100: the range test
\* of restriction() stands before the INSERT.
THEOREM ScoreTypes == ScoreSpec => []ScoreTypeOK
<1> USE SenderscoreAssumption
<1>1. ScoreTypeOK /\ [ScoreNext]_scoreVars => ScoreTypeOK'
  <2> SUFFICES ASSUME ScoreTypeOK, [ScoreNext]_scoreVars PROVE ScoreTypeOK'
    OBVIOUS
  <2> USE DEF ScoreTypeOK
  <2>1. CASE ReceiveClient
    <3>1. client' \in Client /\ heeded' \in BOOLEAN
      BY <2>1 DEF ReceiveClient
    <3>2. pc' \in {"idle", "select"} /\ answer' \in {"none", "DUNNO"}
      BY <2>1 DEF ReceiveClient, Return
    <3>3. /\ score' = 100 /\ cache_the_score' = FALSE
          /\ UNCHANGED <<day, cache, admin, ips, reported>>
          /\ UNCHANGED <<cleaner, expire, remove_values, raced, cleanups>>
      BY <2>1 DEF ReceiveClient, adminVars, cleanerVars
    <3>4. score' \in Scores \cup (0..100)
      BY <3>3
    <3>5. cache_the_score' \in BOOLEAN
      BY <3>3
    <3> QED
      BY <3>1, <3>2, <3>3, <3>4, <3>5
  <2>2. CASE SelectScore
    <3>1. cache[client] # NoRow => cache[client].score \in 0..100
      OBVIOUS
    <3>2. score' \in Scores \cup (0..100) /\ pc' \in {"dns", "judge"}
      BY <2>2, <3>1 DEF SelectScore
    <3> QED
      BY <2>2, <3>2 DEF SelectScore, adminVars, cleanerVars
  <2>3. CASE SelectFails
    BY <2>3 DEF SelectFails, Fail, Return, adminVars, cleanerVars
  <2>4. CASE QueryDns
    BY <2>4 DEF QueryDns, adminVars, cleanerVars
  <2>5. CASE QueryTimeout
    BY <2>5 DEF QueryTimeout, Fail, adminVars, cleanerVars
  <2>6. CASE JudgeScore
    <3>1. score \in Nat /\ (score <= 100 => score \in 0..100)
      OBVIOUS
    <3>2. cache' \in [Client -> [score : 0..100, time : 0..MaxDay \cup {Forever}] \cup {NoRow}]
      <4>1. score <= 100 => Row(score, day) \in [score : 0..100, time : 0..MaxDay \cup {Forever}]
        BY <3>1 DEF Row
      <4>2. cache' = cache \/ (score <= 100 /\ cache' = [cache EXCEPT ![client] = Row(score, day)])
        BY <2>6 DEF JudgeScore, Store, StoreFails
      <4> QED
        BY <4>1, <4>2
    <3> QED
      BY <2>6, <3>2 DEF JudgeScore, Return, Verdict, adminVars, cleanerVars
  <2>7. CASE Command
    <3>1. ips' \in Seq(Client)
      BY <2>7 DEF Command
    <3> QED
      BY <2>7, <3>1 DEF Command, daemonVars, cleanerVars
  <2>8. CASE AdminDelete
    BY <2>8 DEF AdminDelete, cleanerVars
  <2>9. CASE AdminInsert
    <3>1. Named \subseteq Client
      BY DEF Named
    <3> QED
      BY <2>9, <3>1 DEF AdminInsert, Raced, Row, daemonVars
  <2>10. CASE StartCleanup
    BY <2>10 DEF StartCleanup, daemonVars, adminVars
  <2>11. CASE CleanupSelect
    BY <2>11 DEF CleanupSelect, daemonVars, adminVars
  <2>12. CASE CleanupDelete
    BY <2>12 DEF CleanupDelete, daemonVars, adminVars
  <2>13. CASE CleanupEnd
    BY <2>13 DEF CleanupEnd, daemonVars, adminVars
  <2>14. CASE NextDay
    BY <2>14 DEF NextDay, daemonVars, adminVars, cleanerVars
  <2>15. CASE UNCHANGED scoreVars
    BY <2>15 DEF scoreVars, daemonVars, adminVars, cleanerVars
  <2> QED
    BY <2>1, <2>2, <2>3, <2>4, <2>5, <2>6, <2>7, <2>8, <2>9, <2>10, <2>11, <2>12,
       <2>13, <2>14, <2>15 DEF ScoreNext, Daemon
<1> QED
  BY <1>1, ScoreTypesInit, PTL DEF ScoreSpec

-----------------------------------------------------------------------------
(* The whitelist                                                           *)

\* Addresses whose whitelisting is reported and which no cleanup raced for.
KeptWhite == reported \ raced

\* Their rows stand, with a time no cleanup reaches, and no page names them.
KeptInv ==
  /\ ScoreTypeOK
  /\ expire <= MaxDay
  /\ \A c \in KeptWhite : Whitelisted(c)
  /\ remove_values \cap KeptWhite = {}

LEMMA KeptInvInit == ScoreInit => KeptInv
<1> SUFFICES ASSUME ScoreInit PROVE KeptInv
  OBVIOUS
<1>1. ScoreTypeOK
  BY ScoreTypesInit
<1> QED
  BY <1>1, SenderscoreAssumption DEF ScoreInit, KeptInv, KeptWhite

\* The statements of the three programs, in whatever order, leave the rows of KeptWhite alone.
LEMMA KeptInvStep == KeptInv /\ ScoreTypeOK' /\ [ScoreNext]_scoreVars => KeptInv'
<1> SUFFICES ASSUME KeptInv, ScoreTypeOK', [ScoreNext]_scoreVars PROVE KeptInv'
  OBVIOUS
<1> USE SenderscoreAssumption
<1>0. ScoreTypeOK /\ \A c \in KeptWhite : Whitelisted(c) /\ c \notin remove_values
  BY DEF KeptInv
<1>1. CASE /\ UNCHANGED <<cache, reported, raced, expire, remove_values>>
  BY <1>1 DEF KeptInv, KeptWhite, Whitelisted
<1>2. CASE JudgeScore
  <2>1. cache' = cache \/ (cache[client] = NoRow /\ \A c \in Client \ {client} : cache'[c] = cache[c])
    BY <1>0, <1>2 DEF JudgeScore, Store, StoreFails, ScoreTypeOK
  <2>2. client \in KeptWhite => cache[client] # NoRow
    BY <1>0, WhitelistRow DEF Whitelisted
  <2>3. \A c \in KeptWhite : cache'[c] = cache[c]
    BY <1>0, <2>1, <2>2 DEF KeptWhite, ScoreTypeOK
  <2>4. UNCHANGED <<reported, raced, expire, remove_values>>
    BY <1>2 DEF JudgeScore, adminVars, cleanerVars
  <2> QED
    BY <2>3, <2>4 DEF KeptInv, KeptWhite, Whitelisted
<1>3. CASE AdminDelete
  <2>1. UNCHANGED <<raced, expire, remove_values>> /\ KeptWhite' = KeptWhite \ Named
    BY <1>3 DEF AdminDelete, cleanerVars, KeptWhite
  <2>2. \A c \in KeptWhite' : cache'[c] = cache[c]
    BY <1>0, <1>3, <2>1 DEF AdminDelete, KeptWhite, ScoreTypeOK
  <2> QED
    BY <2>1, <2>2 DEF KeptInv, Whitelisted
<1>4. CASE AdminInsert
  <2>1. UNCHANGED <<expire, remove_values>>
    BY <1>4 DEF AdminInsert
  <2>2. CASE UNCHANGED <<cache, reported, raced>>
    BY <2>1, <2>2 DEF KeptInv, KeptWhite, Whitelisted
  <2>3. CASE /\ cache' = [c \in Client |-> IF c \in Named THEN Row(100, Forever) ELSE cache[c]]
             /\ reported' = reported \cup Named
             /\ Raced
    <3>1. \A c \in KeptWhite' : c \in Client /\ (c \in KeptWhite \/ c \in Named \ remove_values)
      BY <2>3, <1>0 DEF KeptWhite, Raced, Named, ScoreTypeOK
    <3> QED
      BY <2>1, <2>3, <1>0, <3>1 DEF KeptInv, Whitelisted
  <2> QED
    BY <1>4, <2>2, <2>3 DEF AdminInsert
<1>5. CASE StartCleanup
  <2>1. UNCHANGED <<cache, reported, raced, remove_values>> /\ expire' = day - CacheDays
    BY <1>5 DEF StartCleanup, adminVars
  <2>2. expire' <= MaxDay
    BY <1>0, <2>1 DEF ScoreTypeOK
  <2> QED
    BY <2>1, <2>2 DEF KeptInv, KeptWhite, Whitelisted
<1>6. CASE CleanupSelect
  <2>1. \A c \in KeptWhite : ~Expired(c)
    BY <1>0, WhitelistRow DEF KeptInv, Whitelisted, Expired, ScoreTypeOK
  <2>2. \A c \in remove_values' : Expired(c)
    BY <1>6 DEF CleanupSelect
  <2>3. UNCHANGED <<cache, reported, raced, expire>>
    BY <1>6 DEF CleanupSelect, adminVars
  <2> QED
    BY <2>1, <2>2, <2>3 DEF KeptInv, KeptWhite, Whitelisted
<1>7. CASE CleanupDelete
  <2>1. UNCHANGED <<reported, raced, expire>> /\ remove_values' = {}
    BY <1>7 DEF CleanupDelete, adminVars
  <2>2. \A c \in KeptWhite : cache'[c] = cache[c]
    BY <1>0, <1>7 DEF CleanupDelete, KeptWhite, ScoreTypeOK
  <2> QED
    BY <2>1, <2>2 DEF KeptInv, KeptWhite, Whitelisted
<1>8. ReceiveClient \/ SelectScore \/ SelectFails \/ QueryDns \/ QueryTimeout \/ Command \/ CleanupEnd
        \/ NextDay \/ UNCHANGED scoreVars
      => UNCHANGED <<cache, reported, raced, expire, remove_values>>
  BY DEF ReceiveClient, SelectScore, SelectFails, QueryDns, QueryTimeout, Command, CleanupEnd,
         NextDay, scoreVars, daemonVars, adminVars, cleanerVars
<1> QED
  BY <1>1, <1>2, <1>3, <1>4, <1>5, <1>6, <1>7, <1>8 DEF ScoreNext, Daemon

LEMMA KeptInvHolds == ScoreSpec => []KeptInv
BY KeptInvInit, KeptInvStep, ScoreTypes, PTL DEF ScoreSpec

\* An address whose whitelisting is reported stays whitelisted, unless a cleanup had
\* chosen it before: the daemon cannot cache over the row (the INSERT fails) and the
\* cleanup's expiry never reaches the row's time.
THEOREM WhitelistKept == ScoreSpec => []WhitelistKeptUnlessRaced
<1>1. KeptInv => WhitelistKeptUnlessRaced
  BY DEF KeptInv, KeptWhite, WhitelistKeptUnlessRaced
<1> QED
  BY <1>1, KeptInvHolds, PTL

\* While the tool stands between its statements the addresses it names are not
\* reported; a request that came after the report reads the score 100.
HeededInv ==
  /\ KeptInv
  /\ admin = "insert" => Named \cap reported = {}
  /\ heeded => /\ client \in KeptWhite
               /\ pc # "dns"
               /\ pc = "judge" => score = 100
               /\ answer # "REJECT"

LEMMA HeededInvStep == HeededInv /\ KeptInv' /\ [ScoreNext]_scoreVars => HeededInv'
<1> SUFFICES ASSUME HeededInv, KeptInv', [ScoreNext]_scoreVars PROVE HeededInv'
  OBVIOUS
<1> USE SenderscoreAssumption
<1>0. ScoreTypeOK /\ \A c \in KeptWhite : Whitelisted(c)
  BY DEF HeededInv, KeptInv
<1>1. CASE ReceiveClient
  <2>1. heeded' => client' \in KeptWhite
    BY <1>1 DEF ReceiveClient, KeptWhite
  <2>2. pc' \in {"idle", "select"} /\ answer' # "REJECT"
    BY <1>1 DEF ReceiveClient, Return
  <2>3. UNCHANGED <<admin, ips, reported, raced>>
    BY <1>1 DEF ReceiveClient, adminVars, cleanerVars
  <2> QED
    BY <2>1, <2>2, <2>3 DEF HeededInv, KeptWhite, Named
<1>2. CASE SelectScore
  <2>1. heeded => cache[client] # NoRow /\ cache[client].score = 100
    BY <1>0, WhitelistRow DEF HeededInv, Whitelisted
  <2> QED
    BY <1>2, <2>1 DEF SelectScore, HeededInv, KeptWhite, Named, adminVars, cleanerVars
<1>3. CASE SelectFails
  BY <1>3 DEF SelectFails, Return, HeededInv, KeptWhite, Named, adminVars, cleanerVars
<1>4. CASE QueryDns
  BY <1>4 DEF QueryDns, HeededInv, KeptWhite, Named, adminVars, cleanerVars
<1>5. CASE QueryTimeout
  BY <1>5 DEF QueryTimeout, HeededInv, KeptWhite, Named, adminVars, cleanerVars
<1>6. CASE JudgeScore
  <2>1. heeded => Verdict = "DUNNO"
    BY <1>6 DEF JudgeScore, HeededInv, Verdict
  <2> QED
    BY <1>6, <2>1 DEF JudgeScore, Return, HeededInv, KeptWhite, Named, adminVars, cleanerVars
<1>7. CASE Command
  BY <1>7 DEF Command, HeededInv, KeptWhite, daemonVars, cleanerVars
<1>8. CASE AdminDelete
  <2>1. heeded' => heeded /\ client \notin Named
    BY <1>8 DEF AdminDelete
  <2>2. UNCHANGED <<ips, raced, client, pc, score, answer>> /\ reported' = reported \ Named
    BY <1>8 DEF AdminDelete, cleanerVars
  <2> QED
    BY <2>1, <2>2 DEF HeededInv, KeptWhite, Named
<1>9. CASE AdminInsert
  <2>1. client \in KeptWhite => client \in KeptWhite'
    BY <1>9 DEF AdminInsert, HeededInv, KeptWhite, Raced
  <2>2. UNCHANGED daemonVars /\ admin' = "stopped"
    BY <1>9 DEF AdminInsert
  <2> QED
    BY <2>1, <2>2 DEF HeededInv, daemonVars
<1>10. CASE StartCleanup \/ CleanupSelect \/ CleanupDelete \/ CleanupEnd \/ NextDay \/ UNCHANGED scoreVars
  BY <1>10 DEF StartCleanup, CleanupSelect, CleanupDelete, CleanupEnd, NextDay, HeededInv, KeptWhite,
               Named, scoreVars, daemonVars, adminVars, cleanerVars
<1> QED
  BY <1>1, <1>2, <1>3, <1>4, <1>5, <1>6, <1>7, <1>8, <1>9, <1>10 DEF ScoreNext, Daemon

\* A client is not rejected by a request that came after its whitelisting was
\* reported, whatever was cached before and whoever deletes rows meanwhile.
THEOREM Heeded == ScoreSpec => []WhitelistHeeded
<1>1. ScoreInit /\ KeptInv => HeededInv
  BY DEF ScoreInit, HeededInv
<1>2. HeededInv => WhitelistHeeded
  BY DEF HeededInv, WhitelistHeeded
<1> QED
  BY <1>1, <1>2, KeptInvHolds, HeededInvStep, PTL DEF ScoreSpec

-----------------------------------------------------------------------------
(* The scores                                                              *)

\* What is low in the table, or in the daemon's hands, DNS has said.
ToldInv ==
  /\ ScoreTypeOK
  /\ \A c \in Client : cache[c] # NoRow /\ cache[c].score <= reject_score
                         => <<c, cache[c].score>> \in told
  /\ pc \in {"select", "dns"} => score = 100
  /\ pc = "judge" /\ score <= reject_score => <<client, score>> \in told
  /\ RejectedForScore

LEMMA ToldInvStep == ToldInv /\ ScoreTypeOK' /\ [ScoreNext]_scoreVars => ToldInv'
<1> SUFFICES ASSUME ToldInv, ScoreTypeOK', [ScoreNext]_scoreVars PROVE ToldInv'
  OBVIOUS
<1> USE SenderscoreAssumption
<1>0. ScoreTypeOK
  BY DEF ToldInv
<1>1. CASE ReceiveClient
  BY <1>1 DEF ReceiveClient, Return, ToldInv, RejectedForScore
<1>2. CASE SelectScore
  BY <1>2, <1>0 DEF SelectScore, ToldInv, RejectedForScore, ScoreTypeOK
<1>3. CASE SelectFails
  BY <1>3 DEF SelectFails, Return, ToldInv, RejectedForScore
<1>4. CASE QueryDns
  <2>1. told \subseteq told' /\ <<client', score'>> \in told'
    BY <1>4 DEF QueryDns
  <2>2. UNCHANGED <<cache, client, answer>> /\ pc' = "judge"
    BY <1>4 DEF QueryDns
  <2> QED
    BY <2>1, <2>2 DEF ToldInv, RejectedForScore
<1>5. CASE QueryTimeout
  <2>1. score' = 100
    BY <1>5 DEF QueryTimeout, ToldInv
  <2>2. UNCHANGED <<cache, client, answer, told>> /\ pc' = "judge"
    BY <1>5 DEF QueryTimeout
  <2> QED
    BY <2>1, <2>2 DEF ToldInv, RejectedForScore
<1>6. CASE JudgeScore
  <2>1. UNCHANGED <<client, told>> /\ pc' = "idle" /\ answer' = Verdict
    BY <1>6 DEF JudgeScore, Return
  <2>2. Verdict = "REJECT" => <<client, score>> \in told /\ score <= reject_score
    BY <1>6 DEF JudgeScore, Verdict, ToldInv
  <2>3. RejectedForScore'
    BY <2>1, <2>2 DEF RejectedForScore
  <2>4. cache' = cache \/ cache' = [cache EXCEPT ![client] = Row(score, day)]
    BY <1>6 DEF JudgeScore, Store, StoreFails
  <2>5. score \in Nat /\ day \in Nat /\ client \in Client
    BY <1>0 DEF ScoreTypeOK
  <2>6. ASSUME NEW c \in Client, cache'[c] # NoRow, cache'[c].score <= reject_score
        PROVE  <<c, cache'[c].score>> \in told
    <3>1. CASE cache'[c] = cache[c]
      BY <2>6, <3>1 DEF ToldInv
    <3>2. CASE c = client /\ cache'[c] = Row(score, day)
      BY <2>5, <2>6, <3>2, <1>6, ScoreRow DEF ToldInv, JudgeScore
    <3> QED
      BY <3>1, <3>2, <2>4, <1>0 DEF ScoreTypeOK
  <2> QED
    BY <2>1, <2>3, <2>6 DEF ToldInv
<1>7. CASE AdminDelete
  <2>1. \A c \in Client : cache'[c] = NoRow \/ cache'[c] = cache[c]
    BY <1>7 DEF AdminDelete
  <2> QED
    BY <1>7, <2>1 DEF AdminDelete, ToldInv, RejectedForScore
<1>8. CASE AdminInsert
  <2>1. \A c \in Client : cache'[c] = Row(100, Forever) \/ cache'[c] = cache[c]
    BY <1>8 DEF AdminInsert
  <2>2. ~(100 <= reject_score)
    OBVIOUS
  <2>3. \A c \in Client : cache'[c] = cache[c] \/ ~(cache'[c].score <= reject_score)
    BY <2>1, <2>2, WhitelistRow, Zenon
  <2> QED
    BY <1>8, <2>3 DEF AdminInsert, ToldInv, RejectedForScore, daemonVars
<1>9. CASE CleanupDelete
  <2>1. \A c \in Client : cache'[c] = NoRow \/ cache'[c] = cache[c]
    BY <1>9 DEF CleanupDelete
  <2> QED
    BY <1>9, <2>1 DEF CleanupDelete, ToldInv, RejectedForScore, daemonVars
<1>10. CASE Command \/ StartCleanup \/ CleanupSelect \/ CleanupEnd \/ NextDay \/ UNCHANGED scoreVars
  BY <1>10 DEF Command, StartCleanup, CleanupSelect, CleanupEnd, NextDay, ToldInv,
               RejectedForScore, scoreVars, daemonVars
<1> QED
  BY <1>1, <1>2, <1>3, <1>4, <1>5, <1>6, <1>7, <1>8, <1>9, <1>10 DEF ScoreNext, Daemon

\* Only a score that DNS has given the client rejects it, now or when it was cached:
\* a timeout, a failed statement or a row deleted in between never does.
THEOREM RejectedOnlyForScore == ScoreSpec => []RejectedForScore
<1>1. ScoreInit /\ ScoreTypeOK => ToldInv
  BY DEF ScoreInit, ToldInv, RejectedForScore
<1>2. ToldInv => RejectedForScore
  BY DEF ToldInv
<1> QED
  BY <1>1, <1>2, ScoreTypes, ToldInvStep, PTL DEF ScoreSpec

-----------------------------------------------------------------------------
(* The cleanup                                                             *)

\* A page that holds nothing means that nothing has expired.
LEMMA EmptyPage ==
  ASSUME NEW found \in SUBSET Client,
         Cardinality({}) = IF Cardinality(found) < QueryLimit THEN Cardinality(found) ELSE QueryLimit
  PROVE  found = {}
<1>1. IsFiniteSet(found)
  BY SenderscoreAssumption, FS_Subset
<1>2. Cardinality({}) = 0
  BY FS_EmptySet
<1>3. Cardinality(found) = 0
  BY <1>2, SenderscoreAssumption
<1> QED
  BY <1>1, <1>3, FS_EmptySet

\* The expiry date of a cleanup that has begun is in the past.
FreshInv ==
  /\ ScoreTypeOK
  /\ cleanups > 0 => expire <= day - CacheDays
  /\ CacheFresh

LEMMA FreshInvStep == FreshInv /\ ScoreTypeOK' /\ [ScoreNext]_scoreVars => FreshInv'
<1> SUFFICES ASSUME FreshInv, ScoreTypeOK', [ScoreNext]_scoreVars PROVE FreshInv'
  OBVIOUS
<1> USE SenderscoreAssumption
<1>0. ScoreTypeOK
  BY DEF FreshInv
<1>1. CASE UNCHANGED <<day, cache, cleanups, expire, cleaner>>
  BY <1>1 DEF FreshInv, CacheFresh, Expired
<1>2. CASE JudgeScore
  <2>1. UNCHANGED <<day, cleanups, expire, cleaner>>
    BY <1>2 DEF JudgeScore, cleanerVars
  <2>2. cache' = cache \/ cache' = [cache EXCEPT ![client] = Row(score, day)]
    BY <1>2 DEF JudgeScore, Store, StoreFails
  <2>3. \A c \in Client : cache'[c] = cache[c] \/ cache'[c] = Row(score, day)
    BY <1>0, <2>2 DEF ScoreTypeOK
  <2>4. Row(score, day).time = day
    BY DEF Row
  <2>5. cleanups > 0 => day >= expire
    BY <1>0 DEF FreshInv, ScoreTypeOK
  <2>6. cleanups > 0 => \A c \in Client : Expired(c)' => Expired(c)
    BY <1>0, <2>1, <2>3, <2>4, <2>5 DEF Expired, ScoreTypeOK
  <2> QED
    BY <2>1, <2>6 DEF FreshInv, CacheFresh
<1>3. CASE AdminDelete
  <2>1. \A c \in Client : cache'[c] = NoRow \/ cache'[c] = cache[c]
    BY <1>3 DEF AdminDelete
  <2> QED
    BY <1>3, <2>1 DEF AdminDelete, cleanerVars, FreshInv, CacheFresh, Expired
<1>4. CASE AdminInsert
  <2>1. \A c \in Client : cache'[c] = Row(100, Forever) \/ cache'[c] = cache[c]
    BY <1>4 DEF AdminInsert
  <2>2. Row(100, Forever).time = Forever
    BY DEF Row
  <2>3. UNCHANGED <<day, cleanups, expire, cleaner>>
    BY <1>4 DEF AdminInsert
  <2>4. cleanups > 0 => Forever > expire
    BY <1>0 DEF FreshInv, ScoreTypeOK
  <2>5. cleanups > 0 => \A c \in Client : Expired(c)' => Expired(c)
    BY <1>0, <2>1, <2>2, <2>3, <2>4 DEF Expired, ScoreTypeOK
  <2> QED
    BY <2>3, <2>5 DEF FreshInv, CacheFresh
<1>5. CASE StartCleanup
  BY <1>5, <1>0 DEF StartCleanup, FreshInv, CacheFresh, ScoreTypeOK
<1>6. CASE CleanupSelect
  <2>1. UNCHANGED <<day, cache, cleanups, expire>> /\ cleaner' \in {"done", "delete"}
    BY <1>6 DEF CleanupSelect
  <2>2. cleaner' = "done" => {c \in Client : Expired(c)} = {}
    BY <1>6, EmptyPage DEF CleanupSelect
  <2> QED
    BY <2>1, <2>2 DEF FreshInv, CacheFresh, Expired
<1>7. CASE CleanupDelete
  BY <1>7 DEF CleanupDelete, FreshInv, CacheFresh
<1>8. CASE CleanupEnd
  BY <1>8 DEF CleanupEnd, FreshInv, CacheFresh, Expired
<1>9. CASE NextDay
  BY <1>9, <1>0 DEF NextDay, cleanerVars, FreshInv, CacheFresh, Expired, ScoreTypeOK
<1>10. ReceiveClient \/ SelectScore \/ SelectFails \/ QueryDns \/ QueryTimeout \/ Command \/ UNCHANGED scoreVars
      => UNCHANGED <<day, cache, cleanups, expire, cleaner>>
  BY DEF ReceiveClient, SelectScore, SelectFails, QueryDns, QueryTimeout, Command,
         scoreVars, daemonVars, adminVars, cleanerVars
<1> QED
  BY <1>1, <1>2, <1>3, <1>4, <1>5, <1>6, <1>7, <1>8, <1>9, <1>10 DEF ScoreNext, Daemon

\* Once a cleanup has ended no score stands that was too old when it began, however
\* many pages it took and whatever was stored meanwhile.
THEOREM Fresh == ScoreSpec => []CacheFresh
<1>1. ScoreInit /\ ScoreTypeOK => FreshInv
  BY DEF ScoreInit, FreshInv, CacheFresh
<1>2. FreshInv => CacheFresh
  BY DEF FreshInv
<1> QED
  BY <1>1, <1>2, ScoreTypes, FreshInvStep, PTL DEF ScoreSpec
=============================================================================
