-------------------------- MODULE Throttle_proofs --------------------------
(***************************************************************************)
(* Proofs about modules Throttle and ThrottleSettings: their types, which  *)
(* limits the plugin applies, that its counters and verdicts are exact     *)
(* while no cleanup job interferes, and what the job costs at most.        *)
(***************************************************************************)
EXTENDS ThrottleSettings, TLAPS, WellFoundedInduction

\* The columns of the table hold every count that comes up.
Fits == Nat \subseteq MsgsColumn /\ Nat \subseteq QuotaColumn

\* No setting is for a wildcard account, whose rows the plugin does not find again.
NoWildcard == \A s \in Settings : AddrType[s.account] \notin {"wildcard_ip", "wildcard_addr"}

-----------------------------------------------------------------------------
(* The inductive invariants *)

\* While a request is judged, each rule comes from the settings in some order of the
\* server that goes by priority.
RuleInv ==
  pc \in {"tracking", "notify", "write"} =>
    /\ now > 0
    /\ \E order \in Orders(Matching) : rule = [r \in Rules |-> Supplier(Matching, order, r)]

\* Rows have ids of their own, and count for a client or
\* for a user as the type of the account of their setting says.
RowInv ==
  /\ \A v, w \in tracking : v.id = w.id => v = w
  /\ \A w \in tracking : w.id[1] \in 1..serial
  /\ NoWildcard =>
       \A w \in tracking : \E s \in Settings :
         /\ w.tid = s.id
         /\ w.account \in IF AddrType[s.account] \in {"ip", "catchall_ip"} THEN Client ELSE User

Totals(row) == [init_time |-> row.init_time, msgs |-> row.cur_msgs, quota |-> row.cur_quota]

\* The table holds counter c as it ought to be.
Exact(c) ==
  IF window[c] = NoWindow THEN RowOf(c) = {}
  ELSE \E row \in tracking : RowOf(c) = {row} /\ window[c] = Totals(row)

\* The settings whose counters are still to be written.
PendingInserts == IF "insert" \in todo THEN Inserts(copy) ELSE {}
PendingUpdates == {r \in TrackedRules : r \in todo}
Pending(c) == \/ \E s \in PendingInserts : c = CounterOf(s)
              \/ \E r \in PendingUpdates : c = CounterOf(rule[r])

\* Between two statements that record a message, each counter is either as it ought
\* to be or about to be written, from what was read.
WriteInv ==
  /\ \A c \in Counter : Pending(c) \/ Exact(c)
  /\ todo \subseteq UpdateStatements(copy) \cup {"insert"}
  /\ \A r, q \in TrackedRules : rule[r] = rule[q] => copy[r] = copy[q]
  /\ \A s \in PendingInserts :
       /\ RowOf(CounterOf(s)) = {}
       /\ window[CounterOf(s)] = [init_time |-> now, msgs |-> req.rcpts, quota |-> req.size]
  /\ \A r \in PendingUpdates :
       /\ copy[r] \in tracking /\ RowOf(CounterOf(rule[r])) = {copy[r]}
       /\ window[CounterOf(rule[r])] = Count(Totals(copy[r]), rule[r].period)

CountInv ==
  cleanups = 0 =>
    /\ cleaner = "stopped"
    /\ \A w \in tracking : w.init_time > 0
    /\ IF pc = "write" THEN WriteInv ELSE \A c \in Counter : Exact(c)

-----------------------------------------------------------------------------
(* Types *)

\* What a rule, a request and a key may be.
LEMMA Parts ==
  ASSUME TypeOK
  PROVE  /\ req.client \in Client /\ req.sender \in User /\ req.recipient \in User
         /\ req.rcpts \in Nat \ {0} /\ req.size \in Nat /\ TheUser \in User
         /\ NoSetting \notin Settings
         /\ \A s \in Settings : s \in SettingType /\ TrackKey(s) \in Account
         /\ \A r \in TrackedRules : rule[r] \in Settings \cup {NoSetting} /\ rule[r].period \in Nat
         /\ \A s \in Settings : s.id \in Nat /\ s.period \in Nat /\ s.account \in Account
<1>1. req \in RequestType
  BY ConstantsAssumption DEF TypeOK
<1>2. /\ req.client \in Client /\ req.sender \in User /\ req.recipient \in User
      /\ req.rcpts \in Nat \ {0} /\ req.size \in Nat
  BY <1>1 DEF RequestType
<1>3. TheUser \in User
  BY <1>2 DEF TheUser
<1>4. \A s \in Settings : s \in SettingType
  BY ConstantsAssumption
<1>5. \A s \in Settings : /\ s.id \in Nat /\ s.period \in Nat /\ s.account \in Account
                          /\ s.kind \in Kinds
  BY <1>4 DEF SettingType
<1>6. \A s \in Settings : TrackKey(s) \in Account
  BY <1>2, <1>3, <1>5, ConstantsAssumption DEF TrackKey
<1>7. NoSetting \notin Settings
  BY <1>5 DEF NoSetting, Kinds
<1>8. \A r \in TrackedRules : rule[r] \in Settings \cup {NoSetting} /\ rule[r].period \in Nat
  <2>1. NoSetting.period \in Nat
    BY DEF NoSetting
  <2> QED
    BY <1>5, <2>1 DEF TypeOK, TrackedRules, Rules
<1> QED
  BY <1>2, <1>3, <1>4, <1>5, <1>6, <1>7, <1>8

\* A rule comes from a setting that applies, or from none (throttle.py:275-335).
LEMMA SupplierFrom ==
  ASSUME NEW recs, NEW order, NEW r
  PROVE  Supplier(recs, order, r) \in recs \cup {NoSetting}
<1> DEFINE with == {s \in recs : s.limit[r] >= 0}
           first(s) == \A t \in with : order[s] <= order[t]
<1>1. CASE \E s \in with : first(s)
  <2>1. Supplier(recs, order, r) = CHOOSE s \in with : first(s)
    BY <1>1, Zenon DEF Supplier
  <2>2. (CHOOSE s \in with : first(s)) \in with
    BY <1>1, Zenon
  <2> QED
    BY <2>1, <2>2
<1>2. CASE ~\E s \in with : first(s)
  BY <1>2, Zenon DEF Supplier
<1> QED
  BY <1>1, <1>2

\* The copies are rows of the table, or none (throttle.py:490-509).
LEMMA CopiesFrom ==
  ASSUME TypeOK, NEW rows \in SUBSET tracking, NEW f \in Copies(rows)
  PROVE  /\ f \in [TrackedRules -> Row \cup {NoRow}]
         /\ \A r \in TrackedRules : f[r] \in rows \cup {NoRow}
BY DEF TypeOK, Copies

\* A message that stays in a window adds to its totals (throttle.py:645-711).
LEMMA Charged ==
  ASSUME TypeOK, NEW w \in [init_time: Nat, msgs: Nat, quota: Nat]
  PROVE  [w EXCEPT !.msgs = @ + req.rcpts, !.quota = @ + req.size]
           = [init_time |-> w.init_time, msgs |-> w.msgs + req.rcpts, quota |-> w.quota + req.size]
<1>1. PICK m \in Nat, q \in Nat : m = w.msgs + req.rcpts /\ q = w.quota + req.size
  <2>1. req.rcpts \in Nat /\ req.size \in Nat
    BY Parts
  <2> QED
    BY <2>1
<1> DEFINE v == [w EXCEPT !.msgs = m, !.quota = q]
<1>2. /\ v \in [init_time: Nat, msgs: Nat, quota: Nat]
      /\ v.init_time = w.init_time /\ v.msgs = m /\ v.quota = q
  OBVIOUS
<1> HIDE DEF v
<1>3. v = [init_time |-> w.init_time, msgs |-> m, quota |-> q]
  BY <1>2
<1>4. [w EXCEPT !.msgs = @ + req.rcpts, !.quota = @ + req.size] = v
  BY <1>1 DEF v
<1> QED
  BY <1>1, <1>3, <1>4

\* A window, counted once more, is a window (throttle.py:645-711).
LEMMA CountType ==
  ASSUME TypeOK, NEW w \in [init_time: Nat, msgs: Nat, quota: Nat], NEW p
  PROVE  Count(w, p) \in [init_time: Nat, msgs: Nat, quota: Nat]
<1>1. now \in Nat /\ req.rcpts \in Nat /\ req.size \in Nat
  BY Parts DEF TypeOK
<1>2. [init_time |-> w.init_time, msgs |-> w.msgs + req.rcpts, quota |-> w.quota + req.size]
        \in [init_time: Nat, msgs: Nat, quota: Nat]
  <2>1. w.init_time \in Nat /\ w.msgs + req.rcpts \in Nat /\ w.quota + req.size \in Nat
    BY <1>1
  <2> QED
    BY <2>1
<1>3. [init_time |-> now, msgs |-> req.rcpts, quota |-> req.size]
        \in [init_time: Nat, msgs: Nat, quota: Nat]
  BY <1>1
<1> QED
  BY <1>2, <1>3, Charged, Zenon DEF Count

\* UPDATE leaves a row with the same key, a new window or one more message
\* (throttle.py:645-711).
LEMMA UpdatedFields ==
  ASSUME TypeOK, NEW r \in TrackedRules, NEW row \in Row
  PROVE  /\ Updated(r, row) \in Row
         /\ Updated(r, row).id = row.id /\ Updated(r, row).tid = row.tid
         /\ Updated(r, row).account = row.account
         /\ IF Expired(copy[r].init_time, rule[r].period)
              THEN Totals(Updated(r, row))
                     = [init_time |-> now, msgs |-> req.rcpts, quota |-> req.size]
              ELSE Totals(Updated(r, row))
                     = [init_time |-> copy[r].init_time,
                        msgs |-> row.cur_msgs + req.rcpts, quota |-> row.cur_quota + req.size]
<1>1. /\ now \in Nat /\ copy[r].init_time \in Nat /\ rule[r].period \in Nat
      /\ req.rcpts \in Nat /\ req.size \in Nat
  <2>1. copy[r] \in Row \cup {NoRow}
    BY DEF TypeOK
  <2> QED
    BY <2>1, Parts DEF TypeOK, Row, NoRow
<1>2. CASE Expired(copy[r].init_time, rule[r].period)
  <2>1. Updated(r, row) = [row EXCEPT !.period = rule[r].period, !.init_time = now,
                                      !.cur_msgs = req.rcpts, !.cur_quota = req.size]
    BY <1>2 DEF Updated
  <2> QED
    BY <1>1, <1>2, <2>1 DEF Row, Totals
<1>3. CASE ~Expired(copy[r].init_time, rule[r].period)
  <2>1. Updated(r, row) = [row EXCEPT !.period = rule[r].period, !.init_time = copy[r].init_time,
                                      !.cur_msgs = @ + req.rcpts, !.cur_quota = @ + req.size]
    BY <1>3 DEF Updated
  <2> DEFINE u == Updated(r, row)
  <2>2. u = [row EXCEPT !.period = rule[r].period, !.init_time = copy[r].init_time,
                        !.cur_msgs = row.cur_msgs + req.rcpts,
                        !.cur_quota = row.cur_quota + req.size]
    BY <2>1
  <2>3. row.cur_msgs + req.rcpts \in Nat /\ row.cur_quota + req.size \in Nat
    BY <1>1 DEF Row
  <2> HIDE DEF u
  <2>4. /\ u \in Row /\ u.id = row.id /\ u.tid = row.tid /\ u.account = row.account
        /\ u.init_time = copy[r].init_time
        /\ u.cur_msgs = row.cur_msgs + req.rcpts /\ u.cur_quota = row.cur_quota + req.size
    BY <1>1, <2>2, <2>3 DEF Row
  <2> QED
    BY <1>3, <2>4 DEF Totals, u
<1> QED
  BY <1>2, <1>3

\* Every step keeps the types the schema and the code give (throttle.py:212-720,
\* cleanup_db.py:28-31).
LEMMA TypeStep == TypeOK /\ [Next]_vars => TypeOK'
<1> SUFFICES ASSUME TypeOK, [Next]_vars PROVE TypeOK'
  OBVIOUS
<1> USE DEF TypeOK
<1>1. CASE Receive
  BY <1>1 DEF Receive, cleanerVars
<1>2. CASE SelectSettings
  <2>1. clock \in Nat \ {0} /\ clock \in 0..clock
    BY ConstantsAssumption
  <2>2. /\ pc' \in {"idle", "settings", "tracking", "notify", "write"}
        /\ pass' \in {"sender", "recipient"}
        /\ answer' \in {"none", "DUNNO", "reject_msg_size", "reject_max_rcpts", "reject_quota"}
    BY <1>2 DEF SelectSettings, PassOver, Answer
  <2>3. rule' \in [Rules -> Settings \cup {NoSetting}] /\ now' \in 0..clock
    <3>1. CASE Matching = {}
      BY <1>2, <3>1 DEF SelectSettings
    <3>2. CASE Matching # {}
      <4>1. PICK order \in Orders(Matching) : rule' = [r \in Rules |-> Supplier(Matching, order, r)]
        BY <1>2, <3>2, Zenon DEF SelectSettings
      <4>2. \A r \in Rules : Supplier(Matching, order, r) \in Settings \cup {NoSetting}
        <5>1. Matching \subseteq Settings
          BY DEF Matching
        <5> QED
          BY <5>1, SupplierFrom
      <4>3. now' = clock
        BY <1>2, <3>2 DEF SelectSettings
      <4> QED
        BY <2>1, <4>1, <4>2, <4>3
    <3> QED
      BY <3>1, <3>2
  <2> QED
    BY <1>2, <2>2, <2>3 DEF SelectSettings, cleanerVars, historyVars
<1>3. CASE SelectTracking
  <2>1. PICK f \in Copies({row \in tracking : Tracked(row)}) :
          /\ copy' = f
          /\ todo' \subseteq TrackedRules \cup {"insert"}
          /\ pc' \in {"idle", "notify", "write"}
          /\ answer' \in {answer, "none", "reject_quota"}
          /\ \/ UNCHANGED window
             \/ window' = [c \in Counter |->
                             IF \E s \in Supplied : c = CounterOf(s)
                               THEN Count(window[c], (CHOOSE s \in Supplied : c = CounterOf(s)).period)
                               ELSE window[c]]
    <3>1. \A f : UpdateStatements(f) \subseteq TrackedRules
      BY DEF UpdateStatements, Updates
    <3> QED
      BY <1>3, <3>1 DEF SelectTracking, RejectQuota, TrackedRules
  <2>2. copy' \in [TrackedRules -> Row \cup {NoRow}]
    BY <2>1, CopiesFrom
  <2>3. window' \in [Counter -> [init_time: Nat, msgs: Nat, quota: Nat]]
    <3>1. CASE UNCHANGED window
      BY <3>1
    <3>2. CASE window' = [c \in Counter |->
                             IF \E s \in Supplied : c = CounterOf(s)
                               THEN Count(window[c], (CHOOSE s \in Supplied : c = CounterOf(s)).period)
                               ELSE window[c]]
      <4>1. \A c \in Counter : window[c] \in [init_time: Nat, msgs: Nat, quota: Nat]
        OBVIOUS
      <4>2. \A c \in Counter : \A p : Count(window[c], p) \in [init_time: Nat, msgs: Nat, quota: Nat]
        BY <4>1, CountType
      <4> QED
        BY <3>2, <4>1, <4>2
    <3> QED
      BY <2>1, <3>1, <3>2
  <2> QED
    BY <1>3, <2>1, <2>2, <2>3 DEF SelectTracking, cleanerVars
<1>4. CASE Notify
  <2>1. \A row \in tracking : [row EXCEPT !.last_notify_time = clock] \in Row
    BY ConstantsAssumption DEF Row
  <2>2. tracking' \subseteq Row
    BY <1>4, <2>1 DEF Notify
  <2> QED
    BY <1>4, <2>2 DEF Notify, Answer, cleanerVars, historyVars
<1>5. CASE Insert
  <2>1. Inserts(copy) \subseteq Settings
    BY Parts DEF Inserts
  <2>2. \A s \in Settings :
          [id |-> <<serial + 1, s.id>>, tid |-> s.id, account |-> TrackKey(s),
           period |-> s.period, cur_msgs |-> req.rcpts, cur_quota |-> req.size,
           init_time |-> now, last_notify_time |-> 0] \in Row
    <3>1. now \in Nat
      OBVIOUS
    <3> QED
      BY <3>1, Parts DEF Row, RowId
  <2>3. tracking' \subseteq tracking \cup
          {[id |-> <<serial + 1, s.id>>, tid |-> s.id, account |-> TrackKey(s),
            period |-> s.period, cur_msgs |-> req.rcpts, cur_quota |-> req.size,
            init_time |-> now, last_notify_time |-> 0] : s \in Inserts(copy)}
    BY <1>5, Zenon DEF Insert
  <2>4. tracking' \subseteq Row
    BY <2>1, <2>2, <2>3
  <2> QED
    BY <1>5, <2>4 DEF Insert, cleanerVars, historyVars
<1>6. ASSUME NEW r \in TrackedRules, Update(r) PROVE TypeOK'
  <2>1. \A row \in tracking : Updated(r, row) \in Row
    BY UpdatedFields
  <2>2. tracking' \subseteq Row
    BY <1>6, <2>1 DEF Update
  <2> QED
    BY <1>6, <2>2 DEF Update, cleanerVars, historyVars
<1>7. CASE EndPass
  BY <1>7 DEF EndPass, PassOver, cleanerVars, historyVars
<1>8. CASE StartCleanup
  <2>1. clock \in 0..clock
    BY ConstantsAssumption
  <2> QED
    BY <1>8, <2>1 DEF StartCleanup, daemonVars, historyVars
<1>9. CASE CleanupSelect
  <2>1. {row.id : row \in {w \in tracking : CleanupMatch(w)}} \subseteq RowId
    BY DEF Row
  <2>2. remove_values' \subseteq RowId /\ cleaner' \in {"stopped", "delete"}
    BY <1>9, <2>1 DEF CleanupSelect
  <2> QED
    BY <1>9, <2>2 DEF CleanupSelect, daemonVars, historyVars
<1>10. CASE CleanupDelete
  BY <1>10 DEF CleanupDelete, daemonVars, historyVars
<1>11. CASE Tick
  <2>1. clock' \in 1..(MaxClock + 1) /\ now \in 0..clock' /\ cleanup_now \in 0..clock'
    BY <1>11, ConstantsAssumption DEF Tick
  <2> QED
    BY <1>11, <2>1 DEF Tick, daemonVars, cleanerVars, historyVars
<1>12. CASE UNCHANGED vars
  BY <1>12 DEF vars, daemonVars, cleanerVars, historyVars
<1> QED
  BY <1>1, <1>2, <1>3, <1>4, <1>5, <1>6, <1>7, <1>8, <1>9, <1>10, <1>11, <1>12, Zenon
  DEF Next, Daemon, Serve, Cleanup

-----------------------------------------------------------------------------
(* The rules *)

\* Of some settings in order, one comes first.
LEMMA FirstOf ==
  ASSUME NEW recs, NEW order \in [recs -> Nat], NEW with \in SUBSET recs, with # {}
  PROVE  \E s \in with : \A t \in with : order[s] <= order[t]
<1> DEFINE Below  == OpToRel(<, Nat)
           Places == {order[s] : s \in with}
<1>1. IsWellFoundedOn(Below, Nat)
  BY NatLessThanWellFounded
<1>2. Places \subseteq Nat /\ Places # {}
  OBVIOUS
<1>3. \A x, y \in Nat : x < y => <<x, y>> \in Below
  BY DEF OpToRel
<1> HIDE DEF Below
<1>4. PICK x \in Places : \A y \in Places : <<y, x>> \notin Below
  <2> HIDE DEF Places
  <2> QED
    BY <1>1, <1>2, WFMin
<1>5. \A y \in Places : x <= y
  <2> HIDE DEF Places
  <2>1. \A y \in Places : ~(y < x)
    BY <1>2, <1>3, <1>4
  <2> QED
    BY <1>2, <2>1
<1> QED
  BY <1>5

\* A setting that supplies a rule has the highest priority of those that could
\* (throttle.py:275-440).
LEMMA SupplierFirst ==
  ASSUME NEW recs \in SUBSET Settings, NEW order \in Orders(recs), NEW r,
         NEW s \in recs, s.limit[r] >= 0
  PROVE  /\ Supplier(recs, order, r) \in recs
         /\ s.priority <= Supplier(recs, order, r).priority
<1> DEFINE with == {t \in recs : t.limit[r] >= 0}
           first(t) == \A u \in with : order[t] <= order[u]
<1>1. order \in [recs -> Nat]
  BY DEF Orders
<1>2. with \in SUBSET recs /\ with # {} /\ s \in with
  OBVIOUS
<1> HIDE DEF with
<1>3. \E t \in with : first(t)
  BY <1>1, <1>2, FirstOf
<1>4. Supplier(recs, order, r) = CHOOSE t \in with : first(t)
  BY <1>3, Zenon DEF Supplier, with
<1>5. PICK best : best = Supplier(recs, order, r) /\ best \in with /\ first(best)
  <2>1. (CHOOSE t \in with : first(t)) \in with /\ first(CHOOSE t \in with : first(t))
    BY <1>3, Zenon
  <2> QED
    BY <1>4, <2>1, Zenon
<1>6. s.priority > best.priority => order[s] < order[best]
  <2>1. s \in recs /\ best \in recs
    BY <1>2, <1>5
  <2>2. s = best => ~(s.priority > best.priority)
    <3>1. s.priority \in Nat
      BY ConstantsAssumption DEF SettingType
    <3> QED
      BY <3>1
  <2> QED
    BY <2>1, <2>2, Zenon DEF Orders
<1>7. order[best] <= order[s] /\ order[best] \in Nat /\ order[s] \in Nat
  BY <1>1, <1>2, <1>5
<1>8. s.priority \in Nat /\ best.priority \in Nat
  BY <1>2, <1>5, ConstantsAssumption DEF SettingType
<1> QED
  BY <1>2, <1>5, <1>6, <1>7, <1>8

\* While a request is judged, nothing changes the rules it is judged by.
LEMMA RuleStays ==
  ASSUME RuleInv, pass' = pass, req' = req, rule' = rule, now' = now,
         pc' \in {"tracking", "notify", "write"} => pc \in {"tracking", "notify", "write"}
  PROVE  RuleInv'
<1>1. Matching' = Matching
  BY DEF Matching, Kind, TheUser
<1> QED
  BY <1>1 DEF RuleInv

\* Every step keeps the rules those that the settings give (throttle.py:275-440).
LEMMA RuleStep == TypeOK /\ RuleInv /\ [Next]_vars => RuleInv'
<1> SUFFICES ASSUME TypeOK, RuleInv, [Next]_vars PROVE RuleInv'
  OBVIOUS
<1>1. CASE Receive
  BY <1>1 DEF Receive, RuleInv
<1>2. CASE SelectSettings
  <2>1. SUFFICES ASSUME pc' \in {"tracking", "notify", "write"} PROVE RuleInv'
    BY DEF RuleInv
  <2>2. Matching # {} /\ pass' = pass /\ req' = req /\ now' = clock
    BY <1>2, <2>1, Zenon DEF SelectSettings, PassOver, Answer
  <2>3. PICK order \in Orders(Matching) : rule' = [r \in Rules |-> Supplier(Matching, order, r)]
    BY <1>2, <2>2, Zenon DEF SelectSettings
  <2>4. Matching' = Matching
    BY <2>2 DEF Matching, Kind, TheUser
  <2>5. now' > 0
    BY <2>2, ConstantsAssumption DEF TypeOK
  <2> QED
    BY <2>3, <2>4, <2>5 DEF RuleInv
<1>3. CASE SelectTracking
  BY <1>3, RuleStays DEF SelectTracking
<1>4. CASE Notify \/ EndPass
  BY <1>4 DEF Notify, Answer, EndPass, PassOver, RuleInv
<1>5. ASSUME NEW r \in TrackedRules, Update(r) PROVE RuleInv'
  BY <1>5, RuleStays DEF Update
<1>7. CASE Insert
  BY <1>7, RuleStays DEF Insert
<1>6. CASE StartCleanup \/ Cleanup \/ Tick \/ UNCHANGED vars
  <2>1. UNCHANGED daemonVars
    BY <1>6, Zenon DEF StartCleanup, Cleanup, CleanupSelect, CleanupDelete, Tick, vars
  <2> QED
    BY <2>1, RuleStays DEF daemonVars
<1> QED
  BY <1>1, <1>2, <1>3, <1>4, <1>5, <1>6, <1>7, Zenon DEF Next, Daemon, Serve

\* Each rule is of a setting that applies to the request, or of none.
LEMMA RuleFrom ==
  ASSUME TypeOK, RuleInv, pc \in {"tracking", "notify", "write"}, NEW r \in Rules
  PROVE  rule[r] \in Matching \cup {NoSetting}
<1>1. PICK order \in Orders(Matching) : rule = [q \in Rules |-> Supplier(Matching, order, q)]
  BY DEF RuleInv
<1>2. rule[r] = Supplier(Matching, order, r)
  BY <1>1
<1> QED
  BY <1>2, SupplierFrom

-----------------------------------------------------------------------------
(* The rows *)

\* What a row is for: a client or a user, as the type of the account of its setting says.
KeyOf(w, s) ==
  /\ w.tid = s.id
  /\ w.account \in IF AddrType[s.account] \in {"ip", "catchall_ip"} THEN Client ELSE User

\* A statement that changes rows one by one, and leaves their ids and keys, leaves
\* ids distinct and keys what they are for.
LEMMA RowsStay ==
  ASSUME RowInv, NEW g, \A w \in tracking : g[w].id = w.id /\ g[w].tid = w.tid /\ g[w].account = w.account,
         tracking' = {g[w] : w \in tracking}, serial' = serial
  PROVE  RowInv'
BY DEF RowInv

\* Every step keeps the ids of rows distinct and their keys what they are for
\* (throttle.py:622-711, cleanup_db.py:28-31).
LEMMA RowStep == TypeOK /\ RuleInv /\ RowInv /\ [Next]_vars => RowInv'
<1> SUFFICES ASSUME TypeOK, RuleInv, RowInv, [Next]_vars PROVE RowInv'
  OBVIOUS
<1>1. ASSUME tracking' \subseteq tracking, serial' = serial PROVE RowInv'
  BY <1>1 DEF RowInv
<1>2. CASE Notify
  <2> DEFINE g == [w \in tracking |-> IF w.id \in {copy[r].id : r \in todo}
                                        THEN [w EXCEPT !.last_notify_time = clock] ELSE w]
  <2>1. tracking' = {g[w] : w \in tracking} /\ serial' = serial
    BY <1>2 DEF Notify
  <2>2. \A w \in tracking : g[w].id = w.id /\ g[w].tid = w.tid /\ g[w].account = w.account
    BY DEF TypeOK, Row
  <2> HIDE DEF g
  <2> QED
    BY <2>1, <2>2, RowsStay
<1>3. ASSUME NEW r \in TrackedRules, Update(r) PROVE RowInv'
  <2> DEFINE g == [w \in tracking |-> IF /\ w.id = copy[r].id
                                         /\ Updated(r, w).cur_msgs \in MsgsColumn
                                         /\ Updated(r, w).cur_quota \in QuotaColumn
                                        THEN Updated(r, w) ELSE w]
  <2>1. tracking' = {g[w] : w \in tracking} /\ serial' = serial
    BY <1>3 DEF Update
  <2>2. \A w \in tracking : g[w].id = w.id /\ g[w].tid = w.tid /\ g[w].account = w.account
    BY UpdatedFields DEF TypeOK
  <2> HIDE DEF g
  <2> QED
    BY <2>1, <2>2, RowsStay
<1>4. CASE Insert
  <2> DEFINE Fresh(s) == [id |-> <<serial + 1, s.id>>, tid |-> s.id, account |-> TrackKey(s),
                          period |-> s.period, cur_msgs |-> req.rcpts, cur_quota |-> req.size,
                          init_time |-> now, last_notify_time |-> 0]
             new == {Fresh(s) : s \in Inserts(copy)}
  <2>1. tracking' \subseteq tracking \cup new /\ serial' = serial + 1
    BY <1>4, Zenon DEF Insert
  <2>2. Inserts(copy) \subseteq Settings /\ serial \in Nat
    BY Parts DEF Inserts, TypeOK
  <2>3. \A s \in Settings : /\ Fresh(s).id = <<serial + 1, s.id>> /\ Fresh(s).tid = s.id
                            /\ Fresh(s).account = TrackKey(s)
    OBVIOUS
  <2>4. \A s, t \in Settings : Fresh(s).id = Fresh(t).id => s = t
    BY <2>3, ConstantsAssumption
  <2>5. \A w \in tracking, s \in Settings : w.id # Fresh(s).id
    <3>1. \A w \in tracking : w.id[1] # serial + 1
      BY <2>2 DEF RowInv
    <3> QED
      BY <2>3, <3>1
  <2> HIDE DEF Fresh
  <2>6. \A v, w \in tracking' : v.id = w.id => v = w
    BY <2>1, <2>2, <2>4, <2>5 DEF RowInv
  <2>7. \A w \in tracking' : w.id[1] \in 1..serial'
    <3>1. \A w \in new : w.id[1] = serial + 1
      BY <2>2, <2>3
    <3> QED
      BY <2>1, <2>2, <3>1 DEF RowInv
  <2>8. NoWildcard => \A w \in new : \E s \in Settings : KeyOf(w, s)
    BY <2>2, <2>3, Parts DEF KeyOf, TrackKey, NoWildcard
  <2>9. NoWildcard => \A w \in tracking : \E s \in Settings : KeyOf(w, s)
    BY DEF RowInv, KeyOf
  <2> HIDE DEF new
  <2>10. NoWildcard => \A w \in tracking' : \E s \in Settings : KeyOf(w, s)
    BY <2>1, <2>8, <2>9
  <2> QED
    BY <2>6, <2>7, <2>10 DEF RowInv, KeyOf
<1>5. CASE Receive \/ SelectSettings \/ SelectTracking \/ EndPass
  <2>1. tracking' = tracking /\ serial' = serial
    BY <1>5, Zenon DEF Receive, SelectSettings, SelectTracking, EndPass
  <2> QED
    BY <1>1, <2>1
<1>6. CASE StartCleanup \/ Cleanup \/ Tick \/ UNCHANGED vars
  <2>1. tracking' \subseteq tracking /\ serial' = serial
    BY <1>6, Zenon DEF StartCleanup, Cleanup, CleanupSelect, CleanupDelete, Tick, vars
  <2> QED
    BY <1>1, <2>1
<1> QED
  BY <1>2, <1>3, <1>4, <1>5, <1>6, Zenon DEF Next, Daemon, Serve

-----------------------------------------------------------------------------
(* What a request reads *)

Regular == Fits /\ NoWildcard

\* A counter belongs to one setting: the tid of a row is the id of its setting.
LEMMA CounterInjective ==
  ASSUME TypeOK, NEW s \in Settings, NEW t \in Settings
  PROVE  CounterOf(s) \in Counter /\ (CounterOf(s) = CounterOf(t) => s = t)
BY Parts, ConstantsAssumption DEF CounterOf, Counter

\* The rows of a setting that the SELECT returns are the rows of the counter that the
\* message is charged to (throttle.py:441-509).
LEMMA RowsFound ==
  ASSUME TypeOK, RuleInv, RowInv, NoWildcard, pc = "tracking",
         NEW r \in TrackedRules, rule[r] # NoSetting
  PROVE  {w \in tracking : Tracked(w) /\ w.tid = rule[r].id} = RowOf(CounterOf(rule[r]))
<1> DEFINE s == rule[r]
<1>1. s \in Matching /\ s \in Settings
  BY RuleFrom DEF TrackedRules, Rules, Matching
<1>2. AddrType[s.account] \notin {"wildcard_ip", "wildcard_addr"}
  BY <1>1 DEF NoWildcard
<1>3. req.client \in Client /\ TheUser \in User /\ User \cap Client = {} /\ r \in Rules
  BY Parts, ConstantsAssumption DEF TrackedRules, Rules
<1>4. TrackKey(s) = IF AddrType[s.account] \in {"ip", "catchall_ip"} THEN req.client ELSE TheUser
  BY <1>2 DEF TrackKey
<1>5. ASSUME NEW w \in tracking, Tracked(w), w.tid = s.id PROVE w.account = TrackKey(s)
  <2>1. PICK t \in Settings : KeyOf(w, t)
    BY DEF RowInv, KeyOf
  <2>2. t = s
    BY <1>1, <1>5, <2>1, ConstantsAssumption DEF KeyOf
  <2>3. w.account \in IF AddrType[s.account] \in {"ip", "catchall_ip"} THEN Client ELSE User
    BY <2>1, <2>2 DEF KeyOf
  <2>4. w.account = req.client \/ w.account = TheUser
    BY <1>5, Zenon DEF Tracked
  <2> QED
    BY <1>3, <1>4, <2>3, <2>4
<1>6. ASSUME NEW w \in tracking, w.tid = s.id, w.account = TrackKey(s) PROVE Tracked(w)
  <2>1. CASE TrackKey(s) = req.client
    BY <1>1, <1>6, <2>1, Zenon DEF Tracked
  <2>2. CASE TrackKey(s) = TheUser
    BY <1>3, <1>6, <2>2, Zenon DEF Tracked
  <2> QED
    BY <1>4, <2>1, <2>2
<1> HIDE DEF s
<1>7. RowOf(CounterOf(s)) = {w \in tracking : w.tid = s.id /\ w.account = TrackKey(s)}
  BY DEF RowOf, CounterOf
<1>8. {w \in tracking : Tracked(w) /\ w.tid = s.id} = RowOf(CounterOf(s))
  BY <1>5, <1>6, <1>7
<1> QED
  BY <1>8 DEF s

\* While counters are exact, the copy of a rule is the one row of its counter, or none
\* when the counter was never charged (throttle.py:441-509).
LEMMA CopiesExact ==
  ASSUME TypeOK, RuleInv, RowInv, NoWildcard, pc = "tracking", \A c \in Counter : Exact(c),
         NEW f \in Copies({w \in tracking : Tracked(w)}), NEW r \in TrackedRules
  PROVE  IF rule[r] = NoSetting THEN f[r] = NoRow
         ELSE LET c == CounterOf(rule[r])
              IN  /\ rule[r] \in Settings /\ c \in Counter
                  /\ \/ f[r] = NoRow /\ RowOf(c) = {} /\ window[c] = NoWindow
                     \/ /\ f[r] # NoRow /\ f[r] \in tracking /\ f[r].account = TrackKey(rule[r])
                        /\ RowOf(c) = {f[r]} /\ window[c] = Totals(f[r])
<1> DEFINE rows == {w \in tracking : Tracked(w)}
           own  == {w \in rows : rule[r] # NoSetting /\ w.tid = rule[r].id}
<1>1. IF own = {} THEN f[r] = NoRow ELSE f[r] \in own
  BY Zenon DEF Copies
<1>2. CASE rule[r] = NoSetting
  BY <1>1, <1>2
<1>3. CASE rule[r] # NoSetting
  <2>1. rule[r] \in Settings
    BY <1>3, Parts
  <2>2. PICK c \in Counter : c = CounterOf(rule[r])
    BY <2>1, CounterInjective
  <2>3. own = RowOf(c)
    BY <1>3, <2>2, RowsFound
  <2>4. Exact(c)
    OBVIOUS
  <2> HIDE DEF own
  <2>5. CASE window[c] = NoWindow
    <3>1. RowOf(c) = {} /\ f[r] = NoRow
      BY <1>1, <2>3, <2>4, <2>5 DEF Exact
    <3> QED
      BY <1>3, <2>1, <2>2, <2>5, <3>1
  <2>6. CASE window[c] # NoWindow
    <3>1. PICK row \in tracking : RowOf(c) = {row} /\ window[c] = Totals(row)
      BY <2>4, <2>6 DEF Exact
    <3>2. f[r] = row /\ row \in RowOf(c)
      BY <1>1, <2>3, <3>1
    <3>3. row.account = TrackKey(rule[r])
      BY <2>2, <3>2 DEF RowOf, CounterOf
    <3>4. row # NoRow
      <4>1. row.id[1] \in 1..serial /\ NoRow.id[1] = 0 /\ serial \in Nat
        BY DEF RowInv, NoRow, TypeOK
      <4> QED
        BY <4>1
    <3> QED
      BY <1>3, <2>1, <2>2, <3>1, <3>2, <3>3, <3>4
  <2> QED
    BY <2>5, <2>6
<1> QED
  BY <1>2, <1>3

\* A message counted in no window opens one; counted in one, as Expired has it
\* (throttle.py:645-711).
LEMMA CountOf ==
  ASSUME TypeOK, NEW w \in tracking, w.init_time > 0, NEW p
  PROVE  /\ Count(NoWindow, p) = [init_time |-> now, msgs |-> req.rcpts, quota |-> req.size]
         /\ Count(Totals(w), p)
              = IF Expired(w.init_time, p)
                  THEN [init_time |-> now, msgs |-> req.rcpts, quota |-> req.size]
                  ELSE [init_time |-> w.init_time, msgs |-> w.cur_msgs + req.rcpts,
                        quota |-> w.cur_quota + req.size]
<1> DEFINE v == Totals(w)
<1>1. /\ v \in [init_time: Nat, msgs: Nat, quota: Nat]
      /\ v.init_time = w.init_time /\ v.msgs = w.cur_msgs /\ v.quota = w.cur_quota
  BY DEF TypeOK, Row, Totals
<1>2. w.init_time \in Nat /\ w.init_time # 0
  BY DEF TypeOK, Row
<1> HIDE DEF v
<1>3. Count(v, p) = IF now > v.init_time + p
                      THEN [init_time |-> now, msgs |-> req.rcpts, quota |-> req.size]
                      ELSE [init_time |-> v.init_time, msgs |-> v.msgs + req.rcpts,
                            quota |-> v.quota + req.size]
  BY <1>1, <1>2, Charged, Zenon DEF Count
<1>4. Count(NoWindow, p) = [init_time |-> now, msgs |-> req.rcpts, quota |-> req.size]
  BY DEF Count, NoWindow
<1> QED
  BY <1>1, <1>3, <1>4 DEF Expired, v

-----------------------------------------------------------------------------
(* The counters *)

\* A message that is accepted is charged to the counters of its rules, and the
\* statements that record it are for exactly those (throttle.py:511-720).
LEMMA AcceptStep ==
  ASSUME TypeOK, RuleInv, RowInv, NoWildcard, cleanups = 0, CountInv,
         SelectTracking, pc' = "write"
  PROVE  WriteInv'
<1> DEFINE rows == {w \in tracking : Tracked(w)}
<1>1. pc = "tracking" /\ (\A c \in Counter : Exact(c)) /\ (\A w \in tracking : w.init_time > 0)
  BY DEF SelectTracking, CountInv
<1>2. PICK f \in Copies(rows) :
        /\ copy' = f
        /\ todo' = UpdateStatements(f) \cup (IF Inserts(f) = {} THEN {} ELSE {"insert"})
        /\ window' = [c \in Counter |->
                        IF \E s \in Supplied : c = CounterOf(s)
                          THEN Count(window[c], (CHOOSE s \in Supplied : c = CounterOf(s)).period)
                          ELSE window[c]]
  BY Zenon DEF SelectTracking, RejectQuota
<1>3. tracking' = tracking /\ rule' = rule /\ req' = req /\ pass' = pass /\ now' = now
  BY DEF SelectTracking
<1>4. /\ \A s : CounterOf(s)' = CounterOf(s)
      /\ \A c : RowOf(c)' = RowOf(c)
      /\ Updates(f)' = Updates(f) /\ UpdateStatements(f)' = UpdateStatements(f)
      /\ Inserts(f)' = Inserts(f)
      /\ \A w, p : Count(w, p)' = Count(w, p)
  BY <1>3 DEF CounterOf, TrackKey, TheUser, RowOf, Updates, UpdateStatements, Inserts, Count
<1>5. ASSUME NEW s \in Supplied
      PROVE  /\ s \in Settings /\ CounterOf(s) \in Counter
             /\ window'[CounterOf(s)] = Count(window[CounterOf(s)], s.period)
  <2>1. s \in Settings /\ Supplied \subseteq Settings
    BY Parts DEF Supplied
  <2>2. \A t \in Supplied : CounterOf(s) = CounterOf(t) => s = t
    BY <2>1, CounterInjective
  <2>3. (CHOOSE t \in Supplied : CounterOf(s) = CounterOf(t)) = s
    BY <2>2
  <2>4. CounterOf(s) \in Counter
    BY <2>1, CounterInjective
  <2> QED
    BY <1>2, <2>1, <2>3, <2>4
<1>6. ASSUME NEW r \in TrackedRules, rule[r] # NoSetting
      PROVE  LET s == rule[r]  c == CounterOf(s)
             IN  /\ s \in Supplied
                 /\ \/ /\ r \notin Updates(f) /\ RowOf(c) = {}
                       /\ window'[c] = [init_time |-> now, msgs |-> req.rcpts, quota |-> req.size]
                    \/ /\ r \in Updates(f) /\ f[r] \in tracking /\ RowOf(c) = {f[r]}
                       /\ window'[c] = Count(Totals(f[r]), s.period)
  <2>1. PICK s \in Supplied : s = rule[r]
    BY <1>6 DEF Supplied
  <2>2. PICK c \in Counter : c = CounterOf(s)
    BY <1>5
  <2>3. window'[c] = Count(window[c], s.period)
    BY <1>5, <2>2
  <2>4. \/ f[r] = NoRow /\ RowOf(c) = {} /\ window[c] = NoWindow
        \/ /\ f[r] # NoRow /\ f[r] \in tracking /\ f[r].account = TrackKey(s)
           /\ RowOf(c) = {f[r]} /\ window[c] = Totals(f[r])
    BY <1>1, <1>6, <2>1, <2>2, CopiesExact
  <2>5. CASE f[r] = NoRow /\ RowOf(c) = {} /\ window[c] = NoWindow
    <3>1. r \notin Updates(f)
      BY <2>5 DEF Updates
    <3>2. window'[c] = [init_time |-> now, msgs |-> req.rcpts, quota |-> req.size]
      <4>1. now \in Nat /\ Count(NoWindow, s.period)
              = [init_time |-> now, msgs |-> req.rcpts, quota |-> req.size]
        BY DEF Count, NoWindow, TypeOK
      <4> QED
        BY <2>3, <2>5, <4>1
    <3> QED
      BY <2>1, <2>2, <2>5, <3>1, <3>2
  <2>6. CASE /\ f[r] # NoRow /\ f[r] \in tracking /\ f[r].account = TrackKey(s)
             /\ RowOf(c) = {f[r]} /\ window[c] = Totals(f[r])
    <3>1. r \in Updates(f)
      BY <1>6, <2>1, <2>6 DEF Updates
    <3> QED
      BY <2>1, <2>2, <2>3, <2>6, <3>1
  <2> QED
    BY <2>4, <2>5, <2>6
<1>7. PendingInserts' = Inserts(f) /\ PendingUpdates' = UpdateStatements(f)
  <2>1. UpdateStatements(f) \subseteq TrackedRules /\ "insert" \notin TrackedRules
    BY DEF UpdateStatements, Updates, TrackedRules
  <2>2. PendingInserts' = IF "insert" \in todo' THEN Inserts(f)' ELSE {}
    BY <1>2, <1>3 DEF PendingInserts, Inserts, Updates, TrackKey, TheUser
  <2> QED
    BY <1>2, <1>4, <2>1, <2>2 DEF PendingUpdates
<1>8. \A s \in Inserts(f) :
        /\ RowOf(CounterOf(s)) = {}
        /\ window'[CounterOf(s)] = [init_time |-> now, msgs |-> req.rcpts, quota |-> req.size]
  BY <1>6, Zenon DEF Inserts
<1>9. \A r \in UpdateStatements(f) :
        /\ f[r] \in tracking /\ RowOf(CounterOf(rule[r])) = {f[r]}
        /\ window'[CounterOf(rule[r])] = Count(Totals(f[r]), rule[r].period)
  <2>1. SUFFICES ASSUME NEW r \in UpdateStatements(f)
        PROVE /\ f[r] \in tracking /\ RowOf(CounterOf(rule[r])) = {f[r]}
              /\ window'[CounterOf(rule[r])] = Count(Totals(f[r]), rule[r].period)
    OBVIOUS
  <2>2. r \in Updates(f) /\ r \in TrackedRules /\ rule[r] # NoSetting
    BY DEF UpdateStatements, Updates
  <2> QED
    BY <1>6, <2>2, Zenon
<1>10. \A r, q \in TrackedRules : rule[r] = rule[q] => f[r] = f[q]
  BY Zenon DEF Copies, TrackedRules
<1>11. ASSUME NEW c \in Counter,
              ~\E s \in Inserts(f) : c = CounterOf(s),
              ~\E r \in UpdateStatements(f) : c = CounterOf(rule[r])
       PROVE  Exact(c)'
  <2>1. ASSUME NEW s \in Supplied, c = CounterOf(s) PROVE FALSE
    <3>1. PICK r \in TrackedRules : rule[r] # NoSetting /\ s = rule[r]
      BY DEF Supplied
    <3>2. r \in Updates(f)
      BY <1>11, <2>1, <3>1, Zenon DEF Inserts
    <3>3. r \notin UpdateStatements(f)
      BY <1>11, <2>1, <3>1, Zenon
    <3>4. rule["max_msgs"] = rule["max_quota"] /\ r = "max_quota"
      BY <3>2, <3>3 DEF UpdateStatements
    <3>5. f["max_msgs"] = f["max_quota"]
      BY <1>10, <3>4 DEF TrackedRules
    <3>6. "max_msgs" \in UpdateStatements(f) /\ s = rule["max_msgs"]
      BY <3>1, <3>2, <3>4, <3>5 DEF UpdateStatements, Updates, TrackedRules
    <3> QED
      BY <1>11, <2>1, <3>6, Zenon
  <2>2. window'[c] = window[c]
    BY <1>2, <2>1
  <2>3. Exact(c)
    BY <1>1
  <2> QED
    BY <1>3, <1>4, <2>2, <2>3 DEF Exact
<1>12. \A c \in Counter : Pending(c)' \/ Exact(c)'
  <2>1. \A c : Pending(c)' <=> \/ \E s \in PendingInserts' : c = CounterOf(s)'
                               \/ \E r \in PendingUpdates' : c = CounterOf(rule[r])
    BY <1>3, <1>4 DEF Pending
  <2> QED
    BY <1>4, <1>7, <1>11, <2>1
<1>13. UpdateStatements(copy)' = UpdateStatements(f)
  BY <1>2, <1>3 DEF UpdateStatements, Updates, TrackKey, TheUser
<1>14. todo' \subseteq UpdateStatements(copy)' \cup {"insert"}
  BY <1>2, <1>13
<1>15. \A r, q \in TrackedRules : rule'[r] = rule'[q] => copy'[r] = copy'[q]
  BY <1>2, <1>3, <1>10
<1>16. \A s \in PendingInserts' :
         /\ RowOf(CounterOf(s))' = {}
         /\ window'[CounterOf(s)'] = [init_time |-> now', msgs |-> req'.rcpts, quota |-> req'.size]
  <2>1. \A s : RowOf(CounterOf(s))' = RowOf(CounterOf(s))
    BY <1>3 DEF CounterOf, TrackKey, TheUser, RowOf
  <2> QED
    BY <1>3, <1>4, <1>7, <1>8, <2>1
<1>17. \A r \in PendingUpdates' :
         /\ copy'[r] \in tracking' /\ RowOf(CounterOf(rule[r]))' = {copy'[r]}
         /\ window'[CounterOf(rule[r])'] = Count(Totals(copy[r]), rule[r].period)'
  <2>1. \A r : RowOf(CounterOf(rule[r]))' = RowOf(CounterOf(rule[r]))
    BY <1>3 DEF CounterOf, TrackKey, TheUser, RowOf
  <2>2. \A r : CounterOf(rule[r])' = CounterOf(rule[r])
    BY <1>3 DEF CounterOf, TrackKey, TheUser
  <2>3. \A r : Count(Totals(copy[r]), rule[r].period)' = Count(Totals(f[r]), rule[r].period)
    BY <1>2, <1>3 DEF Count, Totals
  <2> QED
    BY <1>2, <1>3, <1>7, <1>9, <2>1, <2>2, <2>3
<1> QED
  BY <1>12, <1>14, <1>15, <1>16, <1>17 DEF WriteInv

\* What the statements of a message read of it does not change between them.
LEMMA SameMessage ==
  ASSUME rule' = rule, req' = req, pass' = pass, now' = now, copy' = copy
  PROVE  /\ \A s : CounterOf(s)' = CounterOf(s)
         /\ \A r : CounterOf(rule[r])' = CounterOf(rule[r])
         /\ UpdateStatements(copy)' = UpdateStatements(copy) /\ Inserts(copy)' = Inserts(copy)
         /\ \A r : Count(Totals(copy[r]), rule[r].period)' = Count(Totals(copy[r]), rule[r].period)
BY DEF CounterOf, TrackKey, TheUser, Updates, UpdateStatements, Inserts, Count, Totals

\* The INSERT adds the one row of each counter that had none (throttle.py:645-692).
LEMMA InsertStep ==
  ASSUME TypeOK, RuleInv, RowInv, Regular, cleanups = 0, CountInv, Insert
  PROVE  CountInv'
<1> DEFINE Fresh(s) == [id |-> <<serial + 1, s.id>>, tid |-> s.id, account |-> TrackKey(s),
                        period |-> s.period, cur_msgs |-> req.rcpts, cur_quota |-> req.size,
                        init_time |-> now, last_notify_time |-> 0]
           new == {Fresh(s) : s \in Inserts(copy)}
<1>1. /\ WriteInv /\ pc = "write" /\ "insert" \in todo /\ now \in Nat \ {0}
      /\ \A w \in tracking : w.init_time > 0
      /\ PendingInserts = Inserts(copy) /\ Inserts(copy) \subseteq Settings
  <2>1. now \in Nat \ {0}
    BY DEF Insert, RuleInv, TypeOK
  <2> QED
    BY <2>1, Parts DEF Insert, CountInv, PendingInserts, Inserts
<1>2. /\ rule' = rule /\ req' = req /\ pass' = pass /\ now' = now /\ copy' = copy
      /\ window' = window /\ pc' = pc /\ todo' = todo \ {"insert"}
      /\ cleaner' = cleaner /\ cleanups' = cleanups
  BY DEF Insert, cleanerVars, historyVars
<1>3. ASSUME NEW s \in Inserts(copy)
      PROVE  /\ Fresh(s).tid = s.id /\ Fresh(s).account = TrackKey(s) /\ Fresh(s).init_time = now
             /\ Totals(Fresh(s)) = [init_time |-> now, msgs |-> req.rcpts, quota |-> req.size]
             /\ CounterOf(s) \in Counter /\ RowOf(CounterOf(s)) = {}
             /\ window[CounterOf(s)] = Totals(Fresh(s)) /\ window[CounterOf(s)] # NoWindow
  <2>1. Totals(Fresh(s)) = [init_time |-> now, msgs |-> req.rcpts, quota |-> req.size]
    BY DEF Totals
  <2>2. [init_time |-> now, msgs |-> req.rcpts, quota |-> req.size] # NoWindow
    <3>1. [init_time |-> now, msgs |-> req.rcpts, quota |-> req.size].init_time # NoWindow.init_time
      BY <1>1 DEF NoWindow
    <3> QED
      BY <3>1
  <2>3. CounterOf(s) \in Counter
    BY <1>1, CounterInjective
  <2>4. RowOf(CounterOf(s)) = {}
        /\ window[CounterOf(s)] = [init_time |-> now, msgs |-> req.rcpts, quota |-> req.size]
    BY <1>1, Zenon DEF WriteInv
  <2> QED
    BY <2>1, <2>2, <2>3, <2>4
<1> HIDE DEF Fresh
<1>4. tracking' = tracking \cup new
  <2>1. req.rcpts \in MsgsColumn /\ req.size \in QuotaColumn
    BY Parts DEF Regular, Fits
  <2>2. ~\E v \in new, w \in tracking : v.tid = w.tid /\ v.account = w.account
    <3>1. ASSUME NEW s \in Inserts(copy), NEW w \in tracking,
                 Fresh(s).tid = w.tid, Fresh(s).account = w.account
          PROVE  FALSE
      <4>1. w \in RowOf(CounterOf(s))
        BY <1>3, <3>1 DEF RowOf, CounterOf
      <4> QED
        BY <1>3, <4>1
    <3> QED
      BY <3>1
  <2> QED
    BY <2>1, <2>2 DEF Insert, Fresh
<1>5. /\ \A s : CounterOf(s)' = CounterOf(s)
      /\ \A r : CounterOf(rule[r])' = CounterOf(rule[r])
      /\ UpdateStatements(copy)' = UpdateStatements(copy) /\ Inserts(copy)' = Inserts(copy)
      /\ \A r : Count(Totals(copy[r]), rule[r].period)' = Count(Totals(copy[r]), rule[r].period)
  BY <1>2, SameMessage
<1>6. PendingInserts' = {} /\ PendingUpdates' = PendingUpdates
  BY <1>2 DEF PendingInserts, PendingUpdates, TrackedRules
<1>7. ASSUME NEW c, ~\E s \in Inserts(copy) : c = CounterOf(s) PROVE RowOf(c)' = RowOf(c) \/ c \notin Counter
  <2>1. SUFFICES ASSUME c \in Counter PROVE RowOf(c)' = RowOf(c)
    OBVIOUS
  <2>2. c = <<c[1], c[2]>>
    BY <2>1 DEF Counter
  <2>3. ASSUME NEW s \in Inserts(copy), Fresh(s).tid = c[1], Fresh(s).account = c[2] PROVE FALSE
    BY <1>3, <1>7, <2>2, <2>3 DEF CounterOf
  <2> QED
    BY <1>4, <2>3 DEF RowOf
<1>8. ASSUME NEW s \in Inserts(copy) PROVE Exact(CounterOf(s))'
  <2>1. PICK c \in Counter : c = CounterOf(s)
    BY <1>3
  <2>2. \A t \in Inserts(copy) : Fresh(t).tid = c[1] /\ Fresh(t).account = c[2] <=> t = s
    <3>1. c[1] = s.id /\ c[2] = TrackKey(s)
      BY <2>1 DEF CounterOf
    <3>2. Fresh(s).tid = c[1] /\ Fresh(s).account = c[2]
      BY <1>3, <3>1, Zenon
    <3>3. ASSUME NEW t \in Inserts(copy), Fresh(t).tid = c[1] PROVE t = s
      <4>1. t.id = s.id
        BY <1>3, <3>1, <3>3, Zenon
      <4> QED
        BY <1>1, <4>1, ConstantsAssumption
    <3> QED
      BY <3>2, <3>3, Zenon
  <2>3. RowOf(c)' = RowOf(c) \cup {Fresh(s)}
    BY <1>4, <2>2 DEF RowOf
  <2>4. RowOf(c)' = {Fresh(s)} /\ Fresh(s) \in tracking' /\ window'[c] = Totals(Fresh(s))
        /\ window'[c] # NoWindow
    BY <1>2, <1>3, <1>4, <2>1, <2>3
  <2>5. PICK row \in tracking' : row = Fresh(s)
    BY <2>4
  <2>6. Totals(row)' = Totals(row)
    BY DEF Totals
  <2>7. Exact(c)'
    BY <2>4, <2>5, <2>6 DEF Exact
  <2>8. CounterOf(s)' = c
    BY <1>5, <2>1
  <2> QED
    BY <2>7, <2>8 DEF Exact, RowOf
<1>9. \A c \in Counter : Pending(c)' \/ Exact(c)'
  <2>1. SUFFICES ASSUME NEW c \in Counter, ~Pending(c)' PROVE Exact(c)'
    OBVIOUS
  <2>2. ~\E r \in PendingUpdates : c = CounterOf(rule[r])
    BY <1>2, <1>5, <1>6, <2>1 DEF Pending
  <2>3. CASE \E s \in Inserts(copy) : c = CounterOf(s)
    <3>1. PICK s \in Inserts(copy) : c = CounterOf(s)
      BY <2>3
    <3>2. CounterOf(s)' = c
      BY <1>5, <3>1
    <3> QED
      BY <1>8, <3>2 DEF Exact, RowOf
  <2>4. CASE ~\E s \in Inserts(copy) : c = CounterOf(s)
    <3>1. Exact(c)
      BY <1>1, <2>2, <2>4 DEF WriteInv, Pending
    <3>2. RowOf(c)' = RowOf(c)
      BY <1>7, <2>4
    <3> QED
      BY <1>2, <1>4, <3>1, <3>2 DEF Exact, Totals
  <2> QED
    BY <2>3, <2>4
<1>10. \A r \in PendingUpdates' :
         /\ copy'[r] \in tracking' /\ RowOf(CounterOf(rule[r]))' = {copy'[r]}
         /\ window'[CounterOf(rule[r])'] = Count(Totals(copy[r]), rule[r].period)'
  <2>1. SUFFICES ASSUME NEW r \in PendingUpdates
        PROVE  /\ copy[r] \in tracking' /\ RowOf(CounterOf(rule[r]))' = {copy[r]}
               /\ window[CounterOf(rule[r])] = Count(Totals(copy[r]), rule[r].period)
    BY <1>2, <1>5, <1>6
  <2>2. /\ copy[r] \in tracking /\ RowOf(CounterOf(rule[r])) = {copy[r]}
        /\ window[CounterOf(rule[r])] = Count(Totals(copy[r]), rule[r].period)
    BY <1>1 DEF WriteInv
  <2>3. PICK c : c = CounterOf(rule[r]) /\ c = CounterOf(rule[r])'
    BY <1>5
  <2>4. ~\E s \in Inserts(copy) : c = CounterOf(s)
    BY <1>3, <2>2, <2>3
  <2>5. c \in Counter
    <3>1. r \in UpdateStatements(copy)
      BY <1>1 DEF WriteInv, PendingUpdates, TrackedRules
    <3>2. rule[r] \in Settings
      BY <3>1, Parts DEF UpdateStatements, Updates
    <3> QED
      BY <2>3, <3>2, CounterInjective
  <2>6. RowOf(c)' = RowOf(c)
    BY <1>7, <2>4, <2>5
  <2>7. RowOf(CounterOf(rule[r]))' = RowOf(c)'
    BY <2>3 DEF RowOf
  <2> QED
    BY <1>4, <2>2, <2>3, <2>6, <2>7
<1>11. WriteInv'
  <2>1. todo' \subseteq UpdateStatements(copy)' \cup {"insert"}
    BY <1>1, <1>2, <1>5 DEF WriteInv
  <2>2. \A r, q \in TrackedRules : rule'[r] = rule'[q] => copy'[r] = copy'[q]
    BY <1>1, <1>2 DEF WriteInv
  <2> QED
    BY <1>6, <1>9, <1>10, <2>1, <2>2 DEF WriteInv
<1>12. \A w \in tracking' : w.init_time > 0
  BY <1>1, <1>3, <1>4
<1> QED
  BY <1>1, <1>2, <1>11, <1>12 DEF CountInv

\* An UPDATE changes the one row of its counter, to what the counter ought to be
\* (throttle.py:645-711).
LEMMA UpdateStep ==
  ASSUME TypeOK, RuleInv, RowInv, Regular, cleanups = 0, CountInv,
         NEW r \in TrackedRules, Update(r)
  PROVE  CountInv'
<1>1. /\ WriteInv /\ pc = "write" /\ "insert" \notin todo /\ r \in todo /\ r \in PendingUpdates
      /\ \A w \in tracking : w.init_time > 0
      /\ PendingInserts = {} /\ now \in Nat \ {0}
  <2>1. now \in Nat \ {0}
    BY DEF Update, RuleInv, TypeOK
  <2> QED
    BY <2>1 DEF Update, CountInv, PendingInserts, PendingUpdates
<1>2. /\ rule' = rule /\ req' = req /\ pass' = pass /\ now' = now /\ copy' = copy
      /\ window' = window /\ pc' = pc /\ todo' = todo \ {r}
      /\ cleaner' = cleaner /\ cleanups' = cleanups
  BY DEF Update, cleanerVars, historyVars
<1>3. PICK old \in tracking : old = copy[r]
  BY <1>1 DEF WriteInv
<1>3a. PICK new : new = Updated(r, copy[r])
  OBVIOUS
<1>4. old \in Row /\ new \in Row /\ new.id = old.id /\ new.tid = old.tid /\ new.account = old.account
  <2>1. old \in Row
    BY <1>3, <1>3a DEF TypeOK
  <2> QED
    BY <1>3, <1>3a, <2>1, UpdatedFields
<1>5. tracking' = (tracking \ {old}) \cup {new}
  <2>1. new.cur_msgs \in MsgsColumn /\ new.cur_quota \in QuotaColumn
    BY <1>4 DEF Row, Regular, Fits
  <2>2. \A w \in tracking : w.id = copy[r].id <=> w = old
    BY <1>3, <1>3a DEF RowInv
  <2>3. tracking' = {IF w = old THEN new ELSE w : w \in tracking}
    <3>1. \A w \in tracking :
            (IF /\ w.id = copy[r].id
                /\ Updated(r, w).cur_msgs \in MsgsColumn
                /\ Updated(r, w).cur_quota \in QuotaColumn
               THEN Updated(r, w) ELSE w) = IF w = old THEN new ELSE w
      BY <1>3, <1>3a, <2>1, <2>2
    <3> QED
      BY <3>1 DEF Update
  <2> QED
    BY <1>3, <1>3a, <2>3
<1>6. PICK c0 : c0 = CounterOf(rule[r])
  OBVIOUS
<1>7. /\ RowOf(c0) = {old} /\ c0 \in Counter
      /\ window[c0] = Totals(new) /\ new.init_time > 0
  <2>1. RowOf(c0) = {old} /\ window[c0] = Count(Totals(old), rule[r].period)
    BY <1>1, <1>3, <1>3a, <1>6 DEF WriteInv
  <2>2. r \in UpdateStatements(copy)
    BY <1>1 DEF WriteInv, TrackedRules
  <2>3. c0 \in Counter
    BY <1>6, <2>2, Parts, CounterInjective DEF UpdateStatements, Updates
  <2>4. Totals(new) = Count(Totals(old), rule[r].period)
    <3>1. old.init_time > 0
      BY <1>1, <1>3, <1>3a
    <3> QED
      BY <1>3, <1>3a, <1>4, <3>1, CountOf, UpdatedFields
  <2>5. new.init_time > 0
    <3>1. new.init_time = Totals(new).init_time
      BY DEF Totals
    <3>2. Totals(new).init_time = now \/ Totals(new).init_time = old.init_time
      BY <1>3, <1>3a, <1>4, UpdatedFields
    <3> QED
      BY <1>1, <1>3, <1>3a, <3>1, <3>2
  <2> QED
    BY <2>1, <2>3, <2>4, <2>5
<1>8. /\ \A s : CounterOf(s)' = CounterOf(s)
      /\ \A q : CounterOf(rule[q])' = CounterOf(rule[q])
      /\ UpdateStatements(copy)' = UpdateStatements(copy) /\ Inserts(copy)' = Inserts(copy)
      /\ \A q : Count(Totals(copy[q]), rule[q].period)' = Count(Totals(copy[q]), rule[q].period)
  BY <1>2, SameMessage
<1>9. PendingInserts' = {} /\ PendingUpdates' = PendingUpdates \ {r}
  BY <1>1, <1>2 DEF PendingInserts, PendingUpdates, TrackedRules
<1>10. RowOf(c0)' = {new} /\ \A c \in Counter \ {c0} : RowOf(c)' = RowOf(c)
  <2>1. old.tid = c0[1] /\ old.account = c0[2]
    BY <1>7 DEF RowOf
  <2>2. \A c \in Counter : c # c0 => ~(old.tid = c[1] /\ old.account = c[2])
    BY <1>7, <2>1 DEF Counter
  <2>3. RowOf(c0)' = {new}
    BY <1>4, <1>5, <1>7, <2>1 DEF RowOf
  <2>4. \A c \in Counter \ {c0} : RowOf(c)' = RowOf(c)
    BY <1>4, <1>5, <2>2 DEF RowOf
  <2> QED
    BY <2>3, <2>4
<1>11. Exact(c0)'
  <2>1. window'[c0] # NoWindow
    <3>1. Totals(new).init_time # NoWindow.init_time
      BY <1>4, <1>7 DEF Totals, NoWindow, Row
    <3> QED
      BY <1>2, <1>7, <3>1
  <2>2. PICK row \in tracking' : row = new
    BY <1>5
  <2>3. Totals(row)' = Totals(row)
    BY DEF Totals
  <2> QED
    BY <1>2, <1>7, <1>10, <2>1, <2>2, <2>3 DEF Exact
<1>12. \A c \in Counter : Pending(c)' \/ Exact(c)'
  <2>1. SUFFICES ASSUME NEW c \in Counter, ~Pending(c)' PROVE Exact(c)'
    OBVIOUS
  <2>2. CASE c = c0
    BY <1>11, <2>2 DEF Exact, RowOf
  <2>3. CASE c # c0
    <3>1. ~\E q \in PendingUpdates : c = CounterOf(rule[q])
      BY <1>2, <1>6, <1>8, <1>9, <2>1, <2>3 DEF Pending
    <3>2. Exact(c)
      BY <1>1, <3>1 DEF WriteInv, Pending
    <3>3. RowOf(c)' = RowOf(c)
      BY <1>10, <2>3
    <3>4. RowOf(c) \subseteq tracking'
      BY <3>3 DEF RowOf
    <3> QED
      BY <1>2, <3>2, <3>3, <3>4 DEF Exact, Totals
  <2> QED
    BY <2>2, <2>3
<1>13. \A q \in PendingUpdates' :
         /\ copy'[q] \in tracking' /\ RowOf(CounterOf(rule[q]))' = {copy'[q]}
         /\ window'[CounterOf(rule[q])'] = Count(Totals(copy[q]), rule[q].period)'
  <2>1. SUFFICES ASSUME NEW q \in PendingUpdates, q # r
        PROVE  /\ copy[q] \in tracking' /\ RowOf(CounterOf(rule[q]))' = {copy[q]}
               /\ window[CounterOf(rule[q])] = Count(Totals(copy[q]), rule[q].period)
    BY <1>2, <1>8, <1>9
  <2>2. /\ copy[q] \in tracking /\ RowOf(CounterOf(rule[q])) = {copy[q]}
        /\ window[CounterOf(rule[q])] = Count(Totals(copy[q]), rule[q].period)
    BY <1>1 DEF WriteInv
  <2>3. PICK c : c = CounterOf(rule[q]) /\ c = CounterOf(rule[q])'
    BY <1>8
  <2>4. q \in UpdateStatements(copy) /\ r \in UpdateStatements(copy)
    BY <1>1 DEF WriteInv, PendingUpdates, TrackedRules
  <2>5. rule[q] \in Settings /\ rule[r] \in Settings /\ rule[q] # rule[r]
    BY <2>1, <2>4, Parts DEF UpdateStatements, Updates, TrackedRules
  <2>6. c \in Counter /\ c # c0
    BY <1>6, <2>3, <2>5, CounterInjective
  <2>7. RowOf(c)' = RowOf(c) /\ RowOf(CounterOf(rule[q]))' = RowOf(c)'
    BY <1>10, <2>3, <2>6 DEF RowOf
  <2>8. copy[q] \in tracking'
    BY <2>2, <2>3, <2>7 DEF RowOf
  <2> QED
    BY <2>2, <2>3, <2>7, <2>8
<1>14. WriteInv'
  <2>1. todo' \subseteq UpdateStatements(copy)' \cup {"insert"}
    BY <1>1, <1>2, <1>8 DEF WriteInv
  <2>2. \A p, q \in TrackedRules : rule'[p] = rule'[q] => copy'[p] = copy'[q]
    BY <1>1, <1>2 DEF WriteInv
  <2> QED
    BY <1>9, <1>12, <1>13, <2>1, <2>2 DEF WriteInv
<1>15. \A w \in tracking' : w.init_time > 0
  BY <1>1, <1>5, <1>7
<1>16. cleaner = "stopped"
  BY DEF CountInv
<1> QED
  BY <1>1, <1>2, <1>14, <1>15, <1>16 DEF CountInv

\* The notification changes no counter (throttle.py:182-209).
LEMMA NotifyStep ==
  ASSUME TypeOK, RowInv, cleanups = 0, CountInv, Notify
  PROVE  CountInv'
<1> DEFINE g == [w \in tracking |-> IF w.id \in {copy[r].id : r \in todo}
                                      THEN [w EXCEPT !.last_notify_time = clock] ELSE w]
<1>1. tracking' = {g[w] : w \in tracking} /\ window' = window /\ pc' = "idle"
      /\ cleaner' = cleaner /\ cleanups' = cleanups /\ pc = "notify"
  BY DEF Notify, Answer, cleanerVars, historyVars
<1>2. \A w \in tracking : /\ g[w].tid = w.tid /\ g[w].account = w.account
                          /\ g[w].init_time = w.init_time /\ Totals(g[w]) = Totals(w)
  <2>1. \A w \in tracking : /\ g[w].tid = w.tid /\ g[w].account = w.account
                            /\ g[w].init_time = w.init_time /\ g[w].cur_msgs = w.cur_msgs
                            /\ g[w].cur_quota = w.cur_quota
    BY DEF TypeOK, Row
  <2> QED
    BY <2>1 DEF Totals
<1> HIDE DEF g
<1>3. /\ \A c \in Counter : Exact(c)
      /\ cleaner = "stopped" /\ \A w \in tracking : w.init_time > 0
  BY <1>1 DEF CountInv
<1>4. ASSUME NEW c \in Counter PROVE Exact(c)'
  <2>1. RowOf(c)' = {g[w] : w \in RowOf(c)}
    BY <1>1, <1>2 DEF RowOf
  <2>2. CASE window[c] = NoWindow
    BY <1>1, <1>3, <2>1, <2>2 DEF Exact
  <2>3. CASE window[c] # NoWindow
    <3>1. PICK row \in tracking : RowOf(c) = {row} /\ window[c] = Totals(row)
      BY <1>3, <2>3 DEF Exact
    <3>2. PICK new \in tracking' : new = g[row]
      BY <1>1
    <3>3. RowOf(c)' = {new} /\ window'[c] = Totals(new)
      BY <1>1, <1>2, <2>1, <3>1, <3>2
    <3>4. Totals(new)' = Totals(new)
      BY DEF Totals
    <3> QED
      BY <1>1, <2>3, <3>3, <3>4 DEF Exact
  <2> QED
    BY <2>2, <2>3
<1>5. \A w \in tracking' : w.init_time > 0
  BY <1>1, <1>2, <1>3
<1> QED
  BY <1>1, <1>3, <1>4, <1>5 DEF CountInv

\* Until a cleanup job has run, every step keeps the counters exact, but for the
\* statements in progress (throttle.py:212-720).
LEMMA CountStep ==
  ASSUME TypeOK, RuleInv, RowInv, Regular, CountInv, [Next]_vars
  PROVE  CountInv'
<1>1. SUFFICES ASSUME cleanups' = 0 PROVE CountInv'
  BY DEF CountInv
<1>2. cleanups = 0 /\ ~StartCleanup /\ cleaner = "stopped" /\ cleaner' = "stopped"
  <2>1. CASE Daemon \/ Tick \/ UNCHANGED vars
    <3>1. UNCHANGED cleanerVars
      BY <2>1, Zenon DEF Daemon, Serve, Receive, SelectSettings, SelectTracking, Notify, Insert,
                         Update, EndPass, Tick, vars
    <3> QED
      BY <1>1, <3>1 DEF cleanerVars, CountInv, StartCleanup, TypeOK
  <2>2. CASE StartCleanup
    BY <1>1, <2>2 DEF StartCleanup, TypeOK
  <2>3. CASE Cleanup
    BY <1>1, <2>3 DEF Cleanup, CleanupSelect, CleanupDelete, CountInv
  <2> QED
    BY <2>1, <2>2, <2>3 DEF Next
<1>3. ASSUME tracking' = tracking, window' = window, pc # "write", pc' # "write"
      PROVE  CountInv'
  <2>1. \A c \in Counter : Exact(c)
    BY <1>2, <1>3 DEF CountInv
  <2>2. \A c \in Counter : Exact(c)'
    BY <1>3, <2>1 DEF Exact, RowOf, Totals
  <2> QED
    BY <1>2, <1>3, <2>2 DEF CountInv
<1>4. CASE Receive \/ SelectSettings
  <2>1. pc # "write" /\ pc' # "write" /\ tracking' = tracking /\ window' = window
    BY <1>4 DEF Receive, SelectSettings, PassOver, Answer, historyVars
  <2> QED
    BY <1>3, <2>1
<1>5. CASE SelectTracking
  <2>1. pc = "tracking" /\ tracking' = tracking
    BY <1>5 DEF SelectTracking
  <2>2. CASE pc' = "write"
    <3>1. WriteInv'
      BY <1>2, <1>5, <2>2, AcceptStep DEF Regular
    <3> QED
      BY <1>2, <2>1, <2>2, <3>1 DEF CountInv
  <2>3. CASE pc' # "write"
    <3>1. window' = window
      BY <1>5, <2>3, Zenon DEF SelectTracking, RejectQuota
    <3> QED
      BY <1>3, <2>1, <2>3, <3>1
  <2> QED
    BY <2>2, <2>3
<1>6. CASE EndPass
  <2>1. /\ pc = "write" /\ pc' # "write" /\ todo = {} /\ tracking' = tracking /\ window' = window
    BY <1>6 DEF EndPass, PassOver, historyVars
  <2>2. \A c \in Counter : Exact(c)
    BY <1>2, <2>1 DEF CountInv, WriteInv, Pending, PendingInserts, PendingUpdates
  <2>3. \A c \in Counter : Exact(c)'
    BY <2>1, <2>2 DEF Exact, RowOf, Totals
  <2> QED
    BY <1>2, <2>1, <2>3 DEF CountInv
<1>7. CASE Cleanup
  BY <1>2, <1>7 DEF Cleanup, CleanupSelect, CleanupDelete
<1>8. CASE Tick \/ UNCHANGED vars
  <2>1. /\ tracking' = tracking /\ window' = window /\ pc' = pc /\ todo' = todo
        /\ rule' = rule /\ req' = req /\ pass' = pass /\ now' = now /\ copy' = copy
        /\ cleaner' = cleaner /\ cleanups' = cleanups
    BY <1>8 DEF Tick, vars, daemonVars, cleanerVars, historyVars
  <2>2. CASE pc # "write"
    BY <1>3, <2>1, <2>2
  <2>3. CASE pc = "write"
    <3>1. WriteInv
      BY <1>2, <2>3 DEF CountInv
    <3>2. WriteInv'
      <4>1. /\ \A s : CounterOf(s)' = CounterOf(s)
            /\ \A r : CounterOf(rule[r])' = CounterOf(rule[r])
            /\ UpdateStatements(copy)' = UpdateStatements(copy) /\ Inserts(copy)' = Inserts(copy)
            /\ \A r : Count(Totals(copy[r]), rule[r].period)' = Count(Totals(copy[r]), rule[r].period)
        BY <2>1, SameMessage
      <4>2. /\ \A c : RowOf(c)' = RowOf(c) /\ Exact(c)' = Exact(c)
            /\ \A s : RowOf(CounterOf(s))' = RowOf(CounterOf(s))
            /\ \A r : RowOf(CounterOf(rule[r]))' = RowOf(CounterOf(rule[r]))
        BY <2>1 DEF RowOf, Exact, Totals, CounterOf, TrackKey, TheUser
      <4>3. PendingInserts' = PendingInserts /\ PendingUpdates' = PendingUpdates
        BY <2>1, <4>1 DEF PendingInserts, PendingUpdates
      <4>4. \A c : Pending(c)' = Pending(c)
        BY <4>1, <4>3 DEF Pending
      <4> QED
        BY <2>1, <3>1, <4>1, <4>2, <4>3, <4>4 DEF WriteInv
    <3> QED
      BY <1>2, <2>1, <2>3, <3>2 DEF CountInv
  <2> QED
    BY <2>2, <2>3
<1>9. CASE Notify
  BY <1>2, <1>9, NotifyStep
<1>10. CASE Insert
  BY <1>2, <1>10, InsertStep
<1>11. ASSUME NEW r \in TrackedRules, Update(r) PROVE CountInv'
  BY <1>2, <1>11, UpdateStep
<1> QED
  BY <1>2, <1>4, <1>5, <1>6, <1>7, <1>8, <1>9, <1>10, <1>11, Zenon DEF Next, Daemon, Serve

-----------------------------------------------------------------------------
(* The theorems *)

\* No request is judged, no row is written and no clock runs at first.
LEMMA InitInv == Init => TypeOK /\ RuleInv /\ RowInv /\ CountInv
<1> SUFFICES ASSUME Init PROVE TypeOK /\ RuleInv /\ RowInv /\ CountInv
  OBVIOUS
<1>1. TypeOK
  <2>1. 1 \in 1..(MaxClock + 1) /\ 0 \in 0..1
    BY ConstantsAssumption
  <2>2. NoWindow \in [init_time: Nat, msgs: Nat, quota: Nat]
    BY DEF NoWindow
  <2> QED
    BY <2>1, <2>2 DEF Init, TypeOK
<1>2. \A c \in Counter : Exact(c)
  BY DEF Init, Exact, RowOf
<1> QED
  BY <1>1, <1>2 DEF Init, RuleInv, RowInv, CountInv

TableInv == TypeOK /\ RuleInv /\ RowInv /\ (Regular => CountInv)

\* Every step keeps all of it.
LEMMA TableStep == TableInv /\ [Next]_vars => TableInv'
<1>1. Regular' = Regular
  BY DEF Regular, Fits, NoWildcard
<1> QED
  BY <1>1, TypeStep, RuleStep, RowStep, CountStep DEF TableInv

\* The daemon and the cleanup job keep every row and every local of its type, for any
\* settings, requests and schedule (throttle.py:212-720, cleanup_db.py:28-31).
THEOREM TypeCorrect == Spec => []TypeOK
<1>1. Init => TableInv
  BY InitInv DEF TableInv
<1>2. TableInv => TypeOK
  BY DEF TableInv
<1> QED
  BY TableStep, <1>1, <1>2, PTL DEF Spec

\* For any settings but those of wildcard accounts, any requests and any schedule, the
\* table holds exactly the open windows between two requests until a cleanup job runs,
\* if its columns hold the counts (throttle.py:441-711).
THEOREM CountersAreExact == Spec => [](Regular => CountersExact)
<1>1. Init => TableInv
  BY InitInv DEF TableInv
<1>2. TableInv => (Regular => CountersExact)
  BY DEF TableInv, CountInv, CountersExact, Exact, Totals
<1> QED
  BY TableStep, <1>1, <1>2, PTL DEF Spec

\* What such a counter says of a message is what an exact fixed window would say
\* (throttle.py:511-608).
LEMMA VerdictStep ==
  ASSUME TableInv, Regular, cleanups = 0, Accepted \/ Rejected, Next
  PROVE  Accepted <=>
           /\ Limit("max_msgs") > 0
                => WindowOf("max_msgs").msgs + req.rcpts <= Limit("max_msgs")
           /\ Limit("max_quota") > 0 => WindowOf("max_quota").quota <= Limit("max_quota")
<1>1. /\ TypeOK /\ RuleInv /\ RowInv /\ NoWildcard /\ pc = "tracking" /\ \A c \in Counter : Exact(c)
      /\ \A w \in tracking : w.init_time > 0
  BY DEF TableInv, CountInv, Regular, Accepted, Rejected
<1>2. SelectTracking
  <2>1. pc' # pc
    BY DEF Accepted, Rejected
  <2> QED
    BY <1>1, <2>1, Zenon
    DEF Next, Daemon, Serve, Receive, SelectSettings, Notify, Insert, Update, EndPass,
        StartCleanup, Cleanup, CleanupSelect, CleanupDelete, Tick, daemonVars
<1>3. PICK f \in Copies({w \in tracking : Tracked(w)}) :
        Accepted <=> ~MsgsExceeded(f) /\ ~QuotaExceeded(f)
  <2>1. PICK f \in Copies({w \in tracking : Tracked(w)}) :
          IF MsgsExceeded(f) \/ QuotaExceeded(f) THEN pc' \in {"notify", "idle"} ELSE pc' = "write"
    BY <1>2, Zenon DEF SelectTracking, RejectQuota
  <2> QED
    BY <1>1, <2>1 DEF Accepted
<1>4. ASSUME NEW r \in TrackedRules, rule[r] # NoSetting
      PROVE  /\ Current(r, f[r], f[r].cur_msgs) = WindowOf(r).msgs
             /\ Current(r, f[r], f[r].cur_quota) = WindowOf(r).quota
  <2>1. PICK c \in Counter : c = CounterOf(rule[r])
    BY <1>1, <1>4, CopiesExact
  <2>2. WindowOf(r) = IF now > window[c].init_time + rule[r].period THEN NoWindow ELSE window[c]
    BY <2>1 DEF WindowOf
  <2>3. \/ f[r] = NoRow /\ window[c] = NoWindow
        \/ f[r] \in tracking /\ window[c] = Totals(f[r])
    BY <1>1, <1>4, <2>1, CopiesExact
  <2>4. CASE f[r] = NoRow /\ window[c] = NoWindow
    BY <2>2, <2>4 DEF Current, NoRow, NoWindow
  <2>5. CASE f[r] \in tracking /\ window[c] = Totals(f[r])
    BY <1>1, <2>2, <2>5 DEF Current, Expired, Totals, NoWindow
  <2> QED
    BY <2>3, <2>4, <2>5
<1>5. ASSUME NEW r \in TrackedRules, rule[r].limit[r] > 0 PROVE rule[r] # NoSetting
  <2>1. NoSetting.limit[r] = -1
    BY DEF NoSetting, TrackedRules, Rules
  <2> QED
    BY <1>5, <2>1
<1>6. /\ rule["max_msgs"].limit["max_msgs"] \in Int /\ rule["max_quota"].limit["max_quota"] \in Int
      /\ req.rcpts \in Nat
  <2>1. \A s \in Settings \cup {NoSetting} : s.limit \in [Rules -> Int]
    BY <1>1, Parts DEF SettingType, NoSetting
  <2>2. rule["max_msgs"] \in Settings \cup {NoSetting} /\ rule["max_quota"] \in Settings \cup {NoSetting}
    BY <1>1, Parts DEF TrackedRules
  <2>3. req.rcpts \in Nat
    BY <1>1, Parts
  <2> QED
    BY <2>1, <2>2, <2>3 DEF Rules
<1>7. ASSUME NEW r \in TrackedRules, rule[r] # NoSetting
      PROVE  WindowOf(r).msgs \in Nat /\ WindowOf(r).quota \in Nat
  <2>1. CounterOf(rule[r]) \in Counter
    BY <1>1, <1>7, CopiesExact
  <2>2. window[CounterOf(rule[r])] \in [init_time: Nat, msgs: Nat, quota: Nat]
    BY <1>1, <2>1 DEF TypeOK
  <2> QED
    BY <2>2 DEF WindowOf, NoWindow
<1>8. MsgsExceeded(f) <=> Limit("max_msgs") > 0 /\ WindowOf("max_msgs").msgs + req.rcpts > Limit("max_msgs")
  BY <1>4, <1>5 DEF MsgsExceeded, Limit, TrackedRules
<1>9. QuotaExceeded(f) <=> Limit("max_quota") > 0 /\ WindowOf("max_quota").quota > Limit("max_quota")
  BY <1>4, <1>5 DEF QuotaExceeded, Limit, TrackedRules
<1>10. Limit("max_msgs") > 0 => rule["max_msgs"] # NoSetting
  BY <1>5 DEF Limit, TrackedRules
<1>11. Limit("max_quota") > 0 => rule["max_quota"] # NoSetting
  BY <1>5 DEF Limit, TrackedRules
<1> QED
  BY <1>3, <1>6, <1>7, <1>8, <1>9, <1>10, <1>11 DEF Limit, TrackedRules

\* For any settings but those of wildcard accounts, any requests and any schedule,
\* every verdict is the one an exact counter would give until a cleanup job runs, if
\* the columns hold the counts (throttle.py:441-608).
THEOREM VerdictsAreExact ==
  ASSUME Regular
  PROVE  Spec => VerdictExact
<1> DEFINE Due ==
      cleanups = 0 /\ (Accepted \/ Rejected) =>
        (Accepted <=>
           /\ Limit("max_msgs") > 0
                => WindowOf("max_msgs").msgs + req.rcpts <= Limit("max_msgs")
           /\ Limit("max_quota") > 0 => WindowOf("max_quota").quota <= Limit("max_quota"))
<1>1. Init => TableInv
  BY InitInv DEF TableInv
<1>2. TableInv /\ [Next]_vars => [Due]_vars
  BY VerdictStep
<1> QED
  BY TableStep, <1>1, <1>2, PTL DEF Spec, VerdictExact

-----------------------------------------------------------------------------
(* Notifications *)

\* A notification was mailed in the past, and has its row's own times to go by, unless
\* the branch reads those of another one.
NotifyInv ==
  /\ \A w \in tracking : w.last_notify_time <= clock
  /\ \A w \in tracking : \E s \in Settings : w.tid = s.id /\ w.period = s.period
  /\ pc \in {"notify", "write"} => \A r \in TrackedRules :
       /\ copy[r].id[1] \in 0..serial
       /\ \A w \in tracking : w.id = copy[r].id => rule[r] # NoSetting /\ w.tid = rule[r].id
  /\ pc = "notify" => \E r \in TrackedRules :
       /\ todo = {r}
       /\ \A w \in tracking : w.id = copy[r].id => w = copy[r]
       /\ OtherNotifyTime \/ NotifyDue(r, copy[r], copy[r].last_notify_time)

\* A rule that is supplied at all is a setting.
LEMMA RuleIsSetting ==
  ASSUME TypeOK, NEW r \in TrackedRules, rule[r] # NoSetting
  PROVE  rule[r] \in Settings /\ rule[r].id \in Nat /\ rule[r].period \in Nat
<1>1. rule[r] \in Settings
  BY DEF TypeOK, TrackedRules, Rules
<1> QED
  BY <1>1, ConstantsAssumption DEF SettingType

\* Rows that go, and what moves on elsewhere, change nothing.
LEMMA NotifyStays ==
  ASSUME TypeOK, NotifyInv, tracking' \subseteq tracking, serial' = serial, clock' \in Nat, clock <= clock',
         UNCHANGED <<rule, copy, todo, now>>, pc' \in {"notify", "write"} => pc' = pc
  PROVE  NotifyInv'
<1>1. \A w \in tracking' : w.last_notify_time <= clock'
  BY DEF NotifyInv, TypeOK, Row
<1>2. \A r : NotifyDue(r, copy[r], copy[r].last_notify_time)' <=> NotifyDue(r, copy[r], copy[r].last_notify_time)
  BY DEF NotifyDue, Expired
<1>3. OtherNotifyTime' <=> OtherNotifyTime
  BY DEF OtherNotifyTime
<1> QED
  BY <1>1, <1>2, <1>3 DEF NotifyInv

\* What is read and found due.
LEMMA NotifyRead ==
  ASSUME TypeOK, RuleInv, RowInv, NotifyInv, SelectTracking
  PROVE  NotifyInv'
<1>0. /\ UNCHANGED <<clock, tracking, serial, now, rule>> /\ pc = "tracking"
  BY DEF SelectTracking
<1>1. PICK f, rows : /\ rows \in SUBSET tracking /\ f \in Copies(rows) /\ copy' = f
                     /\ pc' = "notify" => \E r \in TrackedRules :
                          /\ todo' = {r}
                          /\ \/ todo' = {"max_quota"} /\ rule["max_msgs"] # rule["max_quota"]
                             \/ NotifyDue(r, f[r], f[r].last_notify_time)
  <2>1. PICK rows : rows = {row \in tracking : Tracked(row)}
    OBVIOUS
  <2>2. PICK f \in Copies(rows) :
           /\ copy' = f
           /\ IF MsgsExceeded(f)
                THEN /\ RejectQuota(NotifyDue("max_msgs", f["max_msgs"], f["max_msgs"].last_notify_time))
                     /\ todo' = {"max_msgs"}
              ELSE IF QuotaExceeded(f)
                THEN /\ \E w \in IF rule["max_msgs"] # NoSetting THEN {f["max_msgs"]} ELSE rows :
                          RejectQuota(NotifyDue("max_quota", f["max_quota"], w.last_notify_time))
                     /\ todo' = {"max_quota"}
              ELSE pc' = "write"
    BY <2>1 DEF SelectTracking
  <2>3. \A due : RejectQuota(due) /\ pc' = "notify" => due
    BY DEF RejectQuota
  <2>4. CASE MsgsExceeded(f)
    BY <2>1, <2>2, <2>3, <2>4 DEF TrackedRules
  <2>5. CASE ~MsgsExceeded(f) /\ QuotaExceeded(f)
    <3>1. rule["max_quota"] # NoSetting
      BY <2>5 DEF QuotaExceeded, NoSetting, Rules
    <3>2. CASE rule["max_msgs"] # rule["max_quota"]
      BY <2>1, <2>2, <2>5, <3>2 DEF TrackedRules
    <3>3. CASE rule["max_msgs"] = rule["max_quota"]
      <4>1. f["max_msgs"] = f["max_quota"]
        BY <3>3 DEF Copies
      <4>2. /\ RejectQuota(NotifyDue("max_quota", f["max_quota"], f["max_quota"].last_notify_time))
            /\ todo' = {"max_quota"}
        BY <2>2, <2>5, <3>1, <3>3, <4>1
      <4> QED
        BY <2>1, <2>2, <2>3, <4>2 DEF TrackedRules
    <3> QED
      BY <3>2, <3>3
  <2>6. CASE ~MsgsExceeded(f) /\ ~QuotaExceeded(f)
    BY <2>1, <2>2, <2>6
  <2> QED
    BY <2>4, <2>5, <2>6
<1>2. ASSUME NEW r \in TrackedRules
      PROVE  /\ f[r].id[1] \in 0..serial
             /\ \A w \in tracking : w.id = f[r].id =>
                  w = f[r] /\ rule[r] # NoSetting /\ w.tid = rule[r].id
  <2>1. serial \in Nat
    BY DEF TypeOK
  <2>2. CASE f[r] = NoRow
    <3>1. f[r].id[1] = 0
      BY <2>2 DEF NoRow
    <3>2. \A w \in tracking : w.id[1] # 0
      BY <2>1 DEF RowInv
    <3> QED
      BY <2>1, <3>1, <3>2
  <2>3. CASE f[r] # NoRow
    <3>1. f[r] \in rows /\ rule[r] # NoSetting /\ f[r].tid = rule[r].id
      BY <1>1, <1>2, <2>3 DEF Copies
    <3>2. f[r] \in tracking
      BY <1>1, <3>1
    <3> QED
      BY <2>1, <3>1, <3>2 DEF RowInv
  <2> QED
    BY <2>2, <2>3
<1>3. \A r : NotifyDue(r, copy[r], copy[r].last_notify_time)' <=> NotifyDue(r, f[r], f[r].last_notify_time)
  BY <1>0, <1>1 DEF NotifyDue, Expired
<1>4. OtherNotifyTime' <=> (todo' = {"max_quota"} /\ rule["max_msgs"] # rule["max_quota"])
  BY <1>0 DEF OtherNotifyTime
<1>5. \A r \in TrackedRules :
       /\ copy'[r].id[1] \in 0..serial'
       /\ \A w \in tracking' : w.id = copy'[r].id => w = copy'[r] /\ rule'[r] # NoSetting /\ w.tid = rule'[r].id
  BY <1>0, <1>1, <1>2
<1>6. pc' = "notify" => \E r \in TrackedRules :
       /\ todo' = {r}
       /\ OtherNotifyTime' \/ NotifyDue(r, copy[r], copy[r].last_notify_time)'
  BY <1>1, <1>3, <1>4
<1>7. /\ \A w \in tracking' : w.last_notify_time <= clock'
      /\ \A w \in tracking' : \E s \in Settings : w.tid = s.id /\ w.period = s.period
  BY <1>0 DEF NotifyInv
<1> QED
  BY <1>5, <1>6, <1>7 DEF NotifyInv

\* Every step keeps it.
LEMMA NotifyNext == TypeOK /\ RuleInv /\ RowInv /\ NotifyInv /\ [Next]_vars => NotifyInv'
<1> SUFFICES ASSUME TypeOK, RuleInv, RowInv, NotifyInv, [Next]_vars PROVE NotifyInv'
  OBVIOUS
<1>0. clock \in Nat /\ serial \in Nat
  BY ConstantsAssumption DEF TypeOK
<1>1. CASE Receive \/ SelectSettings \/ EndPass
  <2>1. UNCHANGED <<clock, tracking, serial>> /\ pc' \notin {"notify", "write"}
    BY <1>1 DEF Receive, SelectSettings, EndPass, PassOver, Answer
  <2> QED
    BY <2>1 DEF NotifyInv
<1>2. CASE SelectTracking
  BY <1>2, NotifyRead
<1>3. CASE Notify
  <2>1. /\ pc' = "idle" /\ clock' = clock
        /\ tracking' = {IF row.id \in {copy[r].id : r \in todo}
                          THEN [row EXCEPT !.last_notify_time = clock] ELSE row : row \in tracking}
    BY <1>3 DEF Notify, Answer
  <2>2. ASSUME NEW v \in tracking'
        PROVE  v.last_notify_time <= clock /\ \E s \in Settings : v.tid = s.id /\ v.period = s.period
    <3>1. PICK w \in tracking : v = w \/ v = [w EXCEPT !.last_notify_time = clock]
      BY <2>1
    <3>2. w \in Row /\ w.last_notify_time <= clock /\ \E s \in Settings : w.tid = s.id /\ w.period = s.period
      BY DEF TypeOK, NotifyInv
    <3> QED
      BY <1>0, <3>1, <3>2 DEF Row
  <2> QED
    BY <2>1, <2>2 DEF NotifyInv
<1>4. CASE Insert
  <2> DEFINE Fresh(s) == [id |-> <<serial + 1, s.id>>, tid |-> s.id, account |-> TrackKey(s),
                          period |-> s.period, cur_msgs |-> req.rcpts, cur_quota |-> req.size,
                          init_time |-> now, last_notify_time |-> 0]
             new == {Fresh(s) : s \in Inserts(copy)}
  <2>1. tracking' \subseteq tracking \cup new /\ serial' = serial + 1
    BY <1>4, Zenon DEF Insert
  <2>2. pc = "write" /\ UNCHANGED <<pc, clock, rule, copy>>
    BY <1>4 DEF Insert
  <2>3. Inserts(copy) \subseteq Settings
    BY Parts DEF Inserts, TypeOK
  <2>4. \A s \in Settings : /\ Fresh(s).id[1] = serial + 1 /\ Fresh(s).last_notify_time = 0
                            /\ Fresh(s).tid = s.id /\ Fresh(s).period = s.period
    OBVIOUS
  <2> HIDE DEF Fresh
  <2>5. \A v \in tracking' : v \in tracking \/ \E s \in Settings : v = Fresh(s)
    BY <2>1, <2>3
  <2> HIDE DEF new
  <2>6. \A v \in tracking' : v.last_notify_time <= clock'
    BY <1>0, <2>2, <2>4, <2>5 DEF NotifyInv
  <2>7. \A v \in tracking' : \E s \in Settings : v.tid = s.id /\ v.period = s.period
    BY <2>4, <2>5 DEF NotifyInv
  <2>8. ASSUME NEW r \in TrackedRules
        PROVE  /\ copy'[r].id[1] \in 0..serial'
               /\ \A w \in tracking' : w.id = copy'[r].id => rule'[r] # NoSetting /\ w.tid = rule'[r].id
    <3>1. copy[r].id[1] \in 0..serial /\ copy[r].id[1] # serial + 1 /\ copy[r].id[1] \in 0..(serial + 1)
      BY <1>0, <2>2 DEF NotifyInv
    <3>2. \A w \in tracking : w.id = copy[r].id => rule[r] # NoSetting /\ w.tid = rule[r].id
      BY <2>2 DEF NotifyInv
    <3> QED
      BY <2>1, <2>2, <2>4, <2>5, <3>1, <3>2
  <2> QED
    BY <2>2, <2>6, <2>7, <2>8 DEF NotifyInv
<1>5. ASSUME NEW r \in TrackedRules, Update(r) PROVE NotifyInv'
  <2>1. /\ pc = "write" /\ UNCHANGED <<clock, serial, pc, rule, copy>>
        /\ \A v \in tracking' : \E w \in tracking : v = w \/ (w.id = copy[r].id /\ v = Updated(r, w))
    BY <1>5 DEF Update
  <2>2. ASSUME NEW v \in tracking'
        PROVE  /\ v.last_notify_time <= clock /\ \E s \in Settings : v.tid = s.id /\ v.period = s.period
               /\ \E w \in tracking : v.id = w.id /\ v.tid = w.tid
    <3>1. PICK w \in tracking : v = w \/ (w.id = copy[r].id /\ v = Updated(r, w))
      BY <2>1
    <3>2. w \in Row /\ w.last_notify_time <= clock /\ \E s \in Settings : w.tid = s.id /\ w.period = s.period
      BY DEF TypeOK, NotifyInv
    <3>3. CASE w.id = copy[r].id /\ v = Updated(r, w)
      <4>1. rule[r] # NoSetting /\ w.tid = rule[r].id
        BY <2>1, <3>3 DEF NotifyInv
      <4>2. rule[r] \in Settings
        BY <4>1, RuleIsSetting
      <4>3. v.id = w.id /\ v.tid = w.tid
        BY <3>2, <3>3, UpdatedFields
      <4>4. v.period = rule[r].period /\ v.last_notify_time = w.last_notify_time
        BY <3>2, <3>3 DEF Updated, Row
      <4> QED
        BY <3>2, <4>1, <4>2, <4>3, <4>4
    <3> QED
      BY <3>1, <3>2, <3>3
  <2> QED
    BY <2>1, <2>2 DEF NotifyInv
<1>6. CASE StartCleanup \/ Cleanup \/ Tick \/ UNCHANGED vars
  <2>1. tracking' \subseteq tracking /\ serial' = serial /\ clock' \in {clock, clock + 1}
    BY <1>6, Zenon DEF StartCleanup, Cleanup, CleanupSelect, CleanupDelete, Tick, vars
  <2>2. UNCHANGED daemonVars
    BY <1>6, Zenon DEF StartCleanup, Cleanup, CleanupSelect, CleanupDelete, Tick, vars
  <2>3. UNCHANGED <<rule, copy, todo, now, pc>>
    BY <2>2 DEF daemonVars
  <2>4. clock' \in Nat /\ clock <= clock'
    BY <1>0, <2>1
  <2> QED
    BY <2>1, <2>3, <2>4, NotifyStays
<1> QED
  BY <1>1, <1>2, <1>3, <1>4, <1>5, <1>6, Zenon DEF Next, Daemon, Serve

\* A notification comes after the window's beginning only once.
LEMMA NotifiedStep ==
  ASSUME TypeOK, RowInv, NotifyInv, [Next]_vars, ~OtherNotifyTime,
         NEW row \in tracking, NEW new \in tracking', row.id = new.id,
         row.last_notify_time # new.last_notify_time, clock <= row.init_time + row.period
  PROVE  row.last_notify_time <= row.init_time
<1>0. clock \in Nat /\ serial \in Nat /\ now \in 0..clock
  BY ConstantsAssumption DEF TypeOK
<1>1. Notify
  <2>1. CASE tracking' \subseteq tracking
    BY <2>1 DEF RowInv
  <2>2. CASE Insert
    <3> DEFINE Fresh(s) == [id |-> <<serial + 1, s.id>>, tid |-> s.id, account |-> TrackKey(s),
                            period |-> s.period, cur_msgs |-> req.rcpts, cur_quota |-> req.size,
                            init_time |-> now, last_notify_time |-> 0]
               fresh == {Fresh(s) : s \in Inserts(copy)}
    <3>1. tracking' \subseteq tracking \cup fresh
      BY <2>2, Zenon DEF Insert
    <3>2. \A w \in fresh : w.id[1] = serial + 1
      OBVIOUS
    <3> HIDE DEF fresh
    <3>3. row.id[1] # serial + 1
      BY <1>0 DEF RowInv
    <3>4. new \in tracking
      BY <3>1, <3>2, <3>3
    <3> QED
      BY <3>4 DEF RowInv
  <2>3. ASSUME NEW r \in TrackedRules, Update(r) PROVE FALSE
    <3>1. PICK w \in tracking : new = w \/ new = Updated(r, w)
      BY <2>3 DEF Update
    <3>2. w \in Row
      BY DEF TypeOK
    <3>3. new.id = w.id
      BY <3>1, <3>2, UpdatedFields
    <3>4. new.last_notify_time = w.last_notify_time
      BY <3>1, <3>2 DEF Updated, Row
    <3> QED
      BY <3>3, <3>4 DEF RowInv
  <2>4. CASE Receive \/ SelectSettings \/ SelectTracking \/ EndPass
    BY <2>1, <2>4, Zenon DEF Receive, SelectSettings, SelectTracking, EndPass
  <2>5. CASE StartCleanup \/ Cleanup \/ Tick \/ UNCHANGED vars
    BY <2>1, <2>5, Zenon DEF StartCleanup, Cleanup, CleanupSelect, CleanupDelete, Tick, vars
  <2> QED
    BY <2>2, <2>3, <2>4, <2>5, Zenon DEF Next, Daemon, Serve
<1>2. PICK r \in TrackedRules : /\ todo = {r} /\ NotifyDue(r, copy[r], copy[r].last_notify_time)
                                /\ \A w \in tracking : w.id = copy[r].id => w = copy[r]
  BY <1>1 DEF Notify, NotifyInv
<1>3. row.id = copy[r].id
  <2>1. PICK w \in tracking : new = w \/ (w.id \in {copy[q].id : q \in todo} /\ new = [w EXCEPT !.last_notify_time = clock])
    BY <1>1 DEF Notify
  <2>2. new # w
    BY <2>1 DEF RowInv
  <2>3. w.id = copy[r].id /\ new.id = w.id
    BY <1>2, <2>1, <2>2 DEF TypeOK, Row
  <2> QED
    BY <2>3
<1>4. row = copy[r]
  BY <1>2, <1>3
<1>5. rule[r] # NoSetting /\ row.tid = rule[r].id
  BY <1>1, <1>3 DEF Notify, NotifyInv
<1>6. row.period = rule[r].period
  <2>1. PICK s \in Settings : row.tid = s.id /\ row.period = s.period
    BY DEF NotifyInv
  <2>2. s = rule[r]
    BY <1>5, <2>1, RuleIsSetting, ConstantsAssumption
  <2> QED
    BY <2>1, <2>2
<1>7. row.init_time \in Nat /\ row.period \in Nat /\ row.last_notify_time \in Nat /\ row.last_notify_time <= clock
  BY DEF TypeOK, Row, NotifyInv
<1>8. ~Expired(row.init_time, rule[r].period)
  BY <1>0, <1>6, <1>7 DEF Expired
<1>9. \/ row.last_notify_time = 0
      \/ ~(row.init_time < row.last_notify_time /\ row.last_notify_time <= row.init_time + row.period)
  BY <1>2, <1>4, <1>6, <1>8 DEF NotifyDue
<1> QED
  BY <1>0, <1>7, <1>9

\* For any settings, requests and schedule, even while the job prunes the table, the
\* administrator is told at most once per window that a counter's limit is exceeded, but
\* for a quota whose setting is not the one that limits messages (throttle.py:542-545).
THEOREM NotifiedOncePerWindow == Spec => NotifiedOnce
<1> DEFINE Kept == TableInv /\ NotifyInv
<1> DEFINE Once ==
      ~OtherNotifyTime =>
        \A row \in tracking : \A new \in tracking' :
          /\ row.id = new.id
          /\ row.last_notify_time # new.last_notify_time
          /\ clock <= row.init_time + row.period
          => row.last_notify_time <= row.init_time
<1>1. Init => Kept
  BY InitInv DEF TableInv, Init, NotifyInv
<1>2. Kept /\ [Next]_vars => Kept'
  BY TableStep, NotifyNext DEF TableInv
<1>3. Kept /\ [Next]_vars => [Once]_vars
  BY NotifiedStep DEF TableInv
<1>4. NotifiedOnce <=> [][Once]_vars
  BY DEF NotifiedOnce
<1> HIDE DEF Kept, Once
<1> QED
  BY <1>1, <1>2, <1>3, <1>4, PTL DEF Spec

-----------------------------------------------------------------------------
(* What cleanups cost *)

\* The settings that apply to a user and a client, in one direction.
Applying(kind, user, client) ==
  {s \in Settings : /\ s.kind = kind
                    /\ s.account \in PolicyAddrs[user] \cup PolicyAddrs[client]
                    /\ s.period # 0}

\* What a message of theirs is counted under.
KeyFor(s, user, client) ==
  IF AddrType[s.account] \in {"ip", "catchall_ip"} THEN client
  ELSE IF AddrType[s.account] \in {"wildcard_ip", "wildcard_addr"} THEN s.account
  ELSE user

\* Some message is counted under a key of setting s, whose max_msgs does, or does not,
\* judge it.
Judges(s, key) ==
  \E user \in User, client \in Client :
    /\ KeyFor(s, user, client) = key
    /\ \E order \in Orders(Applying(s.kind, user, client)) :
         Supplier(Applying(s.kind, user, client), order, "max_msgs") = s
CountsUnjudged(s, key) ==
  \E user \in User, client \in Client :
    /\ KeyFor(s, user, client) = key
    /\ \E order \in Orders(Applying(s.kind, user, client)) :
         /\ Supplier(Applying(s.kind, user, client), order, "max_quota") = s
         /\ Supplier(Applying(s.kind, user, client), order, "max_msgs") # s

\* No limit of messages judges a counter that fills with messages it has not judged.
JudgedOrNot ==
  \A s \in Settings, key \in Account :
    s.limit["max_msgs"] > 0 /\ Judges(s, key) => ~CountsUnjudged(s, key)

\* The settings and keys whose counters max_msgs alone governs.
Governs(s, key) == s.limit["max_msgs"] > 0 /\ ~CountsUnjudged(s, key)

\* The time a window is compared with next.
Instant == IF pc = "tracking" THEN now ELSE clock

Open(v, period, t) == v.init_time > 0 /\ t <= v.init_time + period

\* A window w, the totals v that its row holds or is about to hold, a limit, and k cleanup
\* runs: each run has let at most one limit through that the row does not show. One limit
\* is kept back while the row may still be deleted, and one for the row's window to end
\* early when it began before w.
Room(w, v, risk, max, period, t, k) ==
  /\ v.msgs <= max
  /\ Open(w, period, t) =>
       w.msgs + (IF risk THEN max ELSE 0) + (IF v.init_time < w.init_time THEN max ELSE 0)
         <= max * k + v.msgs
  /\ k = 0 \/ (k = 1 /\ risk) =>
       v.init_time = w.init_time \/ (~Open(w, period, t) /\ ~Open(v, period, t))

\* The same without a row.
NoRoom(w, max, period, t, k) ==
  Open(w, period, t) => k > 0 /\ w.msgs <= max * k

\* The run in progress may delete the row, whatever is written to it first.
AtRisk(row) ==
  cleaner # "stopped" /\ (row.id \in remove_values \/ row.init_time + row.period < cleanup_now)

\* What is still to be written to the counter of max_msgs.
Inserting(c) ==
  /\ pc = "write" /\ "insert" \in todo
  /\ rule["max_msgs"] \in Inserts(copy) /\ c = CounterOf(rule["max_msgs"])
Updating(row) == pc = "write" /\ "max_msgs" \in todo /\ row.id = copy["max_msgs"].id
Due(row) == IF Updating(row) THEN Totals(Updated("max_msgs", row)) ELSE Totals(row)
Opened == [init_time |-> now, msgs |-> req.rcpts, quota |-> req.size]

\* What is known of the counter of a setting.
Governed(s, c) ==
  /\ Inserting(c) =>
       Room(window[c], Opened, FALSE, s.limit["max_msgs"], s.period, Instant, cleanups)
  /\ RowOf(c) = {} /\ ~Inserting(c) =>
       NoRoom(window[c], s.limit["max_msgs"], s.period, Instant, cleanups)
  /\ \A row \in RowOf(c) :
       Room(window[c], Due(row), AtRisk(row), s.limit["max_msgs"], s.period, Instant, cleanups)

\* What the statements of a message rest on, whatever the job deletes meanwhile.
WriteSafe ==
  /\ todo \subseteq UpdateStatements(copy) \cup {"insert"}
  /\ \A r, q \in TrackedRules : rule[r] = rule[q] => copy[r] = copy[q]
  /\ \A s \in PendingInserts : RowOf(CounterOf(s)) = {}
  /\ \A r \in PendingUpdates :
       /\ \A w \in tracking : w.id = copy[r].id => w = copy[r]
       /\ RowOf(CounterOf(rule[r])) \subseteq {copy[r]}

LossInv ==
  /\ \A i \in remove_values : i[1] <= serial
  /\ cleaner # "stopped" => cleanups > 0
  /\ \A v, w \in tracking : v.tid = w.tid /\ v.account = w.account => v = w
  /\ \A w \in tracking : 0 < w.init_time /\ w.init_time <= now
  /\ \A c \in Counter : window[c].init_time <= now
  /\ pc = "write" => WriteSafe
  /\ \A s \in Settings, key \in Account : Governs(s, key) => Governed(s, <<s.id, key>>)

-----------------------------------------------------------------------------
(* Windows and rooms *)

Windows == [init_time: Nat, msgs: Nat, quota: Nat]

\* Each run is worth one limit.
LEMMA RunsWorth ==
  ASSUME NEW max \in Nat, NEW k \in Nat
  PROVE  /\ max * k \in Nat /\ max * (k + 1) = max * k + max
         /\ k > 0 => max * k >= max
         /\ k > 1 => max * k >= max + max
<1>1. max * k \in Nat /\ max * (k + 1) = max * k + max
  OBVIOUS
<1>2. ASSUME k > 0 PROVE max * k >= max
  <2>1. PICK j \in Nat : k = j + 1
    BY <1>2
  <2>2. max * k = max * j + max /\ max * j \in Nat
    BY <2>1
  <2> QED
    BY <2>2
<1>3. ASSUME k > 1 PROVE max * k >= max + max
  <2>1. PICK j \in Nat : k = (j + 1) + 1
    <3>1. k - 2 \in Nat /\ k = ((k - 2) + 1) + 1
      BY <1>3
    <3> QED
      BY <3>1
  <2>2. max * (j + 1) = max * j + max /\ max * k = max * (j + 1) + max /\ max * j \in Nat
    BY <2>1
  <2> QED
    BY <2>2
<1> QED
  BY <1>1, <1>2, <1>3

\* Time closes windows.
LEMMA RoomLater ==
  ASSUME NEW w \in Windows, NEW v \in Windows, NEW risk,
         NEW max \in Nat, NEW p \in Nat, NEW t \in Nat, NEW u \in Nat, t <= u, NEW k \in Nat,
         Room(w, v, risk, max, p, t, k)
  PROVE  Room(w, v, risk, max, p, u, k)
<1>1. /\ Open(w, p, u) => Open(w, p, t)
      /\ Open(v, p, u) => Open(v, p, t)
  BY DEF Open, Windows
<1> QED
  BY <1>1 DEF Room

\* A row is no longer to be deleted.
LEMMA RoomSafe ==
  ASSUME NEW w \in Windows, NEW v \in Windows, NEW risk,
         NEW max \in Nat, NEW p, NEW t, NEW k \in Nat,
         Room(w, v, risk, max, p, t, k)
  PROVE  Room(w, v, FALSE, max, p, t, k)
<1>1. PICK x \in Nat : x = max * k
  BY RunsWorth
<1>2. Open(w, p, t) =>
        w.msgs + (IF risk THEN max ELSE 0) + (IF v.init_time < w.init_time THEN max ELSE 0) <= x + v.msgs
  BY <1>1 DEF Room
<1>3. Open(w, p, t) => w.msgs + 0 + (IF v.init_time < w.init_time THEN max ELSE 0) <= x + v.msgs
  BY <1>2 DEF Windows
<1> QED
  BY <1>1, <1>3 DEF Room

\* The same without a row.
LEMMA NoRoomLater ==
  ASSUME NEW w \in Windows, NEW max \in Nat, NEW p \in Nat, NEW t \in Nat, NEW u \in Nat, t <= u, NEW k \in Nat,
         NoRoom(w, max, p, t, k)
  PROVE  NoRoom(w, max, p, u, k)
BY DEF NoRoom, Open, Windows

\* A run makes room for the row that it may delete.
LEMMA RoomMore ==
  ASSUME NEW w \in Windows, NEW v \in Windows, NEW risk,
         NEW max \in Nat, NEW p \in Nat, NEW t \in Nat, NEW k \in Nat,
         Room(w, v, FALSE, max, p, t, k)
  PROVE  Room(w, v, risk, max, p, t, k + 1)
<1>1. PICK x \in Nat : x = max * k /\ max * (k + 1) = x + max
  BY RunsWorth
<1>2. Open(w, p, t) => w.msgs + 0 + (IF v.init_time < w.init_time THEN max ELSE 0) <= x + v.msgs
  BY <1>1 DEF Room
<1>3. Open(w, p, t) =>
        w.msgs + (IF risk THEN max ELSE 0) + (IF v.init_time < w.init_time THEN max ELSE 0) <= (x + max) + v.msgs
  BY <1>2 DEF Windows
<1>4. k + 1 = 0 \/ (k + 1 = 1 /\ risk) => k = 0
  OBVIOUS
<1> QED
  BY <1>1, <1>3, <1>4 DEF Room

\* So it does where there is no row.
LEMMA NoRoomMore ==
  ASSUME NEW w \in Windows, NEW max \in Nat, NEW p \in Nat, NEW t \in Nat, NEW k \in Nat,
         NoRoom(w, max, p, t, k)
  PROVE  NoRoom(w, max, p, t, k + 1)
<1>1. max * k \in Nat /\ max * (k + 1) = max * k + max
  BY RunsWorth
<1> QED
  BY <1>1 DEF NoRoom, Windows

\* A window that is over is no matter.
LEMMA RoomClosed ==
  ASSUME NEW w \in Windows, NEW v \in Windows, NEW risk, NEW max, NEW p, NEW t, NEW k,
         v.msgs <= max, ~Open(w, p, t), ~Open(v, p, t)
  PROVE  Room(w, v, risk, max, p, t, k)
BY DEF Room

\* A deleted row takes one limit with it.
LEMMA RoomGone ==
  ASSUME NEW w \in Windows, NEW v \in Windows, NEW max \in Nat, NEW p \in Nat, NEW t \in Nat, NEW k \in Nat \ {0},
         Room(w, v, TRUE, max, p, t, k)
  PROVE  NoRoom(w, max, p, t, k)
<1>1. PICK x \in Nat : x = max * k
  BY RunsWorth
<1>2. Open(w, p, t) => w.msgs + max + (IF v.init_time < w.init_time THEN max ELSE 0) <= x + v.msgs
  BY <1>1 DEF Room
<1>3. v.msgs <= max
  BY DEF Room
<1> QED
  BY <1>1, <1>2, <1>3 DEF NoRoom, Windows

\* n messages, counted in a window or in a row at time t.
Counted(x, w, p, t, n) ==
  IF Open(w, p, t) THEN x.init_time = w.init_time /\ x.msgs = w.msgs + n ELSE x.init_time = t /\ x.msgs = n

\* A message that is within the limit goes into the window and into the row.
LEMMA RoomCounted ==
  ASSUME NEW w \in Windows, NEW v \in Windows, NEW x \in Windows, NEW y \in Windows, NEW risk,
         NEW max \in Nat, NEW p \in Nat, NEW t \in Nat \ {0}, NEW n \in Nat, NEW k \in Nat,
         0 < v.init_time, v.init_time <= t, w.init_time <= t, k = 0 => risk = FALSE,
         Room(w, v, risk, max, p, t, k), y.msgs <= max,
         Counted(x, w, p, t, n),
         Counted(y, v, p, t, n)
  PROVE  Room(x, y, risk, max, p, t, k)
<1> USE DEF Counted
<1>0. risk => k > 0
  OBVIOUS
<1>1. PICK z \in Nat : z = max * k /\ (k > 0 => z >= max) /\ (k > 1 => z >= max + max)
  BY RunsWorth
<1>2. Open(w, p, t) =>
        w.msgs + (IF risk THEN max ELSE 0) + (IF v.init_time < w.init_time THEN max ELSE 0) <= z + v.msgs
  BY <1>1 DEF Room
<1>3. k = 0 \/ (k = 1 /\ risk) => v.init_time = w.init_time \/ (~Open(w, p, t) /\ ~Open(v, p, t))
  BY DEF Room
<1>4. v.msgs <= max
  BY DEF Room
<1>5. /\ w.init_time \in Nat /\ v.init_time \in Nat /\ x.init_time \in Nat /\ y.init_time \in Nat
      /\ w.msgs \in Nat /\ v.msgs \in Nat /\ x.msgs \in Nat /\ y.msgs \in Nat
  BY DEF Windows
<1>6. x.msgs + (IF risk THEN max ELSE 0) + (IF y.init_time < x.init_time THEN max ELSE 0) <= z + y.msgs
  <2>1. CASE Open(w, p, t) /\ Open(v, p, t)
    BY <1>2, <1>5, <2>1
  <2>2. CASE Open(w, p, t) /\ ~Open(v, p, t)
    <3>1. v.init_time < w.init_time /\ y.init_time = t /\ y.msgs = n /\ x.init_time = w.init_time /\ x.msgs = w.msgs + n
      BY <1>5, <2>2 DEF Open
    <3>2. w.msgs + (IF risk THEN max ELSE 0) + max <= z + v.msgs
      BY <1>2, <2>2, <3>1
    <3> QED
      BY <1>4, <1>5, <3>1, <3>2
  <2>3. CASE ~Open(w, p, t) /\ Open(v, p, t)
    <3>1. x.init_time = t /\ x.msgs = n /\ y.init_time = v.init_time /\ y.msgs = v.msgs + n
      BY <2>3
    <3>2. v.init_time = w.init_time => Open(w, p, t)
      BY <2>3 DEF Open
    <3>3. k > 0 /\ (risk => k > 1)
      BY <1>3, <2>3, <3>2
    <3>4. (IF risk THEN max ELSE 0) + max <= z
      BY <1>1, <3>3
    <3> QED
      BY <1>5, <3>1, <3>4
  <2>4. CASE ~Open(w, p, t) /\ ~Open(v, p, t)
    <3>1. x.init_time = t /\ x.msgs = n /\ y.init_time = t /\ y.msgs = n
      BY <2>4
    <3>2. (IF risk THEN max ELSE 0) <= z
      BY <1>1
    <3> QED
      BY <1>5, <3>1, <3>2
  <2> QED
    BY <2>1, <2>2, <2>3, <2>4
<1>7. k = 0 \/ (k = 1 /\ risk) => y.init_time = x.init_time
  <2>1. v.init_time = w.init_time => (Open(w, p, t) <=> Open(v, p, t))
    BY DEF Open
  <2> QED
    BY <1>3, <2>1
<1> QED
  BY <1>1, <1>6, <1>7 DEF Room

\* The first message after a row was deleted, or of all.
LEMMA RoomOpened ==
  ASSUME NEW w \in Windows, NEW x \in Windows, NEW y \in Windows,
         NEW max \in Nat, NEW p \in Nat, NEW t \in Nat \ {0}, NEW n \in Nat, NEW k \in Nat,
         w.init_time <= t, NoRoom(w, max, p, t, k), n <= max,
         Counted(x, w, p, t, n),
         y.init_time = t /\ y.msgs = n
  PROVE  Room(x, y, FALSE, max, p, t, k)
<1> USE DEF Counted
<1>1. PICK z \in Nat : z = max * k
  BY RunsWorth
<1>2. Open(w, p, t) => k > 0 /\ w.msgs <= z
  BY <1>1 DEF NoRoom
<1>3. /\ w.init_time \in Nat /\ w.msgs \in Nat /\ x.init_time \in Nat /\ x.msgs \in Nat
  BY DEF Windows
<1>4. ~(y.init_time < x.init_time)
  BY <1>3
<1>5. x.msgs <= z + y.msgs
  BY <1>2, <1>3
<1>6. k = 0 => y.init_time = x.init_time
  BY <1>2
<1>7. x.msgs + 0 + 0 <= z + y.msgs
  BY <1>3, <1>5
<1> QED
  BY <1>1, <1>4, <1>6, <1>7 DEF Room

\* What has been let through by k runs, and is within the limit otherwise.
LEMMA RoomBounds ==
  ASSUME NEW w \in Windows, NEW v \in Windows, NEW risk \in BOOLEAN,
         NEW max \in Nat, NEW p \in Nat, NEW t \in Nat, NEW k \in Nat,
         Open(w, p, t), Room(w, v, risk, max, p, t, k)
  PROVE  w.msgs <= max * (k + 1)
<1>1. PICK z \in Nat : z = max * k /\ max * (k + 1) = z + max
  BY RunsWorth
<1>2. w.msgs + (IF risk THEN max ELSE 0) + (IF v.init_time < w.init_time THEN max ELSE 0) <= z + v.msgs
  BY <1>1 DEF Room
<1>3. v.msgs <= max
  BY DEF Room
<1> QED
  BY <1>1, <1>2, <1>3 DEF Windows

-----------------------------------------------------------------------------
(* What no statement changes *)

\* Time does not go back.
LEMMA InstantRises ==
  ASSUME TypeOK, TypeOK', [Next]_vars
  PROVE  Instant \in Nat /\ Instant' \in Nat /\ Instant <= Instant'
<1>1. clock \in Nat /\ clock' \in Nat /\ now \in Nat /\ now' \in Nat /\ now <= clock /\ now' <= clock'
  BY ConstantsAssumption DEF TypeOK
<1>2. clock <= clock' /\ (pc' = "tracking" => now' = clock \/ (pc = "tracking" /\ now' = now))
  <2>1. CASE Receive
    BY <1>1, <2>1 DEF Receive
  <2>2. CASE SelectSettings
    <3>1. CASE Matching = {}
      <4>1. pc' # "tracking" /\ clock' = clock
        BY <2>2, <3>1, Zenon DEF SelectSettings, PassOver
      <4> QED
        BY <1>1, <4>1
    <3>2. CASE Matching # {}
      BY <1>1, <2>2, <3>2, Zenon DEF SelectSettings
    <3> QED
      BY <1>1, <2>2, <3>1, <3>2 DEF SelectSettings
  <2>3. CASE SelectTracking
    <3>1. pc' # "tracking" /\ clock' = clock
      <4>1. pc' \in {"notify", "idle", "write"}
        BY <2>3, Zenon DEF SelectTracking, RejectQuota
      <4> QED
        BY <2>3, <4>1 DEF SelectTracking
    <3> QED
      BY <1>1, <3>1
  <2>4. CASE Notify \/ Insert \/ (\E r \in TrackedRules : Update(r)) \/ EndPass
    <3>1. pc' # "tracking" /\ clock' = clock
      BY <2>4 DEF Notify, Answer, Insert, Update, EndPass, PassOver
    <3> QED
      BY <1>1, <3>1
  <2>5. CASE StartCleanup \/ Cleanup \/ Tick \/ UNCHANGED vars
    <3>1. clock' \in {clock, clock + 1} /\ UNCHANGED daemonVars
      BY <2>5, Zenon DEF StartCleanup, Cleanup, CleanupSelect, CleanupDelete, Tick, vars
    <3> QED
      BY <1>1, <3>1 DEF daemonVars
  <2> QED
    BY <2>1, <2>2, <2>3, <2>4, <2>5, Zenon DEF Next, Daemon, Serve
<1> QED
  BY <1>1, <1>2 DEF Instant

\* A counter that is governed has a limit and windows of some length.
LEMMA GovernsType ==
  ASSUME TypeOK, NEW s \in Settings, NEW key \in Account, Governs(s, key)
  PROVE  /\ s.limit["max_msgs"] \in Nat /\ s.period \in Nat /\ <<s.id, key>> \in Counter
         /\ window[<<s.id, key>>] \in Windows /\ cleanups \in Nat
<1>1. s.limit["max_msgs"] \in Int /\ s.limit["max_msgs"] > 0
  BY ConstantsAssumption DEF SettingType, Rules, Governs
<1>2. s.period \in Nat
  BY Parts
<1>3. <<s.id, key>> \in Counter
  BY DEF Counter
<1> QED
  BY <1>1, <1>2, <1>3 DEF TypeOK, Windows

\* So are the totals of its row, written or about to be.
LEMMA DueType ==
  ASSUME TypeOK, NEW row \in tracking
  PROVE  Totals(row) \in Windows /\ Due(row) \in Windows
<1>1. row \in Row
  BY DEF TypeOK
<1>2. "max_msgs" \in TrackedRules
  BY DEF TrackedRules
<1>3. Updated("max_msgs", row) \in Row
  BY <1>1, <1>2, UpdatedFields
<1>4. \A v \in Row : Totals(v) \in Windows
  BY DEF Totals, Row, Windows
<1> QED
  BY <1>1, <1>3, <1>4 DEF Due

\* The totals of a new row.
LEMMA OpenedType ==
  ASSUME TypeOK
  PROVE  Opened \in Windows /\ Opened.init_time = now /\ Opened.msgs = req.rcpts
<1>1. now \in Nat /\ req.rcpts \in Nat /\ req.size \in Nat
  BY Parts DEF TypeOK
<1> QED
  BY <1>1 DEF Opened, Windows

\* Nothing is left of a message to write to a counter.
Settled == pc = "write" => todo = {}

\* Then each row holds what is due.
LEMMA SettledMeans ==
  ASSUME Settled
  PROVE  (\A c : ~Inserting(c)) /\ (\A row : Due(row) = Totals(row))
BY DEF Settled, Inserting, Updating, Due

\* A counter is left as it is by what changes neither its window nor the totals of its row.
LEMMA GovernedStays ==
  ASSUME TypeOK, TypeOK', [Next]_vars, NEW s \in Settings, NEW key \in Account, Governs(s, key),
         Governed(s, <<s.id, key>>),
         window'[<<s.id, key>>] = window[<<s.id, key>>], cleanups' = cleanups,
         Inserting(<<s.id, key>>)' => Inserting(<<s.id, key>>) /\ Opened' = Opened,
         RowOf(<<s.id, key>>)' = {} =>
           Inserting(<<s.id, key>>)' \/ (~Inserting(<<s.id, key>>) /\ RowOf(<<s.id, key>>) = {}),
         \A new \in RowOf(<<s.id, key>>)' : \E row \in RowOf(<<s.id, key>>) :
           Due(new)' = Due(row) /\ (AtRisk(new)' => AtRisk(row))
  PROVE  Governed(s, <<s.id, key>>)'
<1> DEFINE c == <<s.id, key>>
           max == s.limit["max_msgs"]
<1>1. /\ max \in Nat /\ s.period \in Nat /\ c \in Counter /\ window[c] \in Windows /\ cleanups \in Nat
  BY GovernsType
<1>2. Instant \in Nat /\ Instant' \in Nat /\ Instant <= Instant'
  BY InstantRises
<1>3. /\ window'[c] = window[c] /\ cleanups' = cleanups
      /\ Inserting(c)' => Inserting(c) /\ Opened' = Opened
      /\ RowOf(c)' = {} => Inserting(c)' \/ (~Inserting(c) /\ RowOf(c) = {})
      /\ \A new \in RowOf(c)' : \E row \in RowOf(c) : Due(new)' = Due(row) /\ (AtRisk(new)' => AtRisk(row))
  OBVIOUS
<1>4. /\ Inserting(c) => Room(window[c], Opened, FALSE, max, s.period, Instant, cleanups)
      /\ RowOf(c) = {} /\ ~Inserting(c) => NoRoom(window[c], max, s.period, Instant, cleanups)
      /\ \A row \in RowOf(c) : Room(window[c], Due(row), AtRisk(row), max, s.period, Instant, cleanups)
  BY DEF Governed
<1>5. \A row \in RowOf(c) : row \in tracking
  BY DEF RowOf
<1>6. \A row \in RowOf(c) : AtRisk(row) \in BOOLEAN
  BY DEF AtRisk
<1>7. \A row \in RowOf(c)' : AtRisk(row)' \in BOOLEAN
  BY DEF AtRisk
<1>8. Inserting(c)' => Room(window'[c], Opened', FALSE, max, s.period, Instant', cleanups')
  <2>1. SUFFICES ASSUME Inserting(c)' PROVE Room(window[c], Opened, FALSE, max, s.period, Instant', cleanups)
    BY <1>3
  <2>2. Room(window[c], Opened, FALSE, max, s.period, Instant, cleanups)
    BY <1>3, <1>4, <2>1
  <2>3. Opened \in Windows
    BY OpenedType
  <2> HIDE DEF c, max
  <2> QED
    BY <1>1, <1>2, <2>2, <2>3, RoomLater
<1>9. RowOf(c)' = {} /\ ~Inserting(c)' => NoRoom(window'[c], max, s.period, Instant', cleanups')
  <2>1. SUFFICES ASSUME RowOf(c)' = {}, ~Inserting(c)' PROVE NoRoom(window[c], max, s.period, Instant', cleanups)
    BY <1>3
  <2>2. NoRoom(window[c], max, s.period, Instant, cleanups)
    BY <1>3, <1>4, <2>1
  <2> HIDE DEF c, max
  <2> QED
    BY <1>1, <1>2, <2>2, NoRoomLater
<1>10. ASSUME NEW new \in RowOf(c)'
       PROVE  Room(window'[c], Due(new)', AtRisk(new)', max, s.period, Instant', cleanups')
  <2>1. PICK row \in RowOf(c) : Due(new)' = Due(row) /\ (AtRisk(new)' => AtRisk(row))
    BY <1>3
  <2>2. Room(window[c], Due(row), AtRisk(row), max, s.period, Instant, cleanups)
    BY <1>4
  <2>3. Due(row) \in Windows
    BY <1>5, DueType
  <2>4. AtRisk(row) \in BOOLEAN /\ AtRisk(new)' \in BOOLEAN
    BY <1>6, <1>7
  <2>5. PICK v \in Windows : v = Due(row)
    BY <2>3
  <2>6. PICK risk \in BOOLEAN : risk = AtRisk(row)
    BY <2>4
  <2>7. PICK later \in BOOLEAN : later = AtRisk(new)'
    BY <2>4
  <2> HIDE DEF c, max
  <2>a. PICK t \in Nat, u \in Nat : t = Instant /\ u = Instant' /\ t <= u
    BY <1>2
  <2>b. Room(window[c], v, risk, max, s.period, t, cleanups) /\ (later => risk)
    BY <2>1, <2>2, <2>5, <2>6, <2>7, <2>a
  <2>c. Room(window[c], v, later, max, s.period, u, cleanups)
    <3>1. PICK w \in Windows, m \in Nat, p \in Nat, k \in Nat :
            w = window[c] /\ m = max /\ p = s.period /\ k = cleanups
      BY <1>1
    <3>2. Room(w, v, risk, m, p, t, k)
      BY <2>b, <3>1
    <3>3. w \in Windows /\ v \in Windows /\ m \in Nat /\ p \in Nat /\ k \in Nat /\ t \in Nat /\ u \in Nat
      BY <2>5, <2>a, <3>1
    <3>4. Room(w, v, risk, m, p, u, k)
      BY <2>a, <3>2, <3>3, RoomLater
    <3>5. Room(w, v, FALSE, m, p, u, k)
      BY <3>3, <3>4, RoomSafe
    <3>6. later = risk \/ later = FALSE
      BY <2>6, <2>7, <2>b
    <3>7. Room(w, v, later, m, p, u, k)
      BY <3>4, <3>5, <3>6
    <3> QED
      BY <3>1, <3>7
  <2>8. Room(window[c], v, later, max, s.period, Instant', cleanups)
    BY <2>a, <2>c
  <2> QED
    BY <1>3, <2>1, <2>5, <2>7, <2>8
<1> QED
  BY <1>8, <1>9, <1>10 DEF Governed

-----------------------------------------------------------------------------
(* The table and the job *)

\* A row has the period of its setting.
LEMMA RowPeriod ==
  ASSUME TypeOK, NotifyInv, NEW row \in tracking, NEW s \in Settings, row.tid = s.id
  PROVE  row.period = s.period
<1>1. PICK t \in Settings : row.tid = t.id /\ row.period = t.period
  BY DEF NotifyInv
<1>2. t = s
  BY <1>1, ConstantsAssumption
<1> QED
  BY <1>1, <1>2

\* A rule is of a setting that judges a message under its key ...
LEMMA RuleJudges ==
  ASSUME TypeOK, RuleInv, pc \in {"tracking", "notify", "write"}, NEW s \in Settings,
         rule["max_msgs"] = s
  PROVE  Judges(s, TrackKey(s))
<1>1. PICK order \in Orders(Matching) : rule = [r \in Rules |-> Supplier(Matching, order, r)]
  BY DEF RuleInv
<1>2. Supplier(Matching, order, "max_msgs") = s
  BY <1>1 DEF Rules
<1>3. TheUser \in User /\ req.client \in Client
  BY Parts
<1>4. s \in Matching
  BY RuleFrom, Parts DEF Rules
<1>5. s.kind = Kind
  BY <1>4 DEF Matching
<1>6. Matching = Applying(s.kind, TheUser, req.client)
  BY <1>5 DEF Matching, Applying
<1>7. TrackKey(s) = KeyFor(s, TheUser, req.client)
  BY DEF TrackKey, KeyFor
<1> QED
  BY <1>1, <1>2, <1>3, <1>6, <1>7 DEF Judges

\* ... and one that is governed judges what it counts.
LEMMA GovernedJudges ==
  ASSUME TypeOK, RuleInv, pc \in {"tracking", "notify", "write"}, NEW s \in Settings,
         rule["max_quota"] = s, Governs(s, TrackKey(s))
  PROVE  rule["max_msgs"] = s
<1>1. PICK order \in Orders(Matching) : rule = [r \in Rules |-> Supplier(Matching, order, r)]
  BY DEF RuleInv
<1>2. Supplier(Matching, order, "max_quota") = s /\ Supplier(Matching, order, "max_msgs") = rule["max_msgs"]
  BY <1>1 DEF Rules
<1>3. TheUser \in User /\ req.client \in Client
  BY Parts
<1>4. s \in Matching
  BY RuleFrom, Parts DEF Rules
<1>5. s.kind = Kind
  BY <1>4 DEF Matching
<1>6. Matching = Applying(s.kind, TheUser, req.client)
  BY <1>5 DEF Matching, Applying
<1>7. TrackKey(s) = KeyFor(s, TheUser, req.client)
  BY DEF TrackKey, KeyFor
<1>8. ~CountsUnjudged(s, TrackKey(s))
  BY DEF Governs
<1> QED
  BY <1>1, <1>2, <1>3, <1>6, <1>7, <1>8 DEF CountsUnjudged

\* The job deletes rows that were there when it began.
LEMMA JobStep ==
  ASSUME TypeOK, TypeOK', RowInv, LossInv, [Next]_vars
  PROVE  /\ \A i \in remove_values' : i[1] <= serial'
         /\ cleaner' # "stopped" => cleanups' > 0
<1>1. serial \in Nat /\ cleanups \in Nat
  BY DEF TypeOK
<1>2. \A i \in remove_values : i[1] <= serial /\ i[1] \in Nat
  BY DEF LossInv, TypeOK, RowId
<1>3. cleaner # "stopped" => cleanups > 0
  BY DEF LossInv
<1>4. ASSUME UNCHANGED cleanerVars, serial' \in {serial, serial + 1} PROVE \A i \in remove_values' : i[1] <= serial'
  BY <1>1, <1>2, <1>4 DEF cleanerVars
<1>5. ASSUME UNCHANGED cleanerVars PROVE cleaner' # "stopped" => cleanups' > 0
  BY <1>3, <1>5 DEF cleanerVars
<1>6. CASE Daemon \/ Tick \/ UNCHANGED vars
  <2>1. UNCHANGED cleanerVars /\ serial' \in {serial, serial + 1}
    BY <1>6, Zenon DEF Daemon, Serve, Receive, SelectSettings, SelectTracking, Notify, Insert, Update, EndPass, Tick, vars
  <2> QED
    BY <1>4, <1>5, <2>1
<1>7. CASE StartCleanup
  BY <1>1, <1>2, <1>7 DEF StartCleanup
<1>8. CASE CleanupSelect
  <2>1. PICK picked : /\ picked \subseteq {row.id : row \in {w \in tracking : CleanupMatch(w)}}
                      /\ remove_values' = picked
    BY <1>8, Zenon DEF CleanupSelect
  <2>2. \A i \in remove_values' : \E row \in tracking : i = row.id
    BY <2>1
  <2>3. \A row \in tracking : row.id[1] <= serial
    BY <1>1 DEF RowInv
  <2>4. serial' = serial /\ cleaner # "stopped" /\ cleanups' = cleanups
    BY <1>8 DEF CleanupSelect
  <2> QED
    BY <1>3, <2>2, <2>3, <2>4
<1>9. CASE CleanupDelete
  BY <1>3, <1>9 DEF CleanupDelete
<1> QED
  BY <1>6, <1>7, <1>8, <1>9, Zenon DEF Next, Cleanup

\* The new rows.
Fresh(s) == [id |-> <<serial + 1, s.id>>, tid |-> s.id, account |-> TrackKey(s),
             period |-> s.period, cur_msgs |-> req.rcpts, cur_quota |-> req.size,
             init_time |-> now, last_notify_time |-> 0]

\* The INSERT never meets a row of the same key, whatever was deleted meanwhile.
LEMMA InsertAdds ==
  ASSUME TypeOK, Regular, LossInv, NotifyInv, Insert
  PROVE  /\ tracking' = tracking \cup {Fresh(s) : s \in Inserts(copy)}
         /\ Inserts(copy) \subseteq Settings
         /\ \A s \in Inserts(copy) : RowOf(CounterOf(s)) = {}
         /\ \A s \in Inserts(copy), w \in tracking : ~(s.id = w.tid /\ TrackKey(s) = w.account)
         /\ \A s : \A r \in TrackedRules : Fresh(s).id # copy[r].id
         /\ \A s : Fresh(s).id \notin remove_values
<1>1. pc = "write" /\ "insert" \in todo /\ WriteSafe
  BY DEF Insert, LossInv
<1>2. \A s \in Inserts(copy) : RowOf(CounterOf(s)) = {}
  BY <1>1 DEF WriteSafe, PendingInserts
<1>3. \A s \in Inserts(copy), w \in tracking : ~(s.id = w.tid /\ TrackKey(s) = w.account)
  <2>1. \A s, w : w \in tracking /\ s.id = w.tid /\ TrackKey(s) = w.account => w \in RowOf(CounterOf(s))
    BY DEF RowOf, CounterOf
  <2> QED
    BY <1>2, <2>1
<1>4. req.rcpts \in MsgsColumn /\ req.size \in QuotaColumn
  BY Parts DEF Regular, Fits
<1>5. Inserts(copy) \subseteq Settings
  BY Parts DEF Inserts
<1>6. \A s : Fresh(s).tid = s.id /\ Fresh(s).account = TrackKey(s)
  BY DEF Fresh
<1>7. ~\E v \in {Fresh(s) : s \in Inserts(copy)}, w \in tracking : v.tid = w.tid /\ v.account = w.account
  BY <1>3, <1>6
<1>8. tracking' = tracking \cup {Fresh(s) : s \in Inserts(copy)}
  BY <1>4, <1>7 DEF Insert, Fresh
<1>9. serial \in Nat /\ \A s : Fresh(s).id = <<serial + 1, s.id>>
  BY DEF TypeOK, Fresh
<1>10. \A r \in TrackedRules : copy[r].id[1] # serial + 1
  BY <1>1, <1>9 DEF NotifyInv
<1>11. \A i \in remove_values : i[1] # serial + 1
  BY <1>9 DEF LossInv, TypeOK, RowId
<1>12. \A s : \A r \in TrackedRules : Fresh(s).id # copy[r].id
  BY <1>9, <1>10
<1>13. \A s : Fresh(s).id \notin remove_values
  BY <1>9, <1>11
<1> QED
  BY <1>2, <1>3, <1>5, <1>8, <1>12, <1>13

\* The UPDATE changes the row that was read, if it is still there.
LEMMA UpdateChanges ==
  ASSUME TypeOK, RuleInv, Regular, LossInv, NotifyInv, NEW r \in TrackedRules, Update(r)
  PROVE  /\ pc = "write" /\ r \in UpdateStatements(copy) /\ rule[r] \in Settings
         /\ \A q \in UpdateStatements(copy) : q # r => rule[q] # rule[r]
         /\ \A w \in tracking : w.id = copy[r].id =>
              /\ w = copy[r] /\ w.tid = rule[r].id /\ w.account = TrackKey(rule[r])
              /\ w.period = rule[r].period
         /\ tracking' = {IF w.id = copy[r].id THEN Updated(r, w) ELSE w : w \in tracking}
         /\ \A w \in tracking : w.id = copy[r].id =>
              LET v == Updated(r, w)
              IN  /\ v \in Row /\ v.id = w.id /\ v.tid = w.tid /\ v.account = w.account /\ v.period = w.period
                  /\ v.init_time = w.init_time \/ v.init_time = now
<1>1. pc = "write" /\ r \in todo /\ WriteSafe /\ r \in PendingUpdates
  BY DEF Update, LossInv, PendingUpdates
<1>2. r \in UpdateStatements(copy)
  BY <1>1 DEF WriteSafe, TrackedRules
<1>3. rule[r] # NoSetting /\ copy[r].account = TrackKey(rule[r])
  BY <1>2 DEF UpdateStatements, Updates
<1>4. rule[r] \in Settings
  BY <1>3, Parts
<1>5. \A q \in UpdateStatements(copy) : q # r => rule[q] # rule[r]
  BY <1>2 DEF UpdateStatements, Updates, TrackedRules
<1>6. ASSUME NEW w \in tracking, w.id = copy[r].id
      PROVE  /\ w = copy[r] /\ w.tid = rule[r].id /\ w.account = TrackKey(rule[r])
             /\ w.period = rule[r].period
  <2>1. w = copy[r]
    BY <1>1, <1>6 DEF WriteSafe
  <2>2. w.tid = rule[r].id
    BY <1>1, <1>6 DEF NotifyInv
  <2>3. w.period = rule[r].period
    BY <1>4, <2>2, RowPeriod
  <2> QED
    BY <1>3, <2>1, <2>2, <2>3
<1>7. ASSUME NEW w \in tracking, w.id = copy[r].id
      PROVE  LET v == Updated(r, w)
             IN  /\ v \in Row /\ v.id = w.id /\ v.tid = w.tid /\ v.account = w.account /\ v.period = w.period
                 /\ v.init_time = w.init_time \/ v.init_time = now
  <2>1. w \in Row
    BY DEF TypeOK
  <2>2. PICK v : v = Updated(r, w)
    OBVIOUS
  <2>3. v \in Row /\ v.id = w.id /\ v.tid = w.tid /\ v.account = w.account
    BY <2>1, <2>2, UpdatedFields
  <2>4. v.period = rule[r].period
    BY <2>1, <2>2 DEF Updated, Row
  <2>5. v.init_time = copy[r].init_time \/ v.init_time = now
    BY <2>1, <2>2 DEF Updated, Row
  <2>6. w = copy[r] /\ w.period = rule[r].period
    BY <1>6, <1>7
  <2> QED
    BY <2>2, <2>3, <2>4, <2>5, <2>6
<1>8. \A w \in tracking : w.id = copy[r].id =>
        Updated(r, w).cur_msgs \in MsgsColumn /\ Updated(r, w).cur_quota \in QuotaColumn
  BY <1>7 DEF Row, Regular, Fits
<1>9. tracking' = {IF w.id = copy[r].id THEN Updated(r, w) ELSE w : w \in tracking}
  <2>1. \A w \in tracking :
          (IF /\ w.id = copy[r].id
              /\ Updated(r, w).cur_msgs \in MsgsColumn
              /\ Updated(r, w).cur_quota \in QuotaColumn
             THEN Updated(r, w) ELSE w) = IF w.id = copy[r].id THEN Updated(r, w) ELSE w
    BY <1>8
  <2> QED
    BY <2>1 DEF Update
<1> QED
  BY <1>1, <1>2, <1>4, <1>5, <1>6, <1>7, <1>9

-----------------------------------------------------------------------------
(* The counters that are governed, one step of each kind at a time *)

\* What cannot be deleted yet cannot be deleted after a step that leaves it and the job alone.
LEMMA SameRisk ==
  ASSUME NEW v, NEW w, v.id = w.id, v.init_time = w.init_time, v.period = w.period, UNCHANGED cleanerVars
  PROVE  AtRisk(v)' <=> AtRisk(w)
BY DEF AtRisk, cleanerVars

\* Steps of a request that change no counter.
LEMMA QuietStep ==
  ASSUME TypeOK, TypeOK', [Next]_vars, Settled, Settled', UNCHANGED cleanerVars, window' = window,
         \A v \in tracking' : \E w \in tracking :
           v.id = w.id /\ v.tid = w.tid /\ v.account = w.account /\ v.period = w.period /\ Totals(v) = Totals(w),
         \A w \in tracking : \E v \in tracking' : v.tid = w.tid /\ v.account = w.account,
         NEW s \in Settings, NEW key \in Account, Governs(s, key), Governed(s, <<s.id, key>>)
  PROVE  Governed(s, <<s.id, key>>)'
<1>1. ~Inserting(<<s.id, key>>)
  BY SettledMeans
<1>2. ~Inserting(<<s.id, key>>)'
  BY DEF Settled, Inserting
<1>3. \A v : Due(v)' = Totals(v)
  <2>1. \A v : ~Updating(v)'
    BY DEF Settled, Updating
  <2>2. \A v : Totals(v)' = Totals(v)
    BY DEF Totals
  <2> QED
    BY <2>1, <2>2 DEF Due
<1>4. \A w : Due(w) = Totals(w)
  BY SettledMeans
<1>5. ASSUME NEW new \in RowOf(<<s.id, key>>)'
      PROVE  \E row \in RowOf(<<s.id, key>>) : Due(new)' = Due(row) /\ (AtRisk(new)' => AtRisk(row))
  <2>1. new \in tracking' /\ new.tid = s.id /\ new.account = key
    BY DEF RowOf
  <2>2. PICK w \in tracking :
          /\ new.id = w.id /\ new.tid = w.tid /\ new.account = w.account /\ new.period = w.period
          /\ Totals(new) = Totals(w)
    BY <2>1
  <2>3. w \in RowOf(<<s.id, key>>)
    BY <2>1, <2>2 DEF RowOf
  <2>4. new.init_time = w.init_time
    <3>1. Totals(new).init_time = new.init_time /\ Totals(w).init_time = w.init_time
      BY DEF Totals
    <3> QED
      BY <2>2, <3>1
  <2>5. AtRisk(new)' => AtRisk(w)
    BY <2>2, <2>4, SameRisk
  <2>6. Due(new)' = Due(w)
    BY <1>3, <1>4, <2>2
  <2> QED
    BY <2>3, <2>5, <2>6
<1>6. RowOf(<<s.id, key>>)' = {} => RowOf(<<s.id, key>>) = {}
  BY DEF RowOf
<1>7. cleanups' = cleanups /\ window'[<<s.id, key>>] = window[<<s.id, key>>]
  BY DEF cleanerVars
<1> QED
  BY <1>1, <1>2, <1>5, <1>6, <1>7, GovernedStays

\* What a statement reads of the message does not change while another process moves.
LEMMA SameDue ==
  ASSUME UNCHANGED daemonVars
  PROVE  /\ \A c : Inserting(c)' <=> Inserting(c)
         /\ Opened' = Opened
         /\ \A row : Due(row)' = Due(row)
<1>1. UNCHANGED <<pc, req, pass, now, rule, copy, todo>>
  BY DEF daemonVars
<1>2. \A c : Inserting(c)' <=> Inserting(c)
  BY <1>1 DEF Inserting, Inserts, Updates, CounterOf, TrackKey, TheUser
<1>3. Opened' = Opened
  BY <1>1 DEF Opened
<1>4. \A row : Totals(row)' = Totals(row)
  BY DEF Totals
<1>5. \A row : Updated("max_msgs", row)' = Updated("max_msgs", row)
  BY <1>1 DEF Updated, Expired
<1>6. \A row : Totals(Updated("max_msgs", row))' = Totals(Updated("max_msgs", row))
  BY <1>1 DEF Updated, Expired, Totals
<1>7. \A row : Updating(row)' <=> Updating(row)
  BY <1>1 DEF Updating
<1> QED
  BY <1>2, <1>3, <1>4, <1>6, <1>7 DEF Due

\* Time, and the SELECT of the job.
LEMMA ElsewhereStep ==
  ASSUME TypeOK, TypeOK', RowInv, CleanupSelect \/ Tick \/ UNCHANGED vars, [Next]_vars,
         NEW s \in Settings, NEW key \in Account, Governs(s, key), Governed(s, <<s.id, key>>)
  PROVE  Governed(s, <<s.id, key>>)'
<1>1. UNCHANGED daemonVars /\ tracking' = tracking /\ window' = window /\ cleanups' = cleanups
  BY Zenon DEF CleanupSelect, Tick, vars, historyVars, cleanerVars
<1>2. RowOf(<<s.id, key>>)' = RowOf(<<s.id, key>>)
  BY <1>1 DEF RowOf
<1>3. ASSUME NEW row \in RowOf(<<s.id, key>>) PROVE AtRisk(row)' => AtRisk(row)
  <2>1. CASE CleanupSelect
    <3>1. PICK picked : /\ picked \subseteq {w.id : w \in {w \in tracking : CleanupMatch(w)}}
                        /\ remove_values' = picked
      BY <2>1, Zenon DEF CleanupSelect
    <3>2. row \in tracking /\ cleaner # "stopped" /\ cleanup_now' = cleanup_now
      BY <2>1 DEF CleanupSelect, RowOf
    <3>3. row.id \in remove_values' => CleanupMatch(row)
      BY <3>1, <3>2 DEF RowInv
    <3> QED
      BY <3>2, <3>3 DEF AtRisk, CleanupMatch
  <2>2. CASE Tick \/ UNCHANGED vars
    <3>1. UNCHANGED cleanerVars
      BY <2>2, Zenon DEF Tick, vars
    <3> QED
      BY <3>1, SameRisk
  <2> QED
    BY <2>1, <2>2
<1>4. Inserting(<<s.id, key>>)' <=> Inserting(<<s.id, key>>)
  BY <1>1, SameDue
<1>5. Opened' = Opened /\ \A row : Due(row)' = Due(row)
  BY <1>1, SameDue
<1>6. \A new \in RowOf(<<s.id, key>>)' : \E row \in RowOf(<<s.id, key>>) :
        Due(new)' = Due(row) /\ (AtRisk(new)' => AtRisk(row))
  BY <1>2, <1>3, <1>5
<1>7. window'[<<s.id, key>>] = window[<<s.id, key>>] /\ cleanups' = cleanups
  BY <1>1
<1> QED
  BY <1>2, <1>4, <1>5, <1>6, <1>7, GovernedStays

\* The DELETE takes the row of a counter, and with it one limit.
LEMMA DeleteStep ==
  ASSUME TypeOK, TypeOK', LossInv, CleanupDelete, [Next]_vars,
         NEW s \in Settings, NEW key \in Account, Governs(s, key), Governed(s, <<s.id, key>>)
  PROVE  Governed(s, <<s.id, key>>)'
<1> DEFINE c == <<s.id, key>>
<1>1. /\ UNCHANGED daemonVars /\ window' = window /\ cleanups' = cleanups /\ clock' = clock
      /\ tracking' = {row \in tracking : row.id \notin remove_values}
      /\ cleaner = "delete" /\ remove_values' = {} /\ cleanup_now' = cleanup_now
  BY DEF CleanupDelete, historyVars
<1>2. RowOf(c)' = {row \in RowOf(c) : row.id \notin remove_values}
  BY <1>1 DEF RowOf
<1>3. Inserting(c)' <=> Inserting(c)
  BY <1>1, SameDue
<1>4. Opened' = Opened /\ \A row : Due(row)' = Due(row)
  BY <1>1, SameDue
<1>5. \A row : AtRisk(row)' => AtRisk(row)
  BY <1>1 DEF AtRisk
<1>6. CASE RowOf(c)' = {} => Inserting(c)' \/ (~Inserting(c) /\ RowOf(c) = {})
  <2>1. \A new \in RowOf(c)' : \E row \in RowOf(c) : Due(new)' = Due(row) /\ (AtRisk(new)' => AtRisk(row))
    BY <1>2, <1>4, <1>5
  <2>2. window'[c] = window[c]
    BY <1>1
  <2> QED
    BY <1>1, <1>3, <1>4, <1>6, <2>1, <2>2, GovernedStays
<1>7. CASE RowOf(c)' = {} /\ ~Inserting(c)' /\ RowOf(c) # {}
  <2>1. PICK row \in RowOf(c) : row.id \in remove_values
    BY <1>2, <1>7
  <2>2. AtRisk(row) /\ cleanups > 0 /\ row \in tracking
    BY <1>1, <2>1 DEF AtRisk, LossInv, RowOf
  <2>3. PICK w \in Windows, v \in Windows, m \in Nat, p \in Nat, k \in Nat \ {0}, t \in Nat :
          /\ w = window[c] /\ v = Due(row) /\ m = s.limit["max_msgs"] /\ p = s.period /\ k = cleanups
          /\ t = Instant
    <3>1. cleanups \in Nat \ {0}
      BY <2>2, GovernsType
    <3>2. Instant \in Nat
      BY InstantRises
    <3>3. Due(row) \in Windows
      BY <2>2, DueType
    <3>4. s.limit["max_msgs"] \in Nat /\ s.period \in Nat /\ window[c] \in Windows
      BY GovernsType
    <3> QED
      BY <3>1, <3>2, <3>3, <3>4
  <2>4. Room(window[c], Due(row), AtRisk(row), s.limit["max_msgs"], s.period, Instant, cleanups)
    BY <2>1 DEF Governed
  <2>5. Room(w, v, TRUE, m, p, t, k)
    <3>1. AtRisk(row) = TRUE
      BY <2>2 DEF AtRisk
    <3> QED
      BY <2>3, <2>4, <3>1
  <2>6. NoRoom(w, m, p, t, k)
    BY <2>3, <2>5, RoomGone
  <2>7. Instant' = Instant
    BY <1>1 DEF Instant, daemonVars
  <2>8. NoRoom(window'[c], s.limit["max_msgs"], s.period, Instant', cleanups')
    BY <1>1, <2>3, <2>6, <2>7
  <2> QED
    BY <1>7, <2>8 DEF Governed
<1> QED
  BY <1>3, <1>6, <1>7

\* A run begins, which may delete a row: one more limit.
LEMMA StartStep ==
  ASSUME TypeOK, TypeOK', StartCleanup, [Next]_vars,
         NEW s \in Settings, NEW key \in Account, Governs(s, key), Governed(s, <<s.id, key>>)
  PROVE  Governed(s, <<s.id, key>>)'
<1> DEFINE c == <<s.id, key>>
<1>1. /\ UNCHANGED daemonVars /\ window' = window /\ cleanups' = cleanups + 1 /\ clock' = clock
      /\ tracking' = tracking /\ cleaner = "stopped"
  BY DEF StartCleanup, historyVars
<1>2. /\ Inserting(c)' <=> Inserting(c)
      /\ Opened' = Opened /\ \A row : Due(row)' = Due(row)
  BY <1>1, SameDue
<1>3. RowOf(c)' = RowOf(c) /\ Instant' = Instant /\ Instant \in Nat
  BY <1>1, InstantRises DEF RowOf, Instant, daemonVars
<1>4. PICK w \in Windows, o \in Windows, m \in Nat, p \in Nat, k \in Nat, t \in Nat :
        /\ w = window[c] /\ o = Opened /\ m = s.limit["max_msgs"] /\ p = s.period /\ k = cleanups
        /\ t = Instant
  BY <1>3, GovernsType, OpenedType
<1>5. Inserting(c)' => Room(w, o, FALSE, m, p, t, k + 1)
  <2>1. Inserting(c) => Room(w, o, FALSE, m, p, t, k)
    BY <1>4 DEF Governed
  <2> QED
    BY <1>2, <1>4, <2>1, RoomMore
<1>6. RowOf(c)' = {} /\ ~Inserting(c)' => NoRoom(w, m, p, t, k + 1)
  <2>1. RowOf(c) = {} /\ ~Inserting(c) => NoRoom(w, m, p, t, k)
    BY <1>4 DEF Governed
  <2> QED
    BY <1>2, <1>3, <1>4, <2>1, NoRoomMore
<1>7. ASSUME NEW row \in RowOf(c)' PROVE Room(w, Due(row)', AtRisk(row)', m, p, t, k + 1)
  <2>1. row \in RowOf(c) /\ row \in tracking
    BY <1>3 DEF RowOf
  <2>2. Room(w, Due(row), AtRisk(row), m, p, t, k)
    BY <1>4, <2>1 DEF Governed
  <2>3. AtRisk(row) = FALSE /\ AtRisk(row)' \in BOOLEAN
    BY <1>1 DEF AtRisk
  <2>4. PICK v \in Windows, risk \in BOOLEAN : v = Due(row) /\ risk = AtRisk(row)'
    BY <2>1, <2>3, DueType
  <2>5. Room(w, v, FALSE, m, p, t, k)
    BY <2>2, <2>3, <2>4
  <2>6. Room(w, v, risk, m, p, t, k + 1)
    BY <1>4, <2>4, <2>5, RoomMore
  <2> QED
    BY <1>2, <2>4, <2>6
<1> QED
  BY <1>1, <1>2, <1>3, <1>4, <1>5, <1>6, <1>7 DEF Governed

\* The setting whose counter is to be opened is the one that limits messages.
LEMMA InsertingIs ==
  ASSUME TypeOK, NEW s \in Settings, NEW key, Inserting(<<s.id, key>>)
  PROVE  rule["max_msgs"] = s /\ s \in Inserts(copy) /\ TrackKey(s) = key
<1>1. rule["max_msgs"] \in Inserts(copy) /\ <<s.id, key>> = <<rule["max_msgs"].id, TrackKey(rule["max_msgs"])>>
  BY DEF Inserting, CounterOf
<1>2. rule["max_msgs"] \in Settings
  BY <1>1, Parts DEF Inserts
<1> QED
  BY <1>1, <1>2, ConstantsAssumption

\* The INSERT opens the counters that have no row.
LEMMA InsertGoverned ==
  ASSUME TypeOK, TypeOK', RuleInv, NotifyInv, Regular, LossInv, Insert, [Next]_vars,
         NEW s \in Settings, NEW key \in Account, Governs(s, key), Governed(s, <<s.id, key>>)
  PROVE  Governed(s, <<s.id, key>>)'
<1> DEFINE c == <<s.id, key>>
<1>1. /\ UNCHANGED <<pc, req, pass, now, rule, copy, clock, window, cleanups>> /\ UNCHANGED cleanerVars
      /\ pc = "write" /\ todo' = todo \ {"insert"} /\ "insert" \in todo
  BY DEF Insert, cleanerVars, historyVars
<1>2. /\ tracking' = tracking \cup {Fresh(t) : t \in Inserts(copy)} /\ Inserts(copy) \subseteq Settings
      /\ \A t \in Inserts(copy) : RowOf(CounterOf(t)) = {}
      /\ \A t : Fresh(t).id # copy["max_msgs"].id /\ Fresh(t).id \notin remove_values
  BY InsertAdds DEF TrackedRules
<1>3. ~Inserting(c)'
  BY <1>1 DEF Inserting
<1>4. \A t : Fresh(t).tid = t.id /\ Fresh(t).account = TrackKey(t)
  BY DEF Fresh
<1>5. \A t \in Inserts(copy) : t.id = s.id => t = s
  BY <1>2, ConstantsAssumption
<1>6. \A v \in RowOf(c)' : v \in RowOf(c) \/ (v = Fresh(s) /\ s \in Inserts(copy) /\ TrackKey(s) = key)
  <2>1. SUFFICES ASSUME NEW v \in RowOf(c)', v \notin RowOf(c)
                 PROVE  v = Fresh(s) /\ s \in Inserts(copy) /\ TrackKey(s) = key
    OBVIOUS
  <2>2. v \in tracking' /\ v.tid = s.id /\ v.account = key
    BY DEF RowOf
  <2>3. v \notin tracking
    BY <2>1, <2>2 DEF RowOf
  <2>4. PICK t \in Inserts(copy) : v = Fresh(t)
    BY <1>2, <2>2, <2>3
  <2>5. t.id = s.id /\ TrackKey(t) = key
    BY <1>4, <2>2, <2>4
  <2> QED
    BY <1>5, <2>4, <2>5
<1>7. CASE Inserting(c)
  <2>1. s = rule["max_msgs"] /\ s \in Inserts(copy) /\ TrackKey(s) = key /\ c = CounterOf(s)
    BY <1>7, InsertingIs DEF CounterOf
  <2>2. PICK v : v = Fresh(s)
    OBVIOUS
  <2>3. RowOf(c)' \subseteq {v} /\ v \in tracking'
    BY <1>2, <1>6, <2>1, <2>2
  <2>4. v.id # copy'["max_msgs"].id /\ v.id \notin remove_values' /\ v.init_time = now /\ v.period = s.period
        /\ Totals(v)' = Opened
    <3>1. v.id # copy["max_msgs"].id /\ v.id \notin remove_values
      BY <1>2, <2>2
    <3>2. v.init_time = now /\ v.period = s.period /\ v.cur_msgs = req.rcpts /\ v.cur_quota = req.size
      BY <2>2 DEF Fresh
    <3> QED
      BY <1>1, <3>1, <3>2 DEF cleanerVars, Totals, Opened
  <2>5. ~Updating(v)'
    BY <2>4 DEF Updating
  <2>6. Due(v)' = Opened
    BY <2>4, <2>5 DEF Due
  <2>7. Room(window[c], Opened, FALSE, s.limit["max_msgs"], s.period, Instant, cleanups)
    BY <1>7 DEF Governed
  <2>8. /\ Instant = clock /\ Instant' = clock /\ clock \in Nat /\ now \in Nat
        /\ cleanup_now' = cleanup_now /\ cleanup_now <= clock /\ cleanup_now \in Nat
    <3>1. cleanup_now \in 0..clock /\ clock \in Nat /\ now \in Nat
      BY ConstantsAssumption DEF TypeOK
    <3> QED
      BY <1>1, <3>1 DEF Instant, cleanerVars
  <2>9. PICK risk \in BOOLEAN : risk = AtRisk(v)'
    BY DEF AtRisk
  <2>10. ASSUME risk PROVE Room(window[c], Opened, risk, s.limit["max_msgs"], s.period, clock, cleanups)
    <3>1. now + s.period < clock
      <4>1. v.init_time + v.period < cleanup_now'
        BY <2>4, <2>9, <2>10 DEF AtRisk
      <4>2. s.period \in Nat
        BY Parts
      <4> QED
        BY <2>4, <2>8, <4>1, <4>2
    <3>2. window[c].init_time <= now /\ window[c].init_time \in Nat /\ s.period \in Nat
      <4>1. window[c] \in Windows /\ c \in Counter /\ s.period \in Nat
        BY GovernsType
      <4>2. window[c].init_time <= now
        BY <4>1 DEF LossInv
      <4> QED
        BY <4>1, <4>2 DEF Windows
    <3>3. Opened.init_time = now
      BY OpenedType
    <3>4. ~Open(window[c], s.period, clock) /\ ~Open(Opened, s.period, clock)
      BY <2>8, <3>1, <3>2, <3>3 DEF Open
    <3>5. Opened.msgs <= s.limit["max_msgs"]
      BY <2>7 DEF Room
    <3> QED
      BY <3>4, <3>5 DEF Room
  <2>11. Room(window[c], Opened, risk, s.limit["max_msgs"], s.period, Instant', cleanups)
    <3>1. CASE ~risk
      <4>1. risk = FALSE
        BY <2>9, <3>1
      <4> QED
        BY <2>7, <2>8, <4>1
    <3>2. CASE risk
      BY <2>8, <2>10, <3>2
    <3> QED
      BY <3>1, <3>2
  <2>12. \A row \in RowOf(c)' :
           Room(window'[c], Due(row)', AtRisk(row)', s.limit["max_msgs"], s.period, Instant', cleanups')
    BY <1>1, <2>3, <2>6, <2>9, <2>11
  <2>13. RowOf(c)' # {}
    <3>1. v.tid = s.id /\ v.account = key
      BY <1>4, <2>1, <2>2
    <3> QED
      BY <2>3, <3>1 DEF RowOf
  <2> QED
    BY <1>3, <2>12, <2>13 DEF Governed
<1>8. CASE ~Inserting(c)
  <2>1. ASSUME s \in Inserts(copy), TrackKey(s) = key PROVE FALSE
    <3>1. PICK r \in TrackedRules : s = rule[r] /\ rule[r] # NoSetting
      BY <2>1 DEF Inserts
    <3>2. r = "max_msgs" \/ r = "max_quota"
      BY DEF TrackedRules
    <3>3. rule["max_msgs"] = s
      BY <1>1, <2>1, <3>1, <3>2, GovernedJudges
    <3> QED
      BY <1>1, <1>8, <2>1, <3>3 DEF Inserting, CounterOf
  <2>2. RowOf(c)' = RowOf(c)
    <3>1. RowOf(c)' \subseteq RowOf(c)
      BY <1>6, <2>1
    <3>2. RowOf(c) \subseteq RowOf(c)'
      BY <1>2 DEF RowOf
    <3> QED
      BY <3>1, <3>2
  <2>3. \A row : Updating(row)' <=> Updating(row)
    BY <1>1 DEF Updating
  <2>4. \A row : Totals(Updated("max_msgs", row))' = Totals(Updated("max_msgs", row)) /\ Totals(row)' = Totals(row)
    BY <1>1 DEF Updated, Expired, Totals
  <2>5. \A row : Due(row)' = Due(row)
    BY <2>3, <2>4 DEF Due
  <2>6. \A row : AtRisk(row)' <=> AtRisk(row)
    BY <1>1, SameRisk
  <2>7. \A new \in RowOf(c)' : \E row \in RowOf(c) : Due(new)' = Due(row) /\ (AtRisk(new)' => AtRisk(row))
    BY <2>2, <2>5, <2>6
  <2>8. window'[c] = window[c] /\ cleanups' = cleanups
    BY <1>1
  <2> QED
    BY <1>3, <1>8, <2>2, <2>7, <2>8, GovernedStays
<1> QED
  BY <1>7, <1>8

\* An UPDATE writes what was due.
LEMMA UpdateGoverned ==
  ASSUME TypeOK, TypeOK', RuleInv, NotifyInv, Regular, LossInv, NEW r \in TrackedRules, Update(r), [Next]_vars,
         NEW s \in Settings, NEW key \in Account, Governs(s, key), Governed(s, <<s.id, key>>)
  PROVE  Governed(s, <<s.id, key>>)'
<1> DEFINE c == <<s.id, key>>
<1>1. /\ UNCHANGED <<pc, req, pass, now, rule, copy, clock, window, cleanups>> /\ UNCHANGED cleanerVars
      /\ pc = "write" /\ todo' = todo \ {r} /\ "insert" \notin todo /\ r \in todo
      /\ r = "max_quota" => "max_msgs" \notin todo
  BY DEF Update, cleanerVars, historyVars
<1>2. /\ r \in UpdateStatements(copy) /\ rule[r] \in Settings
      /\ \A q \in UpdateStatements(copy) : q # r => rule[q] # rule[r]
      /\ \A w \in tracking : w.id = copy[r].id =>
           /\ w = copy[r] /\ w.tid = rule[r].id /\ w.account = TrackKey(rule[r])
           /\ w.period = rule[r].period
      /\ tracking' = {IF w.id = copy[r].id THEN Updated(r, w) ELSE w : w \in tracking}
      /\ \A w \in tracking : w.id = copy[r].id =>
           LET v == Updated(r, w)
           IN  /\ v \in Row /\ v.id = w.id /\ v.tid = w.tid /\ v.account = w.account /\ v.period = w.period
               /\ v.init_time = w.init_time \/ v.init_time = now
  BY UpdateChanges
<1>3. ~Inserting(c)' /\ ~Inserting(c)
  BY <1>1 DEF Inserting
<1>4. RowOf(c)' = {} => RowOf(c) = {}
  <2>1. SUFFICES ASSUME NEW w \in RowOf(c) PROVE RowOf(c)' # {}
    OBVIOUS
  <2>2. w \in tracking /\ w.tid = s.id /\ w.account = key
    BY DEF RowOf
  <2>3. PICK v \in tracking' : v.tid = w.tid /\ v.account = w.account
    <3>1. CASE w.id = copy[r].id
      BY <1>2, <2>2, <3>1
    <3>2. CASE w.id # copy[r].id
      BY <1>2, <2>2, <3>2
    <3> QED
      BY <3>1, <3>2
  <2> QED
    BY <2>2, <2>3 DEF RowOf
<1>5. \A row : Totals(row)' = Totals(row)
  BY DEF Totals
<1>6. ASSUME NEW new \in RowOf(c)'
      PROVE  \E row \in RowOf(c) : Due(new)' = Due(row) /\ (AtRisk(new)' => AtRisk(row))
  <2>1. new \in tracking' /\ new.tid = s.id /\ new.account = key
    BY DEF RowOf
  <2>2. PICK w \in tracking : new = IF w.id = copy[r].id THEN Updated(r, w) ELSE w
    BY <1>2, <2>1
  <2>3. CASE w.id # copy[r].id
    <3>1. new = w /\ w \in RowOf(c)
      BY <2>1, <2>2, <2>3 DEF RowOf
    <3>2. ~Updating(new)' <=> ~Updating(w)
      BY <1>1, <2>3, <3>1 DEF Updating, TrackedRules
    <3>3. Totals(Updated("max_msgs", new))' = Totals(Updated("max_msgs", new))
      BY <1>1 DEF Updated, Expired, Totals
    <3>4. Due(new)' = Due(w)
      BY <1>5, <3>1, <3>2, <3>3 DEF Due
    <3>5. AtRisk(new)' => AtRisk(w)
      BY <1>1, <3>1, SameRisk
    <3> QED
      BY <3>1, <3>4, <3>5
  <2>4. CASE w.id = copy[r].id
    <3>1. /\ new = Updated(r, w) /\ new.id = w.id /\ new.tid = w.tid /\ new.account = w.account /\ new.period = w.period
          /\ new.init_time = w.init_time \/ new.init_time = now
          /\ w.tid = rule[r].id /\ w.account = TrackKey(rule[r])
      BY <1>2, <2>2, <2>4
    <3>2. rule[r] = s /\ TrackKey(s) = key /\ w \in RowOf(c)
      BY <1>2, <2>1, <3>1, ConstantsAssumption DEF RowOf
    <3>3. r = "max_msgs"
      <4>1. SUFFICES ASSUME r = "max_quota" PROVE FALSE
        BY DEF TrackedRules
      <4>2. rule["max_msgs"] = s
        BY <1>1, <3>2, <4>1, GovernedJudges
      <4> QED
        BY <1>2, <3>2, <4>1, <4>2 DEF UpdateStatements
    <3>4. ~Updating(new)' /\ Updating(w)
      BY <1>1, <2>4, <3>3 DEF Updating
    <3>5. Due(new)' = Due(w)
      BY <1>5, <3>1, <3>3, <3>4 DEF Due
    <3>6. AtRisk(new)' => AtRisk(w)
      <4>1. w.init_time \in Nat /\ w.period \in Nat /\ w.init_time <= now /\ now \in Nat /\ cleanup_now \in Nat
        BY ConstantsAssumption DEF LossInv, TypeOK, Row
      <4>2. AtRisk(new)' => cleaner # "stopped" /\ (w.id \in remove_values \/ new.init_time + w.period < cleanup_now)
        BY <1>1, <3>1 DEF AtRisk, cleanerVars
      <4> QED
        BY <3>1, <4>1, <4>2 DEF AtRisk
    <3> QED
      BY <3>2, <3>5, <3>6
  <2> QED
    BY <2>3, <2>4
<1>7. window'[c] = window[c] /\ cleanups' = cleanups
  BY <1>1
<1> QED
  BY <1>3, <1>4, <1>6, <1>7, GovernedStays

\* The totals that an UPDATE will write to a row.
LEMMA DueNext ==
  ASSUME TypeOK, UNCHANGED <<now, rule, req>>, NEW row \in tracking, Updating(row)', copy'["max_msgs"] = row
  PROVE  LET p == rule["max_msgs"].period
         IN  Due(row)' = IF Expired(row.init_time, p)
                           THEN [init_time |-> now, msgs |-> req.rcpts, quota |-> req.size]
                           ELSE [init_time |-> row.init_time,
                                 msgs |-> row.cur_msgs + req.rcpts, quota |-> row.cur_quota + req.size]
<1> DEFINE p == rule["max_msgs"].period
           expired == Expired(row.init_time, p)
<1>1. Due(row)' = Totals(Updated("max_msgs", row))'
  BY DEF Due
<1>2. Totals(Updated("max_msgs", row))'
        = Totals(IF expired
                   THEN [row EXCEPT !.period = p, !.init_time = now, !.cur_msgs = req.rcpts, !.cur_quota = req.size]
                   ELSE [row EXCEPT !.period = p, !.init_time = row.init_time,
                                    !.cur_msgs = @ + req.rcpts, !.cur_quota = @ + req.size])
  BY DEF Updated, Expired, Totals
<1>3. /\ now \in Nat /\ p \in Nat /\ req.rcpts \in Nat /\ req.size \in Nat /\ row \in Row
  BY Parts DEF TypeOK, TrackedRules
<1>4. CASE expired
  <2>1. Totals([row EXCEPT !.period = p, !.init_time = now, !.cur_msgs = req.rcpts, !.cur_quota = req.size])
          = [init_time |-> now, msgs |-> req.rcpts, quota |-> req.size]
    BY <1>3 DEF Totals, Row
  <2> QED
    BY <1>1, <1>2, <1>4, <2>1
<1>5. CASE ~expired
  <2>1. PICK m \in Nat, q \in Nat : m = row.cur_msgs + req.rcpts /\ q = row.cur_quota + req.size
    BY <1>3 DEF Row
  <2> DEFINE u == [row EXCEPT !.period = p, !.init_time = row.init_time, !.cur_msgs = m, !.cur_quota = q]
  <2>2. Totals(u) = [init_time |-> row.init_time, msgs |-> m, quota |-> q]
    BY <1>3, <2>1 DEF Totals, Row
  <2>3. [row EXCEPT !.period = p, !.init_time = row.init_time, !.cur_msgs = @ + req.rcpts, !.cur_quota = @ + req.size]
          = u
    BY <2>1
  <2> HIDE DEF u
  <2> QED
    BY <1>1, <1>2, <1>5, <2>1, <2>2, <2>3
<1> QED
  BY <1>4, <1>5

\* What is read of a message that is accepted.
LEMMA AcceptReads ==
  ASSUME TypeOK, RuleInv, RowInv, NoWildcard, SelectTracking, pc' = "write"
  PROVE  \E f \in Copies({w \in tracking : Tracked(w)}) :
           /\ pc = "tracking" /\ copy' = f /\ ~MsgsExceeded(f)
           /\ todo' = UpdateStatements(f) \cup (IF Inserts(f) = {} THEN {} ELSE {"insert"})
           /\ window' = [c \in Counter |->
                           IF \E s \in Supplied : c = CounterOf(s)
                             THEN Count(window[c], (CHOOSE s \in Supplied : c = CounterOf(s)).period)
                             ELSE window[c]]
           /\ UNCHANGED <<clock, tracking, serial, req, pass, now, rule, cleanups>> /\ UNCHANGED cleanerVars
           /\ \A r \in TrackedRules :
                IF rule[r] = NoSetting THEN f[r] = NoRow
                ELSE IF RowOf(CounterOf(rule[r])) = {} THEN f[r] = NoRow
                ELSE f[r] \in RowOf(CounterOf(rule[r]))
<1>1. pc = "tracking" /\ UNCHANGED <<clock, tracking, serial, req, pass, now, rule>> /\ UNCHANGED cleanerVars
  BY DEF SelectTracking
<1>2. PICK f \in Copies({w \in tracking : Tracked(w)}) :
        /\ copy' = f /\ ~MsgsExceeded(f)
        /\ todo' = UpdateStatements(f) \cup (IF Inserts(f) = {} THEN {} ELSE {"insert"})
        /\ window' = [c \in Counter |->
                        IF \E s \in Supplied : c = CounterOf(s)
                          THEN Count(window[c], (CHOOSE s \in Supplied : c = CounterOf(s)).period)
                          ELSE window[c]]
  BY Zenon DEF SelectTracking, RejectQuota
<1>3. ASSUME NEW r \in TrackedRules
      PROVE  IF rule[r] = NoSetting THEN f[r] = NoRow
             ELSE IF RowOf(CounterOf(rule[r])) = {} THEN f[r] = NoRow
             ELSE f[r] \in RowOf(CounterOf(rule[r]))
  <2> DEFINE own == {w \in {w \in tracking : Tracked(w)} : rule[r] # NoSetting /\ w.tid = rule[r].id}
  <2>1. IF own = {} THEN f[r] = NoRow ELSE f[r] \in own
    BY Zenon DEF Copies
  <2>2. rule[r] # NoSetting => {w \in tracking : Tracked(w) /\ w.tid = rule[r].id} = RowOf(CounterOf(rule[r]))
    BY <1>1, RowsFound
  <2>3. rule[r] # NoSetting => own = {w \in tracking : Tracked(w) /\ w.tid = rule[r].id}
    OBVIOUS
  <2>4. rule[r] = NoSetting => own = {}
    OBVIOUS
  <2> HIDE DEF own
  <2> QED
    BY <2>1, <2>2, <2>3, <2>4
<1>4. cleanups' = cleanups
  BY <1>1 DEF cleanerVars
<1> QED
  BY <1>1, <1>2, <1>3, <1>4

\* What is charged.
LEMMA WindowNext ==
  ASSUME TypeOK, window' = [c \in Counter |->
                   IF \E s \in Supplied : c = CounterOf(s)
                     THEN Count(window[c], (CHOOSE s \in Supplied : c = CounterOf(s)).period)
                     ELSE window[c]]
  PROVE  /\ \A s \in Supplied : /\ s \in Settings /\ CounterOf(s) \in Counter
                                /\ window'[CounterOf(s)] = Count(window[CounterOf(s)], s.period)
         /\ \A c \in Counter : (\A s \in Supplied : c # CounterOf(s)) => window'[c] = window[c]
<1>1. ASSUME NEW s \in Supplied
      PROVE  /\ s \in Settings /\ CounterOf(s) \in Counter
             /\ window'[CounterOf(s)] = Count(window[CounterOf(s)], s.period)
  <2>1. s \in Settings /\ Supplied \subseteq Settings
    BY Parts DEF Supplied
  <2>2. \A t \in Supplied : CounterOf(s) = CounterOf(t) => s = t
    BY <2>1, CounterInjective
  <2>3. (CHOOSE t \in Supplied : CounterOf(s) = CounterOf(t)) = s
    BY <2>2
  <2>4. CounterOf(s) \in Counter
    BY <2>1, CounterInjective
  <2> QED
    BY <2>1, <2>3, <2>4
<1>2. \A c \in Counter : (\A s \in Supplied : c # CounterOf(s)) => window'[c] = window[c]
  OBVIOUS
<1> QED
  BY <1>1, <1>2

\* A message that is accepted is counted in the window and in the row, or opens it.
LEMMA AcceptRoom ==
  ASSUME TypeOK, TypeOK', RuleInv, RowInv, NotifyInv, Regular, LossInv, SelectTracking, pc' = "write",
         NEW s \in Settings, rule["max_msgs"] = s, Governs(s, TrackKey(s)), Governed(s, CounterOf(s))
  PROVE  LET c == CounterOf(s)
             RoomFor(v, risk) == Room(window'[c], v, risk, s.limit["max_msgs"], s.period, now, cleanups)
         IN  /\ Open(window'[c], s.period, now)
             /\ \/ RowOf(c)' = {} /\ Inserting(c)' /\ RoomFor(Opened, FALSE)
                \/ ~Inserting(c)' /\ \E row \in RowOf(c) :
                     RowOf(c)' = {row} /\ Due(row)' \in Windows /\ RoomFor(Due(row)', AtRisk(row))
<1> DEFINE c   == CounterOf(s)
           max == s.limit["max_msgs"]
           p   == s.period
<1>1. PICK f \in Copies({w \in tracking : Tracked(w)}) :
           /\ pc = "tracking" /\ copy' = f /\ ~MsgsExceeded(f)
           /\ todo' = UpdateStatements(f) \cup (IF Inserts(f) = {} THEN {} ELSE {"insert"})
           /\ window' = [d \in Counter |->
                           IF \E t \in Supplied : d = CounterOf(t)
                             THEN Count(window[d], (CHOOSE t \in Supplied : d = CounterOf(t)).period)
                             ELSE window[d]]
           /\ UNCHANGED <<clock, tracking, serial, req, pass, now, rule, cleanups>> /\ UNCHANGED cleanerVars
           /\ \A r \in TrackedRules :
                IF rule[r] = NoSetting THEN f[r] = NoRow
                ELSE IF RowOf(CounterOf(rule[r])) = {} THEN f[r] = NoRow
                ELSE f[r] \in RowOf(CounterOf(rule[r]))
  BY AcceptReads DEF Regular
<1>2. s # NoSetting /\ s \in Supplied /\ TrackKey(s) \in Account /\ "max_msgs" \in TrackedRules
  BY Parts DEF Supplied, TrackedRules
<1>3. /\ max \in Nat /\ p \in Nat /\ window[c] \in Windows /\ cleanups \in Nat /\ c \in Counter /\ max > 0
  BY <1>2, GovernsType DEF CounterOf, Governs
<1>4. now \in Nat \ {0} /\ req.rcpts \in Nat /\ req.size \in Nat
  BY <1>1, Parts DEF TypeOK, RuleInv
<1>5. window'[c] = Count(window[c], p)
  BY <1>1, <1>2, WindowNext
<1>6. window'[c] \in Windows
  BY <1>3 DEF TypeOK, Windows
<1>7. Counted(window'[c], window[c], p, now, req.rcpts)
  <2>1. window[c].init_time \in Nat
    BY <1>3 DEF Windows
  <2>2. Open(window[c], p, now) <=> ~(window[c].init_time = 0 \/ now > window[c].init_time + p)
    BY <1>3, <1>4, <2>1 DEF Open
  <2>3. CASE Open(window[c], p, now)
    <3>1. window'[c] = [init_time |-> window[c].init_time, msgs |-> window[c].msgs + req.rcpts,
                        quota |-> window[c].quota + req.size]
      <4>1. window'[c] = [window[c] EXCEPT !.msgs = @ + req.rcpts, !.quota = @ + req.size]
        BY <1>5, <2>2, <2>3 DEF Count
      <4>2. PICK w \in [init_time: Nat, msgs: Nat, quota: Nat] : w = window[c]
        BY <1>3 DEF Windows
      <4>3. [w EXCEPT !.msgs = @ + req.rcpts, !.quota = @ + req.size]
              = [init_time |-> w.init_time, msgs |-> w.msgs + req.rcpts, quota |-> w.quota + req.size]
        BY <4>2, Charged, Zenon
      <4> QED
        BY <4>1, <4>2, <4>3
    <3> QED
      BY <2>3, <3>1 DEF Counted
  <2>4. CASE ~Open(window[c], p, now)
    BY <1>5, <2>2, <2>4 DEF Count, Counted
  <2> QED
    BY <2>3, <2>4
<1>8. Open(window'[c], p, now)
  <2>1. window[c].init_time \in Nat
    BY <1>3 DEF Windows
  <2> QED
    BY <1>3, <1>4, <1>7, <2>1 DEF Open, Counted
<1>9. window[c].init_time <= now
  BY <1>3 DEF LossInv
<1>10. Current("max_msgs", f["max_msgs"], f["max_msgs"].cur_msgs) + req.rcpts <= max
  <2>1. ~(Current("max_msgs", f["max_msgs"], f["max_msgs"].cur_msgs) + req.rcpts > max)
    BY <1>1, <1>3 DEF MsgsExceeded
  <2>2. f["max_msgs"] \in Row \cup {NoRow}
    BY <1>1, <1>2 DEF TypeOK
  <2>3. f["max_msgs"].cur_msgs \in Nat
    BY <2>2 DEF Row, NoRow
  <2>4. Current("max_msgs", f["max_msgs"], f["max_msgs"].cur_msgs) \in Nat
    BY <2>3 DEF Current
  <2> QED
    BY <1>3, <1>4, <2>1, <2>4
<1>11. RowOf(c)' = RowOf(c) /\ CounterOf(s)' = c
  BY <1>1 DEF RowOf, CounterOf, TrackKey, TheUser
<1>12. Inserts(copy)' = Inserts(f) /\ CounterOf(rule["max_msgs"])' = c
  BY <1>1 DEF Inserts, Updates, CounterOf, TrackKey, TheUser
<1>13. Instant = now
  BY <1>1 DEF Instant
<1>14. ~Inserting(c) /\ \A row : Due(row) = Totals(row)
  BY <1>1, SettledMeans DEF Settled
<1>15. CASE RowOf(c) = {}
  <2>1. f["max_msgs"] = NoRow
    BY <1>1, <1>2, <1>15
  <2>2. "max_msgs" \notin Updates(f)
    BY <2>1 DEF Updates
  <2>3. s \in Inserts(f)
    BY <1>2, <2>2 DEF Inserts
  <2>4. "insert" \in todo'
    BY <1>1, <2>3
  <2>5. Inserting(c)'
    BY <1>1, <1>12, <2>3, <2>4 DEF Inserting
  <2>6. NoRoom(window[c], max, p, now, cleanups)
    BY <1>13, <1>14, <1>15 DEF Governed
  <2>7. req.rcpts <= max
    <3>1. Current("max_msgs", f["max_msgs"], f["max_msgs"].cur_msgs) = 0
      BY <2>1 DEF Current, NoRow
    <3> QED
      BY <1>4, <1>10, <3>1
  <2>8. Opened \in Windows /\ Opened.init_time = now /\ Opened.msgs = req.rcpts
    BY OpenedType
  <2>9. Room(window'[c], Opened, FALSE, max, p, now, cleanups)
    <3>1. PICK w \in Windows, x \in Windows, y \in Windows,
               m \in Nat, l \in Nat, t \in Nat \ {0}, n \in Nat, k \in Nat :
            /\ w = window[c] /\ x = window'[c] /\ y = Opened /\ m = max /\ l = p /\ t = now /\ n = req.rcpts
            /\ k = cleanups
      BY <1>3, <1>4, <1>6, <2>8
    <3>2. w.init_time <= t /\ NoRoom(w, m, l, t, k) /\ n <= m /\ y.init_time = t /\ y.msgs = n
      BY <1>9, <2>6, <2>7, <2>8, <3>1
    <3>3. Counted(x, w, l, t, n)
      BY <1>7, <3>1
    <3>4. Room(x, y, FALSE, m, l, t, k)
      BY <3>2, <3>3, RoomOpened
    <3> QED
      BY <3>1, <3>4
  <2> QED
    BY <1>8, <1>11, <1>15, <2>5, <2>9
<1>16. CASE RowOf(c) # {}
  <2>1. PICK row \in RowOf(c) : f["max_msgs"] = row
    BY <1>1, <1>2, <1>16
  <2>2. row \in tracking /\ row.tid = s.id /\ row.account = TrackKey(s) /\ row \in Row
    BY <2>1 DEF RowOf, CounterOf, TypeOK
  <2>3. RowOf(c) = {row}
    BY <2>2 DEF RowOf, CounterOf, LossInv
  <2>4. row # NoRow
    <3>1. row.id[1] \in 1..serial /\ NoRow.id[1] = 0 /\ serial \in Nat
      BY <2>2 DEF RowInv, NoRow, TypeOK
    <3> QED
      BY <3>1
  <2>5. "max_msgs" \in Updates(f) /\ "max_msgs" \in UpdateStatements(f)
    BY <1>2, <2>1, <2>2, <2>4 DEF Updates, UpdateStatements
  <2>6. "max_msgs" \in todo'
    BY <1>1, <2>5
  <2>7. ~Inserting(c)'
    <3>1. SUFFICES ASSUME s \in Inserts(f) PROVE FALSE
      BY <1>1, <1>12 DEF Inserting
    <3>2. PICK q \in TrackedRules \ Updates(f) : s = rule[q]
      BY <3>1 DEF Inserts
    <3>3. q = "max_quota" /\ rule["max_msgs"] = rule["max_quota"]
      BY <2>5, <3>2 DEF TrackedRules
    <3>4. f["max_msgs"] = f["max_quota"]
      BY <3>3, Zenon DEF Copies
    <3>5. q \in Updates(f)
      BY <2>5, <3>2, <3>3, <3>4 DEF Updates
    <3> QED
      BY <3>2, <3>5
  <2>8. Updating(row)' /\ copy'["max_msgs"] = row
    BY <1>1, <2>1, <2>6 DEF Updating
  <2>9. Due(row)' = IF Expired(row.init_time, p)
                      THEN [init_time |-> now, msgs |-> req.rcpts, quota |-> req.size]
                      ELSE [init_time |-> row.init_time,
                            msgs |-> row.cur_msgs + req.rcpts, quota |-> row.cur_quota + req.size]
    BY <1>1, <2>2, <2>8, DueNext
  <2>10. /\ row.init_time \in Nat /\ row.init_time > 0 /\ row.init_time <= now
         /\ row.cur_msgs \in Nat /\ row.cur_quota \in Nat
    BY <2>2 DEF Row, LossInv
  <2>11. Totals(row).init_time = row.init_time /\ Totals(row).msgs = row.cur_msgs
    BY DEF Totals
  <2>12. Open(Totals(row), p, now) <=> ~Expired(row.init_time, p)
    BY <1>3, <1>4, <2>10, <2>11 DEF Open, Expired
  <2>13. Counted(Due(row)', Totals(row), p, now, req.rcpts)
    BY <2>9, <2>11, <2>12 DEF Counted
  <2>14. Due(row)' \in Windows /\ Totals(row) \in Windows
    <3>1. row.cur_msgs + req.rcpts \in Nat /\ row.cur_quota + req.size \in Nat
      BY <1>4, <2>10
    <3>2. Totals(row) \in Windows
      BY <2>10 DEF Totals, Windows
    <3> QED
      BY <1>4, <2>9, <2>10, <3>1, <3>2 DEF Windows
  <2>15. Due(row)'.msgs <= max
    <3>1. Current("max_msgs", row, row.cur_msgs) = IF Expired(row.init_time, p) THEN 0 ELSE row.cur_msgs
      BY DEF Current
    <3>2. Current("max_msgs", row, row.cur_msgs) + req.rcpts <= max
      BY <1>10, <2>1
    <3> QED
      BY <1>4, <2>9, <3>1, <3>2
  <2>16. Room(window[c], Totals(row), AtRisk(row), max, p, now, cleanups)
    BY <1>13, <1>14, <2>1 DEF Governed
  <2>17. AtRisk(row) \in BOOLEAN /\ (AtRisk(row) => cleanups > 0)
    BY DEF AtRisk, LossInv
  <2>18. Room(window'[c], Due(row)', AtRisk(row), max, p, now, cleanups)
    <3>1. PICK w \in Windows, v \in Windows, x \in Windows, y \in Windows, risk \in BOOLEAN :
            w = window[c] /\ v = Totals(row) /\ x = window'[c] /\ y = Due(row)' /\ risk = AtRisk(row)
      BY <1>3, <1>6, <2>14, <2>17
    <3>2. PICK m \in Nat, l \in Nat, t \in Nat \ {0}, n \in Nat, k \in Nat :
            m = max /\ l = p /\ t = now /\ n = req.rcpts /\ k = cleanups
      BY <1>3, <1>4
    <3>3. 0 < v.init_time /\ v.init_time <= t /\ w.init_time <= t /\ (k = 0 => risk = FALSE) /\ y.msgs <= m
      BY <1>9, <2>10, <2>11, <2>15, <2>17, <3>1, <3>2
    <3>4. Room(w, v, risk, m, l, t, k)
      BY <2>16, <3>1, <3>2
    <3>5. Counted(x, w, l, t, n)
      BY <1>7, <3>1, <3>2
    <3>6. Counted(y, v, l, t, n)
      BY <2>13, <3>1, <3>2
    <3>7. /\ w \in Windows /\ v \in Windows /\ x \in Windows /\ y \in Windows /\ risk \in BOOLEAN
          /\ m \in Nat /\ l \in Nat /\ t \in Nat \ {0} /\ n \in Nat /\ k \in Nat
      BY <3>1, <3>2
    <3>8. Room(x, y, risk, m, l, t, k)
      BY <3>3, <3>4, <3>5, <3>6, <3>7, RoomCounted
    <3> QED
      BY <3>1, <3>2, <3>8
  <2> QED
    BY <1>8, <1>11, <2>3, <2>7, <2>14, <2>18
<1> QED
  BY <1>15, <1>16

\* A message that is accepted leaves each counter with room: the one that judged it has what
\* was let through, the others are as they were.
LEMMA AcceptGoverned ==
  ASSUME TypeOK, TypeOK', RuleInv, RowInv, NotifyInv, Regular, LossInv, SelectTracking, pc' = "write",
         [Next]_vars,
         NEW s \in Settings, NEW key \in Account, Governs(s, key), Governed(s, <<s.id, key>>)
  PROVE  Governed(s, <<s.id, key>>)'
<1> DEFINE c == <<s.id, key>>
<1>1. PICK f \in Copies({w \in tracking : Tracked(w)}) :
           /\ pc = "tracking" /\ copy' = f
           /\ todo' = UpdateStatements(f) \cup (IF Inserts(f) = {} THEN {} ELSE {"insert"})
           /\ window' = [d \in Counter |->
                           IF \E t \in Supplied : d = CounterOf(t)
                             THEN Count(window[d], (CHOOSE t \in Supplied : d = CounterOf(t)).period)
                             ELSE window[d]]
           /\ UNCHANGED <<clock, tracking, serial, req, pass, now, rule, cleanups>> /\ UNCHANGED cleanerVars
           /\ \A r \in TrackedRules :
                IF rule[r] = NoSetting THEN f[r] = NoRow
                ELSE IF RowOf(CounterOf(rule[r])) = {} THEN f[r] = NoRow
                ELSE f[r] \in RowOf(CounterOf(rule[r]))
  BY AcceptReads DEF Regular
<1>2. Instant' = clock /\ now <= clock /\ now \in Nat /\ clock \in Nat /\ Opened' = Opened
  <2>1. now <= clock /\ now \in Nat /\ clock \in Nat
    BY ConstantsAssumption DEF TypeOK
  <2> QED
    BY <1>1, <2>1 DEF Instant, Opened
<1>3. /\ s.limit["max_msgs"] \in Nat /\ s.period \in Nat /\ c \in Counter
      /\ window[c] \in Windows /\ window'[c] \in Windows /\ cleanups \in Nat
  <2>1. s.limit["max_msgs"] \in Nat /\ s.period \in Nat /\ c \in Counter /\ window[c] \in Windows /\ cleanups \in Nat
    BY GovernsType
  <2> QED
    BY <2>1 DEF TypeOK, Windows
<1>4. RowOf(c)' = RowOf(c) /\ RowOf(c) \subseteq tracking
  BY <1>1 DEF RowOf
<1>5. CASE rule["max_msgs"] = s /\ TrackKey(s) = key
  <2>1. c = CounterOf(s) /\ Governs(s, TrackKey(s)) /\ Governed(s, CounterOf(s))
    BY <1>5 DEF CounterOf
  <2> DEFINE RoomFor(v, risk) == Room(window'[c], v, risk, s.limit["max_msgs"], s.period, now, cleanups)
  <2>2. \/ RowOf(c)' = {} /\ Inserting(c)' /\ RoomFor(Opened, FALSE)
        \/ ~Inserting(c)' /\ \E row \in RowOf(c) :
             RowOf(c)' = {row} /\ Due(row)' \in Windows /\ RoomFor(Due(row)', AtRisk(row))
    <3>1. /\ \/ RowOf(CounterOf(s))' = {} /\ Inserting(CounterOf(s))'
                /\ Room(window'[CounterOf(s)], Opened, FALSE, s.limit["max_msgs"], s.period, now, cleanups)
             \/ ~Inserting(CounterOf(s))' /\ \E row \in RowOf(CounterOf(s)) :
                  /\ RowOf(CounterOf(s))' = {row} /\ Due(row)' \in Windows
                  /\ Room(window'[CounterOf(s)], Due(row)', AtRisk(row), s.limit["max_msgs"], s.period, now, cleanups)
      BY <1>5, <2>1, AcceptRoom, Zenon
    <3>2. CounterOf(s)' = c
      BY <1>1, <2>1 DEF CounterOf, TrackKey, TheUser
    <3> QED
      BY <2>1, <3>1, <3>2
  <2>3. ASSUME NEW v \in Windows, NEW risk \in BOOLEAN, RoomFor(v, risk)
        PROVE  Room(window'[c], v, risk, s.limit["max_msgs"], s.period, Instant', cleanups')
    <3>1. PICK w \in Windows, m \in Nat, p \in Nat, t \in Nat, u \in Nat, k \in Nat :
            /\ w = window'[c] /\ m = s.limit["max_msgs"] /\ p = s.period /\ t = now /\ u = clock /\ k = cleanups
      BY <1>2, <1>3
    <3>2. Room(w, v, risk, m, p, t, k) /\ t <= u
      BY <1>2, <2>3, <3>1
    <3>3. Room(w, v, risk, m, p, u, k)
      BY <3>1, <3>2, RoomLater
    <3> QED
      BY <1>1, <1>2, <3>1, <3>3
  <2> HIDE DEF RoomFor
  <2>4. CASE RowOf(c)' = {} /\ Inserting(c)' /\ RoomFor(Opened, FALSE)
    <3>1. Opened \in Windows
      BY OpenedType
    <3>2. Room(window'[c], Opened', FALSE, s.limit["max_msgs"], s.period, Instant', cleanups')
      BY <1>2, <2>3, <2>4, <3>1
    <3> QED
      BY <2>4, <3>2 DEF Governed
  <2>5. CASE ~Inserting(c)' /\ \E row \in RowOf(c) :
               RowOf(c)' = {row} /\ Due(row)' \in Windows /\ RoomFor(Due(row)', AtRisk(row))
    <3>1. PICK row \in RowOf(c) :
            RowOf(c)' = {row} /\ Due(row)' \in Windows /\ RoomFor(Due(row)', AtRisk(row))
      BY <2>5
    <3>4. PICK risk \in BOOLEAN : risk = AtRisk(row) /\ risk = AtRisk(row)'
      BY <1>1 DEF AtRisk, cleanerVars
    <3>5. Room(window'[c], Due(row)', AtRisk(row)', s.limit["max_msgs"], s.period, Instant', cleanups')
      BY <2>3, <3>1, <3>4
    <3> QED
      BY <2>5, <3>1, <3>5 DEF Governed
  <2> QED
    BY <2>2, <2>4, <2>5
<1>6. CASE ~(rule["max_msgs"] = s /\ TrackKey(s) = key)
  <2>1. ASSUME Inserting(c)' PROVE FALSE
    <3>1. c = CounterOf(rule["max_msgs"]) /\ rule["max_msgs"] \in Inserts(f)
      BY <1>1, <2>1 DEF Inserting, Inserts, Updates, CounterOf, TrackKey, TheUser
    <3>2. rule["max_msgs"] \in Settings
      BY <3>1, Parts DEF Inserts
    <3> QED
      BY <1>6, <3>1, <3>2, ConstantsAssumption DEF CounterOf
  <2>2. ~Inserting(c) /\ \A row : Due(row) = Totals(row)
    BY <1>1, SettledMeans DEF Settled
  <2>3. ASSUME NEW row \in RowOf(c), Updating(row)' PROVE FALSE
    <3>2. "max_msgs" \in todo' /\ row.id = f["max_msgs"].id
      BY <1>1, <2>3 DEF Updating
    <3>3. rule["max_msgs"] # NoSetting
      BY <1>1, <3>2 DEF UpdateStatements, Updates
    <3>4. rule["max_msgs"] \in Settings
      BY <3>3, Parts DEF TrackedRules
    <3>5. row \in tracking /\ row.tid = s.id /\ row.account = key /\ row.id[1] \in 1..serial /\ serial \in Nat
      BY <1>4 DEF RowOf, RowInv, TypeOK
    <3>6. f["max_msgs"] # NoRow
      BY <3>2, <3>5 DEF NoRow
    <3>7. f["max_msgs"] \in RowOf(CounterOf(rule["max_msgs"]))
      BY <1>1, <3>3, <3>6 DEF TrackedRules
    <3>8. row = f["max_msgs"]
      BY <3>2, <3>5, <3>7 DEF RowInv, RowOf
    <3>9. rule["max_msgs"].id = s.id /\ TrackKey(rule["max_msgs"]) = key
      BY <3>5, <3>7, <3>8 DEF RowOf, CounterOf
    <3> QED
      BY <1>6, <3>4, <3>9, ConstantsAssumption
  <2>4. ASSUME NEW row \in RowOf(c) PROVE Due(row)' = Due(row) /\ (AtRisk(row)' => AtRisk(row))
    <3>1. Due(row)' = Totals(row)
      BY <2>3, <2>4 DEF Due, Totals
    <3>2. AtRisk(row)' <=> AtRisk(row)
      BY <1>1, SameRisk
    <3> QED
      BY <2>2, <3>1, <3>2
  <2>5. \A t \in Supplied : c # CounterOf(t)
    <3>1. SUFFICES ASSUME NEW t \in Supplied, c = CounterOf(t) PROVE FALSE
      OBVIOUS
    <3>2. PICK r \in TrackedRules : t = rule[r] /\ rule[r] # NoSetting
      BY DEF Supplied
    <3>3. t \in Settings
      BY <3>2, Parts
    <3>4. t = s /\ TrackKey(s) = key
      BY <3>1, <3>3, ConstantsAssumption DEF CounterOf
    <3>5. rule["max_quota"] = s
      BY <1>6, <3>2, <3>4 DEF TrackedRules
    <3>6. rule["max_msgs"] = s
      BY <1>1, <3>4, <3>5, GovernedJudges
    <3> QED
      BY <1>6, <3>4, <3>6
  <2>6. window'[c] = window[c]
    BY <1>1, <1>3, <2>5, WindowNext
  <2> QED
    BY <1>1, <1>4, <2>1, <2>2, <2>4, <2>6, GovernedStays
<1> QED
  BY <1>5, <1>6

\* Time does not go back for a request either, and each row comes from one of the same key or
\* from the INSERT.
LEMMA RowsNext ==
  ASSUME TypeOK, TypeOK', RuleInv, RowInv, NotifyInv, Regular, LossInv, [Next]_vars
  PROVE  /\ now \in Nat /\ now' \in Nat /\ now <= now'
         /\ \A v \in tracking' :
              \/ \E w \in tracking :
                   /\ v.id = w.id /\ v.tid = w.tid /\ v.account = w.account
                   /\ v.init_time = w.init_time \/ (v.init_time = now' /\ now' > 0)
              \/ /\ Insert /\ v.init_time = now' /\ now' > 0
                 /\ \E s \in Inserts(copy) : v = Fresh(s)
<1>1. now \in Nat /\ now' \in Nat /\ now <= clock /\ clock \in Nat
  BY ConstantsAssumption DEF TypeOK
<1>2. ASSUME tracking' \subseteq tracking, NEW v \in tracking'
      PROVE  \E w \in tracking :
               /\ v.id = w.id /\ v.tid = w.tid /\ v.account = w.account
               /\ v.init_time = w.init_time \/ (v.init_time = now' /\ now' > 0)
  BY <1>2
<1>3. CASE Notify
  <2>1. now' = now
        /\ tracking' = {IF row.id \in {copy[r].id : r \in todo}
                          THEN [row EXCEPT !.last_notify_time = clock] ELSE row : row \in tracking}
    BY <1>3 DEF Notify
  <2>2. ASSUME NEW v \in tracking'
        PROVE  \E w \in tracking : v.id = w.id /\ v.tid = w.tid /\ v.account = w.account /\ v.init_time = w.init_time
    <3>1. PICK w \in tracking : v = w \/ v = [w EXCEPT !.last_notify_time = clock]
      BY <2>1
    <3>2. w \in Row
      BY DEF TypeOK
    <3> QED
      BY <3>1, <3>2 DEF Row
  <2> QED
    BY <1>1, <2>1, <2>2
<1>4. CASE Insert
  <2>1. now' = now /\ pc = "write"
    BY <1>4 DEF Insert
  <2>2. now > 0
    BY <1>1, <2>1 DEF RuleInv
  <2>3. tracking' = tracking \cup {Fresh(s) : s \in Inserts(copy)}
    BY <1>4, InsertAdds
  <2>4. \A s : Fresh(s).init_time = now
    BY DEF Fresh
  <2>5. ASSUME NEW v \in tracking', v \notin tracking
        PROVE  v.init_time = now' /\ \E s \in Inserts(copy) : v = Fresh(s)
    BY <2>1, <2>3, <2>4, <2>5
  <2>6. now <= now'
    BY <1>1, <2>1
  <2> QED
    BY <1>1, <1>4, <2>1, <2>2, <2>5, <2>6
<1>5. ASSUME NEW r \in TrackedRules, Update(r)
      PROVE  /\ now <= now'
             /\ \A v \in tracking' : \E w \in tracking :
                  /\ v.id = w.id /\ v.tid = w.tid /\ v.account = w.account
                  /\ v.init_time = w.init_time \/ (v.init_time = now' /\ now' > 0)
  <2>1. now' = now /\ pc = "write"
    BY <1>5 DEF Update
  <2>2. now > 0
    BY <1>1, <2>1 DEF RuleInv
  <2>3. /\ tracking' = {IF w.id = copy[r].id THEN Updated(r, w) ELSE w : w \in tracking}
        /\ \A w \in tracking : w.id = copy[r].id =>
             LET v == Updated(r, w)
             IN  /\ v.id = w.id /\ v.tid = w.tid /\ v.account = w.account
                 /\ v.init_time = w.init_time \/ v.init_time = now
    BY <1>5, UpdateChanges
  <2>4. now <= now'
    BY <1>1, <2>1
  <2>5. ASSUME NEW v \in tracking'
        PROVE  \E w \in tracking :
                 /\ v.id = w.id /\ v.tid = w.tid /\ v.account = w.account
                 /\ v.init_time = w.init_time \/ (v.init_time = now' /\ now' > 0)
    <3>1. PICK w \in tracking : v = IF w.id = copy[r].id THEN Updated(r, w) ELSE w
      BY <2>3
    <3>2. CASE w.id = copy[r].id
      BY <2>1, <2>2, <2>3, <3>1, <3>2
    <3>3. CASE w.id # copy[r].id
      BY <3>1, <3>3
    <3> QED
      BY <3>2, <3>3
  <2> QED
    BY <2>4, <2>5
<1>6. CASE \/ Receive \/ SelectSettings \/ SelectTracking \/ EndPass
           \/ StartCleanup \/ CleanupSelect \/ Tick \/ UNCHANGED vars
  <2>1. tracking' = tracking
    BY <1>6, Zenon DEF Receive, SelectSettings, SelectTracking, EndPass, StartCleanup, CleanupSelect, Tick, vars
  <2>2. now <= now'
    <3>1. now' \in {now, clock}
      BY <1>6, Zenon DEF Receive, SelectSettings, SelectTracking, EndPass, StartCleanup, CleanupSelect, Tick,
                         vars, daemonVars
    <3> QED
      BY <1>1, <3>1
  <2> QED
    BY <1>1, <1>2, <2>1, <2>2
<1>7. CASE CleanupDelete
  <2>1. tracking' \subseteq tracking /\ now' = now
    BY <1>7 DEF CleanupDelete, daemonVars
  <2>2. now <= now'
    BY <1>1, <2>1
  <2> QED
    BY <1>1, <1>2, <2>1, <2>2
<1>8. CASE \E r \in TrackedRules : Update(r)
  BY <1>1, <1>5, <1>8
<1> QED
  BY <1>3, <1>4, <1>6, <1>7, <1>8, Zenon DEF Next, Daemon, Serve, Cleanup

\* The table has one row for each key, and no row is of the future.
LEMMA TableKept ==
  ASSUME TypeOK, TypeOK', RuleInv, RowInv, RowInv', NotifyInv, Regular, LossInv, [Next]_vars
  PROVE  /\ \A v, w \in tracking' : v.tid = w.tid /\ v.account = w.account => v = w
         /\ \A w \in tracking' : 0 < w.init_time /\ w.init_time <= now'
<1> DEFINE kept(v, w) == /\ v.id = w.id /\ v.tid = w.tid /\ v.account = w.account
                         /\ v.init_time = w.init_time \/ (v.init_time = now' /\ now' > 0)
           added(v)   == /\ Insert /\ v.init_time = now' /\ now' > 0
                         /\ \E s \in Inserts(copy) : v = Fresh(s)
<1>1. /\ now \in Nat /\ now' \in Nat /\ now <= now'
      /\ \A v \in tracking' : (\E w \in tracking : kept(v, w)) \/ added(v)
  BY RowsNext
<1>2. \A w \in tracking : w.init_time \in Nat /\ 0 < w.init_time /\ w.init_time <= now
  BY DEF LossInv, TypeOK, Row
<1>3. \A v \in tracking' : 0 < v.init_time /\ v.init_time <= now'
  BY <1>1, <1>2
<1>4. ASSUME NEW v \in tracking', NEW w \in tracking', v.tid = w.tid, v.account = w.account PROVE v = w
  <2>1. CASE (\E x \in tracking : kept(v, x)) /\ (\E y \in tracking : kept(w, y))
    <3>1. PICK x \in tracking, y \in tracking : kept(v, x) /\ kept(w, y)
      BY <2>1
    <3>2. x = y
      BY <1>4, <3>1 DEF LossInv
    <3> QED
      BY <3>1, <3>2 DEF RowInv
  <2>2. ASSUME NEW t \in tracking', NEW u \in tracking', t.tid = u.tid, t.account = u.account,
               added(t), NEW y \in tracking, kept(u, y)
        PROVE  FALSE
    <3>1. PICK s \in Inserts(copy) : t = Fresh(s)
      BY <2>2
    <3>2. ~(s.id = y.tid /\ TrackKey(s) = y.account)
      BY <2>2, InsertAdds
    <3>3. t.tid = s.id /\ t.account = TrackKey(s)
      BY <3>1 DEF Fresh
    <3> QED
      BY <2>2, <3>2, <3>3
  <2>3. CASE added(v) /\ added(w)
    <3>1. PICK s \in Inserts(copy), t \in Inserts(copy) : v = Fresh(s) /\ w = Fresh(t)
      BY <2>3
    <3>2. s \in Settings /\ t \in Settings
      BY <2>3, InsertAdds
    <3>3. s.id = t.id
      BY <1>4, <3>1 DEF Fresh
    <3> QED
      BY <3>1, <3>2, <3>3, ConstantsAssumption
  <2> QED
    BY <1>1, <1>4, <2>1, <2>2, <2>3
<1> QED
  BY <1>3, <1>4

\* So is no window.
LEMMA WindowsKept ==
  ASSUME TypeOK, TypeOK', RuleInv, RowInv, NotifyInv, Regular, LossInv, [Next]_vars, NEW c \in Counter
  PROVE  window'[c].init_time <= now'
<1>1. now \in Nat /\ now' \in Nat /\ now <= now'
  BY RowsNext
<1>2. window[c] \in Windows /\ window[c].init_time \in Nat /\ window[c].init_time <= now
  BY DEF TypeOK, Windows, LossInv
<1>3. ASSUME window' = window PROVE window'[c].init_time <= now'
  BY <1>1, <1>2, <1>3
<1>4. CASE SelectTracking
  <2>1. now' = now
    BY <1>4 DEF SelectTracking
  <2>2. \/ window' = window
        \/ window' = [d \in Counter |->
                        IF \E t \in Supplied : d = CounterOf(t)
                          THEN Count(window[d], (CHOOSE t \in Supplied : d = CounterOf(t)).period)
                          ELSE window[d]]
    BY <1>4, Zenon DEF SelectTracking, RejectQuota
  <2>3. ASSUME NEW p PROVE Count(window[c], p).init_time <= now
    <3>1. PICK w \in [init_time: Nat, msgs: Nat, quota: Nat] : w = window[c]
      BY <1>2 DEF Windows
    <3>2. Count(w, p).init_time \in {now, w.init_time}
      BY <3>1, Charged, Zenon DEF Count
    <3> QED
      BY <1>1, <1>2, <3>1, <3>2
  <2> QED
    BY <1>1, <1>2, <1>3, <2>1, <2>2, <2>3
<1>5. CASE ~SelectTracking
  <2>1. window' = window
    BY <1>5, Zenon DEF Next, Daemon, Serve, Receive, SelectSettings, Notify, Insert, Update, EndPass,
                       StartCleanup, Cleanup, CleanupSelect, CleanupDelete, Tick, vars, historyVars
  <2> QED
    BY <1>3, <2>1
<1> QED
  BY <1>4, <1>5

\* What was read remains good for the statements still to be made, when the rows are those
\* that were read, or fewer.
LEMMA WriteFewer ==
  ASSUME WriteSafe, UNCHANGED <<req, pass, rule, copy>>, todo' \subseteq todo, tracking' \subseteq tracking
  PROVE  WriteSafe'
<1>1. \A s : CounterOf(s)' = CounterOf(s)
  BY DEF CounterOf, TrackKey, TheUser
<1>2. \A c : RowOf(c)' \subseteq RowOf(c)
  BY DEF RowOf
<1>3. Updates(copy)' = Updates(copy) /\ Inserts(copy)' = Inserts(copy)
  BY DEF Updates, Inserts, TrackKey, TheUser
<1>4. UpdateStatements(copy)' = UpdateStatements(copy)
  BY <1>3 DEF UpdateStatements
<1>5. PendingInserts' \subseteq PendingInserts /\ PendingUpdates' \subseteq PendingUpdates
  BY <1>3 DEF PendingInserts, PendingUpdates
<1>6. todo' \subseteq UpdateStatements(copy)' \cup {"insert"}
  BY <1>4 DEF WriteSafe
<1>7. (\A r, q \in TrackedRules : rule[r] = rule[q] => copy[r] = copy[q])'
  BY DEF WriteSafe
<1>8. (\A s \in PendingInserts : RowOf(CounterOf(s)) = {})'
  <2>1. ASSUME NEW s \in PendingInserts' PROVE RowOf(CounterOf(s))' = {}
    <3>1. RowOf(CounterOf(s)) = {}
      BY <1>5 DEF WriteSafe
    <3>2. RowOf(CounterOf(s))' \subseteq RowOf(CounterOf(s))
      BY DEF RowOf, CounterOf, TrackKey, TheUser
    <3> QED
      BY <3>1, <3>2
  <2> QED
    BY <2>1
<1>9. ASSUME NEW r \in PendingUpdates'
      PROVE  /\ \A w \in tracking' : w.id = copy[r].id => w = copy[r]
             /\ RowOf(CounterOf(rule[r]))' \subseteq {copy[r]}
  <2>1. /\ \A w \in tracking : w.id = copy[r].id => w = copy[r]
        /\ RowOf(CounterOf(rule[r])) \subseteq {copy[r]}
    BY <1>5 DEF WriteSafe
  <2>2. RowOf(CounterOf(rule[r]))' \subseteq RowOf(CounterOf(rule[r]))
    BY DEF RowOf, CounterOf, TrackKey, TheUser
  <2> QED
    BY <2>1, <2>2
<1>10. (\A r \in PendingUpdates :
          /\ \A w \in tracking : w.id = copy[r].id => w = copy[r]
          /\ RowOf(CounterOf(rule[r])) \subseteq {copy[r]})'
  BY <1>9
<1> QED
  BY <1>6, <1>7, <1>8, <1>10 DEF WriteSafe

\* A message that is accepted is written from the rows that are there.
LEMMA AcceptSafe ==
  ASSUME TypeOK, RuleInv, RowInv, Regular, LossInv, SelectTracking, pc' = "write"
  PROVE  WriteSafe'
<1>1. PICK f \in Copies({w \in tracking : Tracked(w)}) :
           /\ copy' = f
           /\ todo' = UpdateStatements(f) \cup (IF Inserts(f) = {} THEN {} ELSE {"insert"})
           /\ UNCHANGED <<clock, tracking, serial, req, pass, now, rule, cleanups>> /\ UNCHANGED cleanerVars
           /\ \A r \in TrackedRules :
                IF rule[r] = NoSetting THEN f[r] = NoRow
                ELSE IF RowOf(CounterOf(rule[r])) = {} THEN f[r] = NoRow
                ELSE f[r] \in RowOf(CounterOf(rule[r]))
  BY AcceptReads DEF Regular
<1>2. \A s : CounterOf(s)' = CounterOf(s)
  BY <1>1 DEF CounterOf, TrackKey, TheUser
<1>3. \A c : RowOf(c)' = RowOf(c)
  BY <1>1 DEF RowOf
<1>4. Updates(copy)' = Updates(f)
  BY <1>1 DEF Updates, TrackKey, TheUser
<1>5. Inserts(copy)' = Inserts(f) /\ UpdateStatements(copy)' = UpdateStatements(f)
  BY <1>1, <1>4 DEF Inserts, UpdateStatements
<1>6. NoRow \notin tracking
  <2>1. serial \in Nat /\ \A w \in tracking : w.id[1] \in 1..serial
    BY DEF RowInv, TypeOK
  <2> QED
    BY <2>1 DEF NoRow
<1>7. \A r \in TrackedRules : f[r] # NoRow =>
        /\ rule[r] # NoSetting /\ f[r] \in tracking /\ RowOf(CounterOf(rule[r])) = {f[r]}
        /\ f[r].account = TrackKey(rule[r])
  <2>1. SUFFICES ASSUME NEW r \in TrackedRules, f[r] # NoRow
                 PROVE  /\ rule[r] # NoSetting /\ f[r] \in tracking /\ RowOf(CounterOf(rule[r])) = {f[r]}
                        /\ f[r].account = TrackKey(rule[r])
    OBVIOUS
  <2>2. rule[r] # NoSetting /\ f[r] \in RowOf(CounterOf(rule[r]))
    BY <1>1, <2>1
  <2>3. f[r] \in tracking /\ f[r].tid = rule[r].id /\ f[r].account = TrackKey(rule[r])
    BY <2>2 DEF RowOf, CounterOf
  <2>4. \A w \in RowOf(CounterOf(rule[r])) : w = f[r]
    BY <2>3 DEF RowOf, CounterOf, LossInv
  <2> QED
    BY <2>2, <2>3, <2>4
<1>8. \A r \in TrackedRules : f[r] = NoRow /\ rule[r] # NoSetting => RowOf(CounterOf(rule[r])) = {}
  <2>1. SUFFICES ASSUME NEW r \in TrackedRules, f[r] = NoRow, rule[r] # NoSetting
                 PROVE  RowOf(CounterOf(rule[r])) = {}
    OBVIOUS
  <2>2. RowOf(CounterOf(rule[r])) \subseteq tracking
    BY DEF RowOf
  <2> QED
    BY <1>1, <1>6, <2>1, <2>2
<1>9. todo' \subseteq UpdateStatements(copy)' \cup {"insert"}
  BY <1>1, <1>5
<1>10. (\A r, q \in TrackedRules : rule[r] = rule[q] => copy[r] = copy[q])'
  <2>1. rule["max_msgs"] = rule["max_quota"] => f["max_msgs"] = f["max_quota"]
    BY Zenon DEF Copies
  <2> QED
    BY <1>1, <2>1 DEF TrackedRules
<1>11. (\A s \in PendingInserts : RowOf(CounterOf(s)) = {})'
  <2>1. ASSUME NEW s \in Inserts(f) PROVE RowOf(CounterOf(s)) = {}
    <3>1. PICK q \in TrackedRules : s = rule[q] /\ rule[q] # NoSetting /\ q \notin Updates(f)
      BY DEF Inserts
    <3>2. f[q] = NoRow
      BY <1>7, <3>1 DEF Updates
    <3> QED
      BY <1>8, <3>1, <3>2
  <2>2. PendingInserts' \subseteq Inserts(f)
    BY <1>5 DEF PendingInserts
  <2>3. ASSUME NEW s \in PendingInserts' PROVE RowOf(CounterOf(s))' = {}
    <3>1. RowOf(CounterOf(s)) = {}
      BY <2>1, <2>2
    <3> QED
      BY <1>1, <3>1 DEF RowOf, CounterOf, TrackKey, TheUser
  <2> QED
    BY <2>3
<1>12. ASSUME NEW r \in PendingUpdates'
       PROVE  /\ \A w \in tracking' : w.id = copy'[r].id => w = copy'[r]
              /\ RowOf(CounterOf(rule[r]))' \subseteq {copy'[r]}
  <2>1. r \in TrackedRules /\ r \in UpdateStatements(f)
    BY <1>1 DEF PendingUpdates, TrackedRules
  <2>2. f[r] # NoRow
    BY <2>1 DEF UpdateStatements, Updates
  <2>3. f[r] \in tracking /\ RowOf(CounterOf(rule[r])) = {f[r]}
    BY <1>7, <2>1, <2>2
  <2>4. \A w \in tracking : w.id = f[r].id => w = f[r]
    BY <2>3 DEF RowInv
  <2>5. RowOf(CounterOf(rule[r]))' = RowOf(CounterOf(rule[r]))
    BY <1>1 DEF RowOf, CounterOf, TrackKey, TheUser
  <2> QED
    BY <1>1, <2>3, <2>4, <2>5
<1>13. (\A r \in PendingUpdates :
          /\ \A w \in tracking : w.id = copy[r].id => w = copy[r]
          /\ RowOf(CounterOf(rule[r])) \subseteq {copy[r]})'
  BY <1>12
<1> QED
  BY <1>9, <1>10, <1>11, <1>13 DEF WriteSafe

\* The INSERT adds no row to a counter that is to be updated.
LEMMA InsertSafe ==
  ASSUME TypeOK, Regular, LossInv, NotifyInv, Insert
  PROVE  WriteSafe'
<1>1. /\ UNCHANGED <<pc, req, pass, now, rule, copy>> /\ pc = "write" /\ todo' = todo \ {"insert"} /\ WriteSafe
  BY DEF Insert, LossInv
<1>2. /\ tracking' = tracking \cup {Fresh(s) : s \in Inserts(copy)}
      /\ Inserts(copy) \subseteq Settings
      /\ \A s : \A r \in TrackedRules : Fresh(s).id # copy[r].id
  BY InsertAdds
<1>3. Updates(copy)' = Updates(copy)
  BY <1>1 DEF Updates, TrackKey, TheUser
<1>4. UpdateStatements(copy)' = UpdateStatements(copy)
  BY <1>1, <1>3 DEF UpdateStatements
<1>5. todo' \subseteq UpdateStatements(copy)' \cup {"insert"}
  BY <1>1, <1>4 DEF WriteSafe
<1>6. (\A r, q \in TrackedRules : rule[r] = rule[q] => copy[r] = copy[q])'
  BY <1>1 DEF WriteSafe
<1>7. PendingInserts' = {}
  BY <1>1 DEF PendingInserts
<1>8. (\A s \in PendingInserts : RowOf(CounterOf(s)) = {})'
  BY <1>7
<1>9. ASSUME NEW r \in PendingUpdates'
      PROVE  /\ \A w \in tracking' : w.id = copy'[r].id => w = copy'[r]
             /\ RowOf(CounterOf(rule[r]))' \subseteq {copy'[r]}
  <2>1. r \in PendingUpdates /\ r \in TrackedRules /\ r \in todo
    BY <1>1 DEF PendingUpdates
  <2>2. /\ \A w \in tracking : w.id = copy[r].id => w = copy[r]
        /\ RowOf(CounterOf(rule[r])) \subseteq {copy[r]}
    BY <1>1, <2>1 DEF WriteSafe
  <2>3. \A w \in tracking' : w.id = copy[r].id => w \in tracking
    BY <1>2, <2>1
  <2>4. r \in Updates(copy)
    BY <1>1, <2>1 DEF WriteSafe, UpdateStatements, TrackedRules
  <2>5. ASSUME NEW s \in Inserts(copy), s.id = rule[r].id PROVE FALSE
    <3>1. PICK q \in TrackedRules : s = rule[q] /\ rule[q] # NoSetting /\ q \notin Updates(copy)
      BY DEF Inserts
    <3>2. rule[r] # NoSetting /\ copy[r] # NoRow /\ copy[r].account = TrackKey(rule[r])
      BY <2>4 DEF Updates
    <3>3. s = rule[r]
      BY <1>2, <2>1, <2>5, <3>2, Parts, ConstantsAssumption
    <3>4. copy[q] = copy[r]
      BY <1>1, <2>1, <3>1, <3>3 DEF WriteSafe
    <3> QED
      BY <3>1, <3>2, <3>3, <3>4 DEF Updates
  <2>6. ASSUME NEW v \in RowOf(CounterOf(rule[r]))' PROVE v = copy[r]
    <3>1. v \in tracking' /\ v.tid = rule[r].id /\ v.account = TrackKey(rule[r])
      BY <1>1 DEF RowOf, CounterOf, TrackKey, TheUser
    <3>2. \A s : Fresh(s).tid = s.id
      BY DEF Fresh
    <3>3. v \in tracking
      BY <1>2, <2>5, <3>1, <3>2
    <3>4. v \in RowOf(CounterOf(rule[r]))
      BY <3>1, <3>3 DEF RowOf, CounterOf
    <3> QED
      BY <2>2, <3>4
  <2> QED
    BY <1>1, <2>2, <2>3, <2>6
<1>10. (\A r \in PendingUpdates :
          /\ \A w \in tracking : w.id = copy[r].id => w = copy[r]
          /\ RowOf(CounterOf(rule[r])) \subseteq {copy[r]})'
  BY <1>9
<1> QED
  BY <1>5, <1>6, <1>8, <1>10 DEF WriteSafe

\* Each UPDATE changes only the row of its own setting.
LEMMA UpdateSafe ==
  ASSUME TypeOK, RuleInv, Regular, LossInv, NotifyInv, NEW r \in TrackedRules, Update(r)
  PROVE  WriteSafe'
<1>1. /\ UNCHANGED <<pc, req, pass, now, rule, copy>> /\ pc = "write" /\ "insert" \notin todo
      /\ todo' = todo \ {r} /\ WriteSafe
  BY DEF Update, LossInv
<1>2. /\ r \in UpdateStatements(copy) /\ rule[r] \in Settings
      /\ \A q \in UpdateStatements(copy) : q # r => rule[q] # rule[r]
      /\ \A w \in tracking : w.id = copy[r].id => w.tid = rule[r].id
      /\ tracking' = {IF w.id = copy[r].id THEN Updated(r, w) ELSE w : w \in tracking}
      /\ \A w \in tracking : w.id = copy[r].id =>
           LET v == Updated(r, w)
           IN  v.id = w.id /\ v.tid = w.tid /\ v.account = w.account
  BY UpdateChanges
<1>3. Updates(copy)' = Updates(copy)
  BY <1>1 DEF Updates, TrackKey, TheUser
<1>4. UpdateStatements(copy)' = UpdateStatements(copy)
  BY <1>1, <1>3 DEF UpdateStatements
<1>5. todo' \subseteq UpdateStatements(copy)' \cup {"insert"}
  BY <1>1, <1>4 DEF WriteSafe
<1>6. (\A p, q \in TrackedRules : rule[p] = rule[q] => copy[p] = copy[q])'
  BY <1>1 DEF WriteSafe
<1>7. PendingInserts' = {}
  BY <1>1 DEF PendingInserts
<1>8. (\A s \in PendingInserts : RowOf(CounterOf(s)) = {})'
  BY <1>7
<1>9. ASSUME NEW q \in PendingUpdates'
      PROVE  /\ \A w \in tracking' : w.id = copy'[q].id => w = copy'[q]
             /\ RowOf(CounterOf(rule[q]))' \subseteq {copy'[q]}
  <2>1. q \in PendingUpdates /\ q \in TrackedRules /\ q \in todo /\ q # r
    BY <1>1 DEF PendingUpdates
  <2>2. /\ \A w \in tracking : w.id = copy[q].id => w = copy[q]
        /\ RowOf(CounterOf(rule[q])) \subseteq {copy[q]}
    BY <1>1, <2>1 DEF WriteSafe
  <2>3. q \in UpdateStatements(copy)
    BY <1>1, <2>1 DEF WriteSafe, TrackedRules
  <2>4. rule[q] \in Settings
    BY <2>1, <2>3, Parts DEF UpdateStatements, Updates
  <2>5. rule[q].id # rule[r].id
    BY <1>2, <2>1, <2>3, <2>4, ConstantsAssumption
  <2>6. ASSUME NEW v \in tracking', v.id = copy[q].id \/ v.tid = rule[q].id PROVE v \in tracking
    <3>1. PICK w \in tracking : v = IF w.id = copy[r].id THEN Updated(r, w) ELSE w
      BY <1>2
    <3>2. SUFFICES ASSUME w.id = copy[r].id PROVE FALSE
      BY <3>1
    <3>3. v.id = w.id /\ v.tid = w.tid /\ w.tid = rule[r].id
      BY <1>2, <3>1, <3>2
    <3>4. \A x \in tracking : x.id = copy[q].id => x.tid = rule[q].id
      BY <1>1, <2>1 DEF NotifyInv
    <3> QED
      BY <2>5, <2>6, <3>3, <3>4
  <2>7. ASSUME NEW v \in RowOf(CounterOf(rule[q]))' PROVE v = copy[q]
    <3>1. v \in tracking' /\ v.tid = rule[q].id /\ v.account = TrackKey(rule[q])
      BY <1>1 DEF RowOf, CounterOf, TrackKey, TheUser
    <3>2. v \in RowOf(CounterOf(rule[q]))
      BY <2>6, <3>1 DEF RowOf, CounterOf
    <3> QED
      BY <2>2, <3>2
  <2> QED
    BY <1>1, <2>2, <2>6, <2>7
<1>10. (\A q \in PendingUpdates :
          /\ \A w \in tracking : w.id = copy[q].id => w = copy[q]
          /\ RowOf(CounterOf(rule[q])) \subseteq {copy[q]})'
  BY <1>9
<1> QED
  BY <1>5, <1>6, <1>8, <1>10 DEF WriteSafe

\* Steps that write nothing, or only when the administrator was told, change no counter.
LEMMA CalmStep ==
  ASSUME TypeOK, TypeOK', [Next]_vars,
         Receive \/ SelectSettings \/ (SelectTracking /\ pc' # "write") \/ Notify \/ EndPass,
         NEW s \in Settings, NEW key \in Account, Governs(s, key), Governed(s, <<s.id, key>>)
  PROVE  Governed(s, <<s.id, key>>)'
<1>1. UNCHANGED cleanerVars /\ window' = window
  <2>1. CASE Receive
    BY <2>1 DEF Receive
  <2>2. CASE SelectSettings
    BY <2>2 DEF SelectSettings, historyVars
  <2>3. CASE SelectTracking /\ pc' # "write"
    <3>1. UNCHANGED cleanerVars
      BY <2>3 DEF SelectTracking
    <3>2. window' = window
      BY <2>3, Zenon DEF SelectTracking, RejectQuota
    <3> QED
      BY <3>1, <3>2
  <2>4. CASE Notify
    BY <2>4 DEF Notify, historyVars
  <2>5. CASE EndPass
    BY <2>5 DEF EndPass, historyVars
  <2> QED
    BY <2>1, <2>2, <2>3, <2>4, <2>5
<1>2. Settled /\ Settled'
  <2>1. CASE Receive
    BY <2>1 DEF Receive, Settled
  <2>2. CASE SelectSettings
    <3>1. pc' # "write" /\ pc = "settings"
      BY <2>2, Zenon DEF SelectSettings, PassOver, Answer
    <3> QED
      BY <3>1 DEF Settled
  <2>3. CASE SelectTracking /\ pc' # "write"
    BY <2>3 DEF SelectTracking, Settled
  <2>4. CASE Notify
    BY <2>4 DEF Notify, Answer, Settled
  <2>5. CASE EndPass
    BY <2>5 DEF EndPass, PassOver, Settled
  <2> QED
    BY <2>1, <2>2, <2>3, <2>4, <2>5
<1>3. CASE ~Notify
  <2>1. tracking' = tracking
    BY <1>3 DEF Receive, SelectSettings, SelectTracking, EndPass
  <2> QED
    BY <1>1, <1>2, <2>1, QuietStep
<1>4. CASE Notify
  <2>1. tracking' = {IF row.id \in {copy[r].id : r \in todo}
                       THEN [row EXCEPT !.last_notify_time = clock] ELSE row : row \in tracking}
    BY <1>4 DEF Notify
  <2>2. ASSUME NEW w \in tracking
        PROVE  LET v == [w EXCEPT !.last_notify_time = clock]
               IN  /\ v.id = w.id /\ v.tid = w.tid /\ v.account = w.account /\ v.period = w.period
                   /\ Totals(v) = Totals(w)
    BY DEF TypeOK, Row, Totals
  <2>3. \A v \in tracking' : \E w \in tracking :
          v.id = w.id /\ v.tid = w.tid /\ v.account = w.account /\ v.period = w.period /\ Totals(v) = Totals(w)
    BY <2>1, <2>2
  <2>4. \A w \in tracking : \E v \in tracking' : v.tid = w.tid /\ v.account = w.account
    BY <2>1, <2>2
  <2> QED
    BY <1>1, <1>2, <2>3, <2>4, QuietStep
<1> QED
  BY <1>3, <1>4

\* Every step leaves the counters with room for what a run may cost them
\* (throttle.py:511-711, cleanup_db.py:28-31).
LEMMA LossNext ==
  ASSUME TypeOK, TypeOK', RuleInv, RowInv, RowInv', NotifyInv, Regular, LossInv, [Next]_vars
  PROVE  LossInv'
<1>1. /\ \A i \in remove_values' : i[1] <= serial'
      /\ cleaner' # "stopped" => cleanups' > 0
  BY JobStep
<1>2. /\ \A v, w \in tracking' : v.tid = w.tid /\ v.account = w.account => v = w
      /\ \A w \in tracking' : 0 < w.init_time /\ w.init_time <= now'
  BY TableKept
<1>3. \A c \in Counter : window'[c].init_time <= now'
  BY WindowsKept
<1>4. ASSUME pc' = "write" PROVE WriteSafe'
  <2>1. CASE SelectTracking
    BY <1>4, <2>1, AcceptSafe
  <2>2. CASE Insert
    BY <2>2, InsertSafe
  <2>3. CASE \E r \in TrackedRules : Update(r)
    BY <2>3, UpdateSafe
  <2>4. CASE StartCleanup \/ Cleanup \/ Tick \/ UNCHANGED vars
    <3>1. UNCHANGED daemonVars /\ tracking' \subseteq tracking
      BY <2>4, Zenon DEF StartCleanup, Cleanup, CleanupSelect, CleanupDelete, Tick, vars
    <3>2. UNCHANGED <<pc, req, pass, rule, copy, todo>>
      BY <3>1 DEF daemonVars
    <3>3. WriteSafe
      BY <1>4, <3>2 DEF LossInv
    <3> QED
      BY <3>1, <3>2, <3>3, WriteFewer
  <2>5. CASE Receive \/ SelectSettings \/ Notify \/ EndPass
    <3>1. pc' # "write"
      BY <2>5, Zenon DEF Receive, SelectSettings, Notify, EndPass, PassOver, Answer
    <3> QED
      BY <1>4, <3>1
  <2> QED
    BY <2>1, <2>2, <2>3, <2>4, <2>5, Zenon DEF Next, Daemon, Serve
<1>5. ASSUME NEW s \in Settings, NEW key \in Account, Governs(s, key) PROVE Governed(s, <<s.id, key>>)'
  <2>1. Governed(s, <<s.id, key>>)
    BY <1>5 DEF LossInv
  <2>2. CASE Receive \/ SelectSettings \/ (SelectTracking /\ pc' # "write") \/ Notify \/ EndPass
    BY <1>5, <2>1, <2>2, CalmStep
  <2>3. CASE SelectTracking /\ pc' = "write"
    BY <1>5, <2>1, <2>3, AcceptGoverned
  <2>4. CASE Insert
    BY <1>5, <2>1, <2>4, InsertGoverned
  <2>5. CASE \E r \in TrackedRules : Update(r)
    BY <1>5, <2>1, <2>5, UpdateGoverned
  <2>6. CASE StartCleanup
    BY <1>5, <2>1, <2>6, StartStep
  <2>7. CASE CleanupDelete
    BY <1>5, <2>1, <2>7, DeleteStep
  <2>8. CASE CleanupSelect \/ Tick \/ UNCHANGED vars
    BY <1>5, <2>1, <2>8, ElsewhereStep
  <2> QED
    BY <2>2, <2>3, <2>4, <2>5, <2>6, <2>7, <2>8, Zenon DEF Next, Daemon, Serve, Cleanup
<1>6. (\A i \in remove_values : i[1] <= serial)' /\ (cleaner # "stopped" => cleanups > 0)'
  BY <1>1
<1>7. /\ (\A v, w \in tracking : v.tid = w.tid /\ v.account = w.account => v = w)'
      /\ (\A w \in tracking : 0 < w.init_time /\ w.init_time <= now)'
  BY <1>2
<1>8. (\A c \in Counter : window[c].init_time <= now)'
  BY <1>3 DEF Counter
<1>9. (pc = "write" => WriteSafe)'
  BY <1>4
<1>10. (\A s \in Settings, key \in Account : Governs(s, key) => Governed(s, <<s.id, key>>))'
  BY <1>5 DEF Governs, CountsUnjudged
<1> QED
  BY <1>6, <1>7, <1>8, <1>9, <1>10 DEF LossInv

\* At the start nothing is counted.
LEMMA LossInit == Init => LossInv
<1> SUFFICES ASSUME Init PROVE LossInv
  OBVIOUS
<1>1. /\ tracking = {} /\ pc = "idle" /\ cleaner = "stopped" /\ remove_values = {} /\ cleanups = 0 /\ now = 0
      /\ window = [c \in Counter |-> NoWindow] /\ clock = 1
  BY DEF Init
<1>2. \A c \in Counter : window[c].init_time = 0 /\ window[c].msgs = 0
  BY <1>1 DEF NoWindow
<1>3. ASSUME NEW s \in Settings, NEW key \in Account PROVE Governed(s, <<s.id, key>>)
  <2>1. RowOf(<<s.id, key>>) = {} /\ ~Inserting(<<s.id, key>>)
    BY <1>1 DEF RowOf, Inserting
  <2>2. <<s.id, key>> \in Counter
    BY DEF Counter
  <2>3. NoRoom(window[<<s.id, key>>], s.limit["max_msgs"], s.period, Instant, cleanups)
    BY <1>2, <2>2 DEF NoRoom, Open
  <2> QED
    BY <2>1, <2>3 DEF Governed
<1>4. \A c \in Counter : window[c].init_time <= now
  BY <1>1, <1>2
<1> QED
  BY <1>1, <1>3, <1>4 DEF LossInv

\* What is let through when a message is accepted.
LEMMA LossStep ==
  ASSUME TypeOK, TypeOK', RuleInv, RowInv, NotifyInv, Regular, JudgedOrNot, LossInv, [Next]_vars,
         Accepted, Limit("max_msgs") > 0
  PROVE  window'[CounterOf(rule["max_msgs"])].msgs <= Limit("max_msgs") * (cleanups + 1)
<1>1. pc = "tracking" /\ pc' = "write"
  BY DEF Accepted
<1>2. SelectTracking
  BY <1>1, Zenon DEF Next, Daemon, Serve, Receive, SelectSettings, Notify, Insert, Update, EndPass,
                     StartCleanup, Cleanup, CleanupSelect, CleanupDelete, Tick, vars, daemonVars
<1>3. PICK s : s = rule["max_msgs"] /\ s \in Settings /\ s.limit["max_msgs"] > 0
  <2>1. rule["max_msgs"].limit["max_msgs"] > 0
    BY DEF Limit
  <2>2. rule["max_msgs"] # NoSetting
    BY <2>1 DEF NoSetting, Rules
  <2> QED
    BY <2>1, <2>2, Parts DEF TrackedRules
<1>4. TrackKey(s) \in Account /\ CounterOf(s) = <<s.id, TrackKey(s)>> /\ CounterOf(s) \in Counter
  BY <1>3, Parts DEF CounterOf, Counter
<1>5. Governs(s, TrackKey(s))
  <2>1. Judges(s, TrackKey(s))
    BY <1>1, <1>3, RuleJudges
  <2> QED
    BY <1>3, <1>4, <2>1 DEF JudgedOrNot, Governs
<1>6. Governed(s, CounterOf(s))
  BY <1>3, <1>4, <1>5 DEF LossInv
<1> DEFINE c == CounterOf(s)
<1>7. \E v \in Windows, risk \in BOOLEAN :
        /\ Open(window'[c], s.period, now)
        /\ Room(window'[c], v, risk, s.limit["max_msgs"], s.period, now, cleanups)
  <2>1. /\ Open(window'[c], s.period, now)
        /\ \/ Room(window'[c], Opened, FALSE, s.limit["max_msgs"], s.period, now, cleanups)
           \/ \E row \in RowOf(c) :
                /\ Due(row)' \in Windows
                /\ Room(window'[c], Due(row)', AtRisk(row), s.limit["max_msgs"], s.period, now, cleanups)
    BY <1>1, <1>2, <1>3, <1>5, <1>6, AcceptRoom, Zenon
  <2>2. Opened \in Windows
    BY OpenedType
  <2>3. \A row : AtRisk(row) \in BOOLEAN
    BY DEF AtRisk
  <2> QED
    BY <2>1, <2>2, <2>3
<1>8. PICK w \in Windows, max \in Nat, p \in Nat, t \in Nat, k \in Nat :
        w = window'[c] /\ max = s.limit["max_msgs"] /\ p = s.period /\ t = now /\ k = cleanups
  <2>1. s.limit["max_msgs"] \in Nat /\ s.period \in Nat /\ cleanups \in Nat
    BY <1>3, <1>4, <1>5, GovernsType
  <2>2. window'[c] \in Windows /\ now \in Nat
    BY <1>4, ConstantsAssumption DEF TypeOK, Windows
  <2> QED
    BY <2>1, <2>2
<1>9. PICK v \in Windows, risk \in BOOLEAN : Open(w, p, t) /\ Room(w, v, risk, max, p, t, k)
  BY <1>7, <1>8
<1>10. w.msgs <= max * (k + 1)
  BY <1>8, <1>9, RoomBounds
<1> QED
  BY <1>3, <1>8, <1>10 DEF Limit

\* When the columns are large enough, no setting is for a wildcard account and every counter
\* that max_msgs judges counts only what it has judged, each run of the cleanup job lets at
\* most one limit of messages more through (throttle.py:511-608, cleanup_db.py:28-31).
THEOREM LossIsBounded == ASSUME Regular, JudgedOrNot PROVE Spec => LossBounded
<1> DEFINE Inv == TypeOK /\ RuleInv /\ RowInv /\ NotifyInv /\ LossInv
<1>1. Init => Inv
  <2>1. Init => NotifyInv
    BY DEF Init, NotifyInv
  <2> QED
    BY <2>1, InitInv, LossInit
<1>2. Inv /\ [Next]_vars => Inv'
  BY TypeStep, RuleStep, RowStep, NotifyNext, LossNext
<1>3. Inv /\ Inv' /\ [Next]_vars =>
        (Accepted /\ Limit("max_msgs") > 0
           => window'[CounterOf(rule["max_msgs"])].msgs <= Limit("max_msgs") * (cleanups + 1))
  BY LossStep
<1> QED
  BY <1>1, <1>2, <1>3, PTL DEF Spec, LossBounded

\* What fix_throttle_priority.py leaves: every setting has the priority of the type of
\* its account.
PrioritiesFixed == \A s \in Settings : s.priority = A!AccountPriority(AddressOf[s.account])

\* For any settings whose priorities fix_throttle_priority.py has set, each limit is
\* that of the most specific account which has one (fix_throttle_priority.py:50-72,
\* throttle.py:275-440).
THEOREM SpecificFirst ==
  ASSUME PrioritiesFixed
  PROVE  Spec => []MostSpecific
<1>1. Init => TableInv
  BY InitInv DEF TableInv
<1>2. TableInv => MostSpecific
  <2>1. SUFFICES ASSUME TableInv, pc \in {"tracking", "notify", "write"},
                        NEW r \in Rules, NEW s \in Matching, s.limit[r] >= 0
                 PROVE  /\ rule[r] # NoSetting
                        /\ A!AccountPriority(AddressOf[s.account])
                             <= A!AccountPriority(AddressOf[rule[r].account])
    BY DEF MostSpecific
  <2>2. PICK order \in Orders(Matching) : rule = [q \in Rules |-> Supplier(Matching, order, q)]
    BY <2>1 DEF TableInv, RuleInv
  <2>3. Matching \in SUBSET Settings
    BY DEF Matching
  <2>4. rule[r] = Supplier(Matching, order, r)
    BY <2>2
  <2>5. rule[r] \in Matching /\ s.priority <= rule[r].priority
    BY <2>1, <2>3, <2>4, SupplierFirst
  <2>6. rule[r] \in Settings /\ s \in Settings /\ NoSetting \notin Settings
    BY <2>1, <2>3, <2>5, Parts DEF TableInv
  <2> QED
    BY <2>5, <2>6 DEF PrioritiesFixed
<1> QED
  BY TableStep, <1>1, <1>2, PTL DEF Spec

=============================================================================
