------------------------------ MODULE Throttle ------------------------------
(***************************************************************************)
(* Plugin `throttle` (plugins/throttle.py): fixed-window rate limits kept  *)
(* in the SQL table throttle_tracking, and the cron job                    *)
(* tools/cleanup_db.py which prunes that table while the daemon runs.      *)
(*                                                                         *)
(* The daemon is a single thread (asyncore) and serves one request at a    *)
(* time, but every SQL statement is a transaction of its own               *)
(* (libs/utils.py, execute_sql), so the cleanup job and the clock move     *)
(* between any two statements of a request: one action per statement.      *)
(***************************************************************************)
EXTENDS Integers, FiniteSets

CONSTANTS
  User,             \* full e-mail addresses ('' for the null sender included)
  Client,           \* client IP addresses
  Account,          \* accounts a setting or a tracking row may name
  DomainOf,         \* domain part of a user
  PolicyAddrs,      \* accounts that cover a user or a client address
  AddrType,         \* utils.is_valid_amavisd_address, per account
  Localhost,        \* 127.0.0.1 and ::1
  TrustedClient,    \* utils.is_trusted_client
  Bypass,           \* which THROTTLE_BYPASS_* parameters are on
  Settings,         \* rows of table throttle
  Requests,         \* END-OF-MESSAGE requests Postfix may send
  UniqueTidAccount, \* UNIQUE INDEX (tid, account): MySQL has it, PostgreSQL not
  MsgsColumn,       \* values column cur_msgs can store
  QuotaColumn,      \* values column cur_quota can store
  BatchLimit,       \* CLEANUP_QUERY_SIZE_LIMIT
  MaxClock,         \* bound on time
  MaxRequests,      \* bound on the number of requests
  MaxCleanups       \* bound on the number of runs of the cleanup job

Rules        == {"msg_size", "max_rcpts", "max_msgs", "max_quota"}
TrackedRules == {"max_msgs", "max_quota"}
Kinds        == {"outbound", "external", "inbound"}

SettingType == [id: Nat, account: Account, kind: Kinds, priority: Nat,
                period: Nat, limit: [Rules -> Int]]
RequestType == [sender: User, recipient: User, client: Client,
                sasl: BOOLEAN, size: Nat, rcpts: Nat \ {0}]

ASSUME ConstantsAssumption ==
  /\ User \cup Client \subseteq Account /\ User \cap Client = {}
  /\ PolicyAddrs \in [User \cup Client -> SUBSET Account]
  /\ Settings \subseteq SettingType
  /\ IsFiniteSet(Settings)
  /\ \A s, t \in Settings : s.id = t.id => s = t      \* primary key
  /\ Requests \subseteq RequestType
  /\ UniqueTidAccount \in BOOLEAN
  /\ BatchLimit \in Nat \ {0}
  /\ MaxClock \in Nat /\ MaxRequests \in Nat /\ MaxCleanups \in Nat

\* A rule no setting supplies.
NoSetting == [id |-> 0, account |-> "none", kind |-> "none", priority |-> 0,
              period |-> 0, limit |-> [r \in Rules |-> -1]]

\* A row id is fresh: the number of the INSERT statement and the tid.
RowId    == Nat \X Nat
Row      == [id: RowId, tid: Nat, account: Account, period: Nat,
             cur_msgs: Nat, cur_quota: Nat, init_time: Nat,
             last_notify_time: Nat]
NoRow    == [id |-> <<0, 0>>, tid |-> 0, account |-> "none", period |-> 0,
             cur_msgs |-> 0, cur_quota |-> 0, init_time |-> 0,
             last_notify_time |-> 0]

Counter  == {s.id : s \in Settings} \X Account
NoWindow == [init_time |-> 0, msgs |-> 0, quota |-> 0]

VARIABLES
  clock,        \* time.time(), in seconds
  tracking,     \* rows of table throttle_tracking
  serial,       \* INSERT statements so far, source of fresh row ids
  (* locals of restriction() and apply_throttle() *)
  pc, req, pass, now, rule, copy, todo,
  answer,       \* action returned for the last request
  (* locals of cleanup_db.py *)
  cleaner, cleanup_now, remove_values,
  (* history *)
  served,       \* requests taken so far
  cleanups,     \* runs of the cleanup job so far
  window        \* what each counter would hold were no write ever lost

daemonVars  == <<pc, req, pass, now, rule, copy, todo, answer>>
cleanerVars == <<cleaner, cleanup_now, remove_values, cleanups>>
historyVars == <<served, window>>
vars == <<clock, tracking, serial, daemonVars, cleanerVars, historyVars>>

-----------------------------------------------------------------------------
(* Selecting the settings that apply *)

TheUser == IF pass = "sender" THEN req.sender ELSE req.recipient

\* No SMTP AUTH and not from localhost: an external sender.
Kind ==
  IF pass = "recipient" THEN "inbound"
  ELSE IF req.sasl \/ req.client \in Localhost THEN "outbound" ELSE "external"

\* SELECT ... FROM throttle WHERE kind=... AND account IN possible_addrs;
\* records without a period are skipped.
Matching ==
  {s \in Settings : /\ s.kind = Kind
                    /\ s.account \in PolicyAddrs[TheUser] \cup PolicyAddrs[req.client]
                    /\ s.period # 0}

\* ORDER BY priority DESC; the order of equal priorities is the server's.
Orders(recs) ==
  {f \in [recs -> 1..Cardinality(recs)] :
     \A s, t \in recs : s # t => /\ f[s] # f[t]
                                 /\ s.priority > t.priority => f[s] < f[t]}

\* The first record with a value other than -1 (inherit) supplies rule r.
Supplier(recs, order, r) ==
  LET with == {s \in recs : s.limit[r] >= 0}
      first(s) == \A t \in with : order[s] <= order[t]
  IN  IF \E s \in with : first(s) THEN CHOOSE s \in with : first(s) ELSE NoSetting

TrackKey(s) ==
  IF AddrType[s.account] \in {"ip", "catchall_ip"} THEN req.client
  ELSE IF AddrType[s.account] \in {"wildcard_ip", "wildcard_addr"} THEN s.account
  ELSE TheUser

-----------------------------------------------------------------------------
(* Judging a message against the tracking rows *)

\* The WHERE clause: every matching tid with the client address, and the tids
\* that supply a rule with the user.
Tracked(row) ==
  \/ \E s \in Matching : row.tid = s.id /\ row.account = req.client
  \/ \E r \in Rules : rule[r] # NoSetting /\ row.tid = rule[r].id /\ row.account = TheUser

\* The tracking data copied into each rule: that of the last row of its tid.
Copies(rows) ==
  {f \in [TrackedRules -> rows \cup {NoRow}] :
     /\ \A r \in TrackedRules :
          LET own == {w \in rows : rule[r] # NoSetting /\ w.tid = rule[r].id}
          IN  IF own = {} THEN f[r] = NoRow ELSE f[r] \in own
     /\ rule["max_msgs"] = rule["max_quota"] => f["max_msgs"] = f["max_quota"]}

Expired(init_time, period) == init_time > 0 /\ now > init_time + period

Current(r, row, count) == IF Expired(row.init_time, rule[r].period) THEN 0 ELSE count

MsgsExceededAtLimit(f) ==        \* seeded fault: >= for >
  LET max == rule["max_msgs"].limit["max_msgs"]
  IN  /\ max > 0
      /\ Current("max_msgs", f["max_msgs"], f["max_msgs"].cur_msgs) + req.rcpts >= max

MsgsExceededUncounted(f) ==      \* seeded fault: the message itself not counted
  LET max == rule["max_msgs"].limit["max_msgs"]
  IN  max > 0 /\ Current("max_msgs", f["max_msgs"], f["max_msgs"].cur_msgs) > max

MsgsExceeded(f) ==
  LET max == rule["max_msgs"].limit["max_msgs"]
  IN  /\ max > 0
      /\ Current("max_msgs", f["max_msgs"], f["max_msgs"].cur_msgs) + req.rcpts > max

QuotaExceeded(f) ==
  LET max == rule["max_quota"].limit["max_quota"]
  IN  /\ max > 0
      /\ Current("max_quota", f["max_quota"], f["max_quota"].cur_quota) > max

NotifyAlways(r, row, last_notify_time) == TRUE      \* seeded fault

\* Notify on the first exceed, or when the last notification is not of the
\* current window.
NotifyDue(r, row, last_notify_time) ==
  LET init == IF Expired(row.init_time, rule[r].period) THEN now ELSE row.init_time
  IN  \/ last_notify_time = 0
      \/ ~(init < last_notify_time /\ last_notify_time <= init + rule[r].period)

\* The rules whose setting has a tracking row to update ...
Updates(f) ==
  {r \in TrackedRules : /\ rule[r] # NoSetting
                        /\ f[r] # NoRow
                        /\ f[r].account = TrackKey(rule[r])}
\* ... one statement for each row ...
UpdateStatements(f) ==
  Updates(f) \ (IF rule["max_msgs"] = rule["max_quota"] THEN {"max_quota"} ELSE {})
\* ... and the settings that have none.
Inserts(f) == {rule[r] : r \in {q \in TrackedRules \ Updates(f) : rule[q] # NoSetting}}

\* The rules a message is counted by, and the counters.
Supplied   == {rule[r] : r \in {q \in TrackedRules : rule[q] # NoSetting}}
CounterOf(s) == <<s.id, TrackKey(s)>>

\* One more message in a fixed window that opens with its first message.
Count(w, period) ==
  IF w.init_time = 0 \/ now > w.init_time + period
    THEN [init_time |-> now, msgs |-> req.rcpts, quota |-> req.size]
    ELSE [w EXCEPT !.msgs = @ + req.rcpts, !.quota = @ + req.size]

-----------------------------------------------------------------------------
(* The daemon *)

\* Leave apply_throttle with SMTP_ACTIONS['default'].
PassOver ==
  IF pass = "sender" /\ ~(req.sasl /\ "local_recipient" \in Bypass)
    THEN /\ pass' = "recipient" /\ pc' = "settings" /\ UNCHANGED answer
    ELSE /\ pc' = "idle" /\ answer' = "DUNNO" /\ UNCHANGED pass

Answer(a) == pc' = "idle" /\ answer' = a /\ UNCHANGED pass

Bypassed(q) ==
  \/ "same_domain" \in Bypass /\ DomainOf[q.sender] = DomainOf[q.recipient]
  \/ "mynetworks" \in Bypass /\ q.client \in TrustedClient

\* restriction() is called for a request.
Receive ==
  /\ pc = "idle"
  /\ served < MaxRequests
  /\ served' = served + 1
  /\ \E q \in Requests :
       /\ req' = q
       /\ pass' = "sender"
       /\ IF Bypassed(q) THEN pc' = "idle" /\ answer' = "DUNNO"
                         ELSE pc' = "settings" /\ answer' = "none"
  /\ UNCHANGED <<clock, tracking, serial, now, rule, copy, todo, cleanerVars, window>>

\* Query the settings, inherit each rule, check the rules that need no tracking.
SelectSettings ==
  /\ pc = "settings"
  /\ IF Matching = {}
       THEN PassOver /\ UNCHANGED <<now, rule>>
       ELSE /\ now' = clock
            /\ \E order \in Orders(Matching) :
                 rule' = [r \in Rules |-> Supplier(Matching, order, r)]
            /\ LET max(r) == rule'[r].limit[r]
               IN  IF \A r \in Rules : rule'[r] = NoSetting THEN PassOver
                   ELSE IF max("msg_size") > 0 /\ req.size > max("msg_size")
                          THEN Answer("reject_msg_size")
                   ELSE IF max("max_rcpts") > 0 /\ req.rcpts > max("max_rcpts")
                          THEN Answer("reject_max_rcpts")
                   ELSE pc' = "tracking" /\ UNCHANGED <<pass, answer>>
  /\ UNCHANGED <<clock, tracking, serial, req, copy, todo, cleanerVars, historyVars>>

\* Leave apply_throttle with 'reject_quota_exceeded', after a notification
\* when one is due.
RejectQuota(notify) ==
  /\ pc' = IF notify THEN "notify" ELSE "idle"
  /\ answer' = IF notify THEN "none" ELSE "reject_quota"
  /\ UNCHANGED window

\* Query the tracking rows, check max_msgs and then max_quota, and work out
\* the statements that record the message.
SelectTracking ==
  /\ pc = "tracking"
  /\ LET rows == {row \in tracking : Tracked(row)}
     IN  \E f \in Copies(rows) :
           /\ copy' = f
           /\ IF MsgsExceeded(f)
                THEN /\ RejectQuota(NotifyDue("max_msgs", f["max_msgs"],
                                              f["max_msgs"].last_notify_time))
                     /\ todo' = {"max_msgs"}
              ELSE IF QuotaExceeded(f)
                THEN \* the code reuses the last_notify_time it read last
                     /\ \E w \in IF rule["max_msgs"] # NoSetting THEN {f["max_msgs"]} ELSE rows :
                          RejectQuota(NotifyDue("max_quota", f["max_quota"], w.last_notify_time))
                     /\ todo' = {"max_quota"}
              ELSE /\ todo' = UpdateStatements(f)
                               \cup (IF Inserts(f) = {} THEN {} ELSE {"insert"})
                   /\ pc' = "write"
                   /\ window' = [c \in Counter |->
                                   IF \E s \in Supplied : c = CounterOf(s)
                                     THEN Count(window[c], (CHOOSE s \in Supplied : c = CounterOf(s)).period)
                                     ELSE window[c]]
                   /\ UNCHANGED answer
  /\ UNCHANGED <<clock, tracking, serial, req, pass, now, rule, cleanerVars, served>>

\* __sendmail: mail the admin, which succeeds or fails in the end, then UPDATE
\* last_notify_time of the row read.
Notify ==
  /\ pc = "notify"
  /\ tracking' = {IF row.id \in {copy[r].id : r \in todo}
                    THEN [row EXCEPT !.last_notify_time = clock] ELSE row : row \in tracking}
  /\ Answer("reject_quota")
  /\ UNCHANGED <<clock, serial, req, now, rule, copy, todo, cleanerVars, historyVars>>

\* One INSERT for all the new rows: it fails as a whole on a duplicate key,
\* and the failure is only logged.
Insert ==
  /\ pc = "write"
  /\ "insert" \in todo
  /\ LET new == {[id |-> <<serial + 1, s.id>>, tid |-> s.id, account |-> TrackKey(s),
                  period |-> s.period, cur_msgs |-> req.rcpts, cur_quota |-> req.size,
                  init_time |-> now, last_notify_time |-> 0] : s \in Inserts(copy)}
         duplicate == \E v \in new, w \in tracking : v.tid = w.tid /\ v.account = w.account
         storable  == req.rcpts \in MsgsColumn /\ req.size \in QuotaColumn
     IN  tracking' = IF storable /\ ~(UniqueTidAccount /\ duplicate)
                       THEN tracking \cup new ELSE tracking
  /\ serial' = serial + 1
  /\ todo' = todo \ {"insert"}
  /\ UNCHANGED <<clock, pc, req, pass, now, rule, copy, answer, cleanerVars, historyVars>>

UpdatedNoReset(r, row) ==        \* seeded fault: a new window keeps the old totals
  [row EXCEPT !.init_time = IF Expired(copy[r].init_time, rule[r].period)
                              THEN now ELSE copy[r].init_time,
              !.cur_msgs = @ + req.rcpts, !.cur_quota = @ + req.size]

\* The row after UPDATE ... WHERE id=...: a new window when it had expired,
\* else the old init_time and relative increments.
Updated(r, row) ==
  IF Expired(copy[r].init_time, rule[r].period)
    THEN [row EXCEPT !.period = rule[r].period, !.init_time = now,
                     !.cur_msgs = req.rcpts, !.cur_quota = req.size]
    ELSE [row EXCEPT !.period = rule[r].period, !.init_time = copy[r].init_time,
                     !.cur_msgs = @ + req.rcpts, !.cur_quota = @ + req.size]

\* A value the column cannot store fails the statement; the failure is only logged.
Update(r) ==
  /\ pc = "write"
  /\ "insert" \notin todo
  /\ r \in todo
  /\ r = "max_quota" => "max_msgs" \notin todo
  /\ LET stored(row) == /\ row.id = copy[r].id
                        /\ Updated(r, row).cur_msgs \in MsgsColumn
                        /\ Updated(r, row).cur_quota \in QuotaColumn
     IN  tracking' = {IF stored(row) THEN Updated(r, row) ELSE row : row \in tracking}
  /\ todo' = todo \ {r}
  /\ UNCHANGED <<clock, serial, pc, req, pass, now, rule, copy, answer, cleanerVars, historyVars>>

EndPass ==
  /\ pc = "write"
  /\ todo = {}
  /\ PassOver
  /\ UNCHANGED <<clock, tracking, serial, req, now, rule, copy, todo, cleanerVars, historyVars>>

\* A request in progress.
Serve ==
  \/ SelectSettings \/ SelectTracking \/ Notify
  \/ Insert \/ (\E r \in TrackedRules : Update(r)) \/ EndPass

Daemon == Receive \/ Serve

-----------------------------------------------------------------------------
(* tools/cleanup_db.py *)

StartCleanup ==
  /\ cleaner = "stopped"
  /\ cleanups < MaxCleanups
  /\ cleaner' = "select"
  /\ cleanup_now' = clock
  /\ cleanups' = cleanups + 1
  /\ UNCHANGED <<clock, tracking, serial, daemonVars, remove_values, historyVars>>

\* (init_time + period) < now
CleanupMatch(row) == row.init_time + row.period < cleanup_now

\* SELECT id ... LIMIT: some of the expired rows, at most BatchLimit.
CleanupSelect ==
  /\ cleaner = "select"
  /\ LET ids == {row.id : row \in {w \in tracking : CleanupMatch(w)}}
     IN  \E picked \in SUBSET ids :
           /\ Cardinality(picked) <= BatchLimit
           /\ Cardinality(picked) < BatchLimit => picked = ids
           /\ remove_values' = picked
           /\ cleaner' = IF picked = {} THEN "stopped" ELSE "delete"
  /\ UNCHANGED <<clock, tracking, serial, daemonVars, cleanup_now, cleanups, historyVars>>

CleanupDeleteNothing ==          \* seeded fault: the DELETE has no effect
  /\ cleaner = "delete" /\ cleaner' = "select" /\ remove_values' = {}
  /\ UNCHANGED <<clock, tracking, serial, daemonVars, cleanup_now, cleanups, historyVars>>

\* DELETE ... WHERE id IN $values
CleanupDelete ==
  /\ cleaner = "delete"
  /\ tracking' = {row \in tracking : row.id \notin remove_values}
  /\ remove_values' = {}
  /\ cleaner' = "select"
  /\ UNCHANGED <<clock, serial, daemonVars, cleanup_now, cleanups, historyVars>>

Cleanup == CleanupSelect \/ CleanupDelete

-----------------------------------------------------------------------------
Tick ==
  /\ clock < MaxClock
  /\ clock' = clock + 1
  /\ UNCHANGED <<tracking, serial, daemonVars, cleanerVars, historyVars>>

Init ==
  /\ clock = 1 /\ tracking = {} /\ serial = 0
  /\ pc = "idle" /\ req \in Requests /\ pass = "sender" /\ now = 0
  /\ rule = [r \in Rules |-> NoSetting]
  /\ copy = [r \in TrackedRules |-> NoRow]
  /\ todo = {} /\ answer = "none"
  /\ cleaner = "stopped" /\ cleanup_now = 0 /\ remove_values = {}
  /\ served = 0 /\ cleanups = 0
  /\ window = [c \in Counter |-> NoWindow]

Next == Daemon \/ StartCleanup \/ Cleanup \/ Tick

Spec == Init /\ [][Next]_vars

\* The daemon finishes the request it has begun and the job its loop: neither
\* waits for anybody.  Requests and cron runs need not come.
Fairness == WF_vars(Serve) /\ WF_vars(Cleanup)

FairSpec == Spec /\ Fairness
-----------------------------------------------------------------------------
(* Properties *)

RowOf(c) == {row \in tracking : row.tid = c[1] /\ row.account = c[2]}

\* Every variable keeps the type the schema and the code give it.
TypeOK ==
  /\ clock \in 1..(MaxClock + 1) /\ now \in 0..clock
  /\ serial \in Nat
  /\ tracking \subseteq Row
  /\ pc \in {"idle", "settings", "tracking", "notify", "write"}
  /\ req \in Requests
  /\ pass \in {"sender", "recipient"}
  /\ rule \in [Rules -> Settings \cup {NoSetting}]
  /\ copy \in [TrackedRules -> Row \cup {NoRow}]
  /\ todo \subseteq TrackedRules \cup {"insert"}
  /\ answer \in {"none", "DUNNO", "reject_msg_size", "reject_max_rcpts", "reject_quota"}
  /\ cleaner \in {"stopped", "select", "delete"}
  /\ cleanup_now \in 0..clock /\ remove_values \subseteq RowId
  /\ served \in Nat /\ cleanups \in Nat
  /\ window \in [Counter -> [init_time: Nat, msgs: Nat, quota: Nat]]

\* SelectTracking lets the message through / turns it away.
Accepted == pc = "tracking" /\ pc' = "write"
Rejected == pc = "tracking" /\ pc' \in {"notify", "idle"}

Limit(r) == rule[r].limit[r]
WindowOf(r) ==
  LET w == window[CounterOf(rule[r])]
  IN  IF now > w.init_time + rule[r].period THEN NoWindow ELSE w

\* Until a cleanup job has run, the verdict is the one an exact fixed-window
\* counter would give: nothing over the limits passes and nothing within them
\* is rejected, whatever rows the rules share and whichever setting supplies
\* each of them (throttle.py:511-608).
VerdictExact ==
  [][cleanups = 0 /\ (Accepted \/ Rejected) =>
       (Accepted <=>
          /\ Limit("max_msgs") > 0
               => WindowOf("max_msgs").msgs + req.rcpts <= Limit("max_msgs")
          /\ Limit("max_quota") > 0 => WindowOf("max_quota").quota <= Limit("max_quota"))]_vars

\* Until a cleanup job has run, the table holds exactly the open windows between
\* two requests: one row for each counter ever charged, with the totals of its
\* window (throttle.py:645-711).  Variables always have their types.
CountersExact ==
  /\ TypeOK
  /\ pc = "idle" /\ cleanups = 0 =>
       \A c \in Counter :
         IF window[c] = NoWindow THEN RowOf(c) = {}
         ELSE \E row \in tracking :
                /\ RowOf(c) = {row}
                /\ window[c] = [init_time |-> row.init_time, msgs |-> row.cur_msgs,
                                quota |-> row.cur_quota]

\* A cleanup run that overlaps a request loses at most one count: each run may let
\* one more limit through, and no more, unless a counter also takes messages that
\* another setting's max_msgs has judged (cleanup_db.py:28-31).
LossBounded ==
  [][Accepted /\ Limit("max_msgs") > 0
       => window'[CounterOf(rule["max_msgs"])].msgs <= Limit("max_msgs") * (cleanups + 1)]_vars

\* The max_quota branch goes by the last_notify_time that was read for max_msgs, of the
\* counter of another setting, or of whichever row came last (throttle.py:597).
OtherNotifyTime == todo = {"max_quota"} /\ rule["max_msgs"] # rule["max_quota"]

\* But for that, the administrator is told at most once per window that a counter's
\* limit is exceeded, however late the mail goes out (throttle.py:542-545).
NotifiedOnce ==
  [][~OtherNotifyTime =>
       \A row \in tracking : \A new \in tracking' :
         /\ row.id = new.id
         /\ row.last_notify_time # new.last_notify_time
         /\ clock <= row.init_time + row.period
         => row.last_notify_time <= row.init_time]_vars

\* The cleanup loop comes to an end whatever the daemon does to the table.
CleanupTerminates == cleaner # "stopped" ~> cleaner = "stopped"

=============================================================================
