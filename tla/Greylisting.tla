---------------------------- MODULE Greylisting ----------------------------
(***************************************************************************)
(* Plugin `greylisting` (plugins/greylisting.py): a client that sends a    *)
(* triplet (sender, recipient, client address) for the first time is       *)
(* turned away and let in when it comes back after a while.  What is known *)
(* of clients is in the SQL table greylisting_tracking, which the cron job *)
(* tools/cleanup_db.py prunes while the daemon runs.                       *)
(*                                                                         *)
(* One action per SQL statement of the daemon or of the job, as in module  *)
(* Throttle; a statement may also fail.  Whitelists, settings and DNS      *)
(* answers do not change.                                                  *)
(***************************************************************************)
EXTENDS Integers, FiniteSets

CONSTANTS
  User,           \* e-mail addresses
  Client,         \* client IP addresses
  DomainOf,       \* domain part of a user
  PolicyAddrs,    \* accounts that cover a user, those of an alias domain's target included
  Cidrs,          \* networks of the tables that contain a client address
  TrustedClient,  \* utils.is_trusted_client
  Whitelists,     \* pairs of account and sender, of both whitelist tables
  Settings,       \* rows of table greylisting
  SpfPairs,       \* pairs of a sender domain and a client its SPF record lists
  BypassSPF,      \* GREYLISTING_BYPASS_SPF
  SrsDomain,      \* settings.srs_domain
  TrainingMode,   \* GREYLISTING_TRAINING_MODE
  BlockExpire, UnauthExpire, AuthExpire,   \* GREYLISTING_*_EXPIRE
  Requests,       \* requests Postfix may send
  BatchLimit,     \* CLEANUP_QUERY_SIZE_LIMIT
  MaxClock,       \* bound on time
  MaxRequests,    \* bound on the number of requests
  MaxCleanups,    \* bound on the number of runs of the cleanup job
  MaxFailures     \* bound on the number of SQL statements that fail

Triplet     == User \X User \X Client
RequestType == [sender: User, recipient: User, client: Client, sasl: BOOLEAN]

ASSUME ConstantsAssumption ==
  /\ Requests \subseteq RequestType
  /\ BlockExpire \in Nat \ {0}
  /\ UnauthExpire \in Nat /\ AuthExpire \in Nat
  /\ BatchLimit \in Nat \ {0}
  /\ MaxClock \in Nat /\ MaxRequests \in Nat
  /\ MaxCleanups \in Nat /\ MaxFailures \in Nat

Row == [id: Nat, triplet: Triplet, init_time: Nat, block_expired: Nat,
        record_expired: Nat, blocked_count: Nat, passed: BOOLEAN]

VARIABLES
  clock,       \* time.time()
  tracking,    \* rows of table greylisting_tracking
  serial,      \* rows inserted so far, source of fresh ids
  pc, req, now,
  answer,      \* action returned for the last request
  (* locals of cleanup_db.py *)
  cleaner, cleanup_now, remove_values,
  (* history *)
  served, cleanups, failures,
  since,       \* when a triplet was last taken as first seen
  promise,     \* until when a client that passed was last promised to be known
  raced        \* clients who lost a row the cleanup job had seen expire earlier

tableVars   == <<tracking, serial>>
cleanerVars == <<cleaner, cleanup_now, remove_values, cleanups, raced>>
vars == <<clock, tableVars, pc, req, now, answer, cleanerVars, served, failures,
          since, promise>>

-----------------------------------------------------------------------------
(* Whitelists and settings *)

ClientOf(t) == t[3]
TheTriplet  == <<req.sender, req.recipient, req.client>>

\* `policy_senders += '<a.b.c>' + '.*'` extends the list by characters, so the
\* wildcard address itself is not among the senders.
Senders(q) == PolicyAddrs[q.sender] \cup {q.client}

MatchesWith(senders, q, sender) == sender \in senders \/ sender \in Cidrs[q.client]

Whitelisted(q) ==
  \E w \in Whitelists : w[1] \in PolicyAddrs[q.recipient] /\ MatchesWith(Senders(q), q, w[2])

\* The first setting, by priority and sender_priority, that matches; the order
\* of equal priorities is the server's.
FirstSettings(senders, q) ==
  LET match == {s \in Settings : /\ s.account \in PolicyAddrs[q.recipient]
                                 /\ MatchesWith(senders, q, s.sender)}
      before(s, t) == \/ s.priority > t.priority
                      \/ s.priority = t.priority /\ s.sender_priority > t.sender_priority
  IN  {s \in match : ~\E t \in match : before(t, s)}

BySpf(q) ==
  /\ BypassSPF
  /\ DomainOf[q.sender] # SrsDomain
  /\ <<DomainOf[q.sender], q.client>> \in SpfPairs

-----------------------------------------------------------------------------
(* Tracking rows *)

RowsOf(t)     == {row \in tracking : row.triplet = t}
PassedRows(c) == {row \in tracking : ClientOf(row.triplet) = c /\ row.passed}

\* UPDATE ... WHERE triplet = ... : a new first contact, keeping `passed`.
FirstSeen(row) ==
  [row EXCEPT !.init_time = now, !.block_expired = now + BlockExpire,
              !.record_expired = now + UnauthExpire, !.blocked_count = 1]

Counted(row)  == [row EXCEPT !.blocked_count = @ + 1]

\* UPDATE record_expired, and passed.
Renewed(row)  == [row EXCEPT !.record_expired = now + AuthExpire]
Promoted(row) == [row EXCEPT !.record_expired = now + AuthExpire, !.passed = TRUE]

NewRow ==
  [id |-> serial + 1, triplet |-> TheTriplet, init_time |-> now,
   block_expired |-> now + BlockExpire, record_expired |-> now + UnauthExpire,
   blocked_count |-> 1, passed |-> FALSE]

-----------------------------------------------------------------------------
(* The daemon *)

Return(a) == pc' = "idle" /\ answer' = a

\* The answer to a request that should be greylisted.
Defer == Return(IF TrainingMode THEN "DUNNO" ELSE "greylist")

\* A statement succeeds, or one of the failures is spent on it.
Succeed == UNCHANGED failures
Fail    == failures < MaxFailures /\ failures' = failures + 1

Receive ==
  /\ pc = "idle"
  /\ served < MaxRequests
  /\ served' = served + 1
  /\ \E q \in Requests :
       /\ req' = q
       /\ IF q.sasl \/ q.client \in TrustedClient THEN Return("DUNNO")
          ELSE pc' = "settings" /\ answer' = "none"
  /\ UNCHANGED <<clock, tableVars, now, cleanerVars, failures, since, promise>>

\* Whitelists, settings and SPF, which may each exempt the request.
Settle ==
  /\ pc = "settings"
  /\ IF Whitelisted(req) \/ FirstSettings(Senders(req), req) = {} \/ BySpf(req)
       THEN Return("DUNNO")
       ELSE \E s \in FirstSettings(Senders(req), req) :
              IF s.active THEN pc' = "passed" /\ UNCHANGED answer ELSE Return("DUNNO")
  /\ Succeed
  /\ UNCHANGED <<clock, tableVars, req, now, cleanerVars, served, since, promise>>

\* SELECT id ... WHERE client_address=... AND passed=1, then time.time().
QueryPassed ==
  /\ pc = "passed"
  /\ pc' = IF PassedRows(req.client) # {} THEN "refresh" ELSE "select"
  /\ now' = clock
  /\ Succeed
  /\ UNCHANGED <<clock, tableVars, req, answer, cleanerVars, served, since, promise>>

\* UPDATE record_expired of the passed rows of the client.
RefreshPassed ==
  /\ pc = "refresh"
  /\ tracking' = {IF row \in PassedRows(req.client) THEN Renewed(row) ELSE row : row \in tracking}
  /\ promise' = IF PassedRows(req.client) # {}
                  THEN [promise EXCEPT ![req.client] = now + AuthExpire] ELSE promise
  /\ Return("DUNNO")
  /\ Succeed
  /\ UNCHANGED <<clock, serial, req, now, cleanerVars, served, since>>

\* The exception of a failed statement leaves restriction(): apply_plugin
\* logs it and answers DUNNO.
Raise ==
  /\ pc \in {"settings", "passed", "refresh", "reset", "count"}
  /\ Fail
  /\ Return("DUNNO")
  /\ UNCHANGED <<clock, tableVars, req, now, cleanerVars, served, since, promise>>

SelectStrict ==                  \* seeded fault: <= for <
  /\ pc = "select"
  /\ \/ RowsOf(TheTriplet) = {} /\ pc' = "insert"
     \/ \E row \in RowsOf(TheTriplet) :
          pc' = IF now > row.record_expired THEN "reset"
                ELSE IF now <= row.block_expired THEN "count" ELSE "pass"
  /\ Succeed
  /\ UNCHANGED <<clock, tableVars, req, now, answer, cleanerVars, served, since, promise>>

\* SELECT ... WHERE triplet = ... LIMIT 1
SelectTriplet ==
  /\ pc = "select"
  /\ \/ RowsOf(TheTriplet) = {} /\ pc' = "insert"
     \/ \E row \in RowsOf(TheTriplet) :
          IF now > row.record_expired THEN pc' = "reset"
          ELSE IF now < row.block_expired THEN pc' = "count"
          ELSE IF row.record_expired > now + AuthExpire THEN pc' = "accept"
          ELSE pc' = "pass"
  /\ Succeed
  /\ UNCHANGED <<clock, tableVars, req, now, answer, cleanerVars, served, since, promise>>

\* A failed SELECT is taken for a triplet never seen.
SelectFails ==
  /\ pc = "select"
  /\ Fail
  /\ pc' = "insert"
  /\ UNCHANGED <<clock, tableVars, req, now, answer, cleanerVars, served, since, promise>>

\* INSERT: a duplicate (after SelectFails) or a failure stores nothing.
InsertTriplet ==
  /\ pc = "insert"
  /\ \/ /\ RowsOf(TheTriplet) = {}
        /\ tracking' = tracking \cup {NewRow}
        /\ serial' = serial + 1
        /\ since' = [since EXCEPT ![TheTriplet] = now]
        /\ Succeed
     \/ RowsOf(TheTriplet) # {} /\ Succeed /\ UNCHANGED <<tableVars, since>>
     \/ Fail /\ UNCHANGED <<tableVars, since>>
  /\ Defer
  /\ UNCHANGED <<clock, req, now, cleanerVars, served, promise>>

ResetKeepsBlock ==               \* seeded fault: record_expired only
  /\ pc = "reset"
  /\ tracking' = {IF row.triplet = TheTriplet
                    THEN [row EXCEPT !.record_expired = now + UnauthExpire] ELSE row
                  : row \in tracking}
  /\ since' = [since EXCEPT ![TheTriplet] = now]
  /\ Defer
  /\ Succeed
  /\ UNCHANGED <<clock, serial, req, now, cleanerVars, served, promise>>

ResetTriplet ==
  /\ pc = "reset"
  /\ tracking' = {IF row.triplet = TheTriplet THEN FirstSeen(row) ELSE row : row \in tracking}
  /\ since' = [since EXCEPT ![TheTriplet] = now]
  /\ Defer
  /\ Succeed
  /\ UNCHANGED <<clock, serial, req, now, cleanerVars, served, promise>>

\* Retried too soon.  A failed UPDATE is tried once more.
CountTriplet ==
  /\ pc = "count"
  /\ tracking' = {IF row.triplet = TheTriplet THEN Counted(row) ELSE row : row \in tracking}
  /\ Defer
  /\ Succeed \/ Fail
  /\ UNCHANGED <<clock, serial, req, now, cleanerVars, served, since, promise>>

\* UPDATE record_expired and passed; a failure is only logged.
MarkPassed ==
  /\ pc = "pass"
  /\ \/ /\ tracking' = {IF row.triplet = TheTriplet THEN Promoted(row) ELSE row : row \in tracking}
        /\ promise' = IF RowsOf(TheTriplet) # {}
                        THEN [promise EXCEPT ![req.client] = now + AuthExpire] ELSE promise
        /\ Succeed
     \/ Fail /\ UNCHANGED <<tracking, promise>>
  /\ pc' = "delete"
  /\ UNCHANGED <<clock, serial, req, now, answer, cleanerVars, served, since>>

DeleteNothing ==                 \* seeded fault: the other rows stay
  /\ pc = "delete" /\ Return("DUNNO") /\ Succeed
  /\ UNCHANGED <<clock, tableVars, req, now, cleanerVars, served, since, promise>>

\* DELETE ... WHERE client_address=... AND passed=0; a failure is only logged.
DeleteOthers ==
  /\ pc = "delete"
  /\ \/ /\ tracking' = {row \in tracking : ~(ClientOf(row.triplet) = req.client /\ ~row.passed)}
        /\ Succeed
     \/ Fail /\ UNCHANGED tracking
  /\ Return("DUNNO")
  /\ UNCHANGED <<clock, serial, req, now, cleanerVars, served, since, promise>>

\* record_expired is beyond the new date already: nothing is written.
Accept ==
  /\ pc = "accept"
  /\ Return("DUNNO")
  /\ Succeed
  /\ UNCHANGED <<clock, tableVars, req, now, cleanerVars, served, since, promise>>

Daemon ==
  \/ Settle \/ QueryPassed \/ RefreshPassed \/ SelectTriplet \/ SelectFails \/ InsertTriplet
  \/ ResetTriplet \/ CountTriplet \/ MarkPassed \/ DeleteOthers \/ Accept \/ Raise

-----------------------------------------------------------------------------
(* tools/cleanup_db.py *)

StartCleanup ==
  /\ cleaner = "stopped"
  /\ cleanups < MaxCleanups
  /\ cleaner' = "select"
  /\ cleanup_now' = clock
  /\ cleanups' = cleanups + 1
  /\ UNCHANGED <<clock, tableVars, pc, req, now, answer, remove_values, raced, served,
                 failures, since, promise>>

CleanupMatchBlocked(row) ==      \* seeded fault: the wrong column
  row.block_expired < cleanup_now

\* record_expired < now
CleanupMatch(row) == row.record_expired < cleanup_now

\* SELECT id ... LIMIT: some of the expired rows, at most BatchLimit.
CleanupSelect ==
  /\ cleaner = "select"
  /\ LET ids == {row.id : row \in {w \in tracking : CleanupMatch(w)}}
     IN  \E picked \in SUBSET ids :
           /\ Cardinality(picked) <= BatchLimit
           /\ Cardinality(picked) < BatchLimit => picked = ids
           /\ remove_values' = picked
           /\ cleaner' = IF picked = {} THEN "stopped" ELSE "delete"
  /\ UNCHANGED <<clock, tableVars, pc, req, now, answer, cleanup_now, cleanups, raced,
                 served, failures, since, promise>>

\* DELETE ... WHERE id IN $values
CleanupDelete ==
  /\ cleaner = "delete"
  /\ LET gone == {row \in tracking : row.id \in remove_values}
     IN  /\ tracking' = tracking \ gone
         /\ raced' = raced \cup {ClientOf(row.triplet) : row \in {w \in gone : ~CleanupMatch(w)}}
  /\ remove_values' = {}
  /\ cleaner' = "select"
  /\ UNCHANGED <<clock, serial, pc, req, now, answer, cleanup_now, cleanups, served,
                 failures, since, promise>>

Cleanup == CleanupSelect \/ CleanupDelete

-----------------------------------------------------------------------------
Tick ==
  /\ clock < MaxClock
  /\ clock' = clock + 1
  /\ UNCHANGED <<tableVars, pc, req, now, answer, cleanerVars, served, failures, since, promise>>

Init ==
  /\ clock = 1 /\ tracking = {} /\ serial = 0
  /\ pc = "idle" /\ req \in Requests /\ now = 0 /\ answer = "none"
  /\ cleaner = "stopped" /\ cleanup_now = 0 /\ remove_values = {}
  /\ served = 0 /\ cleanups = 0 /\ failures = 0
  /\ since = [t \in Triplet |-> 0]
  /\ promise = [c \in Client |-> 0]
  /\ raced = {}

Next == Receive \/ Daemon \/ StartCleanup \/ Cleanup \/ Tick

Spec == Init /\ [][Next]_vars

-----------------------------------------------------------------------------
(* Properties *)

\* Every variable keeps the type the schema and the code give it.
TypeOK ==
  /\ clock \in Nat /\ now \in Nat /\ serial \in Nat
  /\ tracking \subseteq Row
  /\ pc \in {"idle", "settings", "passed", "refresh", "select", "insert", "reset",
             "count", "pass", "delete", "accept"}
  /\ req \in Requests
  /\ answer \in {"none", "DUNNO", "greylist"}
  /\ cleaner \in {"stopped", "select", "delete"}
  /\ cleanup_now \in Nat /\ remove_values \subseteq Nat
  /\ served \in Nat /\ cleanups \in Nat /\ failures \in Nat
  /\ since \in [Triplet -> Nat]
  /\ promise \in [Client -> Nat]
  /\ raced \subseteq Client

\* The tracking turns the request away.
TurnedOff == pc \in {"insert", "reset", "count"} /\ failures' = failures /\ pc' # pc

\* A request is let in by its tracking record, or by that of another triplet
\* of its client, only when BLOCK_EXPIRE has gone by since the triplet was last
\* taken as first seen, whatever statements fail and whatever the cleanup job
\* removes (greylisting.py:276-325, 377-391).
Earned(c) ==
  \E t \in Triplet : ClientOf(t) = c /\ since[t] > 0 /\ since[t] + BlockExpire <= clock
EarnedPass == pc \in {"refresh", "pass", "delete", "accept"} => Earned(req.client)

\* A client is turned away only on first contact, too soon or too late: one
\* that comes back in its time is let in, unless a statement failed or the
\* cleanup job took the row from under the UPDATE (greylisting.py:231-292).
RetryHeeded ==
  [][TurnedOff =>
       \/ since[TheTriplet] = 0
       \/ now < since[TheTriplet] + BlockExpire
       \/ now > since[TheTriplet] + UnauthExpire
       \/ failures > 0 \/ cleanups > 0]_vars

\* A client that has passed keeps one row, the one it passed with, as long as
\* no statement failed (greylisting.py:311-323).
PassedAlone ==
  pc = "idle" /\ failures = 0 =>
    \A c \in Client : PassedRows(c) # {} =>
      {row \in tracking : ClientOf(row.triplet) = c} = PassedRows(c)

\* A client that was promised to be known is not turned away while the promise
\* lasts, unless the cleanup job selected its row before the promise was made
\* and deleted it after (greylisting.py:296-309, 377-389, cleanup_db.py:36-39).
PassRemembered ==
  [][TurnedOff => promise[req.client] < now \/ req.client \in raced]_vars
=============================================================================
