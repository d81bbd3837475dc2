----------------------------- MODULE Senderscore -----------------------------
(***************************************************************************)
(* Scores of client addresses (plugins/senderscore.py), the table that     *)
(* caches them, and the two programs that change it meanwhile:             *)
(* tools/senderscore_admin.py whitelists addresses, a DELETE and then one  *)
(* INSERT of several rows, and tools/cleanup_db.py deletes old rows by     *)
(* their address, page by page.  Every SQL statement and every DNS query   *)
(* is a step; what DNS says of an address may change at any time.          *)
(***************************************************************************)
EXTENDS Integers, Sequences, FiniteSets

CONSTANTS
  Client,           \* client addresses that requests come from
  Trusted,          \* those of MYNETWORKS
  Scores,           \* last number of the A records senderscore.com has
  reject_score,     \* SENDERSCORE_REJECT_SCORE
  CacheDays,        \* SENDERSCORE_CACHE_DAYS
  Forever,          \* expire_epoch_seconds of the administration tool
  QueryLimit,       \* CLEANUP_QUERY_SIZE_LIMIT
  Commands,         \* arguments of the administration tool
  NoRow,
  MaxDay, MaxRequests, MaxCommands, MaxCleanups, MaxFaults    \* bounds

ASSUME SenderscoreAssumption ==
  /\ Trusted \subseteq Client /\ IsFiniteSet(Client)
  /\ Scores \subseteq Nat
  /\ reject_score \in 0..99 /\ CacheDays \in Nat
  /\ MaxDay \in Nat /\ Forever \in Nat /\ Forever > MaxDay
  /\ QueryLimit \in Nat \ {0}
  /\ Commands \subseteq Seq(Client) \ {<<>>}
  /\ NoRow \notin [score : Nat, time : Nat]
  /\ MaxCleanups \in Nat

VARIABLES
  day,
  cache,       \* senderscore_cache: a row for each client address, or NoRow
  (* locals of restriction() *)
  pc, client, score, cache_the_score, answer,
  (* locals of senderscore_admin.py and of cleanup_db.py *)
  admin, ips, cleaner, expire, remove_values,
  (* history *)
  reported,    \* addresses reported as whitelisted
  raced,       \* those whitelisted while a cleanup was about to delete what it had chosen
  heeded,      \* the request came after the report, and no command since names its client
  told,        \* what DNS has answered for each address
  requests, commands, cleanups, faults

daemonVars  == <<pc, client, score, cache_the_score, answer, heeded, told, requests>>
adminVars   == <<admin, ips, reported, commands>>
cleanerVars == <<cleaner, expire, remove_values, raced, cleanups>>
scoreVars == <<day, cache, daemonVars, adminVars, cleanerVars, faults>>

Row(s, time) == [score |-> s, time |-> time]
Whitelisted(c) == cache[c] = Row(100, Forever)

Fail == faults < MaxFaults /\ faults' = faults + 1
Return(v) == pc' = "idle" /\ answer' = v

-----------------------------------------------------------------------------
(* The daemon                                                              *)

\* A request without SASL name, from an IPv4 address: the plugin passes over others.
ReceiveClient ==
  /\ pc = "idle" /\ requests < MaxRequests
  /\ \E c \in Client :
       /\ client' = c /\ heeded' = (c \in reported \ raced)
       /\ IF c \in Trusted THEN Return("DUNNO") ELSE pc' = "select" /\ answer' = "none"
  /\ score' = 100 /\ cache_the_score' = FALSE
  /\ requests' = requests + 1
  /\ UNCHANGED <<day, cache, told, adminVars, cleanerVars, faults>>

SelectScore ==
  /\ pc = "select"
  /\ IF cache[client] = NoRow
       THEN pc' = "dns" /\ UNCHANGED score
       ELSE pc' = "judge" /\ score' = cache[client].score
  /\ UNCHANGED <<day, cache, client, cache_the_score, answer, heeded, told, requests,
                 adminVars, cleanerVars, faults>>

\* The statement raises, and apply_plugin takes the plugin for one that agrees.
SelectFails ==
  /\ pc = "select" /\ Fail /\ Return("DUNNO")
  /\ UNCHANGED <<day, cache, client, score, cache_the_score, heeded, told, requests,
                 adminVars, cleanerVars>>

\* NoAnswer and NXDOMAIN count as the score 100.
QueryDns ==
  /\ pc = "dns"
  /\ \E s \in Scores \cup {100} :
       /\ score' = s /\ told' = told \cup {<<client, s>>}
  /\ cache_the_score' = TRUE /\ pc' = "judge"
  /\ UNCHANGED <<day, cache, client, answer, heeded, requests, adminVars, cleanerVars, faults>>

QueryTimeoutBad ==     \* seeded fault: a client nothing is known of is a bad one
  /\ pc = "dns" /\ Fail /\ pc' = "judge" /\ score' = 0
  /\ UNCHANGED <<day, cache, client, cache_the_score, answer, heeded, told, requests,
                 adminVars, cleanerVars>>

\* A timeout: 100 too, but not to be cached.
QueryTimeout ==
  /\ pc = "dns" /\ Fail /\ pc' = "judge"
  /\ UNCHANGED <<day, cache, client, score, cache_the_score, answer, heeded, told, requests,
                 adminVars, cleanerVars>>

Verdict == IF score > 100 THEN "DUNNO" ELSE IF score <= reject_score THEN "REJECT" ELSE "DUNNO"

StoreOver ==     \* seeded fault: REPLACE instead of INSERT
  /\ cache' = [cache EXCEPT ![client] = Row(score, day)]
  /\ UNCHANGED faults

\* The INSERT fails on a row that is there already, or for another reason: logged.
Store ==
  /\ cache' = IF cache[client] = NoRow THEN [cache EXCEPT ![client] = Row(score, day)] ELSE cache
  /\ UNCHANGED faults
StoreFails == Fail /\ UNCHANGED cache

\* The score range is tested, the score cached, and the request answered.
JudgeScore ==
  /\ pc = "judge"
  /\ IF cache_the_score /\ score <= 100
       THEN Store \/ StoreFails
       ELSE UNCHANGED <<cache, faults>>
  /\ Return(Verdict)
  /\ UNCHANGED <<day, client, score, cache_the_score, heeded, told, requests, adminVars, cleanerVars>>

Daemon == ReceiveClient \/ SelectScore \/ SelectFails \/ QueryDns \/ QueryTimeout \/ JudgeScore

-----------------------------------------------------------------------------
(* senderscore_admin.py -w                                                 *)

Command ==
  /\ admin = "stopped" /\ commands < MaxCommands
  /\ \E c \in Commands : ips' = c
  /\ admin' = "delete" /\ commands' = commands + 1
  /\ UNCHANGED <<day, cache, daemonVars, reported, cleanerVars, faults>>

Named == {ips[i] : i \in DOMAIN ips}

AdminDelete ==
  /\ admin = "delete" /\ admin' = "insert"
  /\ cache' = [c \in Client |-> IF c \in Named THEN NoRow ELSE cache[c]]
  /\ reported' = reported \ Named
  /\ heeded' = (heeded /\ client \notin Named)
  /\ UNCHANGED <<day, pc, client, score, cache_the_score, answer, told, requests, ips, commands, cleanerVars, faults>>

\* A cleanup will delete the new row for the old one's sake.
Raced == raced' = (raced \ Named) \cup (Named \cap remove_values)

AdminInsertEach ==     \* seeded fault: what fails is passed over, and reported all the same
  /\ admin = "insert" /\ admin' = "stopped"
  /\ cache' = [c \in Client |-> IF c \in Named /\ cache[c] = NoRow THEN Row(100, Forever) ELSE cache[c]]
  /\ reported' = reported \cup Named /\ Raced
  /\ UNCHANGED <<day, daemonVars, ips, commands, cleaner, expire, remove_values, cleanups, faults>>

\* One INSERT for all: it fails as a whole if an address is named twice, or if the
\* daemon has cached one of them since; the tool ends with the exception.
AdminInsert ==
  /\ admin = "insert" /\ admin' = "stopped"
  /\ IF Cardinality(Named) = Len(ips) /\ \A c \in Named : cache[c] = NoRow
       THEN /\ cache' = [c \in Client |-> IF c \in Named THEN Row(100, Forever) ELSE cache[c]]
            /\ reported' = reported \cup Named /\ Raced
       ELSE UNCHANGED <<cache, reported, raced>>
  /\ UNCHANGED <<day, daemonVars, ips, commands, cleaner, expire, remove_values, cleanups, faults>>

-----------------------------------------------------------------------------
(* cleanup_db.py                                                           *)

StartCleanup ==
  /\ cleaner = "stopped" /\ cleanups < MaxCleanups
  /\ cleaner' = "select" /\ cleanups' = cleanups + 1
  /\ expire' = day - CacheDays
  /\ UNCHANGED <<day, cache, daemonVars, adminVars, remove_values, raced, faults>>

Expired(c) == cache[c] # NoRow /\ cache[c].time < expire

\* A page: the addresses of some rows that have expired, of all if they fit.
CleanupSelect ==
  /\ cleaner = "select"
  /\ LET found == {c \in Client : Expired(c)}
     IN  \E page \in SUBSET found :
           /\ Cardinality(page) = IF Cardinality(found) < QueryLimit
                                    THEN Cardinality(found) ELSE QueryLimit
           /\ remove_values' = page
           /\ cleaner' = IF page = {} THEN "done" ELSE "delete"
  /\ UNCHANGED <<day, cache, daemonVars, adminVars, expire, raced, cleanups, faults>>

CleanupDeleteNothing ==     \* seeded fault: the DELETE has no effect, and the loop ends
  /\ cleaner = "delete" /\ cleaner' = "done" /\ remove_values' = {}
  /\ UNCHANGED <<day, cache, daemonVars, adminVars, expire, raced, cleanups, faults>>

\* DELETE ... WHERE client_address IN $values: whatever the rows are by now.
CleanupDelete ==
  /\ cleaner = "delete" /\ cleaner' = "select" /\ remove_values' = {}
  /\ cache' = [c \in Client |-> IF c \in remove_values THEN NoRow ELSE cache[c]]
  /\ UNCHANGED <<day, daemonVars, adminVars, expire, raced, cleanups, faults>>

CleanupEnd ==
  /\ cleaner = "done" /\ cleaner' = "stopped"
  /\ UNCHANGED <<day, cache, daemonVars, adminVars, expire, remove_values, raced, cleanups, faults>>

-----------------------------------------------------------------------------
NextDay ==
  /\ day < MaxDay /\ day' = day + 1
  /\ UNCHANGED <<cache, daemonVars, adminVars, cleanerVars, faults>>

ScoreInit ==
  /\ day = 0 /\ cache = [c \in Client |-> NoRow]
  /\ pc = "idle" /\ client \in Client /\ score = 100 /\ cache_the_score = FALSE /\ answer = "none"
  /\ admin = "stopped" /\ ips = <<>> /\ cleaner = "stopped" /\ expire = 0 /\ remove_values = {}
  /\ reported = {} /\ raced = {} /\ heeded = FALSE /\ told = {}
  /\ requests = 0 /\ commands = 0 /\ cleanups = 0 /\ faults = 0

ScoreNext ==
  \/ Daemon \/ Command \/ AdminDelete \/ AdminInsert
  \/ StartCleanup \/ CleanupSelect \/ CleanupDelete \/ CleanupEnd \/ NextDay

ScoreSpec == ScoreInit /\ [][ScoreNext]_scoreVars

-----------------------------------------------------------------------------
\* The table keeps scores of 0 to 100, and every variable its type.
ScoreTypeOK ==
  /\ day \in 0..MaxDay
  /\ cache \in [Client -> [score : 0..100, time : 0..MaxDay \cup {Forever}] \cup {NoRow}]
  /\ pc \in {"idle", "select", "dns", "judge"} /\ client \in Client
  /\ score \in Scores \cup (0..100) /\ cache_the_score \in BOOLEAN
  /\ answer \in {"none", "DUNNO", "REJECT"}
  /\ admin \in {"stopped", "delete", "insert"} /\ ips \in Seq(Client)
  /\ cleaner \in {"stopped", "select", "delete", "done"} /\ expire \in Int
  /\ remove_values \subseteq Client /\ reported \subseteq Client /\ raced \subseteq Client
  /\ heeded \in BOOLEAN /\ cleanups \in 0..MaxCleanups

\* Addresses that the tool reported as whitelisted stay so, `not cleaned by script
\* tools/cleanup_db.py' (senderscore_admin.py:20), unless a cleanup had chosen the
\* address, for the old row under it, before the tool put the new row there.  The
\* cache only ever holds scores of 0 to 100 (ScoreTypeOK).
WhitelistKeptUnlessRaced == ScoreTypeOK /\ \A c \in reported \ raced : Whitelisted(c)

\* A client whose whitelisting was reported before its request came is not rejected,
\* whatever the daemon had cached or was about to cache.
WhitelistHeeded ==
  heeded /\ client \in reported \ raced => answer # "REJECT"

\* A client is rejected only for a score DNS has given it, now or when the score
\* was cached: never because DNS did not answer or an administrator was at work.
RejectedForScore ==
  answer = "REJECT" => \E t \in told : t[1] = client /\ t[2] <= reject_score

\* Once a cleanup has ended, no score is in use that was too old when it began,
\* whatever was stored or deleted meanwhile: the daemon itself never looks at `time'.
CacheFresh ==
  cleanups > 0 /\ cleaner \in {"done", "stopped"} => \A c \in Client : ~Expired(c)
=============================================================================
