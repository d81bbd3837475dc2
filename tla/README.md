# iRedAPD in TLA+

iRedAPD is Postfix's policy server: Postfix sends the attributes of an SMTP
session, the daemon runs its plugins over them and answers with an action
(`DUNNO`, `OK`, `REJECT ...`, `451 ...`). A second pair of channels rewrites
envelope senders for forwarded mail (SRS). This directory holds models of the
service, of its plugins and of the tools that write the tables it reads, TLC
configurations that check them on small instances, and proofs checked by TLAPS.

    tlc -workers 2 -config throttle.cfg MCThrottle
    tlapm Greylisting_proofs.tla

Contents: 1 inventory, 2 plan, 3 the modules and the code, 4 the runs,
5 disagreements with the docs, 6 proofs, 7 what is left out.

## 1. Inventory

The daemon is one thread: an asyncore loop (`iredapd.py`, `asyncore`) reads
whichever socket is ready, and a request is served to its end, plugins, SQL and
mail included, before the loop turns again. No two requests overlap. What does
overlap with a request is the clock, the cron jobs (`tools/cleanup_db.py`,
`tools/spf_to_greylist_whitelists.py`), the administrator's tools in `tools/`,
Amavisd, and Postfix on the other end of the socket. `libs/utils.py:
execute_sql` runs every statement in a transaction of its own, so all of these
come in between any two statements of a request.

| Component | State | Operations | Hard to test | Module |
|---|---|---|---|---|
| policy channel (`libs/channel.py`, `asynchat`) | input buffer, list of fragments, session data, reply queue, log tables | receive, collect, found_terminator, push, log, close on error | where TCP cuts the stream; replies matched by order alone; data kept from one request to the next | `PolicyChannel` |
| event loop (`asyncore`, `channel.DaemonSocket`) | socket map, descriptors, unsent replies | poll, dispatch, accept, read, write, close | descriptors used again within a round; partial sends; mail sent from inside a request | `EventLoop` implements `PolicyService` |
| modeler and dispatch (`libs/*/modeler.py`, `libs/utils.py`) | plugin list in priority order, connections | load, sort, apply until a verdict is not DUNNO | a plugin that raises; order of priorities | `Dispatch` |
| throttle (`plugins/throttle.py`) | tables `throttle_tracking`, `throttle` | select settings, inherit, select tracking, notify, insert, update, for the sender and then the recipient | lost counts, window boundaries, rows shared by two rules, narrow columns | `Throttle` |
| throttle settings (`tools/migrate_cluebringer_throttle.py`, `tools/fix_throttle_priority.py`) | table `throttle` | insert, migrate, fix priorities page by page | priorities by three different rules | `ThrottleSettings` |
| greylisting (`plugins/greylisting.py`) | table `greylisting_tracking` | whitelists, settings, SPF, passed clients, then the triplet: insert, reset, count, mark, delete | retries too soon, in time, too late; rows that expire under a request; failing statements | `Greylisting` |
| cleanup job (`tools/cleanup_db.py`) | ids selected for removal | select a page of expired ids, delete by id, until none is left | rows renewed between the two statements | in `Throttle`, `Greylisting`, `Senderscore` |
| greylisting administration (`libs/greylisting.py`, `tools/greylisting_admin.py`, `tools/migrate_cluebringer_greylisting.py`, `tools/spf_to_greylist_whitelists.py`) and outbound whitelisting | the settings and whitelist tables | enable, disable, add, remove, import | delete and insert are two transactions while the daemon reads | `GreylistingAdmin` |
| SPF (`libs/dnsspf.py`) | set of networks, query counter, visited names | recursive queries through include, a, mx | query budget, include loops | `DnsSpf` |
| SRS channels (`libs/channel.py`, `libs/srslib.py`) | secrets, cached timestamps | forward, reverse | chains of forwarders; timestamps that wrap; rotation | `SRS` |
| amavisd white/blacklists (`plugins/amavisd_wblist.py`, `libs/wblist.py`) | `mailaddr`, `users`, `wblist`, `outbound_wblist` | look up by priority; add and remove | several statements on four tables, none transactional | `Wblist` |
| senderscore (`plugins/senderscore.py`, `tools/senderscore_admin.py`) | `senderscore_cache` | query the cache, query DNS, store; whitelist | cached answers against a concurrent whitelisting | `Senderscore` |
| sender login, access policies, rDNS lists, small reject plugins | none (read-only tables, LDAP) | one decision each | names in alias domains, two backends | `SenderLogin`, `ListAccess`, `Dispatch` over `Directory` |
| start-up, logging, packaging, vendored `web` | none shared | | | left out (7) |

How they interact: the loop calls the channel, the channel the modeler, the
modeler the plugins, the plugins the database; the channel logs to
`smtp_sessions`. Plugins share nothing in memory. The tools and the daemon
share tables, and nothing but tables.

What makes each correct:

- **channel**: each request gets one reply, worked out from its own attributes;
  Postfix is never left waiting; a message is logged once.
- **event loop**: a client that waits has its own reply, whole and once, or
  learns that the connection is lost.
- **dispatch**: the refusing plugin of the highest priority decides; a failing
  plugin neither blocks mail nor hides a later plugin.
- **throttle**: nobody gets more through in a window than the setting that
  applies, nothing within the limits is refused, the administrator hears once.
- **greylisting**: nobody is let in without having waited; who comes back in
  its time is let in, and is then known for the promised time.
- **cleanup**: it ends, and removes only what has expired.
- **administration**: what a command reported is what the tables say and what
  the daemon goes by, whatever ran at the same time.
- **SPF**: evaluation ends within the budget and finds all the records name.
- **SRS**: a bounce reaches its sender, and nothing too old is reversed.
- **white/blacklists, deciders**: the most specific entry decides; senders use
  names of their own, lists hear whom their policy admits.

## 2. Plan

The modelling half of the plan is done: every component with state or with a
decision of its own has a module. The order was: counters and tracking tables
(`Throttle`, `Greylisting`), the channel and the loop under it (`PolicyChannel`,
`EventLoop`), the writers of the tables (`ThrottleSettings`, `GreylistingAdmin`,
`Wblist`, `Senderscore`), then `DnsSpf`, `SRS`, and the deciders in `Dispatch`.

Abstract specifications: `PolicyService`, the request/reply service, which
`EventLoop` implements. An exact fixed-window counter is stated inside
`Throttle` as history (`window`) rather than as a module, because the cleanup
race makes the implementation false as soon as the job runs.

Theorems: every safety property of the runs, and the safety part of the
refinement, are proved, under the hypotheses section 6 names. What is left is
settings that change during a throttle request.

## 3. The modules and the code

All modules follow the same rules. An SQL statement together with the Python
that leads to the next statement is one action. `pc` names the statement the
daemon is about to issue; `"idle"` is the event loop. `req`, `now` and the like
are the handler's locals. Rows carry the columns the code compares. Time is a
counter that may advance between any two statements. Addresses are model
values, or, where their form matters, the records of `Addresses`. Variables
under "history" are not in the code; no action reads them in a guard, but for
the bounds (`served`, `cleanups`, `failures` and the like) and the choice of a
secret never used before in `SRS`.

Operators marked *seeded fault* are not part of any model. Each is a version of
the operator below it with a plausible slip; with the slip put in place, the
property that is meant to catch it fails.

`MC...` modules hold the instances. A constant is given the value of a
definition that only names another one (`MCRequests == TheRequests`): TLC keeps
the value of a definition without parameters, but evaluates again at each use a
definition that a constant stands for.

### Addresses

Forms and types of accounts (`is_valid_amavisd_address`), their priorities
(`get_account_priority`, `MAILADDR_PRIORITIES`) and the accounts that cover an
address (`get_policy_addresses_from_email`), used by `ThrottleSettings`,
`GreylistingAdmin`, `Wblist` and `Directory`. A domain name is the sequence of
its labels.

### Throttle and ThrottleSettings

`Receive` is the entry of `restriction()`; `pass` is `sender` in its first call
of `apply_throttle` and `recipient` in the second. `SelectSettings` selects and
sorts the settings and lets each of the four rules inherit from the first that
has a value (`Supplier`), then checks `msg_size` and `max_rcpts`, which need no
table. `SelectTracking` reads the rows (`Tracked` is the WHERE clause), copies
them into the rules (`Copies`), checks `max_msgs` (`MsgsExceeded`) and
`max_quota` (`QuotaExceeded`), and decides on a notification or on the
statements that record the message. `Notify` is `__sendmail`, `Insert` the one
statement for all new rows, `Update` one row, `EndPass` the end of the call.

Kept from the code though surprising: both rules may share one row or have two;
the tracking row is found by the user or the client but written under
`TrackKey`; an expired row is overwritten with absolute values and a live one
incremented in SQL; the quota check does not count the message at hand;
`last_notify_time` of the quota branch is what the code read last; an INSERT that
hits the unique index and an UPDATE that does not fit its column are logged and
forgotten (`UniqueTidAccount`, `MsgsColumn`, `QuotaColumn`).

`ThrottleSettings` computes the table that the plugin finds: rows an
administrator inserted, then `Migrate` (the Cluebringer migration, with the
priorities it gives and the duplicates it loses), then `FixPriorities` page by
page. `MCThrottle` lets the plugin run over the result, with the accounts that
`Addresses` says cover each address, so that `MostSpecific` relates what the
tools wrote to what the plugin applies.

History: `window` is what a counter would hold were no write ever lost: a fixed
window that opens with its first message.

The SELECTs never raise here; when they do the plugin writes nothing and the
answer is DUNNO.

### Greylisting

`Settle` is everything up to the tracking table: whitelists, setting, SPF.
`QueryPassed` asks for passed rows of the client, `RefreshPassed` prolongs them.
Otherwise `SelectTriplet` reads the triplet's row: none leads to `InsertTriplet`,
an expired one to `ResetTriplet`, one still blocked to `CountTriplet`, and any
other to `MarkPassed` and `DeleteOthers` (or to `Accept` when the row's expiry
is already beyond the new one). Every statement may fail, up to `MaxFailures`;
what follows differs: `Raise` (the exception leaves the plugin, which counts as
DUNNO), `SelectFails` (taken for a triplet never seen), or the failing branch
inside the action (logged only).

History: `since` is when a triplet was last taken as first seen, `promise` until
when a client was last promised to be known, `raced` the clients that lost a row
to a cleanup job that had selected it before it was renewed.

### The cleanup job

`StartCleanup`, `CleanupSelect` and `CleanupDelete` in `Throttle`, `Greylisting`
and `Senderscore` are `cleanup_sql_table`: the job reads the clock once, then
selects up to `BatchLimit` (`QueryLimit`) expired ids and deletes them by id,
until a SELECT finds none. In `Senderscore` the "id" is the client's address.

### PolicyChannel

`Recv` takes some prefix of what Postfix wrote. `CollectRest` and
`FoundTerminator` are turns of the loop in `async_chat.handle_read`.
`FoundTerminator` pops one fragment off `buffer` and reads it (`ReadLine`), or,
when `buffer` is empty, handles the request (`HandleRequest`): the verdict is
any of `Verdicts`, pushed and logged. A line is two atoms and a line end, so
that a segment can end inside a line; `Readings` gives what `split('=', 1)` can
make of a fragment, the tail of a name that spells another attribute's name
included. An exception closes the connection (`HandleError`).

The two logs are `log_policy_request_raises`, which tells whether an attribute
that the log needs is missing, and `log_smtp_session`, which adds a row unless
one of the `LOG_SMTP_SESSIONS_*` settings (variable `settings`, fixed at the
start) says otherwise or the INSERT fails.

`PostfixSend`, `PostfixTake`, `PostfixReconnect` are Postfix as the code's
replies presume it: it sends a request, waits, takes the first reply, asks again
at END-OF-MESSAGE unless the message was rejected at RCPT, and reconnects after
a close. They are marked external in the map.

### EventLoop and PolicyService

`EventLoop` is the loop under the channels. `Poll` is `poll2`, `Dispatch` one
event of its result: the channel is looked up in `map` again, since earlier
events of the round may have closed it and `Accept` may have given its
descriptor to a new one. One channel then goes through `HandleRead`, `Push`
(found_terminator with a reply), `HandleWrite` and `HandleHup`, which is
`asyncore.readwrite`. `InitiateSend` sends as much of the first reply as the
kernel takes. `SendMail` and `MailReturns` are the throttle notification: the
loop stands still until the submission service, itself a client of the daemon,
answers or fails. `HandlerRaises`, `Kill`, `Start` and `Abort` are the faults.
The kernel (`backlog`, `inbox`, `peer`, `buf`) and the clients are external.

Requests and replies are numbers here, and `PolicyChannel` has their contents;
`PolicyChannel` in turn takes the stream as reliable, which is what `EventLoop`
shows of the code below it.

`PolicyService` is the abstract specification: a client asks, and is answered
with the reply to its request or loses its connection. The refinement mapping
takes a reply to be the chunks a client has read, once they are whole
(`ReplyOf`).

### Dispatch, SenderLogin, ListAccess, Directory

`Dispatch` is `modeler.handle_data`: `Receive` sorts the enabled plugins
(`load_enabled_plugins`), `Skip` and `Apply` take the next one, `Agree` ends the
list. `Apply` chooses a failing query of the plugin (`Faults`); where a database
has incomplete settings (`create_db_engine`, `get_required_db_conns`) its first
query always fails. The stateless plugins are operators here (`Judge`), those of
some size in modules of their own: `SenderLogin` for
`reject_sender_login_mismatch`, `ListAccess` for the three access policy
plugins. All of them ask `Directory`, whose operators are the queries of
`libs/sql` and `libs/ldaplib` over one directory in its SQL or its LDAP form.
The directory, settings and order of plugins are the constant `Worlds`.

The plugins with state are not here: they are the modules named after them, and
throttle appears only as the plugin of another protocol state.

### GreylistingAdmin

A command is the sequence of its SQL statements (`StatementsOf`), and `todo[p]`
those a process has left; `DeleteSetting`, `InsertSetting`, `InsertWhitelist`,
`ChangeDomains` and `DeleteAuto` execute the next one, `StatementFails` is its
exception. The import is `ImportStart`, `QueryDomain` (DNS, with includes
followed), `WriteStart`, `DeleteOld`, `InsertNew`, `DeleteTracking`,
`NextDomain`. The daemon's three SELECTs are `Receive`, `IsWhitelisted` and
`ShouldBeGreylisted`. `Publish` changes DNS.

History: `last` and `granted` are what commands reported, `due` the
whitelistings that had been reported before the request came.

### Wblist

`Command(p)` is one statement of a command of `wblist_admin.py`: find the user,
create it, create the addresses, select their ids, delete, insert one row after
the other, report. `CleanupMailaddr` is Amavisd's own pruning of `mailaddr`.
The daemon: `SelectLocal`, `SelectExternal`, `SelectCidr`, `Apply`, for outgoing
mail and then for incoming. `FirstHit` is the two nested loops.

`last_id` are the counters of the two id columns: a number is never given again.

History: `due` has the values a listing may have after the commands that have
been reported, more than one while commands about it overlap, `possible` the listings in force at some moment since the request
came.

### DnsSpf

`stack` holds the frames of the functions that recurse; a frame is a record with
the names still to look at, in the stages include, a, mx. `Include`, `QueryA`,
`QueryMX`, `QueryHost` are queries; `num_queries` is the number passed down and
handed back; `queried_domains` the set of names already asked about. `mode`
tells which of the two callers asks. `issued`, `txt` and `exhausted` are history.

### SRS

`Forward` is `SRS.handle_srs_forward` at one server after the other, `Reverse`
the other channel, at any server the bounce passes, `Refuse` its answer `500`,
`Others` what other requests do to a connection's cache, `Deliver` a server
without the daemon, `Rotate` an administrator who replaces secrets, `NextDay`
midnight. An address is a record of its parts, and a keyed hash the pair of key
and text (an ideal hash). Of `valid_ts_cache` only the first element is kept,
from which the others follow.

### Senderscore

`ReceiveClient`, `SelectScore`, `QueryDns`, `QueryTimeout`, `JudgeScore` are the plugin, `AdminDelete`
and `AdminInsert` the two statements of `senderscore_admin.py`, the rest the
cleanup job. History: `reported` and `raced` are the addresses the tool has
reported, and those of them a page of the cleanup named already when the new row
was written; `heeded` marks a request that came after the report, `told` what
DNS has said.

## 4. Runs

| Run | Properties | Bounds |
|---|---|---|
| `throttle` | `CountersExact` `MostSpecific` `VerdictExact` `LossBounded` `NotifiedOnce` `CleanupTerminates` | settings from an administrator and four migrated quotas; 3 requests, time to 4, 2 cleanup runs, pages of 1 |
| `greylisting` | `EarnedPass` `PassedAlone` `PassRemembered` `RetryHeeded` | 4 requests of two clients, time to 8, 1 cleanup run, 1 failing statement; block 2, unauth 5, auth 2 |
| `channel` | `ReplyForRequest` `LoggedOnce` `OneVerdictPerRequest` `ServedWhole` | 3 messages, one not decodable; 2 segments may end inside a line; 5 log settings |
| `event_loop` | `ChannelsMapped` `Implements` `MailEnds` | 2 clients and the submission service, 3 connections, 2 requests, replies of 2 chunks, send buffer of 1, backlog 2, 1 mail, 1 fault |
| `dispatch` | `DecidedByPriority` `NoSpoof` `SendsAsEntitled` `OwnNamesAccepted` `WritersEntitled` `EntitledHeard` | a domain, its two aliases, sub-domains, a list, two users; every policy, both backends; two orders of all plugins, a missing connection, any query failing |
| `greylisting_admin` | `SettingsAsReported` `JudgedAsReported` `GrantedHonoured` `ImportListed` | 2 processes, 2 commands, 1 request, 1 import, 1 failing statement |
| `wblist` | `ListedAsReported` `VerdictJustified` `VerdictByPriority` | 2 processes, 2 commands, 1 request, 1 fault |
| `dnsspf` | `BudgetRespected` `Complete` `NoFalseAllow` | 7 domains that include one another in a loop, a budget of 8, 2 failing queries |
| `srs` | `BounceHome` `LossExplained` `ExpiredRejected` | 3 servers, two of which share a secret, 4 secrets, timestamps modulo 3, validity 2, days to 4, 3 hops, 1 rotation, 1 fault |
| `senderscore` | `WhitelistKeptUnlessRaced` `WhitelistHeeded` `RejectedForScore` `CacheFresh` | 3 clients, days to 2, 2 requests, 2 commands, 1 cleanup, 1 fault |

What the properties say that is not in their comments, or is easily misread:

- `VerdictExact` and `CountersExact` speak of the time before the first
  cleanup run (`cleanups = 0`); `LossBounded` says how far a counter is off
  after k runs: by at most k more limits' worth in one window. In this one run
  all of them hold together.
- `NotifiedOnce` is per counter and window. It leaves out a quota whose setting is not
  the one that limits messages (`OtherNotifyTime`), which the code judges by another
  row's `last_notify_time` (section 5): with a window of two ticks or more the
  administrator then hears twice.
- `EarnedPass`: who passes by the tracking table has waited `BLOCK_EXPIRE`
  since one of its triplets was taken as first seen.
- `OneVerdictPerRequest` holds even where `Served` does not.
- `DecidedByPriority` leaves out the plugins one of whose queries failed; that
  they do not hide the others is what it says.
- The type invariant of each module (`TypeOK`) is a conjunct of one of its
  invariants.

Why the bounds are enough. Three requests fill a limit of 2 and go over it; time
to 4 with periods 1 and 2 gives complete windows with requests at the boundary,
before it and after it; four greylisted requests are first contact, pass,
renewal and the deferral a lost row causes, and an `UnauthExpire` above
`BlockExpire + AuthExpire` makes `Accept` happen; two cleanup runs overlap one request
in either order, and pages of 1 make the loop turn. Two commands are enough for
one to come between any two statements of the other, and the import is a third
writer. The two requests to the loop are a client's and the one the submission
service makes for the mail, or those of two clients. Three connections over
three descriptors, the listener's included, make the kernel give a descriptor
out again within one round of events, and a send buffer of 1 makes every reply
of 2 chunks a partial send. Timestamps modulo 3 with a validity of 2 wrap
within the days of the run. The allowances in the
properties are needed within these bounds: without `cleanups + 1` in
`LossBounded`, `raced` in `PassRemembered` and in `WhitelistKeptUnlessRaced`, or
`TakenForSender` in `Wblist`, the runs fail.

Deadlock is not checked: a system without further requests stops rightly.

Fairness.
- `throttle`: weak fairness of the steps of a request in progress (`Serve`) and
  of the job (`Cleanup`), since neither waits for the other: statements are
  short transactions.
- `channel`: weak fairness of `Recv`, of the loop in `handle_read`, of Postfix
  reading the reply it waits for, and of its reconnecting.
- `event_loop`: weak fairness of the loop, of each client's reading what has
  come and noticing a closed connection, and of a timeout of the submission
  service alone (`utils.sendmail` waits for it; no other client has to give up
  for the loop to go on).
- Nowhere fairness of requests, cron, faults or the clock.

## 5. Disagreements with the docs

Two runs are expected to find a violation:

- `channel_stuck` (`Served`): a segment ends inside a line; `found_terminator`
  pops one of the two fragments; the blank line pops the other instead of
  handling the request, and Postfix waits.
- `event_loop_accept` (`AcceptsWhileAlive`): a connection aborted before it is
  accepted makes `accept()` return None; unpacking it raises; the error handler
  closes the listening socket, and the daemon lives on without accepting.

Seen while modelling and kept in the models as the code has it, without a run
of their own:

Channel, loop, dispatch
- an invalid address is answered at once with DUNNO, and the request is then
  still given to the plugins and answered again;
- session data is never cleared between the requests of a connection
  (harmless as long as Postfix sends every attribute: `ReplyForRequest`);
- an action `OK` at RCPT is logged again at END-OF-MESSAGE unless
  `LOG_SMTP_SESSIONS_BYPASS_WHITELIST` is on (`channel.py:169` tries "to avoid
  duplicate logging"); `LOG_SMTP_SESSIONS_BYPASS_DUNNO` is never used;
- `PLUGIN_PRIORITIES` has `*_force_change_password_in_days`, the files are
  named `*_force_change_password`: these plugins have priority 0; the comment on
  priorities in `default_settings.py` states the opposite of the sort in
  `utils.py:563`; `modeler` calls `engine.close()`, which engines do not have,
  and swallows the exception.

Throttle
- each cleanup run that deletes a row renewed meanwhile lets one more limit's
  worth through (`LossBounded`);
- rows of wildcard accounts are never found again, and accounts that are
  networks are never looked for: those limits do not apply;
- a `cur_quota` that does not fit its column is not stored, so that a larger
  `max_quota` is never reached; a failed INSERT is only logged;
- with `max_msgs` and `max_quota` from two settings the quota branch decides on
  a notification with the other row's `last_notify_time` (`throttle.py:597`), so that
  a second mail goes out in one window;
- the sender is charged although the recipient pass then rejects
  (`throttle.py:770`);
- the migration gives client addresses and `@domain` names priority 0, and
  `throttle.py`'s sample gives a user 10, below a domain's 60, until
  `fix_throttle_priority.py` has run.

Greylisting
- `list += string` adds characters, so no setting for `a.b.c.*` matches
  (`greylisting.py:357`);
- passed clients are let in after their whitelisting has run out, until the next
  cron job (`greylisting.py:110`); with `UNAUTH_TRIPLET_EXPIRE` above
  `AUTH_TRIPLET_EXPIRE` an accepted client is not marked (`greylisting.py:297`);
- `--disable --from <network>` stores sender_priority 0; a removed whitelisted
  domain keeps its rows in `greylisting_whitelist_domain_spf`; the migration
  inserts members of `no_greylisting` as active; `whitelist_outbound_recipient`
  names domains without the `@`, which are refused as invalid;
- in the SPF import a failed lookup empties a domain's whitelist; an address
  that two domains list can be lost until the next import; a domain met through
  an include is passed over.

SPF, SRS
- the first TXT query of a domain is not counted, and networks whose prefix does
  not end in `.0/` are ignored for a client;
- reversing an SRS1 address checks no timestamp; SQL failures are answered 500;
  a request line cut in two is answered `500 Unexpected input`.

White/blacklists, senderscore
- failed INSERTs of `mailaddr` and `wblist` are only logged, and success is
  reported; client networks come last whatever their priority; for outgoing mail
  ids of `mailaddr` are looked up among those of `users`
  (`amavisd_wblist.py:340`, `TakenForSender`);
- in `senderscore_admin.py` an address named twice, or cached by the daemon
  between the DELETE and the INSERT, fails the whole INSERT after the DELETE;
  a cleanup can remove a whitelisting put under an address it had selected,
  although lines 20-21 say it is "not cleaned".

Sender login, lists
- in SQL a failing query makes `reject_sender_login_mismatch` agree, in LDAP it
  rejects; an alias domain is resolved (`real_sender`) only where the check is
  strict; in LDAP the strict setting alone lets members send as an mlmmj list
  (`reject_sender_login_mismatch.py:270`, against its lines 89-93);
- a sub-domain of an alias domain is never accepted by the `subdomain` policy;
  a member who writes from one alias domain to the list in another is refused;
  `sql_ml_access_policy` looks moderators up by the address as written;
- in LDAP a `membersonly` list addressed through an alias domain raises, which
  lets everybody write; members of other domains are not found; the
  loop over `allowed_senders` removes from the list it iterates over; results for
  alias domains are bytes and match nothing; a domain that is unknown makes
  `get_primary_and_alias_domains` return None, and the join raises.

`daemon.py` says that `os.open` returns descriptor 0, which holds only when it
was closed before.

## 6. Proofs

### Greylisting_proofs

For every value of the constants that satisfies `ConstantsAssumption` (any
users, clients, settings, expiry times, numbers of requests, failures and
cleanup runs):

- `TypeCorrect`: `Spec => []TypeOK`.
- `PassIsEarned`: `Spec => []EarnedPass`. The plugin is there for this.

`ConstantsAssumption` asks for typed requests, natural numbers, a batch size and
a `BlockExpire` above zero. The order of the expiry times is not assumed.

`EarnedPass` is not inductive: that the daemon is about to let a client in says
something only together with the row it has read. `EarnedInv` adds

- `NowInv`: the `now` of a request is not in the future;
- `RowsBlock`: the triplet of every row was taken as first seen, and the row
  blocks it for at least `BlockExpire` from then: this ties the column the code
  compares to the history variable;
- `PassedWaited`: the triplet of a row that has passed has waited, which is what
  lets its client in at `RefreshPassed` however the row came to be passed;
- `ClientUnknown`: between `QueryPassed` and the write, a request that was not
  recognised has no passed row of its client, so that neither `InsertTriplet`
  nor `ResetTriplet` makes a row that has passed start to wait again;
- `TripletWaited`, `ClientWaited`: what the row that was read says about the
  triplet or the client, kept while the later statements are issued, since the
  cleanup job may meanwhile remove the very row.

`EarnedInit`, `EarnedDaemon` and `EarnedElsewhere` (job and clock) are the initial
state and the steps, one step of the proof per action.

On top of `EarnedInv`:

- `OneRowPerClient`: `Spec => []PassedAlone`, from the invariant `Alone`: once a row
  has passed, its client has rows of another kind only between `MarkPassed` and
  `DeleteOthers`, or after a failure.
- `RetryIsHeeded`: `Spec => RetryHeeded`. `RetryInv` says that the dates of a row are
  those of the contact it records (`RowDates`), that as long as nothing has failed
  and no cleanup ran a triplet seen before has a row unless its client passed
  (`SeenKnown`) and a row that was read is there when it is written (`RowStays`), so
  that what the daemon is about to do is what the dates say (`DatesHeeded`).
- `PromiseIsKept`: `Spec => PassRemembered`. `PromiseInv` says that a promise that
  lasts is kept by a row whose expiry is no earlier, unless the job took the row
  after its renewal, whatever else failed.

### SRS_proofs

For every value of the constants that satisfies `SRSAssumption` (any servers,
domains, secrets, senders, and any numbers of hops, rotations, days and faults;
`Lower` is idempotent) and `SendersAssumption` (mailboxes are at mail domains, none
at an `srs_domain`, which exists for rewritten addresses alone):

- `TypeCorrect`: `Spec => []TypeOK`.
- `BounceComesHome`: `Spec => []BounceHome`. Whatever servers rewrote an address
  and whichever relays reversed it, it still leads to the mailbox the message
  came from.
- `OldAddressesRefused`: `Spec => []ExpiredRejected`.
- `LossesExplained`: `Spec => []LossExplained`.

`HomeInv` is `TypeOK`, `BounceHome` and `Rooted(addr)`: the host of an address
that this software made, and the first hop it names, are servers that run it,
so that a bounce is delivered elsewhere only under its plain address.
`RewriteKeepsHome`, `ReverseKeepsHome` and `FoldingKeepsHome` say that each of the
three things that can happen to an address keeps what `Home` finds in it, up to
case; `AddressForms`, `SmallOpaque` and `TimestampOf` are the facts about the
records they rest on.

`AgeInv` adds `Kept(addr)`, that the hashes and the timestamp in an address are
still those its makers put there (so a hash that does not verify means that the
secret has gone), and `Dated`, that what was reversed as SRS0 was reversed within
the validity, modulo the day the timestamps repeat. `OneRemainder` is the division
that the timestamps need, `TimestampFound` the search in the cached list of valid
ones, whatever day the cache dates from. `RefusedForCause` goes through the reasons
why a server answers 500.

### Senderscore, in Dispatch_proofs

For every value of the constants that satisfies `SenderscoreAssumption` (any
finite set of clients, any commands, scores, page size, and any numbers of days,
requests, commands, cleanups and faults; the tool's date is beyond every day, and
the rejecting score below 100), type correctness (`ScoreTypes`) and all four
properties of the run:

- `WhitelistKept`: `ScoreSpec => []WhitelistKeptUnlessRaced`. `KeptInv` adds that the
  cleanup's expiry is no later than the last day, so that no whitelisting row
  expires, and that the page about to be deleted names no address that was
  reported and not raced for. One step of `KeptInvStep` per statement that writes
  the table; `JudgeScore` leans on the INSERT failing on a row that is there.
- `Heeded`: `ScoreSpec => []WhitelistHeeded`. `HeededInv` adds that the addresses of a
  command between its two statements are not reported, and that a request that
  came after the report never gets as far as DNS and judges the score 100.
- `RejectedOnlyForScore`: `ScoreSpec => []RejectedForScore`. `ToldInv` says the same of
  the low scores in the table and of the one in the daemon's hands.
- `Fresh`: `ScoreSpec => []CacheFresh`. `FreshInv` keeps a finished or running
  cleanup's expiry behind the clock, so that what is stored later is not too old;
  `EmptyPage` is the loop's exit: a page is empty only if nothing has expired.

### EventLoop_proofs

For every value of the constants that satisfies `EventLoopAssumption` (any clients,
any finite set of descriptors, any lengths and numbers above zero):

- `TypeCorrect`, and `MapsAgree`: `Spec => []ChannelsMapped`. `LoopInv` adds to the
  map and the descriptors agreeing (`MapAgrees`) that a connection is queued at most
  once and before it has a descriptor (`QueueAgrees`), where the loop is
  (`LoopAt`), and that who waits has a connection (`ClientsAt`).
- `ImplementsSafety`: `Spec => Service!Safety`, the initial state and every step of
  `PolicyService` under the refinement mapping, that is `Implements` without its
  fairness. `ReplyInv` adds that each connection has one client, and that a client's
  request is at one of four stages: none, unread, being judged, or answered; in the
  last, what the client has taken, what the kernel holds and what the channel has
  not sent are, in this order, the reply. So no step can give a client another's
  reply, a part of one twice, or one with a part missing, although descriptors are
  used again. Most steps leave all of that alone for all clients (`StaysAt`); the
  others have a lemma each.

### PolicyChannel, in EventLoop_proofs

For any attributes, messages, verdicts and numbers of cut lines that satisfy
`PolicyChannelAssumption`:

- `OneVerdict`: `ChannelSpec => []OneVerdictPerRequest`, wherever TCP cuts the stream.
  `VerdictInv` counts: the verdicts given, taken or not, and the blank lines still in
  the stream are no more than the requests asked. A blank line is a newline after a
  newline, or one at the head of a stream when no fragment has been collected; taking
  any prefix of the stream moves none of them (`Stream` is what was read and what was
  not), collecting a fragment removes the one a cut would have made.
- `RepliesInStep`: `ChannelSpec => []ReplyForRequest`, given `RegularMessages`: the
  lines of a request name different attributes, all requests the same ones, and no
  address in them is one `utils.is_email` refuses. Postfix writes its requests so, and
  without it the property is false: session data is never cleared, and an invalid
  address is answered twice. `InStepInv` says that as long as no segment has ended
  inside a line the channel has read j lines of the request in hand, has the rest of
  exactly this request before it, and holds the values of the j lines.
- `MessagesLoggedOnce`: `ChannelSpec => []LoggedOnce`, given also `TellApart`: every
  message has an `instance` of its own. `LogInv` adds what has been logged of the
  message in hand at each of its two states.

### GreylistingAdmin_proofs

For any commands, addresses, processes, domains and bounds that satisfy
`InputsAssumption`: what the tables hold at first satisfies their unique index and
has the priorities the tools give; rows with the import's comment are addresses or
networks; commands are those the tools have.

- `ReportsHold`: `Spec => []SettingsAsReported`. `AdminInv` adds the shape of what a
  process has left (`TodoInv`: a delete of a setting comes first, and what replaces
  it comes next), what the import holds, and `SettingsAgree`, that a row says what
  was last reported and that a reported pair has a row, is lost or is being
  replaced.
- `GrantsHold`: `Spec => []GrantedHonoured`. `ImportedRows` and `GrantedKept` say that
  the import deletes only rows with its own comment, so that what was granted stays;
  `DueKept` follows that through the daemon's three SELECTs.
- `ImportComplete`: `Spec => []ImportListed`. `ListedInv` says of every address an
  import has found that it is still to be written (`Pending`), or has a row that what is
  left of the import does not delete (`Kept`), or was passed over because of the row of a
  domain that names it no more (`PassedOver`); it leans on no domain being answered for
  twice (`Distinct`).
- `VerdictAsReported`: `Spec => JudgedAsReported`, from `SettingsAgree` and the order
  in which the daemon sorts what it finds.

### Wblist_proofs

For any administrators, commands, initial tables, requests and bounds that satisfy
`WblistAssumption`: the initial tables keep to their unique indexes and refer to each
other, and a client is an address.

- `ReportedListed`: `Spec => []ListedAsReported`. `ListInv` has four parts: `Tables`
  and `Lists` say that a number stands for one account or address and is never given
  again, and that a listing has one row; `Jobs`, that what a command has read stays true
  but for addresses that are pruned, and, while no other command is about its listings,
  how far its own statements have brought them (`AddAlone`, `DeleteAlone`); `Values`,
  that what is in force is among the values `due`.
- `VerdictsJustified`: `Spec => VerdictJustified`. `Asked` and `Selected` say that the
  ids a request holds are of addresses about it, and that any row which has two of them
  is of a listing that was in force at some moment since the request came (`HeldOK`),
  though an address may have been pruned since: its number is not given again.
- `VerdictsByPriority`: `Spec => VerdictByPriority`. `Undisturbed` says that a request
  which no command overlaps and of which no statement fails holds all that the tables
  have about it (`Complete`), but for rows pruned meanwhile, which are on no list.
  `HitFirst`, `HitSome` and `FirstIsForemost` are about the nested loops: the row they
  meet first is of the foremost listing. For outgoing mail `Complete` also carries over
  to the recipient's list that the sender's did not refuse.

### DnsSpf_proofs

For every DNS that satisfies `DnsAssumption`: finitely many domains, among which
the names in the records are, and any records, cyclic ones included.

- `TypeCorrect`; `QueriesBounded`: `Spec => []BudgetRespected`. No two frames are
  about the same domain, so that the stack is no deeper than there are domains
  (`Depth`), and `BudgetInv` accounts for the queries of the domains that are done
  and of the one in progress.
- `OnlyNamedAllowed`: `Spec => []NoFalseAllow`. `SoundInv` says that every frame, mark
  and network comes from a record that a domain asked about reaches by includes.
- `FindsAllAndOnly`: `Spec => []Complete`. `CompleteInv` says, while nothing has failed
  or been left out, what is already found for a name that is marked (`NamesDone`),
  for a record whose frame has gone (`RecordsDone`) and for a frame on the stack
  (`FramesDone`). The marks are shared between all domains, so a record that includes
  one in progress above it is finished only later: `RecordsDone` speaks of marked
  names, not of closed records, and the closure under includes is taken at the end.

### Throttle_proofs

For every value of the constants that satisfies `ConstantsAssumption` (any finite
set of settings, any requests, clock, page size and cleanups):

- `TypeCorrect`: `Spec => []TypeOK`.
- `CountersAreExact`: `Spec => [](Regular => CountersExact)`, and
  `VerdictsAreExact`: `Spec => VerdictExact`, given `Regular`: the two integer columns
  hold every sum, and no setting is of a wildcard account. Without either the two
  properties are false of the code (section 5): a sum that does not fit is not
  stored, and rows of wildcard accounts are not found again.
- `SpecificFirst`: `Spec => []MostSpecific`, given `PrioritiesFixed`: every setting has
  the priority that `fix_throttle_priority.py` gives. That its pages do give it is
  checked by the run, which computes them; it is an induction over the pages.
- `NotifiedOncePerWindow`: `Spec => NotifiedOnce`, with nothing assumed of columns,
  accounts or cleanups. `NotifyInv` says that a notification on its way is about a row
  whose `last_notify_time` is still the one that was read, if the row is still there,
  and that every row has the period of its setting; so the dates that made the mail due
  are those of the row it is then written to.

- `LossIsBounded`: `Spec => LossBounded`, given `Regular` and `JudgedOrNot`: no counter
  that the `max_msgs` of its setting judges also takes messages it has not judged.
  Without the latter the property is false. When one setting supplies only the quota to
  a client whose own setting limits messages first, its counter grows without being
  judged by its own `max_msgs`; once a cleanup has taken the row, a request of another
  client of the same user may pass. TLC finds this with two clients and three settings.
  The run's settings satisfy both hypotheses.

`RuleInv` says where a rule comes from, `RowInv` that ids are unique and a row counts
for a client or a user as its setting's account says, so that the SELECT finds the
counters the message is charged to and no others (`RowsFound`, `CopiesExact`).
`CountInv` is the heart: between two requests each counter in the table is exact, and
between two statements that record a message each is either exact or about to be
written from a copy that is (`WriteInv`). `SameMessage` is the case of two rules that
share a row.

`LossInv` is what remains of that once rows are deleted under the daemon's hands.
`Room` relates the exact window of a counter to the totals its row holds, or will hold
after the statements still to be made (`Due`): each cleanup so far has let at most one
limit through that the row does not show. One limit is held back for a row the job in
progress may yet delete (`AtRisk`), and one for a row whose own window began before the
exact one and will end before it. So a deletion (`RoomGone`) spends what was held back, a new run (`RoomMore`) brings one
limit more, and a message within the limit is counted on both sides (`RoomCounted`).
`WriteSafe` says that the statements of a message meet the row they were made from or
none, so that a write lost to the job is never one to somebody else's row.

### Dispatch_proofs

For all settings, directories, orders of plugins and requests that satisfy
`DispatchAssumption`, type correctness and all six properties of the run:
`HighestDecides`, `NobodySpoofs`, `SendersEntitled`, `OwnNamesUsable`,
`OnlyEntitledWrite` and `MembersHeard`.

What is assumed is what the code reads for granted or the tables guarantee: names of
mail domains have a dot (`is_domain`), an alias domain is no mail domain of its own,
a mailbox is one of its user's addresses, who authenticated has a mailbox, an
address is that of one list only and in the list's domain or an alias of it, lists in
`maillists` are mlmmj's, in LDAP the members in a list's own domain are users, and
only plugins for the backend in use are enabled.

`OrderInv` says how far the plugins have been asked: what is left is the end of the
loaded list, those before have not refused unless a query of theirs failed, and the
verdict is that of the last one asked. `Loading` shows that the loaded list is sorted
and complete for every order in `settings.py`, by counting the plugins ahead of each.
`HighestDecides` follows with `TiesAgree`; `AgreedMeans` and `RefusedMeans` turn the
other five into statements about `Judge`, proved plugin by plugin: what each query of
`Directory` finds (`...Mean`, `...Means`), then who is let in (`...Entitled`) and who
is refused (`...Unheard`).

### What is only model-checked

The inductive invariants of the proofs were checked by TLC on the instances of the
runs before they were proved.

- Liveness: `CleanupTerminates`, `ServedWhole`, `MailEnds` and the fairness part of
  `Implements`. The prover treats neither fairness nor ENABLED.
- The recursive definitions as such: `FixPriorities` and `Migrate` of
  `ThrottleSettings` (induction over the rows).

## 7. Left out

- Wording of replies, logging to files, quoting, connection pools, reconnects
  to SQL.
- The PostgreSQL variant, except for the missing unique index
  (`UniqueTidAccount`).
- SELECTs of throttle that raise, and settings that change during a throttle
  request: a counter is kept by the id of its setting, and what should become of
  a request under a deleted one is nowhere said.
- `flush_before_import` of `libs/wblist.py`, which every caller leaves off.
- LDAP's form of `get_alias_target_domain` for the throttle plugin.
- The `smtp_sessions` pass of the cleanup job: the same loop on a table that
  nothing reads.
- Time-outs of DNS as such: a query answers, finds nothing or fails.
- Start-up and packaging (`daemon.py`, `logger.py`, `rc_scripts`,
  `upgrade_iredapd.sh`): one sequential pass without shared state; what `main()`
  opens before the loop runs is in `EventLoop` and `Dispatch`.
- Vendored `web.py`: of it only SQL quoting and a database handle are used.
