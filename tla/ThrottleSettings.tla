--------------------------- MODULE ThrottleSettings ---------------------------
(***************************************************************************)
(* Where the rows of table `throttle` come from: an administrator's INSERT *)
(* statements, tools/migrate_cluebringer_throttle.py, which takes over the *)
(* quotas of Cluebringer, and tools/fix_throttle_priority.py, which gives  *)
(* every row the priority of its account's type.  The plugin goes by the   *)
(* column, so what these tools leave there decides whose limit applies.    *)
(*                                                                         *)
(* A table is the sequence of its rows by id.  No other statement changes  *)
(* it while a tool runs.                                                   *)
(***************************************************************************)
EXTENDS Throttle, Sequences

A == INSTANCE Addresses
S == INSTANCE SequencesExt

CONSTANT AddressOf   \* the address that the text of an account is

\* conn.query(INSERT): the row gets the next id, or the unique index on account and
\* kind refuses it, which is logged.
InsertSetting(table, s) ==
  IF \E i \in DOMAIN table : table[i].account = s.account /\ table[i].kind = s.kind THEN table
  ELSE Append(table, [s EXCEPT !.id = Len(table) + 1])

-----------------------------------------------------------------------------
(* migrate_cluebringer_throttle.py.  A quota is [id, of, kind, period,     *)
(* disabled]: its name is `default_` or what it is of, with its kind; a    *)
(* limit is [quotasid, type, counterlimit].                                *)

\* The account of a quota: a domain gets its `@`, everything else is kept.
QuotaAccount(q) ==
  IF q.of.form = "domain" /\ A!IsDomain(q.of.domain) THEN A!AtDomain(q.of.domain) ELSE q.of

\* Only full addresses and domains get the priority of their type.
QuotaPriority(q) ==
  IF q.of.form \in {"user@domain", "domain"} /\ A!IsDomain(q.of.domain)
    THEN A!AccountPriority(QuotaAccount(q)) ELSE 0

\* The last limit of that type, or -1.
QuotaLimit(q, limits, type) ==
  LET of == SelectSeq(limits, LAMBDA l : l.quotasid = q.id /\ l.type = type)
  IN  IF of = <<>> THEN -1 ELSE of[Len(of)].counterlimit

Migrated(q, limits) ==
  [id |-> 0, account |-> QuotaAccount(q), kind |-> q.kind, priority |-> QuotaPriority(q),
   period |-> q.period,
   limit |-> [msg_size  |-> -1, max_rcpts |-> -1,
              max_msgs  |-> QuotaLimit(q, limits, "MessageCount"),
              max_quota |-> QuotaLimit(q, limits, "MessageCumulativeSize")]]

\* The default quotas first, then those of accounts; the disabled ones stay behind.
Migrate(table, quotas, limits) ==
  LET Enabled(default) ==
        SelectSeq(quotas, LAMBDA q : ~q.disabled /\ (q.of = A!Catchall <=> default))
  IN  S!FoldLeft(LAMBDA t, q : InsertSetting(t, Migrated(q, limits)),
                 table, Enabled(TRUE) \o Enabled(FALSE))

-----------------------------------------------------------------------------
(* fix_throttle_priority.py                                                *)

\* utils.get_account_priority
Fixed(row) == [row EXCEPT !.priority = A!AccountPriority(row.account)]

FixPrioritiesOnePage(table, batch_size) ==     \* seeded fault: only the first page
  [i \in DOMAIN table |-> IF i <= batch_size THEN Fixed(table[i]) ELSE table[i]]

\* Pages of batch_size rows by id, until as many are processed as there were.
FixPriorities(table, batch_size) ==
  LET total_count == Len(table)
      Rows(processed) == SubSeq(table, processed + 1,
                                IF processed + batch_size > total_count
                                  THEN total_count ELSE processed + batch_size)
      page[processed \in 0..total_count] ==
        LET rows == Rows(processed)
        IN  IF rows = <<>> THEN <<>>
            ELSE [i \in DOMAIN rows |-> Fixed(rows[i])] \o page[processed + Len(rows)]
  IN  page[0]

-----------------------------------------------------------------------------
\* Once the priorities are fixed, each limit the plugin applies is that of the most
\* specific account which has one: the user's before the domain's, the domain's
\* before everybody's, whoever wrote the row and whatever priority they gave it
\* (fix_throttle_priority.py:50-72, throttle.py:275-335).
MostSpecific ==
  pc \in {"tracking", "notify", "write"} =>
    \A r \in Rules : \A s \in Matching :
      s.limit[r] >= 0 =>
        /\ rule[r] # NoSetting
        /\ A!AccountPriority(AddressOf[s.account])
             <= A!AccountPriority(AddressOf[rule[r].account])
=============================================================================
