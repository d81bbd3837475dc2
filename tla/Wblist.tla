------------------------------- MODULE Wblist -------------------------------
(***************************************************************************)
(* Per-account white- and blacklists: tools/wblist_admin.py writes them    *)
(* through libs/wblist.py, plugin amavisd_wblist applies them.  They are   *)
(* kept in the tables of Amavisd: users and mailaddr number the local      *)
(* accounts and the addresses listed, wblist and outbound_wblist hold      *)
(* pairs of those numbers, for mail that comes in and mail that goes out.  *)
(*                                                                         *)
(* One action per SQL statement, each a transaction of its own.  Several   *)
(* administrators, a daily job that prunes mailaddr (which is not in the   *)
(* repository; libs/wblist.py:284 counts on it) and a request interleave;  *)
(* statements may fail.                                                    *)
(***************************************************************************)
EXTENDS Addresses, Integers, Functions

CONSTANTS
  Admin,        \* processes that give commands
  Commands,     \* commands they may give
  Requests,     \* requests Postfix may send
  AliasTarget,  \* domains that an alias domain stands for, of each domain
  LocalDomains, \* domains hosted here, alias domains left out
  InitLists,    \* listings earlier commands made: direction, account, address, value
  InitUsers, InitMailaddr,   \* accounts and addresses in the order of their rows
  BypassOutgoing,   \* WBLIST_BYPASS_OUTGOING_EMAIL
  MaxCommands, MaxRequests, MaxFaults   \* bounds; faults are prunings and failed statements

VARIABLES
  users, mailaddr,          \* tables: sets of [id, email]
  last_id,                  \* the number each of the two has given last (AUTO_INCREMENT)
  wblist, outbound_wblist,  \* tables: sets of [rid, sid, wb]
  proc,                     \* the command of each process and its locals
  (* the daemon *)
  pc, req, direction, local_ids, ext_ids, cidr_ids, cidr_checked, verdict,
  (* history *)
  commands, requests, cleanups, failures,
  due,        \* values each listing may have: "W", "B" or "none"
  possible,   \* listings that may have been in force since the request came
  quiet       \* no command ran since the request came

lists      == <<wblist, outbound_wblist>>
daemonVars == <<pc, req, direction, local_ids, ext_ids, cidr_ids, cidr_checked, verdict, requests>>
vars == <<users, mailaddr, last_id, lists, proc, commands, cleanups, failures, due, possible, quiet, daemonVars>>

\* A listing: direction, account, address.
Listed == (UNION {c.addresses : c \in Commands}) \cup {l[3] : l \in InitLists}
Pairs  == {<<l[1], l[2], a>> : l \in {<<c.direction, c.account>> : c \in Commands}
                                     \cup {<<l[1], l[2]>> : l \in InitLists}, a \in Listed}

\* What earlier commands left: each account and address has one row, each listing one value.
\* A client is an address.
ASSUME WblistAssumption ==
  /\ Commands \subseteq [op : {"add", "delete", "delete-all"}, direction : {"inbound", "outbound"},
                         account : {c.account : c \in Commands}, addresses : SUBSET Listed,
                         wb : {"W", "B"}]
  /\ InitUsers \in Seq(Range(InitUsers)) /\ IsInjective(InitUsers)
  /\ InitMailaddr \in Seq(Range(InitMailaddr)) /\ IsInjective(InitMailaddr)
  /\ InitLists \subseteq {"inbound", "outbound"} \X Range(InitUsers) \X Range(InitMailaddr) \X {"W", "B"}
  /\ \A l, k \in InitLists : <<l[1], l[2], l[3]>> = <<k[1], k[2], k[3]>> => l = k
  /\ \A r \in Requests : r.client.form = "ip"

\* The listings a command is about.
PairsOf(c) ==
  {pair \in Pairs : /\ pair[1] = c.direction /\ pair[2] = c.account
                    /\ c.op = "delete-all" \/ pair[3] \in c.addresses}

\* A number is not given again, even if its row is deleted.
NewId(table)         == last_id[table] + 1
Insert(rows, table, email) == rows \cup {[id |-> NewId(table), email |-> email]}
NumberGiven(table)   == last_id' = [last_id EXCEPT ![table] = NewId(table)]
Stored(rows, email)  == \E row \in rows : row.email = email

\* In wblist the account is the recipient, in outbound_wblist the sender.
Table(dir)          == IF dir = "inbound" THEN wblist ELSE outbound_wblist
AccountId(dir, row) == IF dir = "inbound" THEN row.rid ELSE row.sid
AddressId(dir, row) == IF dir = "inbound" THEN row.sid ELSE row.rid
NewRow(dir, account_id, address_id, wb) ==
  IF dir = "inbound" THEN [rid |-> account_id, sid |-> address_id, wb |-> wb]
                     ELSE [rid |-> address_id, sid |-> account_id, wb |-> wb]

\* get_account_wblist, get_account_outbound_wblist: the join of three tables.
InForce(pair) ==
  {row.wb : row \in {r \in Table(pair[1]) :
      /\ \E u \in users : u.email = pair[2] /\ u.id = AccountId(pair[1], r)
      /\ \E m \in mailaddr : m.email = pair[3] /\ m.id = AddressId(pair[1], r)}}

-----------------------------------------------------------------------------
(* Commands: add, delete and delete-all *)

Idle        == [pc |-> "idle"]
Runs(p)     == proc[p].pc # "idle"
At(p, l)    == proc[p].pc = l

CommandElsewhere == UNCHANGED <<commands, cleanups, quiet, daemonVars>>

\* Addresses of no kind are dropped, an account of none is refused.  A listing may end
\* without a value if what deletes this value runs already, or finds it.
Give(p) ==
  /\ ~Runs(p) /\ commands < MaxCommands
  /\ commands' = commands + 1
  /\ quiet' = FALSE
  /\ \E c \in Commands :
       LET valid  == [c EXCEPT !.addresses = {a \in c.addresses : AddressType(a) # "invalid"}]
           others == {q \in Admin : Runs(q) /\ PairsOf(proc[q].cmd) \cap PairsOf(valid) # {}}
           deleters(pair) == {q \in others : /\ proc[q].cmd.op # "add" /\ proc[q].cmd.wb = c.wb
                                             /\ pair \in PairsOf(proc[q].cmd)}
           New(pair) == IF c.op = "add" THEN {c.wb} \cup {"none" : q \in deleters(pair)}
                        ELSE {"none" : v \in due[pair] \cap {c.wb}}
       IN  /\ AddressType(c.account) # "invalid"
           /\ proc' = [q \in Admin |->
                 IF q = p THEN [pc |-> "user", cmd |-> valid, user |-> 0, left |-> valid.addresses,
                                ids |-> {}, alone |-> others = {}]
                 ELSE IF q \in others THEN [proc[q] EXCEPT !.alone = FALSE] ELSE proc[q]]
           /\ due' = [pair \in Pairs |->
                 IF pair \in PairsOf(valid) THEN due[pair] \cup New(pair) ELSE due[pair]]
  /\ possible' = IF pc = "idle" THEN possible
                 ELSE possible \cup {l \in Pairs \X {"W", "B"} : l[2] \in due'[l[1]]}
  /\ UNCHANGED <<users, mailaddr, last_id, lists, cleanups, failures, daemonVars>>

\* The statement after the account is known.
AfterUser(c) ==
  IF c.op = "delete-all" THEN "delete"
  ELSE IF c.addresses = {} THEN "report"
  ELSE IF c.op = "add" THEN "mailaddr" ELSE "ids"

\* The INSERT of one address is behind the command, or of the last one.
Done(j, a) ==
  [j EXCEPT !.left = j.left \ {a},
            !.pc = IF j.left # {a} THEN j.pc ELSE IF j.pc = "mailaddr" THEN "ids" ELSE "report"]

\* get_user_record; the record that create_user inserts is read back.
GetUser(p) ==
  /\ At(p, "user")
  /\ LET j == proc[p]
     IN  proc' = [proc EXCEPT ![p] =
           IF Stored(users, j.cmd.account)
             THEN [j EXCEPT !.pc = AfterUser(j.cmd),
                            !.user = (CHOOSE u \in users : u.email = j.cmd.account).id]
             ELSE [j EXCEPT !.pc = "create"]]
  /\ UNCHANGED <<users, mailaddr, last_id, lists, failures, due, possible>> /\ CommandElsewhere

\* Another process may have inserted the account: the command then fails.
CreateUser(p) ==
  /\ At(p, "create")
  /\ IF Stored(users, proc[p].cmd.account)
       THEN proc' = [proc EXCEPT ![p] = Idle] /\ UNCHANGED <<users, last_id>>
       ELSE /\ users' = Insert(users, "users", proc[p].cmd.account) /\ NumberGiven("users")
            /\ proc' = [proc EXCEPT ![p].pc = AfterUser(proc[p].cmd), ![p].user = NewId("users")]
  /\ UNCHANGED <<mailaddr, lists, failures, due, possible>> /\ CommandElsewhere

\* create_mailaddr: addresses that are there already are passed over.
CreateMailaddr(p) ==
  /\ At(p, "mailaddr")
  /\ \E a \in proc[p].left :
       /\ IF Stored(mailaddr, a) THEN UNCHANGED <<mailaddr, last_id>>
          ELSE mailaddr' = Insert(mailaddr, "mailaddr", a) /\ NumberGiven("mailaddr")
       /\ proc' = [proc EXCEPT ![p] = Done(proc[p], a)]
  /\ UNCHANGED <<users, lists, failures, due, possible>> /\ CommandElsewhere

SelectIds(p) ==
  /\ At(p, "ids")
  /\ LET ids == {m \in mailaddr : m.email \in proc[p].cmd.addresses}
     IN  proc' = [proc EXCEPT ![p].ids = ids, ![p].left = {m.email : m \in ids},
                              ![p].pc = IF ids = {} THEN "report" ELSE "delete"]
  /\ UNCHANGED <<users, mailaddr, last_id, lists, failures, due, possible>> /\ CommandElsewhere

SetTable(dir, rows) ==
  IF dir = "inbound" THEN wblist' = rows /\ UNCHANGED outbound_wblist
                     ELSE outbound_wblist' = rows /\ UNCHANGED wblist

DeleteRowsOfAnyAccount(p) ==     \* seeded fault: WHERE lacks the account
  /\ At(p, "delete")
  /\ LET c == proc[p].cmd
         Chosen(row) == /\ c.op = "delete-all" \/ \E m \in proc[p].ids : m.id = AddressId(c.direction, row)
                        /\ c.op = "add" \/ row.wb = c.wb
     IN  SetTable(c.direction, {row \in Table(c.direction) : ~Chosen(row)})
  /\ proc' = [proc EXCEPT ![p].pc = IF proc[p].cmd.op = "add" THEN "insert" ELSE "report"]
  /\ UNCHANGED <<users, mailaddr, last_id, failures, due, possible>> /\ CommandElsewhere

\* What was listed under either value before an add, under this one otherwise.
DeleteRows(p) ==
  /\ At(p, "delete")
  /\ LET c == proc[p].cmd
         Chosen(row) ==
           /\ AccountId(c.direction, row) = proc[p].user
           /\ c.op = "delete-all" \/ \E m \in proc[p].ids : m.id = AddressId(c.direction, row)
           /\ c.op = "add" \/ row.wb = c.wb
     IN  SetTable(c.direction, {row \in Table(c.direction) : ~Chosen(row)})
  /\ proc' = [proc EXCEPT ![p].pc = IF proc[p].cmd.op = "add" THEN "insert" ELSE "report"]
  /\ UNCHANGED <<users, mailaddr, last_id, failures, due, possible>> /\ CommandElsewhere

\* The primary key (rid, sid) refuses a second value, which is only logged.
InsertRow(p) ==
  /\ At(p, "insert")
  /\ LET c == proc[p].cmd
     IN  \E m \in proc[p].ids :
           LET row == NewRow(c.direction, proc[p].user, m.id, c.wb)
               refused == \E r \in Table(c.direction) : r.rid = row.rid /\ r.sid = row.sid
           IN  /\ m.email \in proc[p].left
               /\ SetTable(c.direction, IF refused THEN Table(c.direction)
                                        ELSE Table(c.direction) \cup {row})
               /\ proc' = [proc EXCEPT ![p] = Done(proc[p], m.email)]
  /\ UNCHANGED <<users, mailaddr, last_id, failures, due, possible>> /\ CommandElsewhere

\* (True, ) goes back to wblist_admin.py.
Report(p) ==
  /\ At(p, "report")
  /\ LET c == proc[p].cmd
     IN  due' = [pair \in Pairs |->
                   IF ~proc[p].alone \/ pair \notin PairsOf(c) THEN due[pair]
                   ELSE IF c.op = "add" THEN {c.wb} ELSE due[pair] \ {c.wb}]
  /\ proc' = [proc EXCEPT ![p] = Idle]
  /\ UNCHANGED <<users, mailaddr, last_id, lists, failures, possible>> /\ CommandElsewhere

\* A failed INSERT is passed over; any other failed statement ends the command.
StatementFails(p) ==
  /\ Runs(p) /\ ~At(p, "report") /\ cleanups + failures < MaxFaults
  /\ failures' = failures + 1
  /\ due' = [pair \in Pairs |-> IF pair \in PairsOf(proc[p].cmd) THEN due[pair] \cup {"none"} ELSE due[pair]]
  /\ IF At(p, "mailaddr") \/ At(p, "insert")
       THEN \E a \in proc[p].left :
              proc' = [proc EXCEPT ![p] = [Done(proc[p], a) EXCEPT !.alone = FALSE]]
       ELSE proc' = [proc EXCEPT ![p] = Idle]
  /\ UNCHANGED <<users, mailaddr, last_id, lists, possible>> /\ CommandElsewhere

Command(p) ==
  \/ Give(p) \/ GetUser(p) \/ CreateUser(p) \/ CreateMailaddr(p) \/ SelectIds(p)
  \/ DeleteRows(p) \/ InsertRow(p) \/ Report(p) \/ StatementFails(p)

\* The daily job deletes the addresses nothing refers to.
CleanupMailaddr ==
  /\ cleanups + failures < MaxFaults
  /\ cleanups' = cleanups + 1
  /\ LET used == {row.sid : row \in wblist} \cup {row.rid : row \in outbound_wblist}
         gone == {m.email : m \in {m \in mailaddr : m.id \notin used}}
         hit  == {p \in Admin : Runs(p) /\ proc[p].cmd.addresses \cap gone # {}}
     IN  /\ mailaddr' = {m \in mailaddr : m.email \notin gone}
         /\ proc' = [p \in Admin |-> IF p \in hit THEN [proc[p] EXCEPT !.alone = FALSE] ELSE proc[p]]
         /\ due' = [pair \in Pairs |->
              IF \E p \in hit : pair \in PairsOf(proc[p].cmd) THEN due[pair] \cup {"none"} ELSE due[pair]]
  /\ UNCHANGED <<users, last_id, lists, commands, failures, possible, quiet, daemonVars>>

-----------------------------------------------------------------------------
(* A request of the daemon *)

\* The addresses of the target when the domain is an alias.
WithTarget(mail) ==
  PolicyAddresses(mail)
    \cup UNION {PolicyAddresses(Email(mail.user, d)) : d \in AliasTarget[mail.domain]}

Senders(r) ==
  WithTarget(r.sender) \cup (IF r.sasl THEN {} ELSE {Anywhere(<<r.sender.user[1]>>)})
    \cup {r.client} \cup WildcardIPv4(r.client)
Recipients(r) == WithTarget(r.recipient)

Accounts(dir, r)  == IF dir = "inbound" THEN Recipients(r) ELSE Senders(r)
Externals(dir, r) == IF dir = "inbound" THEN Senders(r) ELSE Recipients(r)

\* Does the list of the recipient apply too?
CheckInbound(r) ==
  \/ ~r.sasl
  \/ r.sender.domain = r.recipient.domain
  \/ AliasTarget[r.recipient.domain] # {}
  \/ r.recipient.domain \in LocalDomains

DaemonElsewhere ==
  UNCHANGED <<users, mailaddr, last_id, lists, proc, commands, cleanups, due>>

Receive ==
  /\ pc = "idle" /\ requests < MaxRequests
  /\ requests' = requests + 1
  /\ req' \in Requests
  /\ pc' = IF req'.sender = req'.recipient THEN "idle" ELSE "local"
  /\ direction' = IF req'.sasl THEN "outbound" ELSE "inbound"
  /\ UNCHANGED <<local_ids, ext_ids, cidr_ids, cidr_checked>>
  /\ verdict' = IF req'.sender = req'.recipient THEN "DUNNO" ELSE "none"
  /\ possible' = {l \in Pairs \X {"W", "B"} : l[2] \in due[l[1]]}
  /\ quiet' = \A p \in Admin : ~Runs(p)
  /\ UNCHANGED failures /\ DaemonElsewhere

\* A SELECT may fail; it is then as if it had found nothing.
Outcome    == {TRUE} \cup (IF cleanups + failures < MaxFaults THEN {FALSE} ELSE {})
Counted(ok) == failures' = IF ok THEN failures ELSE failures + 1
ReadElsewhere == UNCHANGED <<req, direction, verdict, requests, possible, quiet>> /\ DaemonElsewhere

\* get_id_of_local_addresses
SelectLocal ==
  /\ pc = "local"
  /\ \E ok \in Outcome :
       /\ Counted(ok)
       /\ local_ids' = IF ok THEN {u \in users : u.email \in Accounts(direction, req)} ELSE {}
  /\ ext_ids' = {}
  /\ pc' = IF local_ids' = {} THEN "apply" ELSE "external"
  /\ UNCHANGED <<cidr_ids, cidr_checked>> /\ ReadElsewhere

\* get_id_of_external_addresses
SelectExternal ==
  /\ pc = "external"
  /\ \E ok \in Outcome :
       /\ Counted(ok)
       /\ ext_ids' = IF ok THEN {m \in mailaddr : m.email \in Externals(direction, req)} ELSE {}
  /\ pc' = IF cidr_checked THEN "apply" ELSE "cidr"
  /\ UNCHANGED <<local_ids, cidr_ids, cidr_checked>> /\ ReadElsewhere

SelectCidrOfFirstField ==     \* seeded fault: LIKE only
  /\ pc = "cidr"
  /\ \E ok \in Outcome :
       /\ Counted(ok)
       /\ cidr_ids' = IF ok THEN {m \in mailaddr : /\ m.email.form = "network"
                                                  /\ m.email.domain[1] = req.client.domain[1]}
                      ELSE {}
  /\ cidr_checked' = TRUE /\ pc' = "apply"
  /\ UNCHANGED <<local_ids, ext_ids>> /\ ReadElsewhere

\* get_id_of_possible_cidr_network: a plain address is the network of itself.
SelectCidr ==
  /\ pc = "cidr"
  /\ \E ok \in Outcome :
       /\ Counted(ok)
       /\ cidr_ids' = IF ok THEN {m \in mailaddr : m.email = req.client \/ InNetwork(req.client, m.email)}
                      ELSE {}
  /\ cidr_checked' = TRUE /\ pc' = "apply"
  /\ UNCHANGED <<local_ids, ext_ids>> /\ ReadElsewhere

\* ORDER BY priority DESC; the networks, appended, come after the rest.
Ordered(rows) == {[id |-> row.id, rank |-> MailaddrPriority(row.email)] : row \in rows}
Appended(rows)    == {[id |-> row.id, rank |-> -1] : row \in rows}

\* The values of the row met first in two nested loops, for some order of equal
\* priorities; a listing is <<number of the outer loop, of the inner loop, value>>.
FirstHit(outer, inner, listings) ==
  LET hits == {h \in outer \X inner : \E l \in listings : <<h[1].id, h[2].id>> = <<l[1], l[2]>>}
      Before(h, g) == \/ h[1].rank > g[1].rank
                      \/ h[1].rank = g[1].rank /\ h[2].rank > g[2].rank
      first == {h \in hits : ~\E g \in hits : Before(g, h)}
  IN  {l[3] : l \in {l \in listings : \E h \in first : <<h[1].id, h[2].id>> = <<l[1], l[2]>>}}

ByRid(table) == {<<row.rid, row.sid, row.wb>> : row \in table}
BySid(table) == {<<row.sid, row.rid, row.wb>> : row \in table}

InboundValuesBySender ==     \* seeded fault: the loops the other way round
  FirstHit(Ordered(ext_ids) \cup Appended(cidr_ids), Ordered(local_ids), BySid(wblist))

\* apply_inbound_wblist
InboundValues ==
  FirstHit(Ordered(local_ids), Ordered(ext_ids) \cup Appended(cidr_ids), ByRid(wblist))

\* apply_outbound_wblist: the numbers of client networks in mailaddr are
\* looked up among those of senders in users.
OutboundValues ==
  IF BypassOutgoing THEN {}
  ELSE FirstHit(Ordered(local_ids) \cup Appended(cidr_ids), Ordered(ext_ids), BySid(outbound_wblist))

Return(action) ==
  /\ pc' = "idle" /\ verdict' = action
  /\ local_ids' = {} /\ ext_ids' = {} /\ cidr_ids' = {} /\ cidr_checked' = FALSE
  /\ UNCHANGED direction

\* A whitelisted outbound message is answered "DUNNO ...", so the recipient's
\* list is still to be asked.
Apply ==
  /\ pc = "apply"
  /\ LET values == IF direction = "inbound" THEN InboundValues ELSE OutboundValues
     IN  \E wb \in IF values = {} THEN {"none"} ELSE values :
           IF direction = "outbound" /\ wb # "B" /\ CheckInbound(req)
             THEN /\ direction' = "inbound" /\ pc' = "local"
                  /\ UNCHANGED <<verdict, local_ids, ext_ids, cidr_ids, cidr_checked>>
             ELSE Return(CASE wb = "B" -> "REJECT"
                           [] wb = "W" /\ direction = "inbound" -> "OK"
                           [] OTHER -> "DUNNO")
  /\ UNCHANGED <<req, requests, possible, quiet, failures>>
  /\ DaemonElsewhere

\* The last SELECT is not guarded: apply_plugin answers for the plugin.
ApplyFails ==
  /\ pc = "apply" /\ cleanups + failures < MaxFaults
  /\ failures' = failures + 1
  /\ Return("DUNNO")
  /\ UNCHANGED <<req, requests, possible, quiet>>
  /\ DaemonElsewhere

Daemon ==
  Receive \/ SelectLocal \/ SelectExternal \/ SelectCidr \/ Apply \/ ApplyFails

-----------------------------------------------------------------------------
\* Tables as earlier commands left them.
Numbered(order) == {[id |-> i, email |-> order[i]] : i \in DOMAIN order}
IdOf(table, email) == (CHOOSE row \in table : row.email = email).id

Init ==
  /\ users = Numbered(InitUsers)
  /\ mailaddr = Numbered(InitMailaddr)
  /\ last_id = [users |-> Len(InitUsers), mailaddr |-> Len(InitMailaddr)]
  /\ LET Rows(dir) == {NewRow(dir, IdOf(users, l[2]), IdOf(mailaddr, l[3]), l[4]) :
                         l \in {l \in InitLists : l[1] = dir}}
     IN  wblist = Rows("inbound") /\ outbound_wblist = Rows("outbound")
  /\ proc = [p \in Admin |-> Idle]
  /\ pc = "idle" /\ req \in Requests /\ direction = "inbound" /\ verdict = "none"
  /\ local_ids = {} /\ ext_ids = {} /\ cidr_ids = {} /\ cidr_checked = FALSE
  /\ commands = 0 /\ requests = 0 /\ cleanups = 0 /\ failures = 0
  /\ due = [pair \in Pairs |->
       LET values == {l[4] : l \in {l \in InitLists : <<l[1], l[2], l[3]>> = pair}}
       IN  IF values = {} THEN {"none"} ELSE values]
  /\ possible = {} /\ quiet = TRUE

Next ==
  \/ \E p \in Admin : Command(p)
  \/ CleanupMailaddr
  \/ Daemon

Spec == Init /\ [][Next]_vars

-----------------------------------------------------------------------------
(* Properties *)

\* The unique indexes hold: an account or an address has one number, and a
\* listing one value, white or black.
TypeOK ==
  /\ \A table \in {users, mailaddr} : \A row, other \in table :
       row.id = other.id \/ row.email = other.email => row = other
  /\ \A table \in {wblist, outbound_wblist} : \A row, other \in table :
       /\ row.wb \in {"W", "B"}
       /\ row.rid = other.rid /\ row.sid = other.sid => row = other
  /\ pc \in {"idle", "local", "external", "cidr", "apply"}
  /\ verdict \in {"none", "OK", "REJECT", "DUNNO"}
  /\ \A pair \in Pairs : due[pair] # {} /\ due[pair] \subseteq {"W", "B", "none"}

\* A process has deleted the old value and has yet to insert the new one.
Writing(pair) ==
  \E p \in Admin : /\ At(p, "insert") /\ pair \in PairsOf(proc[p].cmd)
                   /\ pair[3] \in proc[p].left

\* A listing has the value the last command that touched it alone reported;
\* those that overlapped, or failed half way, leave one of the values they
\* were about, and a listing is missing only while it is replaced, after such a
\* failure or when the job has pruned the address under the command's feet
\* (libs/wblist.py:79).  No table ever has two rows of one key.
ListedAsReported ==
  /\ TypeOK
  /\ \A pair \in Pairs :
       LET values == InForce(pair)
       IN  \/ values # {} /\ values \subseteq due[pair]
           \/ values = {} /\ ("none" \in due[pair] \/ Writing(pair))

\* Does the listing concern the request?
Covers(pair, r) ==
  /\ pair[2] \in Accounts(pair[1], r)
  /\ \/ pair[3] \in Externals(pair[1], r)
     \/ pair[1] = "inbound" /\ InNetwork(r.client, pair[3])

\* The plugin answers.
Answers == pc # "idle" /\ pc' = "idle"

\* Users and mailaddr are numbered apart: the list of an account that happens
\* to have the number of a client network is then taken for the sender's
\* (plugins/amavisd_wblist.py:340, :222).
TakenForSender ==
  /\ direction = "outbound"
  /\ \E row \in outbound_wblist : /\ \E m \in cidr_ids : m.id = row.sid
                                  /\ \E m \in ext_ids : m.id = row.rid

\* But for that mistake, a message is refused or let through only because of a
\* listing about its own sender and recipient, in force at some moment since
\* the request came, whatever is written between the SELECTs
\* (plugins/amavisd_wblist.py:184).
VerdictJustified ==
  [][Answers /\ ~TakenForSender =>
       /\ verdict' = "REJECT" => \E l \in possible : l[2] = "B" /\ Covers(l[1], req)
       /\ verdict' = "OK"     => \E l \in possible : l[2] = "W" /\ Covers(l[1], req)]_vars

\* The values of the listing of the most specific account, and for it of the
\* most specific address, networks last, in one direction.
Foremost(dir, r) ==
  LET about == {pair \in Pairs : pair[1] = dir /\ Covers(pair, r) /\ due[pair] # {"none"}}
      Rank(pair) == 100 * MailaddrPriority(pair[2])
                    + (IF pair[3].form = "network" THEN 0 ELSE 1 + MailaddrPriority(pair[3]))
      best == {pair \in about : \A other \in about : Rank(pair) >= Rank(other)}
  IN  IF about = {} THEN {"none"} ELSE UNION {due[pair] : pair \in best}

InboundVerdict(r) ==
  {CASE v = "W" -> "OK" [] v = "B" -> "REJECT" [] OTHER -> "DUNNO" : v \in Foremost("inbound", r)}
ExpectedVerdict(r) ==
  IF ~r.sasl THEN InboundVerdict(r)
  ELSE UNION {IF v = "B" /\ ~BypassOutgoing THEN {"REJECT"}
              ELSE IF CheckInbound(r) THEN InboundVerdict(r) ELSE {"DUNNO"} : v \in Foremost("outbound", r)}

\* A request no command overlaps gets the verdict the reported listings say:
\* the sender's own list first for outgoing mail, then the recipient's, each by
\* priority (plugins/amavisd_wblist.py:206).
VerdictByPriority ==
  [][/\ Answers /\ ~TakenForSender /\ quiet /\ failures' = 0
     /\ \A pair \in Pairs : Covers(pair, req) => Cardinality(due[pair]) = 1
     => verdict' \in ExpectedVerdict(req)]_vars
=============================================================================
