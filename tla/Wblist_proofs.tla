---------------------------- MODULE Wblist_proofs ----------------------------
(***************************************************************************)
(* Proofs about Wblist for any accounts, addresses, commands and requests: *)
(* what is reported is listed, and verdicts come from listings, the        *)
(* foremost one unless something disturbs the request.                     *)
(***************************************************************************)
EXTENDS Wblist, TLAPS, SequenceTheorems, FiniteSetTheorems, WellFoundedInduction

-----------------------------------------------------------------------------
(* What is kept *)

Directions == {"inbound", "outbound"}
Known  == Listed \cup Range(InitMailaddr)
Owners == {c.account : c \in Commands} \cup Range(InitUsers)
AccountRow == [id : Nat, email : Owners]
AddressRow == [id : Nat, email : Known]
ListRow    == [rid : Nat, sid : Nat, wb : {"W", "B"}]
Cmd    == [op : {"add", "delete", "delete-all"}, direction : Directions,
           account : {c.account : c \in Commands}, addresses : SUBSET Listed, wb : {"W", "B"}]
Job    == [pc : {"user", "create", "mailaddr", "ids", "delete", "insert", "report"}, cmd : Cmd,
           user : Nat, left : SUBSET Listed, ids : SUBSET AddressRow, alone : BOOLEAN]

PairOf(c, a) == <<c.direction, c.account, a>>

\* The listing a row stands for, when its numbers are those of the two rows.
Joins(dir, r, u, m) == u.id = AccountId(dir, r) /\ m.id = AddressId(dir, r)

\* A number stands for one account or address, and the lists hold numbers that were given.
Tables ==
  /\ users \subseteq AccountRow /\ mailaddr \subseteq AddressRow
  /\ last_id \in [{"users", "mailaddr"} -> Nat]
  /\ \A u \in users : u.id <= last_id["users"]
  /\ \A m \in mailaddr : m.id <= last_id["mailaddr"]
  /\ \A u, v \in users : u.id = v.id \/ u.email = v.email => u = v
  /\ \A m, n \in mailaddr : m.id = n.id \/ m.email = n.email => m = n

\* A list has one row for two numbers, and a row stands for a listing that a command or
\* an earlier one was about.
Lists ==
  \A dir \in Directions :
    /\ Table(dir) \subseteq ListRow
    /\ \A r, s \in Table(dir) : r.rid = s.rid /\ r.sid = s.sid => r = s
    /\ \A r \in Table(dir) :
         /\ \E u \in users : u.id = AccountId(dir, r)
         /\ AddressId(dir, r) <= last_id["mailaddr"]
         /\ \A u \in users, m \in mailaddr : Joins(dir, r, u, m) => <<dir, u.email, m.email>> \in Pairs

\* What a command has read stays true, but for addresses that are pruned.
JobOK(j) ==
  /\ \A a \in Listed : PairOf(j.cmd, a) \in Pairs
  /\ \A m \in j.ids : /\ m.email \in j.cmd.addresses /\ m.id <= last_id["mailaddr"]
                      /\ \A n \in mailaddr : m.id = n.id => m = n
                      /\ \A n \in j.ids : m.email = n.email => m = n
  /\ j.left \subseteq j.cmd.addresses
  /\ j.pc \in {"user", "create"} => j.left = j.cmd.addresses /\ j.ids = {}
  /\ j.pc \in {"delete", "insert"} /\ j.cmd.op = "add" => j.left \subseteq {m.email : m \in j.ids}
  /\ j.pc = "delete" /\ j.cmd.op = "add" => {m.email : m \in j.ids} \subseteq j.left
  /\ j.pc \notin {"user", "create"} => [id |-> j.user, email |-> j.cmd.account] \in users
  /\ j.pc \in {"mailaddr", "insert"} => j.cmd.op = "add"
  /\ j.pc = "ids" => j.cmd.op # "delete-all"

\* A listing may have the value a running command gives it, and may be missing if the
\* command takes it away or its address was pruned.
DueOK(j) ==
  /\ \A pair \in PairsOf(j.cmd) :
       IF j.cmd.op = "add" THEN j.cmd.wb \in due[pair]
       ELSE j.cmd.wb \in due[pair] => "none" \in due[pair]
  /\ \A m \in j.ids : m \in mailaddr \/ "none" \in due[PairOf(j.cmd, m.email)]

\* How far a command has come that no other one, failure or pruning has touched.
AddAlone(j) ==
  /\ j.pc = "mailaddr" => \A a \in j.cmd.addresses \ j.left : Stored(mailaddr, a)
  /\ j.pc = "ids" => \A a \in j.cmd.addresses : Stored(mailaddr, a)
  /\ j.pc \in {"delete", "insert"} =>
       \A a \in j.cmd.addresses : \E m \in j.ids \cap mailaddr : m.email = a
  /\ j.pc = "insert" => \A a \in j.cmd.addresses :
       InForce(PairOf(j.cmd, a)) = IF a \in j.left THEN {} ELSE {j.cmd.wb}
  /\ j.pc = "report" => \A pair \in PairsOf(j.cmd) : InForce(pair) = {j.cmd.wb}

DeleteAlone(j) ==
  /\ j.pc = "delete" /\ j.cmd.op = "delete" => \A a \in j.cmd.addresses :
       InForce(PairOf(j.cmd, a)) = {} \/ \E m \in j.ids \cap mailaddr : m.email = a
  /\ j.pc = "report" => \A pair \in PairsOf(j.cmd) : j.cmd.wb \notin InForce(pair)

AloneOK(j) == IF j.cmd.op = "add" THEN AddAlone(j) ELSE DeleteAlone(j)

Apart(c, d) == PairsOf(c) \cap PairsOf(d) = {}

Jobs ==
  \A p \in Admin :
    /\ proc[p] = Idle \/ proc[p] \in Job
    /\ Runs(p) => JobOK(proc[p]) /\ DueOK(proc[p])
    /\ Runs(p) /\ proc[p].alone =>
         /\ AloneOK(proc[p])
         /\ \A q \in Admin \ {p} : Runs(q) => Apart(proc[p].cmd, proc[q].cmd)

Values ==
  /\ due \in [Pairs -> SUBSET {"W", "B", "none"}]
  /\ \A pair \in Pairs : /\ due[pair] # {} /\ InForce(pair) \subseteq due[pair]
                         /\ InForce(pair) = {} => "none" \in due[pair] \/ Writing(pair)

ListInv == Tables /\ Lists /\ Jobs /\ Values /\ proc = [p \in Admin |-> proc[p]]

-----------------------------------------------------------------------------
(* The operators of the model *)

LEMMA PairForm ==
  ASSUME WblistAssumption, NEW pair \in Pairs
  PROVE  /\ pair[1] \in Directions /\ pair[3] \in Listed
         /\ pair = <<pair[1], pair[2], pair[3]>>
<1>1. PICK l \in {<<c.direction, c.account>> : c \in Commands} \cup {<<l[1], l[2]>> : l \in InitLists},
           a \in Listed : pair = <<l[1], l[2], a>>
  BY DEF Pairs
<1>2. l[1] \in Directions
  <2>1. CASE l \in {<<c.direction, c.account>> : c \in Commands}
    BY <2>1 DEF WblistAssumption, Directions
  <2>2. CASE l \in {<<k[1], k[2]>> : k \in InitLists}
    BY <2>2 DEF WblistAssumption, Directions
  <2> QED
    BY <2>1, <2>2
<1> QED
  BY <1>1, <1>2

LEMMA HeadPair ==
  ASSUME NEW c \in Commands, NEW a \in Listed
  PROVE  <<c.direction, c.account, a>> \in Pairs
<1>1. PICK heads : heads = {<<d.direction, d.account>> : d \in Commands} \cup {<<l[1], l[2]>> : l \in InitLists}
  OBVIOUS
<1>2. PICK l \in heads : l = <<c.direction, c.account>>
  BY <1>1
<1>3. Pairs = {<<h[1], h[2], b>> : h \in heads, b \in Listed}
  BY <1>1 DEF Pairs
<1>4. <<l[1], l[2], a>> \in Pairs
  BY <1>2, <1>3
<1> QED
  BY <1>2, <1>4

LEMMA InitPair ==
  ASSUME NEW l \in InitLists, l[3] \in Listed
  PROVE  <<l[1], l[2], l[3]>> \in Pairs
<1>1. PICK heads : heads = {<<d.direction, d.account>> : d \in Commands} \cup {<<k[1], k[2]>> : k \in InitLists}
  OBVIOUS
<1>2. PICK h \in heads : h = <<l[1], l[2]>>
  BY <1>1
<1>3. Pairs = {<<i[1], i[2], b>> : i \in heads, b \in Listed}
  BY <1>1 DEF Pairs
<1>4. <<h[1], h[2], l[3]>> \in Pairs
  BY <1>2, <1>3
<1> QED
  BY <1>2, <1>4

LEMMA JobForm ==
  ASSUME NEW j \in Job
  PROVE  /\ j.pc \in {"user", "create", "mailaddr", "ids", "delete", "insert", "report"}
         /\ j.pc # "idle" /\ j # Idle
         /\ j.cmd \in Cmd /\ j.user \in Nat /\ j.left \subseteq Listed /\ j.ids \subseteq AddressRow
         /\ j.alone \in BOOLEAN
         /\ j.cmd.op \in {"add", "delete", "delete-all"} /\ j.cmd.direction \in Directions
         /\ j.cmd.addresses \subseteq Listed /\ j.cmd.wb \in {"W", "B"}
<1>1. j.cmd \in Cmd
  BY DEF Job
<1> QED
  BY <1>1 DEF Job, Cmd, Idle

\* The listings of a command are of its direction and account.
LEMMA PairOfCommand ==
  ASSUME WblistAssumption, NEW c \in Cmd, NEW pair \in PairsOf(c)
  PROVE  /\ pair \in Pairs /\ pair = PairOf(c, pair[3])
         /\ c.op # "delete-all" => pair[3] \in c.addresses
<1>1. pair \in Pairs /\ pair[1] = c.direction /\ pair[2] = c.account
      /\ (c.op = "delete-all" \/ pair[3] \in c.addresses)
  BY DEF PairsOf
<1> QED
  BY <1>1, PairForm DEF PairOf

LEMMA CommandOfPair ==
  ASSUME NEW c \in Cmd, NEW a, PairOf(c, a) \in Pairs, c.op = "delete-all" \/ a \in c.addresses
  PROVE  PairOf(c, a) \in PairsOf(c)
BY DEF PairsOf, PairOf

LEMMA InForceIs ==
  ASSUME NEW pair, NEW v
  PROVE  v \in InForce(pair) <=> \E r \in Table(pair[1]), u \in users, m \in mailaddr :
           Joins(pair[1], r, u, m) /\ u.email = pair[2] /\ m.email = pair[3] /\ v = r.wb
BY DEF InForce, Joins

LEMMA InForceNext ==
  ASSUME NEW pair, NEW v
  PROVE  v \in InForce(pair)' <=> \E r \in Table(pair[1])', u \in users', m \in mailaddr' :
           Joins(pair[1], r, u, m) /\ u.email = pair[2] /\ m.email = pair[3] /\ v = r.wb
BY DEF InForce, Joins, AccountId, AddressId

\* The numbers of a row.
LEMMA RowNumbers ==
  ASSUME NEW dir \in Directions, NEW r \in ListRow
  PROVE  /\ AccountId(dir, r) \in Nat /\ AddressId(dir, r) \in Nat
         /\ \A s \in ListRow : AccountId(dir, r) = AccountId(dir, s) /\ AddressId(dir, r) = AddressId(dir, s)
              <=> r.rid = s.rid /\ r.sid = s.sid
BY DEF ListRow, AccountId, AddressId, Directions

\* A row with a number that was not given before is of no listing.
LEMMA GrowKeeps ==
  ASSUME WblistAssumption, Tables, Lists, NEW pair \in Pairs,
         UNCHANGED lists,
         users \subseteq users', \A u \in users' \ users : u.id > last_id["users"],
         mailaddr \subseteq mailaddr', \A m \in mailaddr' \ mailaddr : m.id > last_id["mailaddr"]
  PROVE  InForce(pair)' = InForce(pair)
<1>1. pair[1] \in Directions
  BY PairForm
<1>2. Table(pair[1])' = Table(pair[1])
  BY DEF Table, lists
<1>3. \A r \in Table(pair[1]), u \in users', m \in mailaddr' : Joins(pair[1], r, u, m) => u \in users /\ m \in mailaddr
  <2> SUFFICES ASSUME NEW r \in Table(pair[1]), NEW u \in users', NEW m \in mailaddr', Joins(pair[1], r, u, m)
               PROVE  u \in users /\ m \in mailaddr
    OBVIOUS
  <2>1. PICK v \in users : v.id = AccountId(pair[1], r)
    BY <1>1 DEF Lists
  <2>2. v.id <= last_id["users"] /\ u.id = v.id /\ v.id \in Nat /\ last_id["users"] \in Nat
    BY <2>1 DEF Tables, Joins, AccountRow
  <2>3. u \in users
    BY <2>2
  <2>4. m.id = AddressId(pair[1], r) /\ AddressId(pair[1], r) <= last_id["mailaddr"]
        /\ AddressId(pair[1], r) \in Nat /\ last_id["mailaddr"] \in Nat
    BY <1>1, RowNumbers DEF Lists, Tables, Joins
  <2>5. m \in mailaddr
    BY <2>4
  <2> QED
    BY <2>3, <2>5
<1>4. \A v : v \in InForce(pair)' <=> v \in InForce(pair)
  BY <1>2, <1>3, InForceIs, InForceNext
<1> QED
  BY <1>4

\* Pruning takes no listing away.
LEMMA PruneKeeps ==
  ASSUME WblistAssumption, Tables, Lists, NEW pair \in Pairs,
         UNCHANGED lists, users' = users, mailaddr' \subseteq mailaddr,
         \A m \in mailaddr \ mailaddr' : \A dir \in Directions : \A r \in Table(dir) : AddressId(dir, r) # m.id
  PROVE  /\ InForce(pair)' = InForce(pair)
         /\ (\E m \in mailaddr \ mailaddr' : m.email = pair[3]) => InForce(pair) = {}
<1>1. pair[1] \in Directions
  BY PairForm
<1>2. Table(pair[1])' = Table(pair[1])
  BY DEF Table, lists
<1>3. \A r \in Table(pair[1]), u \in users, m \in mailaddr : Joins(pair[1], r, u, m) => m \in mailaddr'
  BY <1>1 DEF Joins
<1>4. \A v : v \in InForce(pair)' <=> v \in InForce(pair)
  BY <1>2, <1>3, InForceIs, InForceNext
<1>5. ASSUME NEW m \in mailaddr \ mailaddr', m.email = pair[3], NEW v \in InForce(pair) PROVE FALSE
  <2>1. PICK r \in Table(pair[1]), u \in users, n \in mailaddr :
           Joins(pair[1], r, u, n) /\ n.email = pair[3]
    BY <1>5, InForceIs
  <2>2. n = m
    BY <1>5, <2>1 DEF Tables
  <2> QED
    BY <1>1, <2>1, <2>2 DEF Joins
<1> QED
  BY <1>4, <1>5

LEMMA SetTableIs ==
  ASSUME NEW dir \in Directions, NEW rows, SetTable(dir, rows)
  PROVE  /\ Table(dir)' = rows
         /\ \A e \in Directions \ {dir} : Table(e)' = Table(e)
BY DEF SetTable, Table, Directions

\* The rows a DELETE is about.
Chosen(j, row) ==
  /\ AccountId(j.cmd.direction, row) = j.user
  /\ j.cmd.op = "delete-all" \/ \E m \in j.ids : m.id = AddressId(j.cmd.direction, row)
  /\ j.cmd.op = "add" \/ row.wb = j.cmd.wb

\* A row that is deleted is of a listing the command is about.
LEMMA ChosenIsOwn ==
  ASSUME WblistAssumption, Tables, Lists, NEW j \in Job, JobOK(j), j.pc \notin {"user", "create"},
         NEW r \in Table(j.cmd.direction), Chosen(j, r),
         NEW u \in users, NEW m \in mailaddr, Joins(j.cmd.direction, r, u, m)
  PROVE  /\ u.email = j.cmd.account
         /\ <<j.cmd.direction, u.email, m.email>> = PairOf(j.cmd, m.email)
         /\ PairOf(j.cmd, m.email) \in PairsOf(j.cmd)
         /\ j.cmd.op # "delete-all" => m \in j.ids
<1>1. j.cmd \in Cmd /\ j.cmd.direction \in Directions
  BY JobForm
<1>2. u.id = j.user /\ m.id = AddressId(j.cmd.direction, r)
  BY DEF Joins, Chosen
<1>3. u = [id |-> j.user, email |-> j.cmd.account]
  BY <1>2 DEF JobOK, Tables
<1>4. ASSUME j.cmd.op # "delete-all" PROVE m \in j.ids
  <2>1. PICK n \in j.ids : n.id = m.id
    BY <1>2, <1>4 DEF Chosen
  <2> QED
    BY <2>1 DEF JobOK
<1>5. PairOf(j.cmd, m.email) \in Pairs
  BY <1>1, <1>3 DEF Lists, PairOf
<1>6. j.cmd.op = "delete-all" \/ m.email \in j.cmd.addresses
  BY <1>4 DEF JobOK
<1> QED
  BY <1>1, <1>3, <1>4, <1>5, <1>6, CommandOfPair DEF PairOf

\* What a DELETE does to the listings.
LEMMA DeleteEffect ==
  ASSUME WblistAssumption, Tables, Lists, NEW j \in Job, JobOK(j), j.pc = "delete",
         users' = users, mailaddr' = mailaddr,
         SetTable(j.cmd.direction, {row \in Table(j.cmd.direction) : ~Chosen(j, row)}),
         NEW pair \in Pairs
  PROVE  /\ InForce(pair)' \subseteq InForce(pair)
         /\ pair \notin PairsOf(j.cmd) => InForce(pair)' = InForce(pair)
         /\ \A v \in InForce(pair) \ InForce(pair)' :
              IF j.cmd.op = "add" THEN \E m \in j.ids : m.email = pair[3] ELSE v = j.cmd.wb
         /\ pair \in PairsOf(j.cmd) /\ j.cmd.op = "add" /\ (\E m \in j.ids \cap mailaddr : m.email = pair[3])
              => InForce(pair)' = {}
         /\ /\ pair \in PairsOf(j.cmd) /\ j.cmd.op # "add"
            /\ j.cmd.op = "delete" => InForce(pair) = {} \/ \E m \in j.ids \cap mailaddr : m.email = pair[3]
            => j.cmd.wb \notin InForce(pair)'
<1> DEFINE dir == j.cmd.direction
<1>1. j.cmd \in Cmd /\ dir \in Directions /\ pair[1] \in Directions
  BY JobForm, PairForm
<1>2. Table(dir)' = {row \in Table(dir) : ~Chosen(j, row)}
      /\ \A e \in Directions \ {dir} : Table(e)' = Table(e)
  BY <1>1, SetTableIs
<1> HIDE DEF dir
<1>3. Table(pair[1])' \subseteq Table(pair[1])
  BY <1>1, <1>2
<1>4. InForce(pair)' \subseteq InForce(pair)
  BY <1>3, InForceIs, InForceNext
<1>5. ASSUME NEW v \in InForce(pair), v \notin InForce(pair)'
      PROVE  /\ pair \in PairsOf(j.cmd)
             /\ IF j.cmd.op = "add" THEN \E m \in j.ids : m.email = pair[3] ELSE v = j.cmd.wb
  <2>1. PICK r \in Table(pair[1]), u \in users, m \in mailaddr :
           Joins(pair[1], r, u, m) /\ u.email = pair[2] /\ m.email = pair[3] /\ v = r.wb
    BY InForceIs
  <2>2. r \notin Table(pair[1])'
    BY <1>5, <2>1, InForceNext
  <2>3. pair[1] = dir /\ Chosen(j, r)
    BY <1>1, <1>2, <2>2
  <2>4. /\ <<dir, u.email, m.email>> = PairOf(j.cmd, m.email) /\ PairOf(j.cmd, m.email) \in PairsOf(j.cmd)
        /\ j.cmd.op # "delete-all" => m \in j.ids
    BY <2>1, <2>3, ChosenIsOwn DEF dir
  <2>5. pair = <<dir, u.email, m.email>>
    BY <2>1, <2>3, PairForm
  <2>6. j.cmd.op # "add" => v = j.cmd.wb
    BY <2>1, <2>3 DEF Chosen
  <2> QED
    BY <2>1, <2>4, <2>5, <2>6
<1>6. ASSUME pair \in PairsOf(j.cmd), NEW v \in InForce(pair)', NEW m \in j.ids \cap mailaddr, m.email = pair[3]
             , j.cmd.op # "delete-all"
      PROVE  j.cmd.op # "add" /\ v # j.cmd.wb
  <2>1. PICK r \in Table(pair[1])', u \in users, n \in mailaddr :
           Joins(pair[1], r, u, n) /\ u.email = pair[2] /\ n.email = pair[3] /\ v = r.wb
    BY InForceNext
  <2>2. n = m
    BY <1>6, <2>1 DEF Tables
  <2>3. pair[1] = dir /\ pair[2] = j.cmd.account
    BY <1>1, <1>6, PairOfCommand DEF PairOf, dir
  <2>4. u.id = j.user
    BY <2>1, <2>3 DEF JobOK, Tables
  <2>5. AccountId(dir, r) = j.user /\ m.id = AddressId(dir, r)
    BY <2>1, <2>2, <2>3, <2>4 DEF Joins
  <2>6. r \in Table(dir) /\ ~Chosen(j, r)
    BY <1>2, <2>1, <2>3
  <2> QED
    BY <1>6, <2>1, <2>5, <2>6 DEF Chosen, dir
<1>7. ASSUME pair \in PairsOf(j.cmd), NEW v \in InForce(pair)', j.cmd.op = "delete-all" PROVE v # j.cmd.wb
  <2> SUFFICES ASSUME v = j.cmd.wb PROVE FALSE
    OBVIOUS
  <2>1. PICK r \in Table(pair[1])', u \in users, n \in mailaddr :
           Joins(pair[1], r, u, n) /\ u.email = pair[2] /\ n.email = pair[3] /\ v = r.wb
    BY <1>7, InForceNext
  <2>3. pair[1] = dir /\ pair[2] = j.cmd.account
    BY <1>1, <1>7, PairOfCommand DEF PairOf, dir
  <2>4. u.id = j.user
    BY <2>1, <2>3 DEF JobOK, Tables
  <2>5. AccountId(dir, r) = j.user
    BY <2>1, <2>3, <2>4 DEF Joins
  <2>6. r \in Table(dir) /\ ~Chosen(j, r)
    BY <1>2, <2>1, <2>3
  <2> QED
    BY <1>7, <2>1, <2>5, <2>6 DEF Chosen, dir
<1>8. j.cmd.op \in {"add", "delete", "delete-all"}
  BY JobForm
<1> QED
  BY <1>4, <1>5, <1>6, <1>7, <1>8

LEMMA JoinedNext ==
  ASSUME NEW pair, NEW r \in Table(pair[1])', NEW u \in users', NEW m \in mailaddr',
         Joins(pair[1], r, u, m), u.email = pair[2], m.email = pair[3]
  PROVE  r.wb \in InForce(pair)'
BY InForceNext

LEMMA NewRowIs ==
  ASSUME NEW dir \in Directions, NEW n \in Nat, NEW i \in Nat, NEW wb \in {"W", "B"},
         NEW row, row = NewRow(dir, n, i, wb)
  PROVE  row \in ListRow /\ AccountId(dir, row) = n /\ AddressId(dir, row) = i /\ row.wb = wb
BY DEF NewRow, ListRow, AccountId, AddressId, Directions

\* An INSERT adds to one listing at most.
LEMMA InsertAt ==
  ASSUME WblistAssumption, Tables, Lists, NEW j \in Job, JobOK(j), j.pc = "insert",
         NEW m \in j.ids, NEW row \in ListRow, AccountId(j.cmd.direction, row) = j.user,
         AddressId(j.cmd.direction, row) = m.id, row.wb = j.cmd.wb,
         NEW rows, SetTable(j.cmd.direction, rows), users' = users, mailaddr' = mailaddr,
         \/ rows = Table(j.cmd.direction) /\ \E r \in rows : r.rid = row.rid /\ r.sid = row.sid
         \/ rows = Table(j.cmd.direction) \cup {row},
         NEW pair \in Pairs, NEW v
  PROVE  /\ v \in InForce(pair) => v \in InForce(pair)'
         /\ v \in InForce(pair)' => v \in InForce(pair)
              \/ (m \in mailaddr /\ pair = PairOf(j.cmd, m.email) /\ v = j.cmd.wb)
<1> DEFINE dir == j.cmd.direction
<1>1. j.cmd \in Cmd /\ dir \in Directions /\ j.user \in Nat /\ j.cmd.wb \in {"W", "B"}
  BY JobForm
<1>3. row \in ListRow /\ AccountId(dir, row) = j.user /\ AddressId(dir, row) = m.id /\ row.wb = j.cmd.wb
  OBVIOUS
<1>4. /\ \/ Table(dir)' = Table(dir) /\ \E r \in Table(dir) : r.rid = row.rid /\ r.sid = row.sid
         \/ Table(dir)' = Table(dir) \cup {row}
      /\ \A e \in Directions \ {dir} : Table(e)' = Table(e)
  BY <1>1, SetTableIs
<1>5. [id |-> j.user, email |-> j.cmd.account] \in users
  BY DEF JobOK
<1> HIDE DEF dir
<1>11. pair[1] \in Directions
  BY PairForm
<1>12. v \in InForce(pair) => v \in InForce(pair)'
  BY <1>4, <1>11, InForceIs, InForceNext
<1>13. ASSUME v \in InForce(pair)', v \notin InForce(pair)
      PROVE  m \in mailaddr /\ pair = PairOf(j.cmd, m.email) /\ v = j.cmd.wb
  <2>1. PICK r \in Table(pair[1])', u \in users, n \in mailaddr :
           Joins(pair[1], r, u, n) /\ u.email = pair[2] /\ n.email = pair[3] /\ v = r.wb
    BY <1>13, InForceNext
  <2>2. r \notin Table(pair[1])
    BY <1>13, <2>1, InForceIs
  <2>3. pair[1] = dir /\ r = row
    BY <1>4, <1>11, <2>1, <2>2
  <2>4. u.id = j.user /\ n.id = m.id
    BY <1>3, <2>1, <2>3 DEF Joins
  <2>5. n = m /\ u.email = j.cmd.account
    BY <1>5, <2>4 DEF JobOK, Tables
  <2>6. pair = <<pair[1], pair[2], pair[3]>>
    BY PairForm
  <2>7. pair = <<dir, j.cmd.account, m.email>>
    BY <2>1, <2>3, <2>5, <2>6
  <2> QED
    BY <1>3, <2>1, <2>3, <2>5, <2>7 DEF PairOf, dir
<1> QED
  BY <1>12, <1>13

LEMMA InsertEffect ==
  ASSUME WblistAssumption, Tables, Lists, NEW j \in Job, JobOK(j), j.pc = "insert",
         NEW m \in j.ids, NEW row \in ListRow, AccountId(j.cmd.direction, row) = j.user,
         AddressId(j.cmd.direction, row) = m.id, row.wb = j.cmd.wb,
         NEW rows, SetTable(j.cmd.direction, rows), users' = users, mailaddr' = mailaddr,
         \/ rows = Table(j.cmd.direction) /\ \E r \in rows : r.rid = row.rid /\ r.sid = row.sid
         \/ rows = Table(j.cmd.direction) \cup {row},
         NEW own, own = PairOf(j.cmd, m.email)
  PROVE  /\ InForce(own) \subseteq InForce(own)'
         /\ InForce(own)' \subseteq InForce(own) \cup {j.cmd.wb}
         /\ m \in mailaddr => InForce(own)' # {}
         /\ m \notin mailaddr => InForce(own)' = InForce(own)
<1> DEFINE dir == j.cmd.direction
<1>1. j.cmd \in Cmd /\ dir \in Directions /\ j.user \in Nat /\ j.cmd.wb \in {"W", "B"}
  BY JobForm
<1>3. row \in ListRow /\ AccountId(dir, row) = j.user /\ AddressId(dir, row) = m.id /\ row.wb = j.cmd.wb
  OBVIOUS
<1>4. /\ \/ Table(dir)' = Table(dir) /\ \E r \in Table(dir) : r.rid = row.rid /\ r.sid = row.sid
         \/ Table(dir)' = Table(dir) \cup {row}
      /\ \A e \in Directions \ {dir} : Table(e)' = Table(e)
  BY <1>1, SetTableIs
<1>5. [id |-> j.user, email |-> j.cmd.account] \in users
  BY DEF JobOK
<1> HIDE DEF dir
<1>7. own \in Pairs /\ own[1] = dir /\ own[2] = j.cmd.account /\ own[3] = m.email
  <2>1. m.email \in Listed
    BY <1>1 DEF JobOK, Cmd
  <2> QED
    BY <2>1 DEF JobOK, PairOf, dir
<1>6. ASSUME NEW v
      PROVE  /\ v \in InForce(own) => v \in InForce(own)'
             /\ v \in InForce(own)' => v \in InForce(own) \/ (m \in mailaddr /\ v = j.cmd.wb)
  BY <1>7, InsertAt
<1>8. ASSUME m \in mailaddr PROVE InForce(own)' # {}
  <2>1. CASE Table(dir)' = Table(dir) /\ \E r \in Table(dir) : r.rid = row.rid /\ r.sid = row.sid
    <3>1. PICK r \in Table(dir) : r.rid = row.rid /\ r.sid = row.sid
      BY <2>1
    <3>2. r \in ListRow
      BY <1>1, <3>1 DEF Lists, dir
    <3>3. AccountId(dir, r) = j.user /\ AddressId(dir, r) = m.id
      BY <1>1, <1>3, <3>1, <3>2, RowNumbers
    <3>4. PICK u \in users' : u.id = j.user /\ u.email = j.cmd.account
      BY <1>5
    <3>5. Joins(own[1], r, u, m) /\ u.email = own[2] /\ m.email = own[3] /\ r \in Table(own[1])' /\ m \in mailaddr'
      BY <1>7, <1>8, <2>1, <3>1, <3>3, <3>4 DEF Joins
    <3>6. r.wb \in InForce(own)'
      BY <3>4, <3>5, JoinedNext
    <3> QED
      BY <3>6
  <2>2. CASE Table(dir)' = Table(dir) \cup {row}
    <3>1. PICK u \in users' : u.id = j.user /\ u.email = j.cmd.account
      BY <1>5
    <3>2. Joins(own[1], row, u, m) /\ u.email = own[2] /\ m.email = own[3] /\ row \in Table(own[1])' /\ m \in mailaddr'
      BY <1>3, <1>7, <1>8, <2>2, <3>1 DEF Joins
    <3>3. row.wb \in InForce(own)'
      BY <3>1, <3>2, JoinedNext
    <3> QED
      BY <3>3
  <2> QED
    BY <1>4, <2>1, <2>2
<1> QED
  BY <1>3, <1>6, <1>7, <1>8 DEF dir

LEMMA NotStoredEmpty ==
  ASSUME NEW pair, ~Stored(mailaddr, pair[3]) PROVE InForce(pair) = {}
BY InForceIs DEF Stored

-----------------------------------------------------------------------------
(* What a statement leaves of the other commands *)

WritingBy(j, pair) == j.pc = "insert" /\ pair \in PairsOf(j.cmd) /\ pair[3] \in j.left

LEMMA WritingIs == ASSUME NEW pair PROVE Writing(pair) <=> \E p \in Admin : WritingBy(proc[p], pair)
BY DEF Writing, WritingBy, At

LEMMA OwnPairs ==
  ASSUME WblistAssumption, NEW j \in Job, JobOK(j), NEW a \in j.cmd.addresses
  PROVE  PairOf(j.cmd, a) \in Pairs /\ PairOf(j.cmd, a) \in PairsOf(j.cmd)
BY JobForm, CommandOfPair DEF JobOK

LEMMA JobKept ==
  ASSUME Tables, NEW j \in Job, JobOK(j), users \subseteq users',
         last_id'["mailaddr"] \in Nat, last_id["mailaddr"] <= last_id'["mailaddr"],
         \A n \in mailaddr' \ mailaddr : n.id > last_id["mailaddr"]
  PROVE  JobOK(j)'
<1>1. \A m \in j.ids : m.id \in Nat /\ m.id <= last_id["mailaddr"] /\ \A n \in mailaddr : m.id = n.id => m = n
  BY JobForm DEF JobOK, AddressRow
<1>2. last_id["mailaddr"] \in Nat
  BY DEF Tables
<1>3. \A m \in j.ids : m.id <= last_id'["mailaddr"] /\ \A n \in mailaddr' : m.id = n.id => m = n
  BY <1>1, <1>2
<1> QED
  BY <1>3 DEF JobOK

LEMMA DueKept ==
  ASSUME WblistAssumption, NEW j \in Job, JobOK(j), DueOK(j),
         \A pair \in PairsOf(j.cmd) :
           /\ due[pair] \subseteq due'[pair]
           /\ j.cmd.op # "add" /\ j.cmd.wb \in due'[pair] => j.cmd.wb \in due[pair] \/ "none" \in due'[pair],
         \A m \in j.ids \cap mailaddr : m \in mailaddr' \/ "none" \in due'[PairOf(j.cmd, m.email)]
  PROVE  DueOK(j)'
<1>1. \A m \in j.ids : PairOf(j.cmd, m.email) \in PairsOf(j.cmd)
  BY OwnPairs DEF JobOK
<1>2. \A m \in j.ids : m \in mailaddr' \/ "none" \in due'[PairOf(j.cmd, m.email)]
  BY <1>1 DEF DueOK
<1>3. PairsOf(j.cmd)' = PairsOf(j.cmd)
  BY DEF PairsOf
<1> QED
  BY <1>2, <1>3 DEF DueOK, PairOf

LEMMA AloneKept ==
  ASSUME WblistAssumption, NEW j \in Job, JobOK(j), AloneOK(j),
         \A pair \in PairsOf(j.cmd) : InForce(pair)' = InForce(pair),
         \A m \in mailaddr : m.email \in j.cmd.addresses => m \in mailaddr'
  PROVE  AloneOK(j)'
<1>1. \A a \in j.cmd.addresses : InForce(PairOf(j.cmd, a))' = InForce(PairOf(j.cmd, a))
  BY OwnPairs
<1>2. \A a \in j.cmd.addresses : Stored(mailaddr, a) => Stored(mailaddr', a)
  BY DEF Stored
<1>3. \A a \in j.cmd.addresses : (\E m \in j.ids \cap mailaddr : m.email = a) => \E m \in j.ids \cap mailaddr' : m.email = a
  OBVIOUS
<1>4. CASE j.cmd.op = "add"
  <2>1. AddAlone(j)
    BY <1>4 DEF AloneOK
  <2>2. j.pc = "mailaddr" => \A a \in j.cmd.addresses \ j.left : Stored(mailaddr', a)
    BY <1>2, <2>1 DEF AddAlone
  <2>3. j.pc = "ids" => \A a \in j.cmd.addresses : Stored(mailaddr', a)
    BY <1>2, <2>1 DEF AddAlone
  <2>4. j.pc \in {"delete", "insert"} => \A a \in j.cmd.addresses : \E m \in j.ids \cap mailaddr' : m.email = a
    BY <1>3, <2>1 DEF AddAlone
  <2>5. j.pc = "insert" => \A a \in j.cmd.addresses :
          InForce(PairOf(j.cmd, a))' = IF a \in j.left THEN {} ELSE {j.cmd.wb}
    BY <1>1, <2>1 DEF AddAlone
  <2>6. j.pc = "report" => \A pair \in PairsOf(j.cmd) : InForce(pair)' = {j.cmd.wb}
    BY <2>1 DEF AddAlone
  <2>7. PairsOf(j.cmd)' = PairsOf(j.cmd)
    BY DEF PairsOf
  <2>8. AddAlone(j)'
    BY <2>2, <2>3, <2>4, <2>5, <2>6, <2>7 DEF AddAlone, Stored
  <2> QED
    BY <1>4, <2>8 DEF AloneOK
<1>5. CASE j.cmd.op # "add"
  <2>1. DeleteAlone(j)
    BY <1>5 DEF AloneOK
  <2>2. j.pc = "delete" /\ j.cmd.op = "delete" => \A a \in j.cmd.addresses :
          InForce(PairOf(j.cmd, a))' = {} \/ \E m \in j.ids \cap mailaddr' : m.email = a
    BY <1>1, <1>3, <2>1 DEF DeleteAlone
  <2>3. j.pc = "report" => \A pair \in PairsOf(j.cmd) : j.cmd.wb \notin InForce(pair)'
    BY <2>1 DEF DeleteAlone
  <2>4. PairsOf(j.cmd)' = PairsOf(j.cmd)
    BY DEF PairsOf
  <2>5. DeleteAlone(j)'
    BY <2>2, <2>3, <2>4 DEF DeleteAlone
  <2> QED
    BY <1>5, <2>5 DEF AloneOK
<1> QED
  BY <1>4, <1>5

\* A command at work, and what Jobs says of it.
LEMMA JobOf ==
  ASSUME Jobs, NEW p \in Admin, Runs(p)
  PROVE  /\ proc[p] \in Job /\ JobOK(proc[p]) /\ DueOK(proc[p])
         /\ proc[p].alone => AloneOK(proc[p])
                             /\ \A q \in Admin \ {p} : Runs(q) => Apart(proc[p].cmd, proc[q].cmd)
<1>1. proc[p] # Idle
  BY DEF Runs, Idle
<1> QED
  BY <1>1 DEF Jobs

\* One command makes a step, with the state k after it.
LEMMA JobsStep ==
  ASSUME ListInv, NEW p \in Admin, Runs(p), NEW k, proc' = [proc EXCEPT ![p] = k],
         k = Idle \/ (/\ k \in Job /\ k.cmd = proc[p].cmd /\ JobOK(k)' /\ DueOK(k)'
                      /\ k.alone => proc[p].alone /\ AloneOK(k)'),
         \A q \in Admin \ {p} : \A j \in Job :
            Runs(q) /\ proc[q] = j => JobOK(j)' /\ DueOK(j)' /\ (j.alone => AloneOK(j)')
  PROVE  Jobs' /\ proc' = [q \in Admin |-> proc'[q]]
<1>0. Jobs /\ proc = [q \in Admin |-> proc[q]]
  BY DEF ListInv
<1>1. proc'[p] = k /\ \A q \in Admin \ {p} : proc'[q] = proc[q]
  BY <1>0
<1>2. proc' = [q \in Admin |-> proc'[q]]
  BY <1>0
<1>3. k = Idle \/ k.pc # "idle"
  BY JobForm
<1>4. ASSUME NEW q \in Admin, Runs(q)', q # p
      PROVE  /\ proc[q] = proc'[q] /\ Runs(q) /\ proc[q] \in Job
             /\ JobOK(proc[q])' /\ DueOK(proc[q])' /\ (proc'[q].alone => AloneOK(proc[q])')
  <2>1. proc[q] = proc'[q] /\ Runs(q)
    BY <1>1, <1>4 DEF Runs
  <2>2. proc[q] \in Job
    BY <1>0, <2>1, JobOf
  <2>3. PICK j \in Job : j = proc[q]
    BY <2>2
  <2>4. j = proc'[q]
    BY <2>1, <2>3
  <2>5. JobOK(j)' /\ DueOK(j)' /\ (j.alone => AloneOK(j)')
    BY <2>1, <2>3, <1>4
  <2>6. JobOK(proc[q])' /\ DueOK(proc[q])' /\ (proc'[q].alone => AloneOK(proc[q])')
    BY <2>4, <2>5
  <2> QED
    BY <2>1, <2>2, <2>6
<1>5. ASSUME Runs(p)'
      PROVE  /\ k \in Job /\ k.cmd = proc[p].cmd /\ JobOK(proc[p])' /\ DueOK(proc[p])'
             /\ proc'[p].alone => proc[p].alone /\ AloneOK(proc[p])'
  <2>1. k # Idle
    BY <1>1, <1>5 DEF Runs, Idle
  <2>2. k = proc'[p]
    BY <1>1
  <2> QED
    BY <2>1, <2>2
<1>6. ASSUME NEW q \in Admin, Runs(q)', proc'[q].alone, NEW r \in Admin \ {q}, Runs(r)'
      PROVE  Apart(proc'[q].cmd, proc'[r].cmd)
  <2>1. proc'[q].cmd = proc[q].cmd /\ proc[q].alone /\ Runs(q)
    BY <1>1, <1>4, <1>5, <1>6
  <2>2. proc'[r].cmd = proc[r].cmd /\ Runs(r)
    BY <1>1, <1>4, <1>5, <1>6
  <2>3. Apart(proc[q].cmd, proc[r].cmd)
    BY <1>0, <2>1, <2>2, JobOf
  <2> QED
    BY <2>1, <2>2, <2>3
<1>7. \A q \in Admin : proc'[q] = Idle \/ proc'[q] \in Job
  BY <1>0, <1>1 DEF Jobs
<1>8. \A q \in Admin : Runs(q)' => JobOK(proc[q])' /\ DueOK(proc[q])' /\ (proc'[q].alone => AloneOK(proc[q])')
  BY <1>4, <1>5
<1> QED
  BY <1>2, <1>6, <1>7, <1>8 DEF Jobs, Idle, Apart, PairsOf, Job, Cmd, AddressRow, Directions, Known

LEMMA ValuesStep ==
  ASSUME ListInv, NEW p \in Admin, NEW k, proc' = [proc EXCEPT ![p] = k],
         due' \in [Pairs -> SUBSET {"W", "B", "none"}],
         \A pair \in Pairs :
           /\ due'[pair] # {} /\ InForce(pair)' \subseteq due'[pair]
           /\ \/ InForce(pair)' # {} \/ "none" \in due'[pair] \/ WritingBy(k, pair)
              \/ \E q \in Admin \ {p} : WritingBy(proc[q], pair)
  PROVE  Values'
<1>0. proc = [q \in Admin |-> proc[q]]
  BY DEF ListInv
<1>1. proc'[p] = k /\ \A q \in Admin \ {p} : proc'[q] = proc[q]
  BY <1>0
<1>2. ASSUME NEW pair \in Pairs, WritingBy(k, pair) \/ \E q \in Admin \ {p} : WritingBy(proc[q], pair)
      PROVE  Writing(pair)'
  <2>1. PICK q \in Admin : WritingBy(proc'[q], pair)
    BY <1>1, <1>2
  <2> QED
    BY <2>1 DEF WritingBy, Writing, At, PairsOf
<1>3. Pairs' = Pairs
  BY DEF Pairs, Listed
<1> QED
  BY <1>2, <1>3 DEF Values

\* A statement that adds accounts or addresses at most.
LEMMA GrowStep ==
  ASSUME WblistAssumption, ListInv, NEW p \in Admin, Runs(p), ~At(p, "insert"),
         NEW k, proc' = [proc EXCEPT ![p] = k],
         k = Idle \/ (/\ k \in Job /\ k.cmd = proc[p].cmd /\ JobOK(k)' /\ DueOK(k)'
                      /\ k.alone => proc[p].alone /\ AloneOK(k)'),
         Tables', UNCHANGED <<lists, due>>,
         users \subseteq users', \A u \in users' \ users : u.id > last_id["users"],
         mailaddr \subseteq mailaddr', \A m \in mailaddr' \ mailaddr : m.id > last_id["mailaddr"],
         last_id["mailaddr"] <= last_id'["mailaddr"]
  PROVE  ListInv'
<1>0. Tables /\ Lists /\ Jobs /\ Values
  BY DEF ListInv
<1>1. \A pair \in Pairs : InForce(pair)' = InForce(pair)
  BY <1>0, GrowKeeps
<1>2. Lists'
  <2>1. \A dir \in Directions : Table(dir)' = Table(dir)
    BY DEF Table, lists
  <2>2. \A dir \in Directions : \A r \in Table(dir) :
           /\ AddressId(dir, r) <= last_id'["mailaddr"]
           /\ \A u \in users', m \in mailaddr' : Joins(dir, r, u, m) => u \in users /\ m \in mailaddr
    <3> SUFFICES ASSUME NEW dir \in Directions, NEW r \in Table(dir)
                 PROVE  /\ AddressId(dir, r) <= last_id'["mailaddr"]
                        /\ \A u \in users', m \in mailaddr' : Joins(dir, r, u, m) => u \in users /\ m \in mailaddr
      OBVIOUS
    <3>1. r \in ListRow /\ AddressId(dir, r) \in Nat /\ AddressId(dir, r) <= last_id["mailaddr"]
      BY <1>0, RowNumbers DEF Lists
    <3>2. last_id["mailaddr"] \in Nat /\ last_id'["mailaddr"] \in Nat /\ last_id["users"] \in Nat
      BY <1>0 DEF Tables
    <3>3. PICK v \in users : v.id = AccountId(dir, r) /\ v.id \in Nat /\ v.id <= last_id["users"]
      BY <1>0 DEF Lists, Tables, AccountRow
    <3>4. \A u \in users' : u.id = v.id => u \in users
      BY <3>2, <3>3
    <3>5. \A m \in mailaddr' : m.id = AddressId(dir, r) => m \in mailaddr
      BY <3>1, <3>2
    <3> QED
      BY <3>1, <3>2, <3>3, <3>4, <3>5 DEF Joins
  <2> QED
    BY <1>0, <2>1, <2>2 DEF Lists, Joins, AccountId, AddressId, Directions, ListRow
<1>3. \A q \in Admin \ {p} : \A j \in Job :
        Runs(q) /\ proc[q] = j => JobOK(j)' /\ DueOK(j)' /\ (j.alone => AloneOK(j)')
  <2> SUFFICES ASSUME NEW q \in Admin \ {p}, NEW j \in Job, Runs(q), proc[q] = j
               PROVE  JobOK(j)' /\ DueOK(j)' /\ (j.alone => AloneOK(j)')
    OBVIOUS
  <2>1. JobOK(j) /\ DueOK(j) /\ (j.alone => AloneOK(j))
    BY <1>0, JobOf
  <2>2. last_id'["mailaddr"] \in Nat
    BY DEF Tables
  <2>3. JobOK(j)'
    BY <1>0, <2>1, <2>2, JobKept
  <2>4. DueOK(j)'
    BY <2>1, DueKept
  <2>5. \A pair \in PairsOf(j.cmd) : pair \in Pairs
    BY DEF PairsOf
  <2>6. j.alone => AloneOK(j)'
    BY <1>1, <2>1, <2>5, AloneKept
  <2> QED
    BY <2>3, <2>4, <2>6
<1>4. Jobs' /\ proc' = [q \in Admin |-> proc'[q]]
  BY <1>3, JobsStep
<1>5. Values'
  <2>1. due' \in [Pairs -> SUBSET {"W", "B", "none"}]
    BY <1>0 DEF Values
  <2>2. ASSUME NEW pair \in Pairs
        PROVE /\ due'[pair] # {} /\ InForce(pair)' \subseteq due'[pair]
              /\ \/ InForce(pair)' # {} \/ "none" \in due'[pair] \/ WritingBy(k, pair)
                 \/ \E q \in Admin \ {p} : WritingBy(proc[q], pair)
    <3>1. ~WritingBy(proc[p], pair)
      BY DEF At, WritingBy
    <3>2. Writing(pair) => \E q \in Admin \ {p} : WritingBy(proc[q], pair)
      BY <3>1, WritingIs
    <3> QED
      BY <1>0, <1>1, <3>2 DEF Values
  <2> QED
    BY <2>1, <2>2, ValuesStep
<1> QED
  BY <1>2, <1>4, <1>5 DEF ListInv

-----------------------------------------------------------------------------
(* The statements of a command *)

\* What a command is, at a statement of it.
LEMMA AtJob ==
  ASSUME ListInv, NEW p \in Admin, NEW l, At(p, l), l # "idle"
  PROVE  /\ Runs(p) /\ proc[p] \in Job /\ JobOK(proc[p]) /\ DueOK(proc[p]) /\ proc[p].pc = l
         /\ proc[p].alone => AloneOK(proc[p])
<1>1. Runs(p)
  BY DEF At, Runs
<1> QED
  BY <1>1, JobOf DEF ListInv, At

\* The account of a command is found or made.
LEMMA UserKnown ==
  ASSUME WblistAssumption, ListInv, NEW p \in Admin, Runs(p), proc[p].pc \in {"user", "create"},
         NEW n \in Nat, NEW k, k = [proc[p] EXCEPT !.pc = AfterUser(proc[p].cmd), !.user = n],
         proc' = [proc EXCEPT ![p] = k], UNCHANGED <<mailaddr, lists, due>>,
         Tables', users \subseteq users', \A u \in users' \ users : u.id > last_id["users"],
         last_id["mailaddr"] <= last_id'["mailaddr"],
         [id |-> n, email |-> proc[p].cmd.account] \in users'
  PROVE  ListInv'
<1>0. PICK j \in Job : j = proc[p] /\ JobOK(j) /\ DueOK(j)
  BY JobOf DEF ListInv
<1>1. AfterUser(j.cmd) \in {"delete", "report", "mailaddr", "ids"}
      /\ (AfterUser(j.cmd) = "delete" => j.cmd.op = "delete-all")
      /\ (AfterUser(j.cmd) = "report" => j.cmd.addresses = {} /\ j.cmd.op # "delete-all")
      /\ (AfterUser(j.cmd) = "mailaddr" => j.cmd.op = "add")
      /\ (AfterUser(j.cmd) = "ids" => j.cmd.op = "delete")
  <2>1. j.cmd.op \in {"add", "delete", "delete-all"}
    BY JobForm
  <2>2. CASE j.cmd.op = "delete-all"
    BY <2>2 DEF AfterUser
  <2>3. CASE j.cmd.op # "delete-all" /\ j.cmd.addresses = {}
    BY <2>3 DEF AfterUser
  <2>4. CASE j.cmd.op = "add" /\ j.cmd.addresses # {}
    BY <2>4 DEF AfterUser
  <2>5. CASE j.cmd.op = "delete" /\ j.cmd.addresses # {}
    BY <2>5 DEF AfterUser
  <2> QED
    BY <2>1, <2>2, <2>3, <2>4, <2>5
<1>2. k \in Job /\ k.cmd = j.cmd /\ k.pc = AfterUser(j.cmd) /\ k.user = n /\ k.left = j.left
      /\ k.ids = j.ids /\ k.alone = j.alone
  BY <1>0, <1>1 DEF Job
<1>3. j.left = j.cmd.addresses /\ j.ids = {}
  BY <1>0 DEF JobOK
<1>4. k.left = k.cmd.addresses /\ k.ids = {}
  BY <1>2, <1>3
<1>5. JobOK(k)'
  <2>1. \A a \in Listed : PairOf(j.cmd, a) \in Pairs
    BY <1>0 DEF JobOK
  <2>2. [id |-> k.user, email |-> k.cmd.account] \in users'
    BY <1>0, <1>2
  <2>3. k.pc \notin {"insert", "user", "create"} /\ (k.pc = "delete" => k.cmd.op # "add")
        /\ (k.pc = "mailaddr" => k.cmd.op = "add") /\ (k.pc = "ids" => k.cmd.op # "delete-all")
    BY <1>1, <1>2
  <2>4. \A a \in Listed : PairOf(k.cmd, a) \in Pairs
    BY <1>2, <2>1
  <2>6. \A m \in k.ids : FALSE
    BY <1>4
  <2> QED
    BY <1>4, <2>2, <2>3, <2>4, <2>6 DEF JobOK
<1>6. DueOK(k)'
  BY <1>0, <1>2, <1>4 DEF DueOK, PairsOf, Pairs, Listed
<1>7. AfterUser(j.cmd) = "report" => PairsOf(k.cmd) = {}
  BY <1>1, <1>2 DEF PairsOf
<1>8. AloneOK(k)'
  <2>1. CASE k.cmd.op = "add"
    <3>1. AddAlone(k)'
      BY <1>1, <1>2, <1>4, <1>7, <2>1 DEF AddAlone, PairsOf, Pairs, Listed
    <3> QED
      BY <2>1, <3>1 DEF AloneOK
  <2>2. CASE k.cmd.op # "add"
    <3>1. DeleteAlone(k)'
      BY <1>1, <1>2, <1>4, <1>7, <2>2 DEF DeleteAlone, PairsOf, Pairs, Listed
    <3> QED
      BY <2>2, <3>1 DEF AloneOK
  <2> QED
    BY <2>1, <2>2
<1> QED
  BY <1>0, <1>2, <1>5, <1>6, <1>8, GrowStep DEF At

LEMMA GetUserKeeps == ASSUME WblistAssumption, ListInv, NEW p \in Admin, GetUser(p) PROVE ListInv'
<1>0. /\ At(p, "user") /\ UNCHANGED <<users, mailaddr, last_id, lists, due>> /\ Tables
  BY DEF GetUser, ListInv
<1>1. Runs(p) /\ proc[p] \in Job /\ JobOK(proc[p]) /\ DueOK(proc[p]) /\ proc[p].pc = "user"
      /\ (proc[p].alone => AloneOK(proc[p]))
  BY <1>0, AtJob
<1>2. Tables' /\ last_id["mailaddr"] <= last_id'["mailaddr"]
  BY <1>0 DEF Tables
<1>3. CASE Stored(users, proc[p].cmd.account)
  <2> DEFINE w == CHOOSE v \in users : v.email = proc[p].cmd.account
  <2>2. w \in users /\ w.email = proc[p].cmd.account
    BY <1>3 DEF Stored
  <2>3. w.id \in Nat /\ w = [id |-> w.id, email |-> proc[p].cmd.account]
    BY <1>0, <2>2 DEF Tables, AccountRow
  <2>4. proc' = [proc EXCEPT ![p] = [proc[p] EXCEPT !.pc = AfterUser(proc[p].cmd), !.user = w.id]]
    BY <1>3 DEF GetUser
  <2> HIDE DEF w
  <2>5. PICK n \in Nat : n = w.id
    BY <2>3
  <2>6. PICK k : k = [proc[p] EXCEPT !.pc = AfterUser(proc[p].cmd), !.user = n]
    OBVIOUS
  <2>7. proc' = [proc EXCEPT ![p] = k] /\ [id |-> n, email |-> proc[p].cmd.account] \in users'
    BY <1>0, <2>2, <2>3, <2>4, <2>5, <2>6
  <2>8. users \subseteq users' /\ (\A u \in users' \ users : u.id > last_id["users"])
        /\ UNCHANGED <<mailaddr, lists, due>> /\ proc[p].pc \in {"user", "create"}
    BY <1>0, <1>1
  <2> QED
    BY <1>1, <1>2, <2>6, <2>7, <2>8, UserKnown
<1>4. CASE ~Stored(users, proc[p].cmd.account)
  <2>1. PICK j \in Job : j = proc[p] /\ JobOK(j) /\ DueOK(j) /\ j.pc = "user"
    BY <1>1
  <2>2. PICK k : k = [j EXCEPT !.pc = "create"]
    OBVIOUS
  <2>3. k \in Job /\ k.cmd = j.cmd /\ k.pc = "create" /\ k.left = j.left /\ k.ids = j.ids /\ k.alone = j.alone
    BY <2>1, <2>2 DEF Job
  <2>4. proc' = [proc EXCEPT ![p] = k]
    BY <1>4, <2>1, <2>2 DEF GetUser
  <2>5. JobOK(j)' /\ DueOK(j)'
    <3>1. last_id'["mailaddr"] \in Nat /\ last_id["mailaddr"] <= last_id'["mailaddr"]
      BY <1>0, <1>2 DEF Tables
    <3>2. JobOK(j)'
      BY <1>0, <2>1, <3>1, JobKept
    <3>3. DueOK(j)'
      BY <1>0, <2>1, DueKept
    <3> QED
      BY <3>2, <3>3
  <2>6. JobOK(k)'
    BY <2>1, <2>3, <2>5 DEF JobOK
  <2>7. DueOK(k)'
    BY <2>3, <2>5 DEF DueOK
  <2>8. AloneOK(k)'
    BY <2>3 DEF AloneOK, AddAlone, DeleteAlone
  <2> QED
    BY <1>0, <1>1, <1>2, <2>1, <2>3, <2>4, <2>6, <2>7, <2>8, GrowStep DEF At
<1> QED
  BY <1>3, <1>4

LEMMA CreateUserKeeps == ASSUME WblistAssumption, ListInv, NEW p \in Admin, CreateUser(p) PROVE ListInv'
<1>0. /\ At(p, "create") /\ UNCHANGED <<mailaddr, lists, due>> /\ Tables
  BY DEF CreateUser, ListInv
<1>1. Runs(p) /\ proc[p] \in Job /\ proc[p].pc = "create" /\ proc[p].cmd.account \in Owners
      /\ proc = [q \in Admin |-> proc[q]]
  BY <1>0, AtJob, JobForm DEF Cmd, Owners, ListInv
<1>2. CASE Stored(users, proc[p].cmd.account)
  <2>1. proc' = [proc EXCEPT ![p] = Idle] /\ UNCHANGED <<users, last_id>>
    BY <1>2 DEF CreateUser
  <2>2. Tables' /\ last_id["mailaddr"] <= last_id'["mailaddr"]
    BY <1>0, <2>1 DEF Tables
  <2>3. PICK k : k = Idle
    OBVIOUS
  <2>4. proc' = [proc EXCEPT ![p] = k]
    BY <2>1, <2>3
  <2> QED
    BY <1>0, <1>1, <2>1, <2>2, <2>3, <2>4, GrowStep DEF At
<1>3. CASE ~Stored(users, proc[p].cmd.account)
  <2>1. PICK n \in Nat : n = last_id["users"] + 1
    BY <1>0 DEF Tables
  <2>2. /\ users' = users \cup {[id |-> n, email |-> proc[p].cmd.account]}
        /\ last_id' = [last_id EXCEPT !["users"] = n]
    BY <1>3, <2>1 DEF CreateUser, Insert, NumberGiven, NewId
  <2>3. PICK k : k = [proc[p] EXCEPT !.pc = AfterUser(proc[p].cmd), !.user = n]
    OBVIOUS
  <2>4. proc' = [proc EXCEPT ![p].pc = AfterUser(proc[p].cmd), ![p].user = n]
    BY <1>3, <2>1 DEF CreateUser, NewId
  <2>5. proc' = [proc EXCEPT ![p] = k]
    BY <1>1, <2>3, <2>4 DEF Job
  <2>6. \A u \in users : u.id \in Nat /\ u.id <= last_id["users"] /\ last_id["users"] \in Nat
    BY <1>0 DEF Tables, AccountRow
  <2>7. last_id' \in [{"users", "mailaddr"} -> Nat] /\ last_id'["users"] = n /\ last_id'["mailaddr"] = last_id["mailaddr"]
        /\ last_id["mailaddr"] \in Nat
    BY <1>0, <2>2 DEF Tables
  <2>8. \A u \in users : u.id < n /\ u.email # proc[p].cmd.account
    BY <1>3, <2>1, <2>6 DEF Stored
  <2>9. Tables'
    BY <1>0, <1>1, <2>1, <2>2, <2>6, <2>7, <2>8 DEF Tables, AccountRow
  <2>10. \A u \in users' \ users : u.id > last_id["users"]
    BY <1>0, <2>1, <2>2 DEF Tables
  <2>11. users \subseteq users' /\ [id |-> n, email |-> proc[p].cmd.account] \in users'
         /\ proc[p].pc \in {"user", "create"} /\ last_id["mailaddr"] <= last_id'["mailaddr"]
    BY <1>1, <2>2, <2>7
  <2> QED
    BY <1>0, <1>1, <2>3, <2>5, <2>9, <2>10, <2>11, UserKnown
<1> QED
  BY <1>2, <1>3

\* What a command is when one more of its addresses is behind it.
LEMMA DoneForm ==
  ASSUME NEW j \in Job, NEW a, NEW k, k = Done(j, a)
  PROVE  /\ k \in Job /\ k.cmd = j.cmd /\ k.user = j.user /\ k.left = j.left \ {a} /\ k.ids = j.ids
         /\ k.alone = j.alone
         /\ k.pc = IF j.left # {a} THEN j.pc ELSE IF j.pc = "mailaddr" THEN "ids" ELSE "report"
<1>1. DOMAIN j = {"pc", "cmd", "user", "left", "ids", "alone"}
  BY DEF Job
<1>2. k.pc = (IF j.left # {a} THEN j.pc ELSE IF j.pc = "mailaddr" THEN "ids" ELSE "report")
      /\ k.left = j.left \ {a} /\ k.cmd = j.cmd /\ k.user = j.user /\ k.ids = j.ids /\ k.alone = j.alone
  BY <1>1 DEF Done
<1>3. j.left \ {a} \in SUBSET Listed /\ k.pc \in {"user", "create", "mailaddr", "ids", "delete", "insert", "report"}
  BY <1>2, JobForm
<1>4. k \in Job
  BY <1>3 DEF Done, Job
<1> QED
  BY <1>2, <1>4

LEMMA DoneOK ==
  ASSUME NEW j \in Job, JobOK(j), j.pc \in {"mailaddr", "insert"}, NEW a \in j.left, NEW k, k = Done(j, a)
  PROVE  JobOK(k) /\ (DueOK(j) => DueOK(k))
<1>1. /\ k \in Job /\ k.cmd = j.cmd /\ k.user = j.user /\ k.left = j.left \ {a} /\ k.ids = j.ids
      /\ k.alone = j.alone
      /\ k.pc = IF j.left # {a} THEN j.pc ELSE IF j.pc = "mailaddr" THEN "ids" ELSE "report"
  BY DoneForm
<1>2. k.pc \in {"mailaddr", "insert", "ids", "report"} /\ (k.pc = "mailaddr" => j.pc = "mailaddr")
      /\ (k.pc = "insert" => j.pc = "insert") /\ j.cmd.op = "add"
  BY <1>1 DEF JobOK
<1>3. JobOK(k)
  BY <1>1, <1>2 DEF JobOK
<1>4. DueOK(j) => DueOK(k)
  BY <1>1 DEF DueOK
<1> QED
  BY <1>3, <1>4

LEMMA CreateMailaddrKeeps ==
  ASSUME WblistAssumption, ListInv, NEW p \in Admin, CreateMailaddr(p) PROVE ListInv'
<1>0. /\ At(p, "mailaddr") /\ UNCHANGED <<users, lists, due>> /\ Tables /\ proc = [q \in Admin |-> proc[q]]
  BY DEF CreateMailaddr, ListInv
<1>1. PICK a \in proc[p].left :
        /\ IF Stored(mailaddr, a) THEN UNCHANGED <<mailaddr, last_id>>
           ELSE mailaddr' = Insert(mailaddr, "mailaddr", a) /\ NumberGiven("mailaddr")
        /\ proc' = [proc EXCEPT ![p] = Done(proc[p], a)]
  BY DEF CreateMailaddr
<1>2. PICK j \in Job : j = proc[p] /\ JobOK(j) /\ DueOK(j) /\ j.pc = "mailaddr" /\ (j.alone => AloneOK(j))
  BY <1>0, AtJob
<1>3. PICK k : k = Done(j, a)
  OBVIOUS
<1>4. a \in j.left /\ a \in Listed /\ a \in Known /\ j.cmd.op = "add" /\ a \in j.cmd.addresses
  BY <1>1, <1>2, JobForm DEF JobOK, Known
<1>5. /\ k \in Job /\ k.cmd = j.cmd /\ k.left = j.left \ {a} /\ k.ids = j.ids
      /\ k.alone = j.alone
      /\ k.pc = IF j.left # {a} THEN j.pc ELSE IF j.pc = "mailaddr" THEN "ids" ELSE "report"
  BY <1>3, DoneForm
<1>6. JobOK(k) /\ DueOK(k)
  BY <1>2, <1>3, <1>4, DoneOK
<1>7. /\ Tables' /\ last_id["mailaddr"] <= last_id'["mailaddr"] /\ last_id'["mailaddr"] \in Nat
      /\ mailaddr \subseteq mailaddr' /\ \A m \in mailaddr' \ mailaddr : m.id > last_id["mailaddr"]
      /\ Stored(mailaddr', a)
  <2>1. CASE Stored(mailaddr, a)
    BY <1>0, <1>1, <2>1 DEF Tables
  <2>2. CASE ~Stored(mailaddr, a)
    <3>1. PICK n \in Nat : n = last_id["mailaddr"] + 1
      BY <1>0 DEF Tables
    <3>2. mailaddr' = mailaddr \cup {[id |-> n, email |-> a]} /\ last_id' = [last_id EXCEPT !["mailaddr"] = n]
      BY <1>1, <2>2, <3>1 DEF Insert, NumberGiven, NewId
    <3>3. \A m \in mailaddr : m.id \in Nat /\ m.id <= last_id["mailaddr"] /\ last_id["mailaddr"] \in Nat
      BY <1>0 DEF Tables, AddressRow
    <3>4. last_id' \in [{"users", "mailaddr"} -> Nat] /\ last_id'["mailaddr"] = n /\ last_id'["users"] = last_id["users"]
          /\ last_id["mailaddr"] \in Nat
      BY <1>0, <3>2 DEF Tables
    <3>5. \A m \in mailaddr : m.id < n /\ m.email # a
      BY <2>2, <3>1, <3>3 DEF Stored
    <3>6. [id |-> n, email |-> a] \in AddressRow
      BY <1>4 DEF AddressRow
    <3>7. Tables'
      BY <1>0, <3>1, <3>2, <3>3, <3>4, <3>5, <3>6 DEF Tables, AddressRow, AccountRow
    <3>8. \A m \in mailaddr' \ mailaddr : m.id > last_id["mailaddr"]
      BY <3>1, <3>2, <3>4
    <3>9. Stored(mailaddr', a)
      <4>1. PICK w : w = [id |-> n, email |-> a]
        OBVIOUS
      <4>2. w \in mailaddr' /\ w.email = a
        BY <3>2, <4>1
      <4> QED
        BY <4>2 DEF Stored
    <3> QED
      BY <3>1, <3>2, <3>4, <3>7, <3>8, <3>9
  <2> QED
    BY <2>1, <2>2
<1>8. JobOK(k)'
  BY <1>0, <1>5, <1>6, <1>7, JobKept
<1>9. DueOK(k)'
  BY <1>0, <1>5, <1>6, <1>7, DueKept
<1>10. ASSUME k.alone PROVE AloneOK(k)'
  <2>1. AddAlone(j) /\ k.cmd.op = "add"
    BY <1>2, <1>4, <1>5, <1>10 DEF AloneOK
  <2>2. \A b \in j.cmd.addresses \ j.left : Stored(mailaddr', b)
    BY <1>2, <1>7, <2>1 DEF AddAlone, Stored
  <2>3. \A b \in k.cmd.addresses \ k.left : Stored(mailaddr', b)
    BY <1>5, <1>7, <2>2
  <2>4. k.pc = "mailaddr" \/ (k.pc = "ids" /\ k.left = {})
    BY <1>2, <1>5
  <2>5. AddAlone(k)'
    BY <2>3, <2>4 DEF AddAlone, Stored
  <2> QED
    BY <2>1, <2>5 DEF AloneOK
<1>11. Runs(p) /\ ~At(p, "insert") /\ proc' = [proc EXCEPT ![p] = k]
  BY <1>0, <1>1, <1>2, <1>3 DEF At, Runs
<1> QED
  BY <1>0, <1>2, <1>5, <1>7, <1>8, <1>9, <1>10, <1>11, GrowStep

LEMMA SelectIdsKeeps == ASSUME WblistAssumption, ListInv, NEW p \in Admin, SelectIds(p) PROVE ListInv'
<1>0. /\ At(p, "ids") /\ UNCHANGED <<users, mailaddr, last_id, lists, due>> /\ Tables
      /\ proc = [q \in Admin |-> proc[q]]
  BY DEF SelectIds, ListInv
<1>1. PICK j \in Job : j = proc[p] /\ JobOK(j) /\ DueOK(j) /\ j.pc = "ids" /\ (j.alone => AloneOK(j))
  BY <1>0, AtJob
<1>2. PICK ids : ids = {m \in mailaddr : m.email \in j.cmd.addresses}
  OBVIOUS
<1>3. PICK k : k = [j EXCEPT !.ids = ids, !.left = {m.email : m \in ids},
                             !.pc = IF ids = {} THEN "report" ELSE "delete"]
  OBVIOUS
<1>4. proc' = [proc EXCEPT ![p] = k]
  BY <1>0, <1>1, <1>2, <1>3 DEF SelectIds, Job
<1>5. ids \subseteq AddressRow /\ {m.email : m \in ids} \subseteq j.cmd.addresses /\ j.cmd.addresses \subseteq Listed
  BY <1>0, <1>2, JobForm DEF Tables
<1>6. /\ k \in Job /\ k.cmd = j.cmd /\ k.left = {m.email : m \in ids} /\ k.ids = ids
      /\ k.alone = j.alone /\ k.user = j.user /\ k.pc = IF ids = {} THEN "report" ELSE "delete"
  BY <1>3, <1>5 DEF Job
<1>7. JobOK(k)
  <2>1. \A m \in k.ids : /\ m.email \in k.cmd.addresses /\ m.id <= last_id["mailaddr"]
                         /\ \A n \in mailaddr : m.id = n.id => m = n
                         /\ \A n \in k.ids : m.email = n.email => m = n
    BY <1>0, <1>2, <1>6 DEF Tables
  <2>2. k.left \subseteq k.cmd.addresses
    BY <1>5, <1>6
  <2> QED
    BY <1>1, <1>6, <2>1, <2>2 DEF JobOK
<1>8. DueOK(k)
  BY <1>1, <1>2, <1>6 DEF DueOK
<1>9. /\ Tables' /\ last_id["mailaddr"] <= last_id'["mailaddr"] /\ last_id'["mailaddr"] \in Nat
  BY <1>0 DEF Tables
<1>10. JobOK(k)'
  BY <1>0, <1>6, <1>7, <1>9, JobKept
<1>11. DueOK(k)'
  BY <1>0, <1>6, <1>7, <1>8, DueKept
<1>12. ASSUME k.alone PROVE AloneOK(k)
  <2>0. AloneOK(j)
    BY <1>1, <1>6, <1>12
  <2>1. CASE k.cmd.op = "add"
    <3>1. AddAlone(j)
      BY <1>6, <2>0, <2>1 DEF AloneOK
    <3>2. \A a \in j.cmd.addresses : \E m \in ids \cap mailaddr : m.email = a
      BY <1>1, <1>2, <3>1 DEF AddAlone, Stored
    <3>3. ids = {} => PairsOf(k.cmd) = {}
      BY <1>6, <2>1, <3>2 DEF PairsOf
    <3>4. AddAlone(k)
      BY <1>6, <3>2, <3>3 DEF AddAlone
    <3> QED
      BY <2>1, <3>4 DEF AloneOK
  <2>2. CASE k.cmd.op # "add"
    <3>1. k.cmd.op # "delete-all"
      BY <1>1, <1>6 DEF JobOK
    <3>2. \A a \in j.cmd.addresses : InForce(PairOf(j.cmd, a)) = {} \/ \E m \in ids \cap mailaddr : m.email = a
      <4> SUFFICES ASSUME NEW a \in j.cmd.addresses, ~ \E m \in ids \cap mailaddr : m.email = a
                   PROVE  InForce(PairOf(j.cmd, a)) = {}
        OBVIOUS
      <4>1. ~Stored(mailaddr, a)
        BY <1>2 DEF Stored
      <4>2. PairOf(j.cmd, a)[3] = a
        BY DEF PairOf
      <4> QED
        BY <4>1, <4>2, NotStoredEmpty
    <3>3. ids = {} => \A pair \in PairsOf(k.cmd) : InForce(pair) = {}
      <4> SUFFICES ASSUME ids = {}, NEW pair \in PairsOf(k.cmd) PROVE InForce(pair) = {}
        OBVIOUS
      <4>1. k.cmd \in Cmd
        BY <1>6, JobForm
      <4>2. pair[3] \in j.cmd.addresses
        BY <1>6, <3>1, <4>1, PairOfCommand
      <4>3. ~Stored(mailaddr, pair[3])
        BY <1>2, <4>2 DEF Stored
      <4> QED
        BY <4>3, NotStoredEmpty
    <3>4. DeleteAlone(k)
      BY <1>6, <3>2, <3>3 DEF DeleteAlone
    <3> QED
      BY <2>2, <3>4 DEF AloneOK
  <2> QED
    BY <2>1, <2>2
<1>13. k.alone => AloneOK(k)'
  <2>1. \A pair \in PairsOf(k.cmd) : InForce(pair)' = InForce(pair)
    <3>1. \A pair \in Pairs : InForce(pair)' = InForce(pair)
      BY <1>0, GrowKeeps DEF ListInv
    <3> QED
      BY <3>1 DEF PairsOf
  <2> QED
    BY <1>0, <1>6, <1>7, <1>12, <2>1, AloneKept
<1>14. Runs(p) /\ ~At(p, "insert")
  BY <1>0 DEF At, Runs
<1> QED
  BY <1>0, <1>1, <1>4, <1>6, <1>9, <1>10, <1>11, <1>13, <1>14, GrowStep

\* What a statement that writes a list or reports does to the other commands.
LEMMA OtherKept ==
  ASSUME WblistAssumption, ListInv, NEW p \in Admin, Runs(p), UNCHANGED <<users, mailaddr, last_id>>,
         \A pair \in Pairs \ PairsOf(proc[p].cmd) : InForce(pair)' = InForce(pair),
         NEW q \in Admin \ {p}, NEW j \in Job, Runs(q), proc[q] = j,
         \A pair \in PairsOf(j.cmd) : due[pair] \subseteq due'[pair] /\ due'[pair] \subseteq due[pair] \cup {"none"}
  PROVE  JobOK(j)' /\ DueOK(j)' /\ (j.alone => AloneOK(j)')
<1>0. Tables /\ Lists /\ Jobs
  BY DEF ListInv
<1>1. JobOK(j) /\ DueOK(j) /\ (j.alone => AloneOK(j) /\ Apart(j.cmd, proc[p].cmd))
  BY <1>0, JobOf
<1>2. last_id'["mailaddr"] \in Nat /\ last_id["mailaddr"] <= last_id'["mailaddr"]
  BY <1>0 DEF Tables
<1>3. JobOK(j)'
  BY <1>0, <1>1, <1>2, JobKept
<1>4. \A pair \in PairsOf(j.cmd) :
        j.cmd.op # "add" /\ j.cmd.wb \in due'[pair] => j.cmd.wb \in due[pair] \/ "none" \in due'[pair]
  OBVIOUS
<1>5. DueOK(j)'
  BY <1>1, <1>4, DueKept
<1>6. j.alone => AloneOK(j)'
  <2>1. j.alone => \A pair \in PairsOf(j.cmd) : InForce(pair)' = InForce(pair)
    <3>1. PairsOf(j.cmd) \subseteq Pairs
      BY DEF PairsOf
    <3> QED
      BY <1>1, <3>1 DEF Apart
  <2> QED
    BY <1>1, <2>1, AloneKept
<1> QED
  BY <1>3, <1>5, <1>6

LEMMA DeleteRowsKeeps == ASSUME WblistAssumption, ListInv, NEW p \in Admin, DeleteRows(p) PROVE ListInv'
<1>0. /\ At(p, "delete") /\ UNCHANGED <<users, mailaddr, last_id, due>> /\ Tables /\ Lists /\ Values
      /\ proc = [q \in Admin |-> proc[q]]
  BY DEF DeleteRows, ListInv
<1>1. PICK j \in Job : j = proc[p] /\ JobOK(j) /\ DueOK(j) /\ j.pc = "delete" /\ (j.alone => AloneOK(j))
  BY <1>0, AtJob
<1>2. PICK k : k = [j EXCEPT !.pc = IF j.cmd.op = "add" THEN "insert" ELSE "report"]
  OBVIOUS
<1>3. proc' = [proc EXCEPT ![p] = k]
  BY <1>0, <1>1, <1>2 DEF DeleteRows, Job
<1>4. /\ k \in Job /\ k.cmd = j.cmd /\ k.left = j.left /\ k.ids = j.ids
      /\ k.alone = j.alone /\ k.user = j.user /\ k.pc = IF j.cmd.op = "add" THEN "insert" ELSE "report"
  BY <1>2 DEF Job
<1>5. SetTable(j.cmd.direction, {row \in Table(j.cmd.direction) : ~Chosen(j, row)})
  BY <1>1 DEF DeleteRows, Chosen
<1>6. /\ j.cmd \in Cmd /\ j.cmd.direction \in Directions /\ j.cmd.addresses \subseteq Listed
      /\ j.cmd.op \in {"add", "delete", "delete-all"}
  BY JobForm
<1>7. ASSUME NEW pair \in Pairs
      PROVE  /\ InForce(pair)' \subseteq InForce(pair)
             /\ pair \notin PairsOf(j.cmd) => InForce(pair)' = InForce(pair)
             /\ \A v \in InForce(pair) \ InForce(pair)' :
                  IF j.cmd.op = "add" THEN \E m \in j.ids : m.email = pair[3] ELSE v = j.cmd.wb
             /\ pair \in PairsOf(j.cmd) /\ j.cmd.op = "add" /\ (\E m \in j.ids \cap mailaddr : m.email = pair[3])
                  => InForce(pair)' = {}
             /\ /\ pair \in PairsOf(j.cmd) /\ j.cmd.op # "add"
                /\ j.cmd.op = "delete" => InForce(pair) = {} \/ \E m \in j.ids \cap mailaddr : m.email = pair[3]
                => j.cmd.wb \notin InForce(pair)'
  <2>1. users' = users /\ mailaddr' = mailaddr
    BY <1>0
  <2> QED
    BY <1>0, <1>1, <1>5, <2>1, DeleteEffect
<1>8. Lists'
  <2>1. \A dir \in Directions : Table(dir)' \subseteq Table(dir)
    BY <1>5, <1>6, SetTableIs
  <2> QED
    BY <1>0, <2>1 DEF Lists, Joins, AccountId, AddressId, Directions, ListRow
<1>9. Tables'
  BY <1>0 DEF Tables
<1>10. JobOK(k)'
  <2>1. JobOK(k)
    BY <1>1, <1>4 DEF JobOK
  <2>2. last_id'["mailaddr"] \in Nat /\ last_id["mailaddr"] <= last_id'["mailaddr"]
    BY <1>0 DEF Tables
  <2> QED
    BY <1>0, <1>4, <2>1, <2>2, JobKept
<1>11. DueOK(k)'
  BY <1>0, <1>1, <1>4 DEF DueOK, PairsOf, PairOf
<1>12. ASSUME k.alone PROVE AloneOK(k)'
  <2>1. AloneOK(j)
    BY <1>1, <1>4, <1>12
  <2>2. CASE j.cmd.op = "add"
    <3>1. \A a \in j.cmd.addresses : \E m \in j.ids \cap mailaddr : m.email = a
      BY <1>1, <2>1, <2>2 DEF AloneOK, AddAlone
    <3>2. \A a \in j.cmd.addresses : a \in j.left
      BY <1>1, <2>2, <3>1 DEF JobOK
    <3>3. \A a \in j.cmd.addresses : InForce(PairOf(j.cmd, a))' = {}
      <4> SUFFICES ASSUME NEW a \in j.cmd.addresses PROVE InForce(PairOf(j.cmd, a))' = {}
        OBVIOUS
      <4>1. PairOf(j.cmd, a) \in Pairs /\ PairOf(j.cmd, a) \in PairsOf(j.cmd) /\ PairOf(j.cmd, a)[3] = a
        BY <1>1, OwnPairs DEF PairOf
      <4> QED
        BY <1>7, <2>2, <3>1, <4>1
    <3>4. \A a \in j.cmd.addresses : \E m \in j.ids \cap mailaddr' : m.email = a
      BY <1>0, <3>1
    <3>5. \A a \in k.cmd.addresses : InForce(PairOf(k.cmd, a))' = IF a \in k.left THEN {} ELSE {k.cmd.wb}
      BY <1>4, <3>2, <3>3
    <3>6. AddAlone(k)'
      BY <1>4, <2>2, <3>4, <3>5 DEF AddAlone
    <3> QED
      BY <1>4, <2>2, <3>6 DEF AloneOK
  <2>3. CASE j.cmd.op # "add"
    <3>1. \A pair \in PairsOf(j.cmd) : j.cmd.wb \notin InForce(pair)'
      <4> SUFFICES ASSUME NEW pair \in PairsOf(j.cmd) PROVE j.cmd.wb \notin InForce(pair)'
        OBVIOUS
      <4>1. pair \in Pairs /\ pair = PairOf(j.cmd, pair[3]) /\ (j.cmd.op # "delete-all" => pair[3] \in j.cmd.addresses)
        BY <1>6, PairOfCommand
      <4>2. j.cmd.op = "delete" => InForce(pair) = {} \/ \E m \in j.ids \cap mailaddr : m.email = pair[3]
        BY <1>1, <2>1, <2>3, <4>1 DEF AloneOK, DeleteAlone
      <4> QED
        BY <1>7, <2>3, <4>1, <4>2
    <3>2. PairsOf(k.cmd)' = PairsOf(j.cmd)
      BY <1>4 DEF PairsOf
    <3>3. DeleteAlone(k)'
      BY <1>4, <2>3, <3>1, <3>2 DEF DeleteAlone
    <3> QED
      BY <1>4, <2>3, <3>3 DEF AloneOK
  <2> QED
    BY <2>2, <2>3
<1>13. \A q \in Admin \ {p} : \A i \in Job :
         Runs(q) /\ proc[q] = i => JobOK(i)' /\ DueOK(i)' /\ (i.alone => AloneOK(i)')
  <2>1. \A pair \in Pairs \ PairsOf(proc[p].cmd) : InForce(pair)' = InForce(pair)
    BY <1>1, <1>7
  <2>2. Runs(p)
    BY <1>0 DEF At, Runs
  <2> QED
    BY <1>0, <2>1, <2>2, OtherKept
<1>14. Jobs' /\ proc' = [q \in Admin |-> proc'[q]]
  <2>1. Runs(p)
    BY <1>0 DEF At, Runs
  <2> QED
    BY <1>1, <1>3, <1>4, <1>10, <1>11, <1>12, <1>13, <2>1, JobsStep
<1>15. Values'
  <2>1. due' \in [Pairs -> SUBSET {"W", "B", "none"}]
    BY <1>0 DEF Values
  <2>2. ASSUME NEW pair \in Pairs
        PROVE /\ due'[pair] # {} /\ InForce(pair)' \subseteq due'[pair]
              /\ \/ InForce(pair)' # {} \/ "none" \in due'[pair] \/ WritingBy(k, pair)
                 \/ \E q \in Admin \ {p} : WritingBy(proc[q], pair)
    <3>1. due'[pair] # {} /\ InForce(pair)' \subseteq due'[pair]
      BY <1>0, <1>7 DEF Values
    <3>2. ~WritingBy(proc[p], pair)
      BY <1>1 DEF WritingBy
    <3>3. Writing(pair) => \E q \in Admin \ {p} : WritingBy(proc[q], pair)
      BY <3>2, WritingIs
    <3>4. CASE InForce(pair) = {}
      BY <1>0, <3>1, <3>3, <3>4 DEF Values
    <3>5. ASSUME NEW v \in InForce(pair), InForce(pair)' = {}
          PROVE  "none" \in due[pair] \/ WritingBy(k, pair)
      <4>1. pair \in PairsOf(j.cmd)
        BY <1>7, <3>5
      <4>2. IF j.cmd.op = "add" THEN \E m \in j.ids : m.email = pair[3] ELSE v = j.cmd.wb
        BY <1>7, <3>5
      <4>3. CASE j.cmd.op = "add"
        <5>1. pair[3] \in j.left
          BY <1>1, <4>2, <4>3 DEF JobOK
        <5> QED
          BY <1>4, <4>1, <4>3, <5>1 DEF WritingBy
      <4>4. CASE j.cmd.op # "add"
        <5>1. j.cmd.wb \in due[pair]
          BY <1>0, <3>5, <4>2, <4>4 DEF Values
        <5> QED
          BY <1>1, <4>1, <4>4, <5>1 DEF DueOK
      <4> QED
        BY <4>3, <4>4
    <3> QED
      BY <1>0, <3>1, <3>4, <3>5
  <2> QED
    BY <1>3, <2>1, <2>2, ValuesStep
<1> QED
  BY <1>8, <1>9, <1>14, <1>15 DEF ListInv

LEMMA InsertRowKeeps == ASSUME WblistAssumption, ListInv, NEW p \in Admin, InsertRow(p) PROVE ListInv'
<1>0. /\ At(p, "insert") /\ UNCHANGED <<users, mailaddr, last_id, due>> /\ Tables /\ Lists /\ Values
      /\ proc = [q \in Admin |-> proc[q]]
  BY DEF InsertRow, ListInv
<1>1. PICK j \in Job : j = proc[p] /\ JobOK(j) /\ DueOK(j) /\ j.pc = "insert" /\ (j.alone => AloneOK(j))
  BY <1>0, AtJob, Zenon
<1>2. PICK m \in j.ids :
        LET row == NewRow(j.cmd.direction, j.user, m.id, j.cmd.wb)
            refused == \E r \in Table(j.cmd.direction) : r.rid = row.rid /\ r.sid = row.sid
        IN  /\ m.email \in j.left
            /\ SetTable(j.cmd.direction, IF refused THEN Table(j.cmd.direction)
                                         ELSE Table(j.cmd.direction) \cup {row})
            /\ proc' = [proc EXCEPT ![p] = Done(proc[p], m.email)]
  BY <1>1 DEF InsertRow
<1>3. PICK row : row = NewRow(j.cmd.direction, j.user, m.id, j.cmd.wb)
  OBVIOUS
<1>4. PICK rows : rows = IF \E r \in Table(j.cmd.direction) : r.rid = row.rid /\ r.sid = row.sid
                           THEN Table(j.cmd.direction) ELSE Table(j.cmd.direction) \cup {row}
  OBVIOUS
<1>5. /\ m.email \in j.left /\ SetTable(j.cmd.direction, rows)
      /\ proc' = [proc EXCEPT ![p] = Done(proc[p], m.email)]
  BY <1>2, <1>3, <1>4
<1>6. PICK k : k = Done(j, m.email)
  OBVIOUS
<1>7. /\ k \in Job /\ k.cmd = j.cmd /\ k.left = j.left \ {m.email} /\ k.ids = j.ids /\ k.user = j.user
      /\ k.alone = j.alone
      /\ k.pc = IF j.left # {m.email} THEN "insert" ELSE "report"
  BY <1>1, <1>6, DoneForm
<1>8. JobOK(k) /\ DueOK(k)
  BY <1>1, <1>5, <1>6, DoneOK
<1>9. /\ j.cmd \in Cmd /\ j.cmd.direction \in Directions /\ j.cmd.addresses \subseteq Listed /\ j.cmd.wb \in {"W", "B"}
  BY JobForm
<1>21. PICK own : own = PairOf(j.cmd, m.email)
  OBVIOUS
<1>10. /\ \A pair \in Pairs : pair # own => InForce(pair)' = InForce(pair)
       /\ InForce(own) \subseteq InForce(own)' /\ InForce(own)' \subseteq InForce(own) \cup {j.cmd.wb}
       /\ m \in mailaddr => InForce(own)' # {}
       /\ m \notin mailaddr => InForce(own)' = InForce(own)
       /\ row \in ListRow /\ AccountId(j.cmd.direction, row) = j.user
       /\ AddressId(j.cmd.direction, row) = m.id /\ row.wb = j.cmd.wb
  <2>3. m.id \in Nat /\ j.user \in Nat
    BY <1>1, <1>2, JobForm DEF AddressRow
  <2>4. row \in ListRow /\ AccountId(j.cmd.direction, row) = j.user
        /\ AddressId(j.cmd.direction, row) = m.id /\ row.wb = j.cmd.wb
    BY <1>3, <1>9, <2>3, NewRowIs
  <2>1. /\ users' = users /\ mailaddr' = mailaddr /\ j \in Job /\ m \in j.ids
        /\ JobOK(j) /\ j.pc = "insert" /\ SetTable(j.cmd.direction, rows)
    BY <1>0, <1>1, <1>2, <1>5
  <2>5. WblistAssumption /\ Tables /\ Lists
    BY <1>0
  <2>2. \/ rows = Table(j.cmd.direction) /\ \E r \in rows : r.rid = row.rid /\ r.sid = row.sid
        \/ rows = Table(j.cmd.direction) \cup {row}
    BY <1>4
  <2>6. own \in Pairs
    BY <1>1, <1>2, <1>21, OwnPairs DEF JobOK
  <2>7. ASSUME NEW pair \in Pairs PROVE pair # own => InForce(pair)' = InForce(pair)
    <3>1. CASE pair = own
      BY <3>1
    <3>2. CASE pair # own
      <4>1. pair # PairOf(j.cmd, m.email)
        BY <1>21, <3>2
      <4>2. ASSUME NEW v PROVE v \in InForce(pair)' <=> v \in InForce(pair)
        BY <2>1, <2>2, <2>4, <2>5, <2>7, <4>1, InsertAt
      <4> QED
        BY <4>2
    <3> QED
      BY <3>1, <3>2
  <2> QED
    BY <1>21, <2>1, <2>2, <2>4, <2>5, <2>6, <2>7, InsertEffect
<1>11. own \in Pairs /\ own \in PairsOf(j.cmd) /\ own[3] = m.email
  BY <1>1, <1>21, OwnPairs DEF JobOK, PairOf
<1>12. Lists'
  <2>1. /\ Table(j.cmd.direction)' = rows
        /\ \A e \in Directions \ {j.cmd.direction} : Table(e)' = Table(e)
    BY <1>5, <1>9, SetTableIs
  <2>2. \A dir \in Directions : \A r \in Table(dir)' : r \in Table(dir) \/ (r = row /\ dir = j.cmd.direction)
    BY <1>4, <2>1
  <2>3. \A r \in Table(j.cmd.direction)' : r.rid = row.rid /\ r.sid = row.sid /\ row \in Table(j.cmd.direction)' => r = row
    BY <1>0, <1>4, <1>9, <2>1 DEF Lists
  <2>4. m.id <= last_id["mailaddr"] /\ \A n \in mailaddr : m.id = n.id => m = n
    BY <1>1 DEF JobOK
  <2>5. [id |-> j.user, email |-> j.cmd.account] \in users
    BY <1>1 DEF JobOK
  <2>6. \A u \in users, n \in mailaddr : Joins(j.cmd.direction, row, u, n)
           => <<j.cmd.direction, u.email, n.email>> \in Pairs
    <3> SUFFICES ASSUME NEW u \in users, NEW n \in mailaddr, Joins(j.cmd.direction, row, u, n)
                 PROVE  <<j.cmd.direction, u.email, n.email>> \in Pairs
      OBVIOUS
    <3>1. n = m /\ u = [id |-> j.user, email |-> j.cmd.account]
      BY <1>0, <1>10, <2>4, <2>5 DEF Joins, Tables
    <3> QED
      BY <1>11, <1>21, <3>1 DEF PairOf
  <2>7. \E u \in users : u.id = AccountId(j.cmd.direction, row)
    BY <1>10, <2>5
  <2>8. ASSUME NEW dir \in Directions
        PROVE  /\ Table(dir)' \subseteq ListRow
               /\ \A r, s \in Table(dir)' : r.rid = s.rid /\ r.sid = s.sid => r = s
               /\ \A r \in Table(dir)' :
                    /\ \E u \in users : u.id = AccountId(dir, r)
                    /\ AddressId(dir, r) <= last_id["mailaddr"]
                    /\ \A u \in users, n \in mailaddr : Joins(dir, r, u, n) => <<dir, u.email, n.email>> \in Pairs
    <3>1. Table(dir)' \subseteq ListRow
      BY <1>0, <1>10, <2>2 DEF Lists
    <3>2. \A r, s \in Table(dir)' : r.rid = s.rid /\ r.sid = s.sid => r = s
      BY <1>0, <2>2, <2>3 DEF Lists
    <3>3. ASSUME NEW r \in Table(dir)'
          PROVE  /\ \E u \in users : u.id = AccountId(dir, r)
                 /\ AddressId(dir, r) <= last_id["mailaddr"]
                 /\ \A u \in users, n \in mailaddr : Joins(dir, r, u, n) => <<dir, u.email, n.email>> \in Pairs
      <4>1. CASE r \in Table(dir)
        BY <1>0, <4>1 DEF Lists
      <4>2. CASE r = row /\ dir = j.cmd.direction
        BY <1>10, <2>4, <2>6, <2>7, <4>2
      <4> QED
        BY <2>2, <4>1, <4>2
    <3> QED
      BY <3>1, <3>2, <3>3
  <2> QED
    BY <1>0, <2>8 DEF Lists, Joins, AccountId, AddressId, Directions, ListRow
<1>13. Tables'
  BY <1>0 DEF Tables
<1>14. JobOK(k)'
  <2>1. last_id'["mailaddr"] \in Nat /\ last_id["mailaddr"] <= last_id'["mailaddr"]
    BY <1>0 DEF Tables
  <2> QED
    BY <1>0, <1>7, <1>8, <2>1, JobKept
<1>15. DueOK(k)'
  BY <1>0, <1>7, <1>8, DueKept
<1>16. ASSUME k.alone PROVE AloneOK(k)'
  <2>0. AddAlone(j) /\ j.cmd.op = "add"
    BY <1>1, <1>7, <1>16 DEF AloneOK, JobOK
  <2>1. \A a \in j.cmd.addresses : \E n \in j.ids \cap mailaddr : n.email = a
    BY <1>1, <2>0 DEF AddAlone
  <2>2. \A a \in j.cmd.addresses : InForce(PairOf(j.cmd, a)) = IF a \in j.left THEN {} ELSE {j.cmd.wb}
    BY <1>1, <2>0 DEF AddAlone
  <2>3. m \in mailaddr
    <3>1. m.email \in j.cmd.addresses
      BY <1>1 DEF JobOK
    <3>2. PICK n \in j.ids \cap mailaddr : n.email = m.email
      BY <2>1, <3>1
    <3>3. n = m
      BY <1>1, <3>2 DEF JobOK
    <3> QED
      BY <3>2, <3>3
  <2>4. InForce(own)' = {j.cmd.wb}
    <3>1. m.email \in j.cmd.addresses /\ InForce(own) = {}
      BY <1>1, <1>5, <1>21, <2>2 DEF JobOK
    <3> QED
      BY <1>10, <2>3, <3>1
  <2>5. \A a \in j.cmd.addresses : InForce(PairOf(j.cmd, a))' = IF a \in k.left THEN {} ELSE {j.cmd.wb}
    <3> SUFFICES ASSUME NEW a \in j.cmd.addresses
                 PROVE  InForce(PairOf(j.cmd, a))' = IF a \in k.left THEN {} ELSE {j.cmd.wb}
      OBVIOUS
    <3>1. CASE a = m.email
      BY <1>7, <1>21, <2>4, <3>1
    <3>2. CASE a # m.email
      <4>1. PairOf(j.cmd, a) \in Pairs /\ PairOf(j.cmd, a) # own
        BY <1>1, <1>21, <3>2, OwnPairs DEF PairOf
      <4> QED
        BY <1>7, <1>10, <2>2, <3>2, <4>1
    <3> QED
      BY <3>1, <3>2
  <2>6. k.pc = "report" => \A pair \in PairsOf(k.cmd) : InForce(pair)' = {k.cmd.wb}
    <3> SUFFICES ASSUME k.pc = "report", NEW pair \in PairsOf(j.cmd) PROVE InForce(pair)' = {j.cmd.wb}
      BY <1>7
    <3>1. pair = PairOf(j.cmd, pair[3]) /\ pair[3] \in j.cmd.addresses
      BY <1>9, <2>0, PairOfCommand
    <3>2. k.left = {}
      BY <1>7
    <3>3. pair[3] \notin k.left
      BY <3>2
    <3>4. InForce(PairOf(j.cmd, pair[3]))' = {j.cmd.wb}
      BY <2>5, <3>1, <3>3
    <3>5. PICK a : a = pair[3]
      OBVIOUS
    <3> QED
      BY <3>1, <3>4
  <2>7. \A a \in k.cmd.addresses : \E n \in k.ids \cap mailaddr' : n.email = a
    BY <1>0, <1>7, <2>1
  <2>8. \A a \in k.cmd.addresses : InForce(PairOf(k.cmd, a))' = IF a \in k.left THEN {} ELSE {k.cmd.wb}
    BY <1>7, <2>5
  <2>9. PairsOf(k.cmd)' = PairsOf(k.cmd)
    BY DEF PairsOf
  <2>10. AddAlone(k)'
    BY <1>7, <2>6, <2>7, <2>8, <2>9 DEF AddAlone
  <2> QED
    BY <1>7, <2>0, <2>10 DEF AloneOK
<1>17. Runs(p)
  BY <1>0 DEF At, Runs
<1>18. \A q \in Admin \ {p} : \A i \in Job :
         Runs(q) /\ proc[q] = i => JobOK(i)' /\ DueOK(i)' /\ (i.alone => AloneOK(i)')
  <2>1. \A pair \in Pairs \ PairsOf(proc[p].cmd) : InForce(pair)' = InForce(pair)
    BY <1>1, <1>10, <1>11
  <2> QED
    BY <1>0, <1>17, <2>1, OtherKept
<1>19. Jobs' /\ proc' = [q \in Admin |-> proc'[q]]
  BY <1>1, <1>5, <1>6, <1>7, <1>14, <1>15, <1>16, <1>17, <1>18, JobsStep
<1>20. Values'
  <2>1. due' \in [Pairs -> SUBSET {"W", "B", "none"}]
    BY <1>0 DEF Values
  <2>2. j.cmd.wb \in due[own]
    BY <1>1, <1>11 DEF DueOK, JobOK
  <2>3. ASSUME NEW pair \in Pairs
        PROVE /\ due'[pair] # {} /\ InForce(pair)' \subseteq due'[pair]
              /\ \/ InForce(pair)' # {} \/ "none" \in due'[pair] \/ WritingBy(k, pair)
                 \/ \E q \in Admin \ {p} : WritingBy(proc[q], pair)
    <3>1. due'[pair] # {} /\ InForce(pair)' \subseteq due'[pair]
      <4>1. CASE pair = own
        BY <1>0, <1>10, <2>2, <4>1 DEF Values
      <4>2. CASE pair # own
        BY <1>0, <1>10, <4>2 DEF Values
      <4> QED
        BY <4>1, <4>2
    <3>2. CASE pair = own
      <4>1. CASE m \in mailaddr
        BY <1>10, <3>1, <3>2, <4>1
      <4>2. CASE m \notin mailaddr
        <5>1. "none" \in due[own]
          BY <1>1, <1>21, <4>2 DEF DueOK
        <5> QED
          BY <1>0, <3>1, <3>2, <5>1
      <4> QED
        BY <4>1, <4>2
    <3>3. CASE pair # own
      <4>1. InForce(pair)' = InForce(pair)
        BY <1>10, <3>3
      <4>2. ASSUME WritingBy(proc[p], pair) PROVE WritingBy(k, pair)
        <5>1. pair \in PairsOf(j.cmd) /\ pair[3] \in j.left
          BY <1>1, <4>2 DEF WritingBy
        <5>2. pair[3] # m.email
          BY <1>9, <1>21, <3>3, <5>1, PairOfCommand
        <5>3. k.pc = "insert" /\ pair[3] \in k.left
          BY <1>7, <5>1, <5>2
        <5> QED
          BY <1>7, <5>1, <5>3 DEF WritingBy
      <4>3. Writing(pair) => WritingBy(k, pair) \/ \E q \in Admin \ {p} : WritingBy(proc[q], pair)
        BY <4>2, WritingIs
      <4> QED
        BY <1>0, <3>1, <4>1, <4>3 DEF Values
    <3> QED
      BY <3>2, <3>3
  <2> QED
    BY <1>1, <1>5, <1>6, <2>1, <2>3, ValuesStep
<1> QED
  BY <1>12, <1>13, <1>19, <1>20 DEF ListInv

LEMMA ReportKeeps == ASSUME WblistAssumption, ListInv, NEW p \in Admin, Report(p) PROVE ListInv'
<1>0. /\ At(p, "report") /\ UNCHANGED <<users, mailaddr, last_id, lists>> /\ Tables /\ Lists /\ Values /\ Jobs
      /\ proc = [q \in Admin |-> proc[q]] /\ proc' = [proc EXCEPT ![p] = Idle]
  BY DEF Report, ListInv
<1>1. PICK j \in Job : j = proc[p] /\ JobOK(j) /\ DueOK(j) /\ j.pc = "report" /\ (j.alone => AloneOK(j))
  BY <1>0, AtJob
<1>2. Runs(p) /\ j.cmd.wb \in {"W", "B"} /\ j.cmd \in Cmd /\ j.alone \in BOOLEAN
  BY <1>0, JobForm DEF At, Runs
<1>3. due' = [pair \in Pairs |-> IF ~j.alone \/ pair \notin PairsOf(j.cmd) THEN due[pair]
                                 ELSE IF j.cmd.op = "add" THEN {j.cmd.wb} ELSE due[pair] \ {j.cmd.wb}]
  BY <1>1 DEF Report
<1>4. \A pair \in Pairs : InForce(pair)' = InForce(pair)
  BY <1>0, GrowKeeps
<1>5. Tables' /\ Lists'
  <2>1. \A dir \in Directions : Table(dir)' = Table(dir)
    BY <1>0 DEF Table, lists
  <2> QED
    BY <1>0, <2>1 DEF Tables, Lists, Joins, AccountId, AddressId, Directions, ListRow
<1>6. \A q \in Admin \ {p} : \A i \in Job :
        Runs(q) /\ proc[q] = i => JobOK(i)' /\ DueOK(i)' /\ (i.alone => AloneOK(i)')
  <2> SUFFICES ASSUME NEW q \in Admin \ {p}, NEW i \in Job, Runs(q), proc[q] = i
               PROVE  JobOK(i)' /\ DueOK(i)' /\ (i.alone => AloneOK(i)')
    OBVIOUS
  <2>1. \A pair \in PairsOf(i.cmd) : due'[pair] = due[pair]
    <3>1. j.alone => Apart(j.cmd, i.cmd)
      BY <1>0, <1>1, <1>2 DEF Jobs
    <3>2. \A pair \in PairsOf(i.cmd) : pair \in Pairs
      BY DEF PairsOf
    <3> QED
      BY <1>2, <1>3, <3>1, <3>2 DEF Apart
  <2>2. \A pair \in Pairs \ PairsOf(proc[p].cmd) : InForce(pair)' = InForce(pair)
    BY <1>4
  <2> QED
    BY <1>0, <1>2, <2>1, <2>2, OtherKept
<1>7. PICK k : k = Idle
  OBVIOUS
<1>8. Jobs' /\ proc' = [q \in Admin |-> proc'[q]]
  BY <1>0, <1>2, <1>6, <1>7, JobsStep
<1>9. ASSUME NEW pair \in Pairs
      PROVE  /\ due'[pair] # {} /\ due'[pair] \in SUBSET {"W", "B", "none"} /\ InForce(pair)' \subseteq due'[pair]
             /\ \/ InForce(pair)' # {} \/ "none" \in due'[pair] \/ WritingBy(k, pair)
                \/ \E q \in Admin \ {p} : WritingBy(proc[q], pair)
  <2>0. /\ due[pair] # {} /\ due[pair] \in SUBSET {"W", "B", "none"} /\ InForce(pair) \subseteq due[pair]
        /\ InForce(pair) # {} \/ "none" \in due[pair] \/ Writing(pair)
    BY <1>0 DEF Values
  <2>1. Writing(pair) => \E q \in Admin \ {p} : WritingBy(proc[q], pair)
    <3>1. ~WritingBy(proc[p], pair)
      BY <1>1 DEF WritingBy
    <3> QED
      BY <3>1, WritingIs
  <2>2. CASE ~j.alone \/ pair \notin PairsOf(j.cmd)
    BY <1>3, <1>4, <2>0, <2>1, <2>2
  <2>3. CASE j.alone /\ pair \in PairsOf(j.cmd) /\ j.cmd.op = "add"
    <3>1. InForce(pair) = {j.cmd.wb}
      BY <1>1, <2>3 DEF AloneOK, AddAlone
    <3>2. due'[pair] = {j.cmd.wb}
      BY <1>3, <2>3
    <3>3. InForce(pair)' = {j.cmd.wb}
      BY <1>4, <3>1
    <3>4. {j.cmd.wb} \in SUBSET {"W", "B", "none"} /\ {j.cmd.wb} # {}
      BY <1>2
    <3> QED
      BY <3>2, <3>3, <3>4
  <2>4. CASE j.alone /\ pair \in PairsOf(j.cmd) /\ j.cmd.op # "add"
    <3>1. j.cmd.wb \notin InForce(pair)
      BY <1>1, <2>4 DEF AloneOK, DeleteAlone
    <3>2. due'[pair] = due[pair] \ {j.cmd.wb}
      BY <1>3, <2>4
    <3>3. j.cmd.wb \in due[pair] => "none" \in due[pair]
      BY <1>1, <2>4 DEF DueOK
    <3>4. due'[pair] # {}
      BY <1>2, <2>0, <3>2, <3>3
    <3> QED
      BY <1>2, <1>4, <2>0, <2>1, <3>1, <3>2, <3>3, <3>4
  <2> QED
    BY <2>2, <2>3, <2>4
<1>10. due' \in [Pairs -> SUBSET {"W", "B", "none"}]
  BY <1>3, <1>9
<1>11. Values'
  BY <1>0, <1>7, <1>9, <1>10, ValuesStep
<1> QED
  BY <1>5, <1>8, <1>11 DEF ListInv

LEMMA StatementFailsKeeps ==
  ASSUME WblistAssumption, ListInv, NEW p \in Admin, StatementFails(p) PROVE ListInv'
<1>0. /\ Runs(p) /\ UNCHANGED <<users, mailaddr, last_id, lists>> /\ Tables /\ Lists /\ Values /\ Jobs
      /\ proc = [q \in Admin |-> proc[q]]
  BY DEF StatementFails, ListInv
<1>1. PICK j \in Job : j = proc[p] /\ JobOK(j) /\ DueOK(j)
  BY <1>0, JobOf
<1>3. due' = [pair \in Pairs |-> IF pair \in PairsOf(j.cmd) THEN due[pair] \cup {"none"} ELSE due[pair]]
  BY <1>1 DEF StatementFails
<1>4. \A pair \in Pairs : InForce(pair)' = InForce(pair)
  BY <1>0, GrowKeeps
<1>5. Tables' /\ Lists' /\ last_id'["mailaddr"] \in Nat /\ last_id["mailaddr"] <= last_id'["mailaddr"]
  <2>1. \A dir \in Directions : Table(dir)' = Table(dir)
    BY <1>0 DEF Table, lists
  <2> QED
    BY <1>0, <2>1 DEF Tables, Lists, Joins, AccountId, AddressId, Directions, ListRow
<1>6. \A q \in Admin \ {p} : \A i \in Job :
        Runs(q) /\ proc[q] = i => JobOK(i)' /\ DueOK(i)' /\ (i.alone => AloneOK(i)')
  <2> SUFFICES ASSUME NEW q \in Admin \ {p}, NEW i \in Job, Runs(q), proc[q] = i
               PROVE  JobOK(i)' /\ DueOK(i)' /\ (i.alone => AloneOK(i)')
    OBVIOUS
  <2>1. \A pair \in PairsOf(i.cmd) : due[pair] \subseteq due'[pair] /\ due'[pair] \subseteq due[pair] \cup {"none"}
    BY <1>3 DEF PairsOf
  <2>2. \A pair \in Pairs \ PairsOf(proc[p].cmd) : InForce(pair)' = InForce(pair)
    BY <1>4
  <2> QED
    BY <1>0, <2>1, <2>2, OtherKept
<1>7. PICK k : /\ proc' = [proc EXCEPT ![p] = k]
               /\ k = Idle \/ (k \in Job /\ k.cmd = j.cmd /\ ~k.alone /\ JobOK(k) /\ DueOK(k))
  <2>1. CASE At(p, "mailaddr") \/ At(p, "insert")
    <3>1. PICK a \in j.left : proc' = [proc EXCEPT ![p] = [Done(j, a) EXCEPT !.alone = FALSE]]
      BY <1>1, <2>1 DEF StatementFails
    <3>2. PICK d : d = Done(j, a)
      OBVIOUS
    <3>3. d \in Job /\ d.cmd = j.cmd /\ JobOK(d) /\ DueOK(d)
      BY <1>1, <2>1, <3>1, <3>2, DoneForm, DoneOK DEF At
    <3>4. PICK k : k = [d EXCEPT !.alone = FALSE]
      OBVIOUS
    <3>5. /\ k \in Job /\ k.cmd = d.cmd /\ k.pc = d.pc /\ k.user = d.user /\ k.left = d.left /\ k.ids = d.ids
          /\ k.alone = FALSE
      BY <3>3, <3>4 DEF Job
    <3>6. JobOK(k)
      BY <3>3, <3>5 DEF JobOK
    <3>7. DueOK(k)
      BY <3>3, <3>5 DEF DueOK
    <3> QED
      BY <3>1, <3>2, <3>3, <3>4, <3>5, <3>6, <3>7
  <2>2. CASE ~(At(p, "mailaddr") \/ At(p, "insert"))
    BY <2>2 DEF StatementFails
  <2> QED
    BY <2>1, <2>2
<1>8. ASSUME k # Idle PROVE JobOK(k)' /\ DueOK(k)'
  <2>1. k \in Job /\ JobOK(k) /\ DueOK(k) /\ k.cmd = j.cmd
    BY <1>7, <1>8
  <2>2. \A pair \in PairsOf(k.cmd) : due[pair] \subseteq due'[pair] /\ "none" \in due'[pair]
    BY <1>3, <2>1 DEF PairsOf
  <2>3. JobOK(k)'
    BY <1>0, <1>5, <2>1, JobKept
  <2>4. DueOK(k)'
    BY <1>0, <2>1, <2>2, DueKept
  <2> QED
    BY <2>3, <2>4
<1>9. Jobs' /\ proc' = [q \in Admin |-> proc'[q]]
  BY <1>0, <1>1, <1>6, <1>7, <1>8, JobsStep
<1>10. due' \in [Pairs -> SUBSET {"W", "B", "none"}]
  BY <1>0, <1>3 DEF Values
<1>11. ASSUME NEW pair \in Pairs
       PROVE  /\ due'[pair] # {} /\ InForce(pair)' \subseteq due'[pair]
              /\ \/ InForce(pair)' # {} \/ "none" \in due'[pair] \/ WritingBy(k, pair)
                 \/ \E q \in Admin \ {p} : WritingBy(proc[q], pair)
  <2>0. /\ due[pair] # {} /\ due[pair] \in SUBSET {"W", "B", "none"} /\ InForce(pair) \subseteq due[pair]
        /\ InForce(pair) # {} \/ "none" \in due[pair] \/ Writing(pair)
    BY <1>0 DEF Values
  <2>1. CASE pair \in PairsOf(j.cmd)
    BY <1>3, <1>4, <2>0, <2>1
  <2>2. CASE pair \notin PairsOf(j.cmd)
    <3>1. ~WritingBy(proc[p], pair)
      BY <1>1, <2>2 DEF WritingBy
    <3> QED
      BY <1>3, <1>4, <2>0, <2>2, <3>1, WritingIs
  <2> QED
    BY <2>1, <2>2
<1>12. Values'
  BY <1>0, <1>7, <1>10, <1>11, ValuesStep
<1> QED
  BY <1>5, <1>9, <1>12 DEF ListInv

\* The commands after a step of a command that is given, or of the job.
LEMMA JobsAre ==
  ASSUME WblistAssumption, proc' = [q \in Admin |-> proc'[q]],
         \A q \in Admin : \A j : proc'[q] = j =>
            j = Idle \/ (j \in Job /\ JobOK(j)' /\ DueOK(j)' /\ (j.alone => AloneOK(j)')),
         \A q \in Admin, r \in Admin : q # r /\ Runs(q)' /\ Runs(r)' /\ proc'[q].alone => Apart(proc'[q].cmd, proc'[r].cmd)
  PROVE  Jobs' /\ proc' = [q \in Admin |-> proc'[q]]
<1>1. ASSUME NEW q \in Admin
      PROVE  /\ proc'[q] = Idle \/ proc'[q] \in Job
             /\ Runs(q)' => JobOK(proc[q])' /\ DueOK(proc[q])'
             /\ Runs(q)' /\ proc'[q].alone => AloneOK(proc[q])'
  <2>1. PICK j : j = proc'[q]
    OBVIOUS
  <2>2. j = Idle \/ (j \in Job /\ JobOK(j)' /\ DueOK(j)' /\ (j.alone => AloneOK(j)'))
    BY <1>1, <2>1
  <2>3. Runs(q)' => j # Idle
    BY <2>1 DEF Runs, Idle
  <2>4. Runs(q)' => JobOK(proc[q])' /\ DueOK(proc[q])' /\ (proc'[q].alone => AloneOK(proc[q])')
    BY <2>1, <2>2, <2>3
  <2> QED
    BY <2>1, <2>2, <2>4
<1>2. ASSUME NEW q \in Admin, NEW r \in Admin \ {q}, Runs(q)', Runs(r)', proc'[q].alone
      PROVE  Apart(proc'[q].cmd, proc'[r].cmd)
  BY <1>2
<1> QED
  BY <1>1, <1>2 DEF Jobs, Idle, Apart, PairsOf, Job, Cmd, AddressRow, Directions, Known

LEMMA CleanupMailaddrKeeps == ASSUME WblistAssumption, ListInv, CleanupMailaddr PROVE ListInv'
<1>0. /\ UNCHANGED <<users, last_id, lists>> /\ Tables /\ Lists /\ Values /\ Jobs
      /\ proc = [q \in Admin |-> proc[q]]
  BY DEF CleanupMailaddr, ListInv
<1>1. PICK used : used = {row.sid : row \in wblist} \cup {row.rid : row \in outbound_wblist}
  OBVIOUS
<1>2. PICK gone : gone = {m.email : m \in {m \in mailaddr : m.id \notin used}}
  OBVIOUS
<1>3. PICK hit : hit = {p \in Admin : Runs(p) /\ proc[p].cmd.addresses \cap gone # {}}
  OBVIOUS
<1>4. /\ mailaddr' = {m \in mailaddr : m.email \notin gone}
      /\ proc' = [p \in Admin |-> IF p \in hit THEN [proc[p] EXCEPT !.alone = FALSE] ELSE proc[p]]
      /\ due' = [pair \in Pairs |->
           IF \E p \in hit : pair \in PairsOf(proc[p].cmd) THEN due[pair] \cup {"none"} ELSE due[pair]]
  BY <1>1, <1>2, <1>3 DEF CleanupMailaddr
<1>5. \A m \in mailaddr \ mailaddr' : \A dir \in Directions : \A r \in Table(dir) : AddressId(dir, r) # m.id
  <2> SUFFICES ASSUME NEW m \in mailaddr \ mailaddr', NEW dir \in Directions, NEW r \in Table(dir)
               PROVE  AddressId(dir, r) # m.id
    OBVIOUS
  <2>1. PICK n \in mailaddr : n.id \notin used /\ n.email = m.email
    BY <1>2, <1>4
  <2>2. n = m
    BY <1>0, <2>1 DEF Tables
  <2>3. AddressId(dir, r) \in used
    BY <1>1 DEF AddressId, Table, Directions
  <2> QED
    BY <2>1, <2>2, <2>3
<1>6. \A pair \in Pairs : InForce(pair)' = InForce(pair)
  BY <1>0, <1>4, <1>5, PruneKeeps
<1>7. /\ Tables' /\ last_id'["mailaddr"] \in Nat /\ last_id["mailaddr"] <= last_id'["mailaddr"]
      /\ mailaddr' \subseteq mailaddr
  BY <1>0, <1>4 DEF Tables
<1>8. Lists'
  <2>1. \A dir \in Directions : Table(dir)' = Table(dir)
    BY <1>0 DEF Table, lists
  <2> QED
    BY <1>0, <1>7, <2>1 DEF Lists, Joins, AccountId, AddressId, Directions, ListRow
<1>9. /\ \A pair \in Pairs : due[pair] \subseteq due'[pair] /\ due'[pair] \subseteq due[pair] \cup {"none"}
      /\ \A p \in hit : \A pair \in PairsOf(proc[p].cmd) : pair \in Pairs => "none" \in due'[pair]
  BY <1>4
<1>10. ASSUME NEW q \in Admin, Runs(q)
       PROVE  \E k \in Job : /\ proc'[q] = k /\ k.pc = proc[q].pc /\ k.cmd = proc[q].cmd /\ k.left = proc[q].left
                             /\ JobOK(k)' /\ DueOK(k)' /\ (k.alone => AloneOK(k)' /\ proc[q].alone)
  <2>1. PICK j \in Job : j = proc[q] /\ JobOK(j) /\ DueOK(j) /\ (j.alone => AloneOK(j))
    BY <1>0, <1>10, JobOf
  <2>2. PICK k : k = IF q \in hit THEN [j EXCEPT !.alone = FALSE] ELSE j
    OBVIOUS
  <2>3. /\ k \in Job /\ k.cmd = j.cmd /\ k.pc = j.pc /\ k.user = j.user /\ k.left = j.left /\ k.ids = j.ids
        /\ proc'[q] = k /\ (k.alone => q \notin hit /\ k = j)
    BY <1>4, <2>1, <2>2 DEF Job
  <2>4. JobOK(k) /\ DueOK(k)
    BY <2>1, <2>3 DEF JobOK, DueOK
  <2>5. JobOK(k)'
    BY <1>0, <1>7, <2>3, <2>4, JobKept
  <2>6. \A pair \in PairsOf(k.cmd) : pair \in Pairs
    BY DEF PairsOf
  <2>7. \A m \in k.ids \cap mailaddr : m \in mailaddr' \/ "none" \in due'[PairOf(k.cmd, m.email)]
    <3> SUFFICES ASSUME NEW m \in k.ids \cap mailaddr, m \notin mailaddr' PROVE "none" \in due'[PairOf(k.cmd, m.email)]
      OBVIOUS
    <3>1. m.email \in gone /\ m.email \in k.cmd.addresses
      BY <1>4, <2>4 DEF JobOK
    <3>2. q \in hit
      BY <1>3, <1>10, <2>1, <2>3, <3>1
    <3>3. PairOf(k.cmd, m.email) \in Pairs /\ PairOf(k.cmd, m.email) \in PairsOf(k.cmd)
      BY <2>3, <2>4, <3>1, OwnPairs
    <3> QED
      BY <1>9, <2>1, <2>3, <3>2, <3>3
  <2>8. DueOK(k)'
    BY <1>9, <2>3, <2>4, <2>6, <2>7, DueKept
  <2>9. ASSUME k.alone PROVE AloneOK(k)'
    <3>1. \A m \in mailaddr : m.email \in k.cmd.addresses => m \in mailaddr'
      BY <1>3, <1>4, <1>10, <2>1, <2>3, <2>9
    <3>2. AloneOK(k)
      BY <2>1, <2>3, <2>9
    <3> QED
      BY <1>6, <2>3, <2>4, <2>6, <3>1, <3>2, AloneKept
  <2> QED
    BY <2>1, <2>3, <2>5, <2>8, <2>9
<1>11. \A q \in Admin : ~Runs(q) => proc'[q] = Idle
  BY <1>0, <1>3, <1>4, JobForm DEF Jobs, Runs
<1>12. Jobs' /\ proc' = [q \in Admin |-> proc'[q]]
  <2>1. proc' = [q \in Admin |-> proc'[q]]
    BY <1>4
  <2>2. \A q \in Admin : \A j : proc'[q] = j =>
            j = Idle \/ (j \in Job /\ JobOK(j)' /\ DueOK(j)' /\ (j.alone => AloneOK(j)'))
    BY <1>10, <1>11
  <2>3. ASSUME NEW q \in Admin, NEW r \in Admin, q # r, Runs(q)', Runs(r)', proc'[q].alone
        PROVE  Apart(proc'[q].cmd, proc'[r].cmd)
    <3>1. Runs(q) /\ Runs(r)
      BY <1>11, <2>3 DEF Runs, Idle
    <3>2. proc'[q].cmd = proc[q].cmd /\ proc'[r].cmd = proc[r].cmd /\ proc[q].alone
      BY <1>10, <2>3, <3>1
    <3> QED
      BY <1>0, <2>3, <3>1, <3>2, JobOf
  <2> QED
    BY <2>1, <2>2, <2>3, JobsAre
<1>13. Values'
  <2>1. due' \in [Pairs -> SUBSET {"W", "B", "none"}]
    BY <1>0, <1>4 DEF Values
  <2>2. ASSUME NEW pair \in Pairs, Writing(pair) PROVE Writing(pair)'
    <3>1. PICK q \in Admin : WritingBy(proc[q], pair)
      BY <2>2, WritingIs
    <3>2. Runs(q)
      BY <3>1 DEF WritingBy, Runs
    <3>3. PICK k \in Job : proc'[q] = k /\ k.pc = proc[q].pc /\ k.cmd = proc[q].cmd /\ k.left = proc[q].left
      BY <1>10, <3>2
    <3>4. proc'[q].pc = "insert" /\ pair \in PairsOf(proc'[q].cmd) /\ pair[3] \in proc'[q].left
      BY <3>1, <3>3 DEF WritingBy
    <3> QED
      BY <3>4 DEF Writing, At, PairsOf
  <2>3. \A pair \in Pairs : /\ due'[pair] # {} /\ InForce(pair)' \subseteq due'[pair]
                            /\ InForce(pair)' = {} => "none" \in due'[pair] \/ Writing(pair)'
    BY <1>0, <1>6, <1>9, <2>2 DEF Values
  <2>4. Pairs' = Pairs
    BY DEF Pairs, Listed
  <2> QED
    BY <2>1, <2>3, <2>4 DEF Values
<1> QED
  BY <1>7, <1>8, <1>12, <1>13 DEF ListInv

LEMMA GiveKeeps == ASSUME WblistAssumption, ListInv, NEW p \in Admin, Give(p) PROVE ListInv'
<1>0. /\ UNCHANGED <<users, mailaddr, last_id, lists>> /\ Tables /\ Lists /\ Values /\ Jobs
      /\ proc = [q \in Admin |-> proc[q]] /\ ~Runs(p)
  BY DEF Give, ListInv
<1>1. PICK c \in Commands :
       LET valid  == [c EXCEPT !.addresses = {a \in c.addresses : AddressType(a) # "invalid"}]
           others == {q \in Admin : Runs(q) /\ PairsOf(proc[q].cmd) \cap PairsOf(valid) # {}}
           deleters(pair) == {q \in others : /\ proc[q].cmd.op # "add" /\ proc[q].cmd.wb = c.wb
                                             /\ pair \in PairsOf(proc[q].cmd)}
           New(pair) == IF c.op = "add" THEN {c.wb} \cup {"none" : q \in deleters(pair)}
                        ELSE {"none" : v \in due[pair] \cap {c.wb}}
       IN  /\ AddressType(c.account) # "invalid"
           /\ proc' = [q \in Admin |->
                 IF q = p THEN [pc |-> "user", cmd |-> valid, user |-> 0, left |-> valid.addresses,
                                ids |-> {}, alone |-> others = {}]
                 ELSE IF q \in others THEN [proc[q] EXCEPT !.alone = FALSE] ELSE proc[q]]
           /\ due' = [pair \in Pairs |->
                 IF pair \in PairsOf(valid) THEN due[pair] \cup New(pair) ELSE due[pair]]
  BY DEF Give
<1>2. PICK valid : valid = [c EXCEPT !.addresses = {a \in c.addresses : AddressType(a) # "invalid"}]
  OBVIOUS
<1>3. PICK others : others = {q \in Admin : Runs(q) /\ PairsOf(proc[q].cmd) \cap PairsOf(valid) # {}}
  OBVIOUS
<1>4. /\ c \in [op : {"add", "delete", "delete-all"}, direction : {"inbound", "outbound"},
               account : {d.account : d \in Commands}, addresses : SUBSET Listed, wb : {"W", "B"}]
      /\ c.op \in {"add", "delete", "delete-all"} /\ c.addresses \subseteq Listed /\ c.wb \in {"W", "B"}
  BY DEF WblistAssumption
<1>5. /\ valid \in Cmd /\ valid.op = c.op /\ valid.wb = c.wb /\ valid.direction = c.direction
      /\ valid.account = c.account /\ valid.addresses \subseteq Listed
  BY <1>2, <1>4 DEF Cmd, Directions
<1>6. PICK k : k = [pc |-> "user", cmd |-> valid, user |-> 0, left |-> valid.addresses,
                    ids |-> {}, alone |-> others = {}]
  OBVIOUS
<1>7. proc' = [q \in Admin |-> IF q = p THEN k
                 ELSE IF q \in others THEN [proc[q] EXCEPT !.alone = FALSE] ELSE proc[q]]
  BY <1>1, <1>2, <1>3, <1>6
<1>8. PICK new : new = [pair \in Pairs |->
         IF c.op = "add"
           THEN {c.wb} \cup {"none" : q \in {q \in others : /\ proc[q].cmd.op # "add" /\ proc[q].cmd.wb = c.wb
                                                           /\ pair \in PairsOf(proc[q].cmd)}}
           ELSE {"none" : v \in due[pair] \cap {c.wb}}]
  OBVIOUS
<1>9. due' = [pair \in Pairs |-> IF pair \in PairsOf(valid) THEN due[pair] \cup new[pair] ELSE due[pair]]
  BY <1>1, <1>2, <1>3, <1>8
<1>10. ASSUME NEW pair \in Pairs
       PROVE  /\ new[pair] \subseteq {c.wb, "none"}
              /\ c.op = "add" => c.wb \in new[pair]
              /\ c.op # "add" => new[pair] \subseteq {"none"} /\ (c.wb \in due[pair] => "none" \in new[pair])
              /\ \A q \in others : proc[q].cmd.op # "add" /\ proc[q].cmd.wb = c.wb
                     /\ pair \in PairsOf(proc[q].cmd) /\ c.op = "add" => "none" \in new[pair]
  <2>1. PICK deleters : deleters = {q \in others : /\ proc[q].cmd.op # "add" /\ proc[q].cmd.wb = c.wb
                                                  /\ pair \in PairsOf(proc[q].cmd)}
    OBVIOUS
  <2>2. new[pair] = IF c.op = "add" THEN {c.wb} \cup {"none" : q \in deleters}
                    ELSE {"none" : v \in due[pair] \cap {c.wb}}
    BY <1>8, <1>10, <2>1
  <2>3. \A q \in deleters : "none" \in {"none" : r \in deleters}
    OBVIOUS
  <2>4. \A q \in others : proc[q].cmd.op # "add" /\ proc[q].cmd.wb = c.wb /\ pair \in PairsOf(proc[q].cmd)
           => q \in deleters
    BY <2>1
  <2>5. c.op = "add" => \A q \in deleters : "none" \in new[pair]
    BY <2>2, <2>3
  <2>6. /\ new[pair] \subseteq {c.wb, "none"} /\ (c.op = "add" => c.wb \in new[pair])
        /\ c.op # "add" => new[pair] \subseteq {"none"} /\ (c.wb \in due[pair] => "none" \in new[pair])
    BY <2>2
  <2>7. ASSUME NEW q \in others, proc[q].cmd.op # "add", proc[q].cmd.wb = c.wb,
               pair \in PairsOf(proc[q].cmd), c.op = "add"
        PROVE  "none" \in new[pair]
    BY <2>4, <2>5, <2>7
  <2> QED
    BY <2>6, <2>7
<1>11. \A pair \in Pairs : due[pair] \subseteq due'[pair] /\ due'[pair] \subseteq due[pair] \cup {c.wb, "none"}
  BY <1>9, <1>10
<1>12. \A pair \in Pairs : InForce(pair)' = InForce(pair)
  BY <1>0, GrowKeeps
<1>13. Tables' /\ Lists' /\ last_id'["mailaddr"] \in Nat /\ last_id["mailaddr"] <= last_id'["mailaddr"]
  <2>1. \A dir \in Directions : Table(dir)' = Table(dir)
    BY <1>0 DEF Table, lists
  <2> QED
    BY <1>0, <2>1 DEF Tables, Lists, Joins, AccountId, AddressId, Directions, ListRow
<1>14. /\ k \in Job /\ k.cmd = valid /\ k.pc = "user" /\ k.left = valid.addresses /\ k.ids = {}
       /\ (k.alone <=> others = {})
  BY <1>5, <1>6 DEF Job
<1>15. JobOK(k)' /\ DueOK(k)' /\ AloneOK(k)'
  <2>1. \A a \in Listed : PairOf(valid, a) \in Pairs
    <3> SUFFICES ASSUME NEW a \in Listed PROVE PairOf(valid, a) \in Pairs
      OBVIOUS
    <3>1. <<c.direction, c.account, a>> \in Pairs
      BY HeadPair
    <3> QED
      BY <1>5, <3>1 DEF PairOf
  <2>2. JobOK(k)'
    <3>1. \A a \in Listed : PairOf(k.cmd, a) \in Pairs
      BY <1>14, <2>1
    <3>2. \A m \in k.ids : FALSE
      BY <1>14
    <3> QED
      BY <1>14, <3>1, <3>2 DEF JobOK
  <2>3. PairsOf(valid) \subseteq Pairs /\ PairsOf(valid)' = PairsOf(valid)
    BY DEF PairsOf
  <2>4. ASSUME NEW pair \in PairsOf(valid)
        PROVE  IF valid.op = "add" THEN valid.wb \in due'[pair] ELSE valid.wb \in due'[pair] => "none" \in due'[pair]
    <3>1. due'[pair] = due[pair] \cup new[pair]
      BY <1>9, <2>3
    <3>2. CASE c.op = "add"
      BY <1>5, <1>10, <2>3, <3>1, <3>2
    <3>3. CASE c.op # "add"
      <4>1. new[pair] \subseteq {"none"} /\ (c.wb \in due[pair] => "none" \in new[pair])
        BY <1>10, <2>3, <3>3
      <4> QED
        BY <1>4, <1>5, <3>1, <3>3, <4>1
    <3> QED
      BY <3>2, <3>3
  <2>5. DueOK(k)'
    BY <1>14, <2>3, <2>4 DEF DueOK
  <2>6. AloneOK(k)'
    BY <1>14 DEF AloneOK, AddAlone, DeleteAlone
  <2> QED
    BY <2>2, <2>5, <2>6
<1>16. ASSUME NEW q \in Admin \ {p}, Runs(q)
       PROVE  \E i \in Job : /\ proc'[q] = i /\ i.pc = proc[q].pc /\ i.cmd = proc[q].cmd /\ i.left = proc[q].left
                             /\ JobOK(i)' /\ DueOK(i)' /\ (i.alone => AloneOK(i)' /\ proc[q].alone /\ q \notin others)
  <2>1. PICK j \in Job : j = proc[q] /\ JobOK(j) /\ DueOK(j) /\ (j.alone => AloneOK(j))
    BY <1>0, <1>16, JobOf
  <2>2. PICK i : i = IF q \in others THEN [j EXCEPT !.alone = FALSE] ELSE j
    OBVIOUS
  <2>3. /\ i \in Job /\ i.cmd = j.cmd /\ i.pc = j.pc /\ i.user = j.user /\ i.left = j.left /\ i.ids = j.ids
        /\ proc'[q] = i /\ (i.alone => q \notin others /\ i = j)
    BY <1>7, <1>16, <2>1, <2>2 DEF Job
  <2>4. JobOK(i) /\ DueOK(i)
    BY <2>1, <2>3 DEF JobOK, DueOK
  <2>5. JobOK(i)'
    BY <1>0, <1>13, <2>3, <2>4, JobKept
  <2>6. \A pair \in PairsOf(i.cmd) : pair \in Pairs
    BY DEF PairsOf
  <2>7. ASSUME NEW pair \in PairsOf(i.cmd), i.cmd.op # "add", i.cmd.wb \in due'[pair]
        PROVE  i.cmd.wb \in due[pair] \/ "none" \in due'[pair]
    <3> SUFFICES ASSUME i.cmd.wb \notin due[pair] PROVE "none" \in due'[pair]
      OBVIOUS
    <3>1. pair \in PairsOf(valid) /\ i.cmd.wb \in new[pair] /\ due'[pair] = due[pair] \cup new[pair]
      BY <1>9, <2>6, <2>7
    <3>2. i.cmd.wb \in {"W", "B"}
      BY <2>3, JobForm
    <3>3. i.cmd.wb = c.wb /\ c.op = "add"
      BY <1>10, <2>6, <3>1, <3>2
    <3>4. q \in others
      BY <1>3, <1>16, <2>1, <2>3, <2>7, <3>1
    <3>5. "none" \in new[pair]
      BY <1>10, <2>1, <2>3, <2>6, <2>7, <3>3, <3>4
    <3> QED
      BY <3>1, <3>5
  <2>8. DueOK(i)'
    BY <1>0, <1>11, <2>3, <2>4, <2>6, <2>7, DueKept
  <2>9. ASSUME i.alone PROVE AloneOK(i)'
    <3>1. AloneOK(i)
      BY <2>1, <2>3, <2>9
    <3> QED
      BY <1>0, <1>12, <2>3, <2>4, <2>6, <3>1, AloneKept
  <2> QED
    BY <2>1, <2>3, <2>5, <2>8, <2>9
<1>17. \A q \in Admin \ {p} : ~Runs(q) => proc'[q] = Idle
  BY <1>0, <1>3, <1>7, JobForm DEF Jobs, Runs
<1>18. Jobs' /\ proc' = [q \in Admin |-> proc'[q]]
  <2>1. proc' = [q \in Admin |-> proc'[q]] /\ proc'[p] = k
    BY <1>7
  <2>2. \A q \in Admin : \A j : proc'[q] = j =>
            j = Idle \/ (j \in Job /\ JobOK(j)' /\ DueOK(j)' /\ (j.alone => AloneOK(j)'))
    <3> SUFFICES ASSUME NEW q \in Admin, NEW j, proc'[q] = j
                 PROVE  j = Idle \/ (j \in Job /\ JobOK(j)' /\ DueOK(j)' /\ (j.alone => AloneOK(j)'))
      OBVIOUS
    <3>1. CASE q = p
      <4>1. j = k
        BY <2>1, <3>1
      <4> QED
        BY <1>14, <1>15, <4>1
    <3>2. CASE q # p
      BY <1>16, <1>17, <3>2
    <3> QED
      BY <3>1, <3>2
  <2>3. ASSUME NEW q \in Admin \ {p}, Runs(q)' PROVE Runs(q) /\ proc'[q].cmd = proc[q].cmd
    <3>1. Runs(q)
      BY <1>17, <2>3 DEF Runs, Idle
    <3> QED
      BY <1>16, <3>1
  <2>4. ASSUME NEW q \in Admin, NEW r \in Admin, q # r, Runs(q)', Runs(r)', proc'[q].alone
        PROVE  Apart(proc'[q].cmd, proc'[r].cmd)
    <3>1. CASE q = p
      <4>1. others = {} /\ proc'[q].cmd = valid
        BY <1>14, <2>1, <2>4, <3>1
      <4>2. Runs(r) /\ proc'[r].cmd = proc[r].cmd
        BY <2>3, <2>4, <3>1
      <4> QED
        BY <1>3, <4>1, <4>2 DEF Apart
    <3>2. CASE r = p
      <4>1. Runs(q) /\ proc'[q].cmd = proc[q].cmd /\ proc'[r].cmd = valid
        BY <1>14, <2>1, <2>3, <2>4, <3>2
      <4>2. q \notin others
        BY <1>16, <2>4, <3>2, <4>1
      <4> QED
        BY <1>3, <4>1, <4>2 DEF Apart
    <3>3. CASE q # p /\ r # p
      <4>1. Runs(q) /\ Runs(r) /\ proc'[q].cmd = proc[q].cmd /\ proc'[r].cmd = proc[r].cmd
        BY <2>3, <2>4, <3>3
      <4>2. proc[q].alone
        BY <1>16, <2>4, <3>3, <4>1
      <4> QED
        BY <1>0, <2>4, <4>1, <4>2, JobOf
    <3> QED
      BY <3>1, <3>2, <3>3
  <2> QED
    BY <2>1, <2>2, <2>4, JobsAre
<1>19. Values'
  <2>1. due' \in [Pairs -> SUBSET {"W", "B", "none"}]
    BY <1>0, <1>4, <1>9, <1>11 DEF Values
  <2>2. ASSUME NEW pair \in Pairs, Writing(pair) PROVE Writing(pair)'
    <3>1. PICK q \in Admin : WritingBy(proc[q], pair)
      BY <2>2, WritingIs
    <3>2. Runs(q) /\ q # p
      BY <1>0, <3>1 DEF WritingBy, Runs
    <3>3. PICK i \in Job : proc'[q] = i /\ i.pc = proc[q].pc /\ i.cmd = proc[q].cmd /\ i.left = proc[q].left
      BY <1>16, <3>2
    <3>4. proc'[q].pc = "insert" /\ pair \in PairsOf(proc'[q].cmd) /\ pair[3] \in proc'[q].left
      BY <3>1, <3>3 DEF WritingBy
    <3> QED
      BY <3>4 DEF Writing, At, PairsOf
  <2>3. \A pair \in Pairs : /\ due'[pair] # {} /\ InForce(pair)' \subseteq due'[pair]
                            /\ InForce(pair)' = {} => "none" \in due'[pair] \/ Writing(pair)'
    BY <1>0, <1>11, <1>12, <2>2 DEF Values
  <2>4. Pairs' = Pairs
    BY DEF Pairs, Listed
  <2> QED
    BY <2>1, <2>3, <2>4 DEF Values
<1> QED
  BY <1>13, <1>18, <1>19 DEF ListInv

-----------------------------------------------------------------------------
(* The theorem *)

Daemons == /\ pc \in {"idle", "local", "external", "cidr", "apply"}
           /\ verdict \in {"none", "OK", "REJECT", "DUNNO"}
           /\ direction \in Directions

LEMMA ListStutter ==
  ASSUME ListInv, UNCHANGED <<users, mailaddr, last_id, lists, proc, due>>
  PROVE  ListInv'
<1>1. wblist' = wblist /\ outbound_wblist' = outbound_wblist
  BY DEF lists
<1>2. Tables'
  BY DEF ListInv, Tables
<1>3. \A dir : Table(dir)' = Table(dir)
  BY <1>1 DEF Table
<1>4. Lists'
  BY <1>3 DEF ListInv, Lists, Joins, AccountId, AddressId, Directions, ListRow
<1>5. \A pair : InForce(pair)' = InForce(pair)
  BY <1>1 DEF InForce, Table, AccountId, AddressId
<1>6. Jobs'
  BY <1>5 DEF ListInv, Jobs, JobOK, DueOK, AloneOK, AddAlone, DeleteAlone, Stored, Runs, Apart, Idle, PairsOf,
     PairOf, Job, Cmd, AddressRow, Directions, Known
<1>7. Values'
  BY <1>5 DEF ListInv, Values, Writing, At, PairsOf, Pairs, Listed
<1> QED
  BY <1>2, <1>4, <1>6, <1>7 DEF ListInv

\* A listing of an earlier command has the numbers of its account and address.
LEMMA InitNumbers ==
  ASSUME WblistAssumption, Init, NEW l \in InitLists
  PROVE  /\ l[1] \in Directions /\ l[4] \in {"W", "B"} /\ l[3] \in Listed /\ <<l[1], l[2], l[3]>> \in Pairs
         /\ \E u \in users : u.email = l[2] /\ u.id = IdOf(users, l[2]) /\ u.id \in Nat
         /\ \E m \in mailaddr : m.email = l[3] /\ m.id = IdOf(mailaddr, l[3]) /\ m.id \in Nat
<1>1. /\ l[1] \in Directions /\ l[4] \in {"W", "B"} /\ l[2] \in Range(InitUsers) /\ l[3] \in Range(InitMailaddr)
  BY DEF WblistAssumption, Directions
<1>2. l[3] \in Listed
  <2>1. l[3] \in {k[3] : k \in InitLists}
    OBVIOUS
  <2> QED
    BY <2>1 DEF Listed
<1>12. /\ users = {[id |-> i, email |-> InitUsers[i]] : i \in DOMAIN InitUsers}
       /\ mailaddr = {[id |-> i, email |-> InitMailaddr[i]] : i \in DOMAIN InitMailaddr}
  BY DEF Init, Numbered
<1>3. \E u \in users : u.email = l[2]
  <2>1. PICK i \in DOMAIN InitUsers : InitUsers[i] = l[2]
    BY <1>1 DEF Range
  <2>2. PICK u \in users : u = [id |-> i, email |-> InitUsers[i]]
    BY <1>12
  <2> QED
    BY <2>1, <2>2
<1>4. \E m \in mailaddr : m.email = l[3]
  <2>1. PICK i \in DOMAIN InitMailaddr : InitMailaddr[i] = l[3]
    BY <1>1 DEF Range
  <2>2. PICK m \in mailaddr : m = [id |-> i, email |-> InitMailaddr[i]]
    BY <1>12
  <2> QED
    BY <2>1, <2>2
<1>5. \A u \in users : u.id \in Nat
  BY DEF Init, Numbered, WblistAssumption
<1>6. \A m \in mailaddr : m.id \in Nat
  BY DEF Init, Numbered, WblistAssumption
<1>7. PICK u \in users : u = CHOOSE row \in users : row.email = l[2]
  BY <1>3
<1>8. u.email = l[2] /\ u.id = IdOf(users, l[2])
  BY <1>3, <1>7 DEF IdOf
<1>9. PICK m \in mailaddr : m = CHOOSE row \in mailaddr : row.email = l[3]
  BY <1>4
<1>10. m.email = l[3] /\ m.id = IdOf(mailaddr, l[3])
  BY <1>4, <1>9 DEF IdOf
<1> QED
  BY <1>1, <1>2, <1>5, <1>6, <1>7, <1>8, <1>9, <1>10, InitPair

LEMMA InitTables == ASSUME WblistAssumption, Init PROVE Tables
<1>1. /\ InitUsers \in Seq(Range(InitUsers)) /\ \A i, k \in DOMAIN InitUsers : InitUsers[i] = InitUsers[k] => i = k
      /\ InitMailaddr \in Seq(Range(InitMailaddr))
      /\ \A i, k \in DOMAIN InitMailaddr : InitMailaddr[i] = InitMailaddr[k] => i = k
  BY DEF WblistAssumption, IsInjective
<1>2. /\ users = {[id |-> i, email |-> InitUsers[i]] : i \in 1..Len(InitUsers)} /\ Len(InitUsers) \in Nat
      /\ \A i \in 1..Len(InitUsers) : InitUsers[i] \in Owners
  BY <1>1 DEF Init, Numbered, Owners
<1>3. /\ mailaddr = {[id |-> i, email |-> InitMailaddr[i]] : i \in 1..Len(InitMailaddr)} /\ Len(InitMailaddr) \in Nat
      /\ \A i \in 1..Len(InitMailaddr) : InitMailaddr[i] \in Known
  BY <1>1 DEF Init, Numbered, Known
<1>4. /\ last_id \in [{"users", "mailaddr"} -> Nat]
      /\ last_id["users"] = Len(InitUsers) /\ last_id["mailaddr"] = Len(InitMailaddr)
  BY <1>2, <1>3 DEF Init
<1>5. /\ users \subseteq AccountRow /\ \A u \in users : u.id <= last_id["users"]
      /\ \A u, v \in users : u.id = v.id \/ u.email = v.email => u = v
  <2>1. users \subseteq AccountRow
    BY <1>2 DEF AccountRow
  <2>2. \A u \in users : \E i \in 1..Len(InitUsers) : u.id = i /\ u.email = InitUsers[i] /\ u = [id |-> i, email |-> InitUsers[i]]
    BY <1>2
  <2>3. DOMAIN InitUsers = 1..Len(InitUsers)
    BY <1>1
  <2> QED
    BY <1>1, <1>2, <1>4, <2>1, <2>2, <2>3
<1>6. /\ mailaddr \subseteq AddressRow /\ \A m \in mailaddr : m.id <= last_id["mailaddr"]
      /\ \A m, n \in mailaddr : m.id = n.id \/ m.email = n.email => m = n
  <2>1. mailaddr \subseteq AddressRow
    BY <1>3 DEF AddressRow
  <2>2. \A m \in mailaddr : \E i \in 1..Len(InitMailaddr) :
           m.id = i /\ m.email = InitMailaddr[i] /\ m = [id |-> i, email |-> InitMailaddr[i]]
    BY <1>3
  <2>3. DOMAIN InitMailaddr = 1..Len(InitMailaddr)
    BY <1>1
  <2> QED
    BY <1>1, <1>3, <1>4, <2>1, <2>2, <2>3
<1> QED
  BY <1>4, <1>5, <1>6 DEF Tables

\* The rows that earlier commands left.
LEMMA InitRows ==
  ASSUME WblistAssumption, Init, NEW dir \in Directions
  PROVE  /\ \A r \in Table(dir) : \E l \in InitLists :
              l[1] = dir /\ r = NewRow(dir, IdOf(users, l[2]), IdOf(mailaddr, l[3]), l[4])
         /\ \A l \in InitLists : l[1] = dir
              => NewRow(dir, IdOf(users, l[2]), IdOf(mailaddr, l[3]), l[4]) \in Table(dir)
<1>1. /\ wblist = {NewRow("inbound", IdOf(users, l[2]), IdOf(mailaddr, l[3]), l[4]) :
                     l \in {l \in InitLists : l[1] = "inbound"}}
      /\ outbound_wblist = {NewRow("outbound", IdOf(users, l[2]), IdOf(mailaddr, l[3]), l[4]) :
                              l \in {l \in InitLists : l[1] = "outbound"}}
  BY DEF Init
<1>2. Table(dir) = {NewRow(dir, IdOf(users, l[2]), IdOf(mailaddr, l[3]), l[4]) :
                      l \in {l \in InitLists : l[1] = dir}}
  <2>1. CASE dir = "inbound"
    BY <1>1, <2>1 DEF Table
  <2>2. CASE dir = "outbound"
    BY <1>1, <2>2 DEF Table
  <2> QED
    BY <2>1, <2>2 DEF Directions
<1> QED
  BY <1>2

\* The row of a listing of an earlier command, and what is joined with it.
LEMMA InitRow ==
  ASSUME WblistAssumption, Init, NEW l \in InitLists,
         NEW r, r = NewRow(l[1], IdOf(users, l[2]), IdOf(mailaddr, l[3]), l[4])
  PROVE  /\ r \in ListRow /\ r.wb = l[4] /\ l[1] \in Directions
         /\ \E u \in users, m \in mailaddr : Joins(l[1], r, u, m) /\ u.email = l[2] /\ m.email = l[3]
         /\ \A u \in users, m \in mailaddr : Joins(l[1], r, u, m) => u.email = l[2] /\ m.email = l[3]
         /\ \A u \in users : u.id = AccountId(l[1], r) => u.email = l[2]
         /\ \A m \in mailaddr : m.id = AddressId(l[1], r) => m.email = l[3]
<1>1. Tables
  BY InitTables
<1>2. PICK u \in users : u.email = l[2] /\ u.id = IdOf(users, l[2]) /\ u.id \in Nat
  BY InitNumbers
<1>3. PICK m \in mailaddr : m.email = l[3] /\ m.id = IdOf(mailaddr, l[3]) /\ m.id \in Nat
  BY InitNumbers
<1>4. l[1] \in Directions /\ l[4] \in {"W", "B"}
  BY InitNumbers
<1>5. r \in ListRow /\ AccountId(l[1], r) = u.id /\ AddressId(l[1], r) = m.id /\ r.wb = l[4]
  <2>1. r = NewRow(l[1], u.id, m.id, l[4])
    BY <1>2, <1>3
  <2> QED
    BY <1>2, <1>3, <1>4, <2>1, NewRowIs
<1>6. \A v \in users : v.id = u.id => v = u
  BY <1>1, <1>2 DEF Tables
<1>7. \A n \in mailaddr : n.id = m.id => n = m
  BY <1>1, <1>3 DEF Tables
<1> QED
  BY <1>2, <1>3, <1>4, <1>5, <1>6, <1>7 DEF Joins

LEMMA InitListsHold == ASSUME WblistAssumption, Init PROVE Lists
<1>1. Tables
  BY InitTables
<1> SUFFICES ASSUME NEW dir \in Directions
             PROVE  /\ Table(dir) \subseteq ListRow
                    /\ \A r, s \in Table(dir) : r.rid = s.rid /\ r.sid = s.sid => r = s
                    /\ \A r \in Table(dir) :
                         /\ \E u \in users : u.id = AccountId(dir, r)
                         /\ AddressId(dir, r) <= last_id["mailaddr"]
                         /\ \A u \in users, m \in mailaddr :
                              Joins(dir, r, u, m) => <<dir, u.email, m.email>> \in Pairs
  BY DEF Lists
<1>2. ASSUME NEW r \in Table(dir)
      PROVE  \E l \in InitLists :
               /\ l[1] = dir /\ r = NewRow(l[1], IdOf(users, l[2]), IdOf(mailaddr, l[3]), l[4]) /\ r \in ListRow
               /\ \E u \in users, m \in mailaddr : Joins(dir, r, u, m) /\ u.email = l[2] /\ m.email = l[3]
               /\ \A u \in users, m \in mailaddr : Joins(dir, r, u, m) => u.email = l[2] /\ m.email = l[3]
               /\ <<l[1], l[2], l[3]>> \in Pairs
  <2>1. PICK l \in InitLists : l[1] = dir /\ r = NewRow(dir, IdOf(users, l[2]), IdOf(mailaddr, l[3]), l[4])
    BY <1>2, InitRows
  <2>2. r = NewRow(l[1], IdOf(users, l[2]), IdOf(mailaddr, l[3]), l[4])
    BY <2>1
  <2>3. /\ r \in ListRow /\ \E u \in users, m \in mailaddr : Joins(l[1], r, u, m) /\ u.email = l[2] /\ m.email = l[3]
        /\ \A u \in users, m \in mailaddr : Joins(l[1], r, u, m) => u.email = l[2] /\ m.email = l[3]
    BY <2>1, <2>2, InitRow
  <2>4. <<l[1], l[2], l[3]>> \in Pairs
    BY <2>1, InitNumbers
  <2> QED
    BY <2>1, <2>2, <2>3, <2>4
<1>3. ASSUME NEW r \in Table(dir), NEW s \in Table(dir), r.rid = s.rid, r.sid = s.sid PROVE r = s
  <2>1. PICK l \in InitLists :
               /\ l[1] = dir /\ r = NewRow(l[1], IdOf(users, l[2]), IdOf(mailaddr, l[3]), l[4]) /\ r \in ListRow
               /\ \E u \in users, m \in mailaddr : Joins(dir, r, u, m) /\ u.email = l[2] /\ m.email = l[3]
    BY <1>2
  <2>2. PICK k \in InitLists :
               /\ k[1] = dir /\ s = NewRow(k[1], IdOf(users, k[2]), IdOf(mailaddr, k[3]), k[4]) /\ s \in ListRow
               /\ \A u \in users, m \in mailaddr : Joins(dir, s, u, m) => u.email = k[2] /\ m.email = k[3]
    BY <1>2
  <2>3. PICK u \in users, m \in mailaddr : Joins(dir, r, u, m) /\ u.email = l[2] /\ m.email = l[3]
    BY <2>1
  <2>4. Joins(dir, s, u, m)
    <3>1. AccountId(dir, r) = AccountId(dir, s) /\ AddressId(dir, r) = AddressId(dir, s)
      BY <1>3, <2>1, <2>2, RowNumbers
    <3> QED
      BY <2>3, <3>1 DEF Joins
  <2>5. l[2] = k[2] /\ l[3] = k[3] /\ l[1] = k[1]
    BY <2>1, <2>2, <2>3, <2>4
  <2>6. l = k
    BY <2>5 DEF WblistAssumption
  <2> QED
    BY <2>1, <2>2, <2>6
<1>4. ASSUME NEW r \in Table(dir)
      PROVE  /\ \E u \in users : u.id = AccountId(dir, r)
             /\ AddressId(dir, r) <= last_id["mailaddr"]
             /\ \A u \in users, m \in mailaddr : Joins(dir, r, u, m) => <<dir, u.email, m.email>> \in Pairs
  <2>1. PICK l \in InitLists :
               /\ l[1] = dir
               /\ \E u \in users, m \in mailaddr : Joins(dir, r, u, m) /\ u.email = l[2] /\ m.email = l[3]
               /\ \A u \in users, m \in mailaddr : Joins(dir, r, u, m) => u.email = l[2] /\ m.email = l[3]
               /\ <<l[1], l[2], l[3]>> \in Pairs
    BY <1>2, <1>4
  <2> QED
    BY <1>1, <2>1 DEF Joins, Tables
<1> QED
  BY <1>2, <1>3, <1>4

LEMMA ListInit == ASSUME WblistAssumption, Init PROVE ListInv
<1>1. Tables /\ Lists
  BY InitTables, InitListsHold
<1>2. proc = [p \in Admin |-> Idle]
  BY DEF Init
<1>3. Jobs
  <2>1. \A p \in Admin : proc[p] = Idle /\ ~Runs(p)
    BY <1>2 DEF Runs, Idle
  <2> QED
    BY <2>1 DEF Jobs
<1>4. due = [pair \in Pairs |->
         IF {l[4] : l \in {l \in InitLists : <<l[1], l[2], l[3]>> = pair}} = {} THEN {"none"}
         ELSE {l[4] : l \in {l \in InitLists : <<l[1], l[2], l[3]>> = pair}}]
  BY DEF Init
<1>5. ASSUME NEW pair \in Pairs
      PROVE  /\ due[pair] # {} /\ due[pair] \in SUBSET {"W", "B", "none"}
             /\ InForce(pair) \subseteq due[pair]
             /\ InForce(pair) = {} => "none" \in due[pair]
  <2>1. PICK values : values = {l[4] : l \in {l \in InitLists : <<l[1], l[2], l[3]>> = pair}}
    OBVIOUS
  <2>2. due[pair] = IF values = {} THEN {"none"} ELSE values
    BY <1>4, <2>1
  <2>3. \A l \in InitLists : l[4] \in {"W", "B"}
    BY InitNumbers
  <2>4. ASSUME NEW v \in InForce(pair) PROVE v \in values
    <3>1. PICK r \in Table(pair[1]), u \in users, m \in mailaddr :
             Joins(pair[1], r, u, m) /\ u.email = pair[2] /\ m.email = pair[3] /\ v = r.wb
      BY <2>4, InForceIs
    <3>2. pair[1] \in Directions /\ pair = <<pair[1], pair[2], pair[3]>>
      BY PairForm
    <3>3. PICK l \in InitLists : l[1] = pair[1] /\ r = NewRow(l[1], IdOf(users, l[2]), IdOf(mailaddr, l[3]), l[4])
      BY <3>1, <3>2, InitRows
    <3>4. r.wb = l[4] /\ u.email = l[2] /\ m.email = l[3]
      BY <3>1, <3>3, InitRow
    <3>5. <<l[1], l[2], l[3]>> = pair
      BY <3>1, <3>2, <3>3, <3>4
    <3> QED
      BY <2>1, <3>1, <3>4, <3>5
  <2>5. ASSUME NEW l \in InitLists, <<l[1], l[2], l[3]>> = pair PROVE InForce(pair) # {}
    <3>1. PICK r : r = NewRow(l[1], IdOf(users, l[2]), IdOf(mailaddr, l[3]), l[4])
      OBVIOUS
    <3>2. r \in Table(pair[1])
      BY <2>5, <3>1, InitRows, InitNumbers
    <3>3. PICK u \in users, m \in mailaddr : Joins(l[1], r, u, m) /\ u.email = l[2] /\ m.email = l[3]
      BY <2>5, <3>1, InitRow
    <3>4. pair[1] = l[1] /\ pair[2] = l[2] /\ pair[3] = l[3]
      BY <2>5
    <3>5. r.wb \in InForce(pair)
      BY <3>2, <3>3, <3>4, InForceIs
    <3> QED
      BY <3>5
  <2>6. values # {} => InForce(pair) # {}
    BY <2>1, <2>5
  <2>7. values \subseteq {"W", "B"}
    BY <2>1, <2>3
  <2>8. InForce(pair) \subseteq values
    BY <2>4
  <2> QED
    BY <2>2, <2>6, <2>7, <2>8
<1>6. due \in [Pairs -> SUBSET {"W", "B", "none"}]
  BY <1>4, <1>5
<1>7. Values
  BY <1>5, <1>6 DEF Values
<1> QED
  BY <1>1, <1>2, <1>3, <1>7 DEF ListInv

LEMMA ListNext == ASSUME WblistAssumption, ListInv, Daemons, [Next]_vars PROVE ListInv' /\ Daemons'
<1>1. CASE \E p \in Admin : Command(p)
  <2>1. PICK p \in Admin : Command(p)
    BY <1>1
  <2>2. Daemons'
    BY <2>1, Zenon DEF Daemons, Command, Give, GetUser, CreateUser, CreateMailaddr, SelectIds, DeleteRows, InsertRow, Report,
       StatementFails, CommandElsewhere, daemonVars
  <2>3. ListInv'
    BY <2>1, GiveKeeps, GetUserKeeps, CreateUserKeeps, CreateMailaddrKeeps, SelectIdsKeeps, DeleteRowsKeeps,
       InsertRowKeeps, ReportKeeps, StatementFailsKeeps DEF Command
  <2> QED
    BY <2>2, <2>3
<1>2. CASE CleanupMailaddr
  <2>1. Daemons'
    BY <1>2 DEF Daemons, CleanupMailaddr, daemonVars
  <2> QED
    BY <1>2, <2>1, CleanupMailaddrKeeps
<1>3. CASE Daemon
  <2>1. UNCHANGED <<users, mailaddr, last_id, lists, proc, due>>
    BY <1>3 DEF Daemon, Receive, SelectLocal, SelectExternal, SelectCidr, Apply, ApplyFails, ReadElsewhere,
       DaemonElsewhere
  <2>2. Daemons'
    <3>1. CASE Receive
      BY <3>1 DEF Receive, Daemons, Directions
    <3>2. CASE SelectLocal \/ SelectExternal \/ SelectCidr
      BY <3>2 DEF SelectLocal, SelectExternal, SelectCidr, ReadElsewhere, Daemons
    <3>3. CASE Apply
      <4>1. PICK wb : \/ direction' = "inbound" /\ pc' = "local" /\ UNCHANGED verdict
                      \/ Return(CASE wb = "B" -> "REJECT" [] wb = "W" /\ direction = "inbound" -> "OK" [] OTHER -> "DUNNO")
        BY <3>3 DEF Apply
      <4>2. (CASE wb = "B" -> "REJECT" [] wb = "W" /\ direction = "inbound" -> "OK" [] OTHER -> "DUNNO")
              \in {"REJECT", "OK", "DUNNO"}
        OBVIOUS
      <4> QED
        BY <4>1, <4>2 DEF Return, Daemons, Directions
    <3>4. CASE ApplyFails
      BY <3>4 DEF ApplyFails, Return, Daemons
    <3> QED
      BY <1>3, <3>1, <3>2, <3>3, <3>4 DEF Daemon
  <2> QED
    BY <2>1, <2>2, ListStutter
<1>4. CASE UNCHANGED vars
  <2>1. UNCHANGED <<users, mailaddr, last_id, lists, proc, due, pc, verdict, direction>>
    BY <1>4 DEF vars, daemonVars
  <2> QED
    BY <2>1, ListStutter DEF Daemons
<1> QED
  BY <1>1, <1>2, <1>3, <1>4 DEF Next

LEMMA ListHolds == ASSUME WblistAssumption, ListInv, Daemons PROVE ListedAsReported
<1>1. Tables /\ Lists /\ Values
  BY DEF ListInv
<1>2. \A table \in {users, mailaddr} : \A row, other \in table :
        row.id = other.id \/ row.email = other.email => row = other
  BY <1>1 DEF Tables
<1>3. \A table \in {wblist, outbound_wblist} : \A row, other \in table :
        row.wb \in {"W", "B"} /\ (row.rid = other.rid /\ row.sid = other.sid => row = other)
  <2>1. Table("inbound") = wblist /\ Table("outbound") = outbound_wblist
    BY DEF Table
  <2>2. \A dir \in Directions : \A row, other \in Table(dir) :
          row.wb \in {"W", "B"} /\ (row.rid = other.rid /\ row.sid = other.sid => row = other)
    BY <1>1 DEF Lists, ListRow
  <2> QED
    BY <2>1, <2>2 DEF Directions
<1>4. TypeOK
  BY <1>1, <1>2, <1>3 DEF TypeOK, Values, Daemons
<1> QED
  BY <1>1, <1>4 DEF ListedAsReported, Values

\* Whatever administrators, the daily job and failed statements interleave, a
\* listing has the value last reported, or one of those that overlapping or
\* failed commands were about, and no key has two rows (libs/wblist.py:79).
THEOREM ReportedListed == ASSUME WblistAssumption PROVE Spec => []ListedAsReported
<1>1. Init => ListInv /\ Daemons
  BY ListInit DEF Init, Daemons, Directions
<1>2. ListInv /\ Daemons /\ [Next]_vars => (ListInv /\ Daemons)'
  BY ListNext
<1>3. ListInv /\ Daemons => ListedAsReported
  BY ListHolds
<1> QED
  BY <1>1, <1>2, <1>3, PTL DEF Spec

-----------------------------------------------------------------------------
(* What a request has read *)

Held == ext_ids \cup cidr_ids

\* What a request has selected is about it.
Asked ==
  /\ pc = "idle" => local_ids = {} /\ Held = {}
  /\ pc \in {"external", "cidr", "apply"} =>
       /\ \A u \in local_ids : u.email \in Accounts(direction, req)
       /\ \A m \in ext_ids : m.email \in Externals(direction, req)
  /\ \A m \in cidr_ids : m.email = req.client \/ InNetwork(req.client, m.email)

\* A number the request holds stands for one address, pruned or not, and a row that has it
\* is of a listing that may have been in force since the request came.
HeldOK(m) ==
  /\ m \in AddressRow /\ m.id <= last_id["mailaddr"]
  /\ \A n \in mailaddr : m.id = n.id => m = n
  /\ \A p \in Admin : Runs(p) => \A n \in proc[p].ids : m.id = n.id => m = n
  /\ \A dir \in Directions : \A r \in Table(dir), u \in users : Joins(dir, r, u, m) =>
       <<dir, u.email, m.email>> \in Pairs /\ <<<<dir, u.email, m.email>>, r.wb>> \in possible

Selected ==
  /\ pc # "idle" => \A pair \in Pairs : \A v \in due[pair] \cap {"W", "B"} : <<pair, v>> \in possible
  /\ local_ids \subseteq users
  /\ \A m \in Held : HeldOK(m)

\* A statement that adds no row to the lists, or only rows that are accounted for.
LEMMA SelectedStep ==
  ASSUME WblistAssumption, ListInv, ListInv', Asked, Selected, UNCHANGED <<pc, req, direction, local_ids, ext_ids, cidr_ids>>,
         pc # "idle" => \A pair \in Pairs : \A v \in due'[pair] \cap {"W", "B"} :
                          v \in due[pair] \/ <<pair, v>> \in possible',
         possible \subseteq possible',
         users \subseteq users', \A u \in users' \ users : u.id > last_id["users"],
         \A m \in mailaddr' \ mailaddr : m.id > last_id["mailaddr"],
         last_id["mailaddr"] <= last_id'["mailaddr"],
         \A p \in Admin : Runs(p)' => \A n \in proc'[p].ids : (Runs(p) /\ n \in proc[p].ids) \/ n \in mailaddr,
         \A dir \in Directions : \A r \in Table(dir)' \ Table(dir) : \A u \in users', m \in Held :
           Joins(dir, r, u, m) => <<dir, u.email, m.email>> \in Pairs /\ <<<<dir, u.email, m.email>>, r.wb>> \in possible'
  PROVE  Asked' /\ Selected'
<1>0. Tables /\ Lists /\ Tables'
  BY DEF ListInv
<1>1. Asked'
  BY DEF Asked, Held, Accounts, Externals, Recipients, Senders
<1>2. Held' = Held
  BY DEF Held
<1>3. ASSUME NEW m \in Held PROVE HeldOK(m)'
  <2>1. HeldOK(m) /\ m \in AddressRow /\ m.id \in Nat
    BY <1>3 DEF Selected, HeldOK, AddressRow
  <2>2. last_id["mailaddr"] \in Nat /\ last_id'["mailaddr"] \in Nat /\ last_id["users"] \in Nat
    BY <1>0 DEF Tables
  <2>3. m.id <= last_id'["mailaddr"]
    BY <2>1, <2>2 DEF HeldOK
  <2>4. \A n \in mailaddr' : m.id = n.id => m = n
    BY <2>1, <2>2 DEF HeldOK
  <2>5. \A p \in Admin : Runs(p)' => \A n \in proc'[p].ids : m.id = n.id => m = n
    BY <2>1 DEF HeldOK
  <2>6. ASSUME NEW dir \in Directions, NEW r \in Table(dir)', NEW u \in users', Joins(dir, r, u, m)
        PROVE  <<dir, u.email, m.email>> \in Pairs /\ <<<<dir, u.email, m.email>>, r.wb>> \in possible'
    <3>1. CASE r \in Table(dir)
      <4>1. PICK v \in users : v.id = AccountId(dir, r) /\ v.id \in Nat /\ v.id <= last_id["users"]
        BY <1>0, <3>1 DEF Lists, Tables, AccountRow
      <4>2. u.id = v.id
        BY <2>6, <4>1 DEF Joins
      <4>3. u \in users
        BY <2>2, <4>1, <4>2
      <4> QED
        BY <2>1, <2>6, <3>1, <4>3 DEF HeldOK
    <3>2. CASE r \notin Table(dir)
      BY <1>3, <2>6, <3>2
    <3> QED
      BY <3>1, <3>2
  <2> QED
    BY <2>1, <2>3, <2>4, <2>5, <2>6 DEF HeldOK, AddressRow, Directions, Known, Joins, AccountId, AddressId
<1>4. pc' # "idle" => \A pair \in Pairs : \A v \in due'[pair] \cap {"W", "B"} : <<pair, v>> \in possible'
  BY DEF Selected
<1>5. Pairs' = Pairs
  BY DEF Pairs, Listed
<1>6. local_ids' \subseteq users'
  BY DEF Selected
<1>7. Selected'
  BY <1>2, <1>3, <1>4, <1>5, <1>6 DEF Selected
<1> QED
  BY <1>1, <1>7

\* A command reads addresses that are there.
LEMMA IdsRead ==
  ASSUME ListInv, NEW p \in Admin, Runs(p), NEW k, proc' = [proc EXCEPT ![p] = k],
         k = Idle \/ k.ids \subseteq proc[p].ids \cup mailaddr
  PROVE  \A q \in Admin : Runs(q)' => \A n \in proc'[q].ids : (Runs(q) /\ n \in proc[q].ids) \/ n \in mailaddr
<1>1. proc'[p] = k /\ \A q \in Admin \ {p} : proc'[q] = proc[q]
  BY DEF ListInv
<1>2. \A q \in Admin \ {p} : Runs(q)' => Runs(q)
  BY <1>1 DEF Runs
<1>3. Runs(p)' => k # Idle
  BY <1>1 DEF Runs, Idle
<1> QED
  BY <1>1, <1>2, <1>3

LEMMA SelectedInsert ==
  ASSUME WblistAssumption, ListInv, ListInv', Asked, Selected, NEW p \in Admin, InsertRow(p)
  PROVE  Asked' /\ Selected'
<1>0. /\ At(p, "insert") /\ UNCHANGED <<users, mailaddr, last_id, due, possible>> /\ Tables /\ Lists
      /\ UNCHANGED <<pc, req, direction, local_ids, ext_ids, cidr_ids>>
  BY DEF InsertRow, ListInv, CommandElsewhere, daemonVars
<1>1. PICK j \in Job : j = proc[p] /\ JobOK(j) /\ DueOK(j) /\ j.pc = "insert"
  BY <1>0, AtJob, Zenon
<1>2. PICK m \in j.ids :
        LET row == NewRow(j.cmd.direction, j.user, m.id, j.cmd.wb)
            refused == \E r \in Table(j.cmd.direction) : r.rid = row.rid /\ r.sid = row.sid
        IN  /\ m.email \in j.left
            /\ SetTable(j.cmd.direction, IF refused THEN Table(j.cmd.direction)
                                         ELSE Table(j.cmd.direction) \cup {row})
            /\ proc' = [proc EXCEPT ![p] = Done(proc[p], m.email)]
  BY <1>1 DEF InsertRow
<1>3. PICK row : row = NewRow(j.cmd.direction, j.user, m.id, j.cmd.wb)
  OBVIOUS
<1>4. PICK rows : rows = IF \E r \in Table(j.cmd.direction) : r.rid = row.rid /\ r.sid = row.sid
                           THEN Table(j.cmd.direction) ELSE Table(j.cmd.direction) \cup {row}
  OBVIOUS
<1>5. /\ SetTable(j.cmd.direction, rows) /\ proc' = [proc EXCEPT ![p] = Done(j, m.email)]
  BY <1>1, <1>2, <1>3, <1>4
<1>6. PICK k : k = Done(j, m.email)
  OBVIOUS
<1>7. k.ids = j.ids
  BY <1>6, DoneForm
<1>8. /\ j.cmd \in Cmd /\ j.cmd.direction \in Directions /\ j.cmd.wb \in {"W", "B"} /\ j.cmd.op = "add"
      /\ j.user \in Nat /\ m.id \in Nat
  BY <1>1, JobForm DEF JobOK, AddressRow
<1>9. /\ AccountId(j.cmd.direction, row) = j.user
      /\ AddressId(j.cmd.direction, row) = m.id /\ row.wb = j.cmd.wb
  BY <1>3, <1>8, NewRowIs
<1>10. \A q \in Admin : Runs(q)' => \A n \in proc'[q].ids : (Runs(q) /\ n \in proc[q].ids) \/ n \in mailaddr
  <2>1. Runs(p)
    BY <1>0 DEF At, Runs
  <2> QED
    BY <1>1, <1>5, <1>6, <1>7, <2>1, IdsRead
<1>11. ASSUME NEW dir \in Directions, NEW r \in Table(dir)' \ Table(dir), NEW u \in users', NEW n \in Held,
              Joins(dir, r, u, n)
       PROVE  <<dir, u.email, n.email>> \in Pairs /\ <<<<dir, u.email, n.email>>, r.wb>> \in possible'
  <2>1. dir = j.cmd.direction /\ r = row
    <3>1. Table(j.cmd.direction)' = rows /\ \A e \in Directions \ {j.cmd.direction} : Table(e)' = Table(e)
      BY <1>5, <1>8, SetTableIs
    <3> QED
      BY <1>4, <1>11, <3>1
  <2>2. n.id = m.id /\ u.id = j.user
    BY <1>9, <1>11, <2>1 DEF Joins
  <2>3. Runs(p) /\ HeldOK(n)
    BY <1>0 DEF At, Runs, Selected
  <2>4. n = m
    BY <1>1, <2>2, <2>3 DEF HeldOK
  <2>5. u.email = j.cmd.account
    BY <1>0, <1>1, <2>2 DEF JobOK, Tables
  <2>6. PICK pair : pair = PairOf(j.cmd, m.email)
    OBVIOUS
  <2>7. pair \in Pairs /\ pair \in PairsOf(j.cmd)
    BY <1>1, <2>6, OwnPairs DEF JobOK
  <2>8. j.cmd.wb \in due[pair]
    BY <1>1, <1>8, <2>7 DEF DueOK
  <2>9. pc # "idle"
    BY <1>11 DEF Asked
  <2>10. <<pair, j.cmd.wb>> \in possible
    BY <1>8, <2>7, <2>8, <2>9 DEF Selected
  <2>11. pair = <<dir, u.email, n.email>>
    BY <2>1, <2>4, <2>5, <2>6 DEF PairOf
  <2> QED
    BY <1>0, <1>9, <2>1, <2>7, <2>10, <2>11
<1>12. last_id["mailaddr"] <= last_id'["mailaddr"]
  BY <1>0 DEF Tables
<1> QED
  BY <1>0, <1>10, <1>11, <1>12, SelectedStep

\* A statement that adds no row: what is still to be shown.
LEMMA SelectedKept ==
  ASSUME WblistAssumption, ListInv, ListInv', Asked, Selected, UNCHANGED <<pc, req, direction, local_ids, ext_ids, cidr_ids>>,
         UNCHANGED possible, \A pair \in Pairs : due'[pair] \subseteq due[pair] \cup {"none"},
         users \subseteq users', \A u \in users' \ users : u.id > last_id["users"],
         \A m \in mailaddr' \ mailaddr : m.id > last_id["mailaddr"],
         last_id["mailaddr"] <= last_id'["mailaddr"],
         \A dir \in Directions : Table(dir)' \subseteq Table(dir),
         NEW p \in Admin, Runs(p), NEW k, proc' = [proc EXCEPT ![p] = k],
         k = Idle \/ k.ids \subseteq proc[p].ids \cup mailaddr
  PROVE  Asked' /\ Selected'
<1>1. \A q \in Admin : Runs(q)' => \A n \in proc'[q].ids : (Runs(q) /\ n \in proc[q].ids) \/ n \in mailaddr
  BY IdsRead
<1>2. \A pair \in Pairs : \A v \in due'[pair] \cap {"W", "B"} : v \in due[pair]
  OBVIOUS
<1>3. possible \subseteq possible'
  OBVIOUS
<1> QED
  BY <1>1, <1>2, <1>3, SelectedStep

LEMMA SelectedCommand ==
  ASSUME WblistAssumption, ListInv, ListInv', Asked, Selected, NEW p \in Admin,
         GetUser(p) \/ CreateUser(p) \/ CreateMailaddr(p) \/ SelectIds(p) \/ DeleteRows(p) \/ Report(p) \/ StatementFails(p)
  PROVE  Asked' /\ Selected'
<1>0. /\ UNCHANGED <<pc, req, direction, local_ids, ext_ids, cidr_ids, possible>> /\ Runs(p)
      /\ Tables /\ Lists /\ Values /\ Tables'
  BY DEF GetUser, CreateUser, CreateMailaddr, SelectIds, DeleteRows, Report, StatementFails, CommandElsewhere,
     daemonVars, At, Runs, ListInv
<1>1. PICK j \in Job : j = proc[p] /\ JobOK(j) /\ DueOK(j) /\ (j.alone => AloneOK(j))
  BY <1>0, JobOf DEF ListInv
<1>2. /\ last_id["mailaddr"] \in Nat /\ last_id["users"] \in Nat
  BY <1>0 DEF Tables
<1>3. PICK k : proc' = [proc EXCEPT ![p] = k] /\ (k = Idle \/ k.ids \subseteq proc[p].ids \cup mailaddr)
  <2>1. CASE GetUser(p)
    <3>4. PICK n : n = (CHOOSE u \in users : u.email = j.cmd.account).id
      OBVIOUS
    <3>1. PICK k : k = IF Stored(users, j.cmd.account)
             THEN [j EXCEPT !.pc = AfterUser(j.cmd), !.user = n] ELSE [j EXCEPT !.pc = "create"]
      OBVIOUS
    <3>2. proc' = [proc EXCEPT ![p] = k]
      BY <1>1, <2>1, <3>1, <3>4 DEF GetUser
    <3>3. k.ids = j.ids
      <4>1. CASE Stored(users, j.cmd.account)
        BY <3>1, <4>1 DEF Job
      <4>2. CASE ~Stored(users, j.cmd.account)
        BY <3>1, <4>2 DEF Job
      <4> QED
        BY <4>1, <4>2
    <3> QED
      BY <1>1, <3>2, <3>3
  <2>2. CASE CreateUser(p)
    <3>1. CASE Stored(users, proc[p].cmd.account)
      BY <2>2, <3>1 DEF CreateUser
    <3>2. CASE ~Stored(users, proc[p].cmd.account)
      <4>1. proc' = [proc EXCEPT ![p].pc = AfterUser(proc[p].cmd), ![p].user = NewId("users")]
        BY <2>2, <3>2 DEF CreateUser
      <4>2. PICK k : k = [j EXCEPT !.pc = AfterUser(j.cmd), !.user = NewId("users")]
        OBVIOUS
      <4>3. proc = [q \in Admin |-> proc[q]]
        BY DEF ListInv
      <4>4. proc' = [proc EXCEPT ![p] = k]
        BY <1>1, <4>1, <4>2, <4>3 DEF Job
      <4>5. k.ids = j.ids
        BY <4>2 DEF Job
      <4> QED
        BY <1>1, <4>4, <4>5
    <3> QED
      BY <3>1, <3>2
  <2>3. CASE CreateMailaddr(p)
    <3>1. PICK a : proc' = [proc EXCEPT ![p] = Done(proc[p], a)]
      BY <2>3 DEF CreateMailaddr
    <3>2. PICK k : k = Done(j, a)
      OBVIOUS
    <3>3. k.ids = j.ids
      BY <3>2, DoneForm
    <3> QED
      BY <1>1, <3>1, <3>2, <3>3
  <2>4. CASE SelectIds(p)
    <3>1. PICK ids : ids = {m \in mailaddr : m.email \in j.cmd.addresses}
      OBVIOUS
    <3>2. PICK k : k = [j EXCEPT !.ids = ids, !.left = {m.email : m \in ids},
                                 !.pc = IF ids = {} THEN "report" ELSE "delete"]
      OBVIOUS
    <3>3. proc = [q \in Admin |-> proc[q]]
      BY DEF ListInv
    <3>4. proc' = [proc EXCEPT ![p] = k]
      BY <1>1, <2>4, <3>1, <3>2, <3>3 DEF SelectIds, Job
    <3>5. k.ids = ids
      BY <3>2 DEF Job
    <3> QED
      BY <3>1, <3>4, <3>5
  <2>5. CASE DeleteRows(p)
    <3>1. PICK k : k = [j EXCEPT !.pc = IF j.cmd.op = "add" THEN "insert" ELSE "report"]
      OBVIOUS
    <3>2. proc = [q \in Admin |-> proc[q]]
      BY DEF ListInv
    <3>3. proc' = [proc EXCEPT ![p] = k]
      BY <1>1, <2>5, <3>1, <3>2 DEF DeleteRows, Job
    <3>4. k.ids = j.ids
      BY <3>1 DEF Job
    <3> QED
      BY <1>1, <3>3, <3>4
  <2>6. CASE Report(p)
    BY <2>6 DEF Report
  <2>7. CASE StatementFails(p)
    <3>1. CASE At(p, "mailaddr") \/ At(p, "insert")
      <4>1. PICK a \in j.left : proc' = [proc EXCEPT ![p] = [Done(j, a) EXCEPT !.alone = FALSE]]
        BY <1>1, <2>7, <3>1 DEF StatementFails
      <4>2. PICK d : d = Done(j, a)
        OBVIOUS
      <4>3. d \in Job /\ d.ids = j.ids
        BY <4>2, DoneForm
      <4>4. PICK k : k = [d EXCEPT !.alone = FALSE]
        OBVIOUS
      <4>5. k.ids = d.ids
        BY <4>3, <4>4 DEF Job
      <4> QED
        BY <1>1, <4>1, <4>2, <4>3, <4>4, <4>5
    <3>2. CASE ~(At(p, "mailaddr") \/ At(p, "insert"))
      BY <2>7, <3>2 DEF StatementFails
    <3> QED
      BY <3>1, <3>2
  <2> QED
    BY <2>1, <2>2, <2>3, <2>4, <2>5, <2>6, <2>7
<1>4. /\ users \subseteq users' /\ \A u \in users' \ users : u.id > last_id["users"]
  <2>1. CASE CreateUser(p) /\ ~Stored(users, proc[p].cmd.account)
    BY <1>2, <2>1 DEF CreateUser, Insert, NewId
  <2>2. CASE ~(CreateUser(p) /\ ~Stored(users, proc[p].cmd.account))
    <3>1. users' = users
      BY <2>2, Zenon DEF GetUser, CreateUser, CreateMailaddr, SelectIds, DeleteRows, Report, StatementFails
    <3> QED
      BY <3>1
  <2> QED
    BY <2>1, <2>2
<1>5. /\ \A m \in mailaddr' \ mailaddr : m.id > last_id["mailaddr"]
      /\ last_id["mailaddr"] <= last_id'["mailaddr"]
  <2>1. CASE CreateMailaddr(p)
    <3>1. PICK a : IF Stored(mailaddr, a) THEN UNCHANGED <<mailaddr, last_id>>
                   ELSE mailaddr' = Insert(mailaddr, "mailaddr", a) /\ NumberGiven("mailaddr")
      BY <2>1 DEF CreateMailaddr
    <3>2. CASE Stored(mailaddr, a)
      BY <1>2, <3>1, <3>2
    <3>3. CASE ~Stored(mailaddr, a)
      <4>1. last_id' = [last_id EXCEPT !["mailaddr"] = last_id["mailaddr"] + 1]
        BY <3>1, <3>3 DEF NumberGiven, NewId
      <4>2. last_id'["mailaddr"] = last_id["mailaddr"] + 1
        BY <1>0, <4>1 DEF Tables
      <4>3. mailaddr' = mailaddr \cup {[id |-> last_id["mailaddr"] + 1, email |-> a]}
        BY <3>1, <3>3 DEF Insert, NewId
      <4> QED
        BY <1>2, <4>2, <4>3
    <3> QED
      BY <3>2, <3>3
  <2>2. CASE CreateUser(p)
    <3>1. mailaddr' = mailaddr /\ (last_id' = last_id \/ last_id' = [last_id EXCEPT !["users"] = NewId("users")])
      BY <2>2 DEF CreateUser, NumberGiven
    <3>2. last_id'["mailaddr"] = last_id["mailaddr"]
      BY <1>0, <3>1 DEF Tables
    <3> QED
      BY <1>2, <3>1, <3>2
  <2>3. CASE ~CreateMailaddr(p) /\ ~CreateUser(p)
    <3>1. mailaddr' = mailaddr /\ last_id' = last_id
      BY <2>3, Zenon DEF GetUser, SelectIds, DeleteRows, Report, StatementFails
    <3> QED
      BY <1>2, <3>1
  <2> QED
    BY <2>1, <2>2, <2>3
<1>6. \A dir \in Directions : Table(dir)' \subseteq Table(dir)
  <2>1. CASE DeleteRows(p)
    <3>1. SetTable(j.cmd.direction, {row \in Table(j.cmd.direction) : ~Chosen(j, row)})
      BY <1>1, <2>1 DEF DeleteRows, Chosen
    <3>2. j.cmd.direction \in Directions
      BY JobForm
    <3> QED
      BY <3>1, <3>2, SetTableIs
  <2>2. CASE ~DeleteRows(p)
    <3>1. wblist' = wblist /\ outbound_wblist' = outbound_wblist
      BY <2>2, Zenon DEF GetUser, CreateUser, CreateMailaddr, SelectIds, Report, StatementFails, lists
    <3> QED
      BY <3>1 DEF Table
  <2> QED
    BY <2>1, <2>2
<1>7. \A pair \in Pairs : due'[pair] \subseteq due[pair] \cup {"none"}
  <2>1. CASE Report(p)
    <3> SUFFICES ASSUME NEW pair \in Pairs PROVE due'[pair] \subseteq due[pair] \cup {"none"}
      OBVIOUS
    <3>1. due'[pair] = IF ~j.alone \/ pair \notin PairsOf(j.cmd) THEN due[pair]
                       ELSE IF j.cmd.op = "add" THEN {j.cmd.wb} ELSE due[pair] \ {j.cmd.wb}
      BY <1>1, <2>1 DEF Report
    <3>2. pair \in PairsOf(j.cmd) /\ j.cmd.op = "add" => j.cmd.wb \in due[pair]
      BY <1>1 DEF DueOK
    <3> QED
      BY <3>1, <3>2
  <2>2. CASE StatementFails(p)
    BY <2>2 DEF StatementFails
  <2>3. CASE ~Report(p) /\ ~StatementFails(p)
    <3>1. due' = due
      BY <2>3, Zenon DEF GetUser, CreateUser, CreateMailaddr, SelectIds, DeleteRows
    <3> QED
      BY <3>1
  <2> QED
    BY <2>1, <2>2, <2>3
<1> QED
  BY <1>0, <1>3, <1>4, <1>5, <1>6, <1>7, SelectedKept

LEMMA SelectedGive ==
  ASSUME WblistAssumption, ListInv, ListInv', Asked, Selected, NEW p \in Admin, Give(p) PROVE Asked' /\ Selected'
<1>0. /\ UNCHANGED <<pc, req, direction, local_ids, ext_ids, cidr_ids, users, mailaddr, last_id, lists>>
      /\ Jobs /\ Values' /\ Tables /\ proc = [q \in Admin |-> proc[q]]
  BY DEF Give, daemonVars, ListInv
<1>1. possible' = IF pc = "idle" THEN possible
                  ELSE possible \cup {l \in Pairs \X {"W", "B"} : l[2] \in due'[l[1]]}
  BY DEF Give
<1>7. PICK c \in Commands :
         LET valid  == [c EXCEPT !.addresses = {a \in c.addresses : AddressType(a) # "invalid"}]
             others == {q \in Admin : Runs(q) /\ PairsOf(proc[q].cmd) \cap PairsOf(valid) # {}}
         IN  proc' = [q \in Admin |->
                 IF q = p THEN [pc |-> "user", cmd |-> valid, user |-> 0, left |-> valid.addresses,
                                ids |-> {}, alone |-> others = {}]
                 ELSE IF q \in others THEN [proc[q] EXCEPT !.alone = FALSE] ELSE proc[q]]
  BY DEF Give
<1>8. PICK valid : valid = [c EXCEPT !.addresses = {a \in c.addresses : AddressType(a) # "invalid"}]
  OBVIOUS
<1>9. PICK others : others = {q \in Admin : Runs(q) /\ PairsOf(proc[q].cmd) \cap PairsOf(valid) # {}}
  OBVIOUS
<1>10. PICK k : k = [pc |-> "user", cmd |-> valid, user |-> 0, left |-> valid.addresses,
                     ids |-> {}, alone |-> others = {}]
  OBVIOUS
<1>2. k.ids = {} /\ proc' = [q \in Admin |-> IF q = p THEN k
                 ELSE IF q \in others THEN [proc[q] EXCEPT !.alone = FALSE] ELSE proc[q]]
  BY <1>7, <1>8, <1>9, <1>10
<1>3. \A q \in Admin : Runs(q)' => \A n \in proc'[q].ids : (Runs(q) /\ n \in proc[q].ids) \/ n \in mailaddr
  <2> SUFFICES ASSUME NEW q \in Admin, Runs(q)', q # p, NEW n \in proc'[q].ids PROVE Runs(q) /\ n \in proc[q].ids
    BY <1>2
  <2>1. CASE proc[q] = Idle
    <3>1. proc'[q].pc = "idle"
      BY <1>2, <2>1 DEF Idle
    <3> QED
      BY <3>1 DEF Runs
  <2>2. CASE proc[q] \in Job
    <3>1. proc'[q].ids = proc[q].ids
      BY <1>2, <2>2 DEF Job
    <3> QED
      BY <2>2, <3>1, JobForm DEF Runs
  <2> QED
    BY <1>0, <2>1, <2>2 DEF Jobs
<1>4. pc # "idle" => \A pair \in Pairs : \A v \in due'[pair] \cap {"W", "B"} : <<pair, v>> \in possible'
  BY <1>1
<1>5. \A dir \in Directions : Table(dir)' = Table(dir)
  BY <1>0 DEF Table, lists
<1>6. last_id["mailaddr"] <= last_id'["mailaddr"] /\ possible \subseteq possible'
  BY <1>0, <1>1 DEF Tables
<1> QED
  BY <1>0, <1>3, <1>4, <1>5, <1>6, SelectedStep

LEMMA SelectedCleanup ==
  ASSUME WblistAssumption, ListInv, ListInv', Asked, Selected, CleanupMailaddr PROVE Asked' /\ Selected'
<1>0. /\ UNCHANGED <<pc, req, direction, local_ids, ext_ids, cidr_ids, possible, users, last_id, lists>>
      /\ mailaddr' \subseteq mailaddr /\ Jobs /\ Tables /\ proc = [q \in Admin |-> proc[q]]
      /\ \A pair \in Pairs : due'[pair] \subseteq due[pair] \cup {"none"}
  BY DEF CleanupMailaddr, daemonVars, ListInv
<1>1. PICK hit : proc' = [p \in Admin |-> IF p \in hit THEN [proc[p] EXCEPT !.alone = FALSE] ELSE proc[p]]
  BY DEF CleanupMailaddr
<1>2. \A q \in Admin : Runs(q)' => \A n \in proc'[q].ids : (Runs(q) /\ n \in proc[q].ids) \/ n \in mailaddr
  <2> SUFFICES ASSUME NEW q \in Admin, Runs(q)', NEW n \in proc'[q].ids PROVE Runs(q) /\ n \in proc[q].ids
    OBVIOUS
  <2>1. CASE proc[q] = Idle
    <3>1. proc'[q].pc = "idle"
      BY <1>1, <2>1 DEF Idle
    <3> QED
      BY <3>1 DEF Runs
  <2>2. CASE proc[q] \in Job
    <3>1. proc'[q].ids = proc[q].ids
      BY <1>1, <2>2 DEF Job
    <3> QED
      BY <2>2, <3>1, JobForm DEF Runs
  <2> QED
    BY <1>0, <2>1, <2>2 DEF Jobs
<1>3. \A dir \in Directions : Table(dir)' = Table(dir)
  BY <1>0 DEF Table, lists
<1>4. last_id["mailaddr"] <= last_id'["mailaddr"]
  BY <1>0 DEF Tables
<1>5. \A pair \in Pairs : \A v \in due'[pair] \cap {"W", "B"} : v \in due[pair]
  BY <1>0
<1> QED
  BY <1>0, <1>2, <1>3, <1>4, <1>5, SelectedStep

\* Where the request is.
LEMMA ReadStep ==
  ASSUME WblistAssumption, ListInv, Daemons, Asked, Selected, Receive \/ SelectLocal \/ SelectExternal \/ SelectCidr
  PROVE  Asked' /\ Selected'
<1>0. /\ UNCHANGED <<users, mailaddr, last_id, lists, proc, due>> /\ Tables /\ Lists /\ Jobs /\ Values
      /\ wblist' = wblist /\ outbound_wblist' = outbound_wblist
  BY DEF Receive, SelectLocal, SelectExternal, SelectCidr, ReadElsewhere, DaemonElsewhere, ListInv, lists
<1>1. \A dir : Table(dir)' = Table(dir)
  BY <1>0 DEF Table
<1>2. ASSUME NEW m \in Held, UNCHANGED possible PROVE HeldOK(m)'
  BY <1>0, <1>1, <1>2 DEF Selected, HeldOK, AddressRow, Known, Directions, Joins, AccountId, AddressId, Runs
<1>3. ASSUME NEW m \in mailaddr, UNCHANGED possible, pc # "idle" PROVE HeldOK(m)'
  <2>1. m \in AddressRow /\ m.id <= last_id["mailaddr"] /\ \A n \in mailaddr : m.id = n.id => m = n
    BY <1>0 DEF Tables
  <2>2. ASSUME NEW p \in Admin, Runs(p), NEW n \in proc[p].ids, m.id = n.id PROVE m = n
    <3>1. JobOK(proc[p])
      BY <1>0, <2>2, JobOf
    <3> QED
      BY <2>2, <3>1 DEF JobOK
  <2>3. ASSUME NEW dir \in Directions, NEW r \in Table(dir), NEW u \in users, Joins(dir, r, u, m)
        PROVE  <<dir, u.email, m.email>> \in Pairs /\ <<<<dir, u.email, m.email>>, r.wb>> \in possible
    <3>1. PICK pair \in Pairs : pair = <<dir, u.email, m.email>>
      BY <1>0, <2>3 DEF Lists
    <3>2. r.wb \in InForce(pair)
      BY <2>3, <3>1, InForceIs
    <3>3. r.wb \in due[pair] /\ r.wb \in {"W", "B"}
      BY <1>0, <2>3, <3>2 DEF Values, Lists, ListRow
    <3> QED
      BY <1>3, <3>1, <3>3 DEF Selected
  <2>4. HeldOK(m)
    BY <2>1, <2>2, <2>3 DEF HeldOK
  <2> QED
    BY <1>0, <1>1, <1>3, <2>4 DEF HeldOK, AddressRow, Known, Directions, Joins, AccountId, AddressId, Runs
<1>4. Pairs' = Pairs
  BY DEF Pairs, Listed
<1>5. CASE Receive
  <2>1. /\ pc = "idle" /\ pc' \in {"idle", "local"} /\ UNCHANGED <<local_ids, ext_ids, cidr_ids>>
        /\ possible' = {l \in Pairs \X {"W", "B"} : l[2] \in due[l[1]]}
    BY <1>5 DEF Receive
  <2>2. local_ids = {} /\ Held = {} /\ cidr_ids = {} /\ ext_ids = {}
    BY <2>1 DEF Asked, Held
  <2>3. Held' = {} /\ local_ids' = {} /\ ext_ids' = {} /\ cidr_ids' = {}
    BY <2>1, <2>2 DEF Held
  <2>4. Asked'
    BY <2>1, <2>3 DEF Asked
  <2>5. \A pair \in Pairs : \A v \in due'[pair] \cap {"W", "B"} : <<pair, v>> \in possible'
    BY <1>0, <2>1
  <2>6. Selected'
    BY <1>4, <2>3, <2>5 DEF Selected
  <2> QED
    BY <2>4, <2>6
<1>6. CASE SelectLocal
  <2>1. /\ pc = "local" /\ pc' \in {"apply", "external"} /\ UNCHANGED <<req, direction, cidr_ids, possible>> /\ ext_ids' = {}
        /\ local_ids' \subseteq {u \in users : u.email \in Accounts(direction, req)}
    BY <1>6 DEF SelectLocal, ReadElsewhere
  <2>2. Held' \subseteq Held
    BY <2>1 DEF Held
  <2>3. Asked'
    BY <2>1 DEF Asked, Accounts, Externals, Senders, Recipients
  <2>4. pc # "idle"
    BY <2>1
  <2>5. \A pair \in Pairs : \A v \in due'[pair] \cap {"W", "B"} : <<pair, v>> \in possible'
    BY <1>0, <2>1, <2>4 DEF Selected
  <2>6. Selected'
    BY <1>0, <1>2, <1>4, <2>1, <2>2, <2>5 DEF Selected
  <2> QED
    BY <2>3, <2>6
<1>7. CASE SelectExternal
  <2>1. /\ pc = "external" /\ pc' \in {"apply", "cidr"} /\ UNCHANGED <<req, direction, local_ids, cidr_ids, possible>>
        /\ ext_ids' \subseteq {m \in mailaddr : m.email \in Externals(direction, req)}
    BY <1>7 DEF SelectExternal, ReadElsewhere
  <2>2. \A m \in Held' : m \in Held \/ m \in mailaddr
    BY <2>1 DEF Held
  <2>3. Asked'
    BY <2>1 DEF Asked, Accounts, Externals, Senders, Recipients
  <2>4. pc # "idle"
    BY <2>1
  <2>5. \A pair \in Pairs : \A v \in due'[pair] \cap {"W", "B"} : <<pair, v>> \in possible'
    BY <1>0, <2>1, <2>4 DEF Selected
  <2>6. Selected'
    BY <1>0, <1>2, <1>3, <1>4, <2>1, <2>2, <2>4, <2>5 DEF Selected
  <2> QED
    BY <2>3, <2>6
<1>8. CASE SelectCidr
  <2>1. /\ pc = "cidr" /\ pc' = "apply" /\ UNCHANGED <<req, direction, local_ids, ext_ids, possible>>
        /\ cidr_ids' \subseteq {m \in mailaddr : m.email = req.client \/ InNetwork(req.client, m.email)}
    BY <1>8 DEF SelectCidr, ReadElsewhere
  <2>2. \A m \in Held' : m \in Held \/ m \in mailaddr
    BY <2>1 DEF Held
  <2>3. Asked'
    BY <2>1 DEF Asked, Accounts, Externals, Senders, Recipients
  <2>4. pc # "idle"
    BY <2>1
  <2>5. \A pair \in Pairs : \A v \in due'[pair] \cap {"W", "B"} : <<pair, v>> \in possible'
    BY <1>0, <2>1, <2>4 DEF Selected
  <2>6. Selected'
    BY <1>0, <1>2, <1>3, <1>4, <2>1, <2>2, <2>4, <2>5 DEF Selected
  <2> QED
    BY <2>3, <2>6
<1> QED
  BY <1>5, <1>6, <1>7, <1>8

LEMMA AnswerStep ==
  ASSUME WblistAssumption, ListInv, Daemons, Asked, Selected, Apply \/ ApplyFails
  PROVE  Asked' /\ Selected'
<1>0. /\ UNCHANGED <<users, mailaddr, last_id, lists, proc, due, req, possible>> /\ pc = "apply"
      /\ wblist' = wblist /\ outbound_wblist' = outbound_wblist
  BY DEF Apply, ApplyFails, DaemonElsewhere, lists
<1>1. \/ direction' = "inbound" /\ pc' = "local" /\ UNCHANGED <<local_ids, ext_ids, cidr_ids>>
      \/ pc' = "idle" /\ local_ids' = {} /\ ext_ids' = {} /\ cidr_ids' = {}
  BY DEF Apply, ApplyFails, Return
<1>2. \A dir : Table(dir)' = Table(dir)
  BY <1>0 DEF Table
<1>3. ASSUME NEW m \in Held PROVE HeldOK(m)'
  BY <1>0, <1>2, <1>3 DEF Selected, HeldOK, AddressRow, Known, Directions, Joins, AccountId, AddressId, Runs
<1>4. Held' \subseteq Held /\ (pc' = "idle" => Held' = {})
  BY <1>1 DEF Held
<1>5. Asked'
  BY <1>0, <1>1, <1>4 DEF Asked
<1>6. \A pair \in Pairs : \A v \in due'[pair] \cap {"W", "B"} : <<pair, v>> \in possible'
  BY <1>0 DEF Selected
<1>7. Pairs' = Pairs
  BY DEF Pairs, Listed
<1>8. Selected'
  BY <1>0, <1>1, <1>3, <1>4, <1>6, <1>7 DEF Selected
<1> QED
  BY <1>5, <1>8

\* The values are those of a listing that joins what was selected.
LEMMA HitIs ==
  ASSUME NEW outer, NEW inner, NEW listings, NEW v \in FirstHit(outer, inner, listings)
  PROVE  \E o \in outer, i \in inner, l \in listings : o.id = l[1] /\ i.id = l[2] /\ v = l[3]
<1>1. PICK hits : hits = {h \in outer \X inner : \E l \in listings : <<h[1].id, h[2].id>> = <<l[1], l[2]>>}
  OBVIOUS
<1>2. \E l \in listings : v = l[3] /\ \E h \in hits : <<h[1].id, h[2].id>> = <<l[1], l[2]>>
  BY <1>1 DEF FirstHit
<1>3. PICK l \in listings, h \in hits : v = l[3] /\ <<h[1].id, h[2].id>> = <<l[1], l[2]>>
  BY <1>2
<1>4. h[1] \in outer /\ h[2] \in inner
  BY <1>1
<1> QED
  BY <1>3, <1>4

LEMMA HitOfIds ==
  ASSUME NEW rows, NEW o \in Ordered(rows) \cup Appended(rows) PROVE \E row \in rows : row.id = o.id
BY DEF Ordered, Appended

LEMMA JustifiedStep ==
  ASSUME WblistAssumption, ListInv, Daemons, Asked, Selected, [Next]_vars, Answers, ~TakenForSender
  PROVE  /\ verdict' = "REJECT" => \E l \in possible : l[2] = "B" /\ Covers(l[1], req)
         /\ verdict' = "OK"     => \E l \in possible : l[2] = "W" /\ Covers(l[1], req)
<1>1. Apply \/ verdict' = "DUNNO"
  <2>1. pc # "idle" /\ pc' = "idle"
    BY DEF Answers
  <2>2. CASE \E p \in Admin : Command(p)
    BY <2>1, <2>2, Zenon DEF Command, Give, GetUser, CreateUser, CreateMailaddr, SelectIds, DeleteRows, InsertRow, Report,
       StatementFails, CommandElsewhere, daemonVars
  <2>3. CASE CleanupMailaddr
    BY <2>1, <2>3 DEF CleanupMailaddr, daemonVars
  <2>4. CASE UNCHANGED vars
    BY <2>1, <2>4 DEF vars, daemonVars
  <2>5. CASE Receive \/ SelectLocal \/ SelectExternal \/ SelectCidr
    BY <2>1, <2>5 DEF Receive, SelectLocal, SelectExternal, SelectCidr
  <2>6. CASE ApplyFails
    BY <2>6 DEF ApplyFails, Return
  <2> QED
    BY <2>2, <2>3, <2>4, <2>5, <2>6 DEF Next, Daemon
<1> SUFFICES ASSUME Apply, NEW wb \in {"W", "B"}, verdict' = IF wb = "B" THEN "REJECT" ELSE "OK"
             PROVE  \E l \in possible : l[2] = wb /\ Covers(l[1], req)
  BY <1>1
<1>2. PICK values, w : /\ values = (IF direction = "inbound" THEN InboundValues ELSE OutboundValues)
                       /\ w \in (IF values = {} THEN {"none"} ELSE values)
                       /\ verdict' = (CASE w = "B" -> "REJECT" [] w = "W" /\ direction = "inbound" -> "OK" [] OTHER -> "DUNNO")
  BY DEF Apply, Answers, Return
<1>3. w = wb /\ (wb = "B" \/ direction = "inbound")
  BY <1>2
<1>4. wb \in values
  BY <1>2, <1>3
<1>5. ASSUME NEW dir \in Directions, NEW r \in Table(dir), NEW u \in local_ids, NEW m \in Held, Joins(dir, r, u, m),
             r.wb = wb, u.email \in Accounts(dir, req),
             m.email \in Externals(dir, req) \/ (dir = "inbound" /\ InNetwork(req.client, m.email))
      PROVE  \E l \in possible : l[2] = wb /\ Covers(l[1], req)
  <2>1. <<<<dir, u.email, m.email>>, r.wb>> \in possible
    BY <1>5 DEF Selected, HeldOK
  <2>2. Covers(<<dir, u.email, m.email>>, req)
    BY <1>5 DEF Covers
  <2> QED
    BY <1>5, <2>1, <2>2
<1>6. pc = "apply"
  BY DEF Apply
<1>7. CASE direction = "inbound"
  <2>1. wb \in FirstHit(Ordered(local_ids), Ordered(ext_ids) \cup Appended(cidr_ids), ByRid(wblist))
    BY <1>2, <1>4, <1>7 DEF InboundValues
  <2>2. PICK o \in Ordered(local_ids), i \in Ordered(ext_ids) \cup Appended(cidr_ids), l \in ByRid(wblist) :
          o.id = l[1] /\ i.id = l[2] /\ wb = l[3]
    BY <2>1, HitIs
  <2>3. PICK r \in wblist : l = <<r.rid, r.sid, r.wb>>
    BY DEF ByRid
  <2>4. PICK u \in local_ids : u.id = r.rid
    BY <2>2, <2>3, HitOfIds
  <2>5. PICK m \in Held : m.id = r.sid /\ (m \in ext_ids \/ m \in cidr_ids)
    BY <2>2, <2>3 DEF Held, Ordered, Appended
  <2>6. r \in Table("inbound") /\ Joins("inbound", r, u, m) /\ "inbound" \in Directions /\ r.wb = wb
    BY <2>2, <2>3, <2>4, <2>5 DEF Table, Joins, AccountId, AddressId, Directions
  <2>7. u.email \in Accounts("inbound", req)
    BY <1>6, <1>7 DEF Asked
  <2>8. req.client \in Externals("inbound", req)
    BY DEF Externals, Senders
  <2>9. m.email \in Externals("inbound", req) \/ InNetwork(req.client, m.email)
    BY <1>6, <1>7, <2>5, <2>8 DEF Asked
  <2> QED
    BY <1>5, <2>6, <2>7, <2>9
<1>8. CASE direction # "inbound"
  <2>0. direction = "outbound"
    BY <1>8 DEF Daemons, Directions
  <2>1. wb \in FirstHit(Ordered(local_ids) \cup Appended(cidr_ids), Ordered(ext_ids), BySid(outbound_wblist))
    BY <1>2, <1>4, <1>8 DEF OutboundValues
  <2>2. PICK o \in Ordered(local_ids) \cup Appended(cidr_ids), i \in Ordered(ext_ids), l \in BySid(outbound_wblist) :
          o.id = l[1] /\ i.id = l[2] /\ wb = l[3]
    BY <2>1, HitIs
  <2>3. PICK r \in outbound_wblist : l = <<r.sid, r.rid, r.wb>>
    BY DEF BySid
  <2>4. PICK m \in ext_ids : m.id = r.rid
    BY <2>2, <2>3, HitOfIds
  <2>5. PICK u \in local_ids \cup cidr_ids : u.id = r.sid /\ (u \in local_ids \/ u \in cidr_ids)
    BY <2>2, <2>3 DEF Ordered, Appended
  <2>6. u \in local_ids
    BY <2>0, <2>3, <2>4, <2>5 DEF TakenForSender
  <2>7. r \in Table("outbound") /\ Joins("outbound", r, u, m) /\ "outbound" \in Directions /\ r.wb = wb /\ m \in Held
    BY <2>2, <2>3, <2>4, <2>5 DEF Table, Joins, AccountId, AddressId, Directions, Held
  <2>8. u.email \in Accounts("outbound", req) /\ m.email \in Externals("outbound", req)
    BY <1>6, <2>0, <2>4, <2>6 DEF Asked
  <2> QED
    BY <1>5, <2>6, <2>7, <2>8
<1> QED
  BY <1>7, <1>8

LEMMA SelectedInit == ASSUME Init PROVE Asked /\ Selected
BY DEF Init, Asked, Selected, Held

LEMMA SelectedNext ==
  ASSUME WblistAssumption, ListInv, ListInv', Daemons, Asked, Selected, [Next]_vars PROVE Asked' /\ Selected'
<1>1. CASE \E p \in Admin : Command(p)
  BY <1>1, SelectedCommand, SelectedGive, SelectedInsert DEF Command
<1>2. CASE CleanupMailaddr
  BY <1>2, SelectedCleanup
<1>3. CASE Daemon
  BY <1>3, ReadStep, AnswerStep DEF Daemon
<1>4. CASE UNCHANGED vars
  <2>1. /\ UNCHANGED <<pc, req, direction, local_ids, ext_ids, cidr_ids, users, mailaddr, last_id, proc, due, possible>>
        /\ UNCHANGED <<wblist, outbound_wblist>>
    BY <1>4 DEF vars, daemonVars, lists
  <2>2. \A dir \in Directions : Table(dir)' = Table(dir)
    BY <2>1 DEF Table
  <2>3. \A q \in Admin : Runs(q)' => \A n \in proc'[q].ids : (Runs(q) /\ n \in proc[q].ids) \/ n \in mailaddr
    BY <2>1 DEF Runs
  <2>4. last_id["mailaddr"] <= last_id'["mailaddr"]
    BY <2>1 DEF ListInv, Tables
  <2> QED
    BY <2>1, <2>2, <2>3, <2>4, SelectedStep
<1> QED
  BY <1>1, <1>2, <1>3, <1>4 DEF Next

\* Whatever administrators and the daily job write between its SELECTs, and whichever of
\* them fail, a request is refused or let through only because of a listing about its own
\* sender and recipient that was in force at some moment since it came, but for client
\* networks whose number is an account's (plugins/amavisd_wblist.py:184).
THEOREM VerdictsJustified == ASSUME WblistAssumption PROVE Spec => VerdictJustified
<1> DEFINE Kept == ListInv /\ Daemons /\ Asked /\ Selected
<1> DEFINE Justified ==
      Answers /\ ~TakenForSender =>
        /\ verdict' = "REJECT" => \E l \in possible : l[2] = "B" /\ Covers(l[1], req)
        /\ verdict' = "OK"     => \E l \in possible : l[2] = "W" /\ Covers(l[1], req)
<1>1. Init => Kept
  BY ListInit, SelectedInit DEF Init, Daemons, Directions
<1>2. Kept /\ [Next]_vars => Kept'
  BY ListNext, SelectedNext
<1>3. Kept /\ [Next]_vars => [Justified]_vars
  BY JustifiedStep
<1>4. VerdictJustified <=> [][Justified]_vars
  BY DEF VerdictJustified
<1> HIDE DEF Kept, Justified
<1> QED
  BY <1>1, <1>2, <1>3, <1>4, PTL DEF Spec
-----------------------------------------------------------------------------
(* What an undisturbed request has read *)

Referred(m) == \E dir \in Directions : \E r \in Table(dir) : AddressId(dir, r) = m.id
OnClient(m) == m.email = req.client \/ InNetwork(req.client, m.email)

\* Every listing about the request has a value that commands agree on.
Sure == \A pair \in Pairs : Covers(pair, req) => Cardinality(due[pair]) = 1

\* A request that no command overlaps, and of which no statement fails, has read all that
\* the tables hold about it, but for addresses pruned since, which are on no list; and it
\* has come to the recipient's list because the sender's did not refuse it.
Complete ==
  /\ \A p \in Admin : ~Runs(p)
  /\ pc \in {"external", "cidr", "apply"} =>
       \A u \in users : u.email \in Accounts(direction, req) => u \in local_ids
  /\ pc = "cidr" \/ (pc = "apply" /\ local_ids # {}) =>
       \A m \in mailaddr : m.email \in Externals(direction, req) => m \in ext_ids
  /\ pc = "apply" /\ local_ids # {} => cidr_checked
  /\ cidr_checked => \A m \in mailaddr : OnClient(m) => m \in cidr_ids
  /\ \A m \in Held : Referred(m) => m \in mailaddr
  /\ ~req.sasl => direction = "inbound"
  /\ req.sasl /\ direction = "inbound" =>
       /\ CheckInbound(req)
       /\ Sure => \E v \in Foremost("outbound", req) : v # "B" \/ BypassOutgoing

Undisturbed ==
  /\ req \in Requests /\ failures \in Nat
  /\ pc = "idle" => ~cidr_checked
  /\ pc # "idle" /\ quiet /\ failures = 0 => Complete

-----------------------------------------------------------------------------
(* The row met first *)

\* Priorities are small.
LEMMA PriorityBounds == ASSUME NEW a PROVE MailaddrPriority(a) \in 0..10
BY DEF MailaddrPriority

\* Of some things that are numbered, one has the least number.
LEMMA LeastOf ==
  ASSUME NEW S, NEW rank \in [S -> Nat], S # {}
  PROVE  \E x \in S : \A y \in S : ~(rank[y] < rank[x])
<1> DEFINE Below == OpToRel(<, Nat)
           T == {rank[x] : x \in S}
<1>1. IsWellFoundedOn(Below, Nat)
  BY NatLessThanWellFounded DEF OpToRel
<1>2. T \subseteq Nat /\ T # {}
  OBVIOUS
<1>3. \A x, y \in Nat : x < y => <<x, y>> \in Below
  BY DEF OpToRel
<1> HIDE DEF Below
<1>4. PICK x \in T : \A y \in T : <<y, x>> \notin Below
  <2> HIDE DEF T
  <2> QED
    BY <1>1, <1>2, WFMin
<1>5. \A y \in T : ~(y < x)
  <2> HIDE DEF T
  <2> QED
    BY <1>2, <1>3, <1>4
<1> QED
  BY <1>5

\* Of some numbers in a bounded range, one is the greatest.
LEMMA GreatestOf ==
  ASSUME NEW S, S \subseteq -200..200, S # {}
  PROVE  \E x \in S : \A y \in S : y <= x
<1>1. PICK rank : rank = [x \in S |-> 200 - x]
  OBVIOUS
<1>2. \A x \in S : rank[x] = 200 - x /\ rank[x] \in Nat
  BY <1>1
<1>3. rank \in [S -> Nat]
  BY <1>1, <1>2
<1>4. PICK z \in S : \A y \in S : ~(rank[y] < rank[z])
  BY <1>3, LeastOf
<1>5. ASSUME NEW y \in S PROVE y <= z
  <2>1. ~(200 - y < 200 - z)
    BY <1>2, <1>4
  <2>2. y \in Int /\ z \in Int
    OBVIOUS
  <2> QED
    BY <2>1, <2>2
<1> QED
  BY <1>5

\* The row met first is before no other.
LEMMA HitFirst ==
  ASSUME NEW outer, NEW inner, NEW listings, NEW v \in FirstHit(outer, inner, listings)
  PROVE  \E o \in outer, i \in inner, l \in listings :
           /\ o.id = l[1] /\ i.id = l[2] /\ v = l[3]
           /\ \A p \in outer, j \in inner, k \in listings : p.id = k[1] /\ j.id = k[2] =>
                ~(p.rank > o.rank) /\ ~(p.rank = o.rank /\ j.rank > i.rank)
<1>1. PICK hits : hits = {h \in outer \X inner : \E l \in listings : <<h[1].id, h[2].id>> = <<l[1], l[2]>>}
  OBVIOUS
<1>2. PICK l \in listings, h \in hits :
        /\ v = l[3] /\ <<h[1].id, h[2].id>> = <<l[1], l[2]>>
        /\ \A g \in hits : ~(\/ g[1].rank > h[1].rank
                             \/ g[1].rank = h[1].rank /\ g[2].rank > h[2].rank)
  BY <1>1 DEF FirstHit
<1>3. h[1] \in outer /\ h[2] \in inner
  BY <1>1
<1>4. ASSUME NEW p \in outer, NEW j \in inner, NEW k \in listings, p.id = k[1], j.id = k[2]
      PROVE  ~(p.rank > h[1].rank) /\ ~(p.rank = h[1].rank /\ j.rank > h[2].rank)
  <2>1. PICK g \in hits : g = <<p, j>>
    BY <1>1, <1>4
  <2>2. g[1] = p /\ g[2] = j
    BY <2>1
  <2> QED
    BY <1>2, <2>1, <2>2
<1> QED
  BY <1>2, <1>3, <1>4

\* Two priorities weighed as one number.
LEMMA Weighed ==
  ASSUME NEW a \in -1..10, NEW b \in -1..10, NEW c \in -1..10, NEW d \in -1..10,
         12 * a + b <= 12 * c + d
  PROVE  ~(a > c \/ (a = c /\ b > d))
OBVIOUS

\* There is a first one if there is one.
LEMMA HitSome ==
  ASSUME NEW outer, NEW inner, NEW listings,
         \A o \in outer : o.rank \in -1..10, \A i \in inner : i.rank \in -1..10,
         NEW p \in outer, NEW j \in inner, NEW k \in listings, p.id = k[1], j.id = k[2]
  PROVE  FirstHit(outer, inner, listings) # {}
<1>1. PICK hits : hits = {h \in outer \X inner : \E l \in listings : <<h[1].id, h[2].id>> = <<l[1], l[2]>>}
  OBVIOUS
<1>2. \A h \in hits : h[1].rank \in -1..10 /\ h[2].rank \in -1..10
  BY <1>1
<1>3. <<p, j>> \in hits
  BY <1>1
<1>4. PICK S : S = {12 * h[1].rank + h[2].rank : h \in hits}
  OBVIOUS
<1>5. S # {}
  BY <1>3, <1>4
<1>6. S \subseteq -200..200
  BY <1>2, <1>4
<1>7. PICK x \in S : \A y \in S : y <= x
  BY <1>5, <1>6, GreatestOf
<1>8. PICK h \in hits : x = 12 * h[1].rank + h[2].rank
  BY <1>4
<1>9. ASSUME NEW g \in hits PROVE ~(\/ g[1].rank > h[1].rank
                                    \/ g[1].rank = h[1].rank /\ g[2].rank > h[2].rank)
  <2>1. 12 * g[1].rank + g[2].rank <= 12 * h[1].rank + h[2].rank
    BY <1>4, <1>7, <1>8
  <2>2. /\ g[1].rank \in -1..10 /\ g[2].rank \in -1..10
        /\ h[1].rank \in -1..10 /\ h[2].rank \in -1..10
    BY <1>2
  <2> QED
    BY <2>1, <2>2, Weighed
<1>10. PICK l \in listings : <<h[1].id, h[2].id>> = <<l[1], l[2]>>
  BY <1>1
<1>11. l[3] \in FirstHit(outer, inner, listings)
  BY <1>1, <1>9, <1>10 DEF FirstHit
<1> QED
  BY <1>11

-----------------------------------------------------------------------------
(* What the listings say *)

\* The listings about a request, and how an address ranks among those of one account.
About(dir, r)  == {pair \in Pairs : pair[1] = dir /\ Covers(pair, r) /\ due[pair] # {"none"}}
AddressRank(a) == IF a.form = "network" THEN -1 ELSE MailaddrPriority(a)

\* So are the ranks.
LEMMA RankBounds == ASSUME NEW a PROVE AddressRank(a) \in -1..10
<1>1. MailaddrPriority(a) \in 0..10
  BY PriorityBounds
<1> QED
  BY <1>1 DEF AddressRank

\* The listing before which there is none decides.
LEMMA ForemostHas ==
  ASSUME NEW dir, NEW pair \in About(dir, req), NEW v \in due[pair],
         \A other \in About(dir, req) :
           \/ MailaddrPriority(other[2]) < MailaddrPriority(pair[2])
           \/ /\ MailaddrPriority(other[2]) = MailaddrPriority(pair[2])
              /\ AddressRank(other[3]) <= AddressRank(pair[3])
  PROVE  v \in Foremost(dir, req)
<1>1. ASSUME NEW other \in About(dir, req)
      PROVE  100 * MailaddrPriority(pair[2])
               + (IF pair[3].form = "network" THEN 0 ELSE 1 + MailaddrPriority(pair[3])) >=
             100 * MailaddrPriority(other[2])
               + (IF other[3].form = "network" THEN 0 ELSE 1 + MailaddrPriority(other[3]))
  <2>1. /\ MailaddrPriority(pair[2]) \in 0..10 /\ MailaddrPriority(other[2]) \in 0..10
        /\ MailaddrPriority(pair[3]) \in 0..10 /\ MailaddrPriority(other[3]) \in 0..10
    BY PriorityBounds
  <2>2. \/ MailaddrPriority(other[2]) < MailaddrPriority(pair[2])
        \/ /\ MailaddrPriority(other[2]) = MailaddrPriority(pair[2])
           /\ AddressRank(other[3]) <= AddressRank(pair[3])
    OBVIOUS
  <2> QED
    BY <2>1, <2>2 DEF AddressRank
<1>2. About(dir, req) = {p \in Pairs : pair[1] = dir /\ p[1] = dir /\ Covers(p, req) /\ due[p] # {"none"}}
  BY DEF About
<1> QED
  BY <1>1 DEF Foremost, About

\* Without a listing there is no value.
LEMMA ForemostNone == ASSUME NEW dir, About(dir, req) = {} PROVE Foremost(dir, req) = {"none"}
BY DEF Foremost, About

\* Two nested loops over what was selected find the foremost listing, if each listing
\* about the request is met where its priorities put it and no other is met, but for hits
\* at the end of the outer loop that are mistaken.
LEMMA FirstIsForemost ==
  ASSUME NEW dir, NEW outer, NEW inner, NEW listings, NEW mistaken \in BOOLEAN,
         \A o \in outer : o.rank \in -1..10, \A i \in inner : i.rank \in -1..10,
         \A pair \in About(dir, req) : \E o \in outer, i \in inner, l \in listings :
           /\ o.id = l[1] /\ i.id = l[2]
           /\ o.rank = MailaddrPriority(pair[2]) /\ i.rank = AddressRank(pair[3]),
         \A o \in outer, i \in inner, l \in listings : o.id = l[1] /\ i.id = l[2] =>
           \/ o.rank = -1 /\ mistaken
           \/ \E pair \in About(dir, req) :
                /\ l[3] \in due[pair] /\ o.rank = MailaddrPriority(pair[2])
                /\ i.rank <= AddressRank(pair[3]),
         NEW wb \in (IF FirstHit(outer, inner, listings) = {} THEN {"none"}
                     ELSE FirstHit(outer, inner, listings))
  PROVE  wb \in Foremost(dir, req) \/ (mistaken /\ Foremost(dir, req) = {"none"})
<1>1. CASE FirstHit(outer, inner, listings) = {}
  <2>1. About(dir, req) = {}
    BY <1>1, HitSome
  <2> QED
    BY <1>1, <2>1, ForemostNone
<1>2. CASE FirstHit(outer, inner, listings) # {}
  <2>1. PICK o \in outer, i \in inner, l \in listings :
          /\ o.id = l[1] /\ i.id = l[2] /\ wb = l[3]
          /\ \A p \in outer, j \in inner, k \in listings : p.id = k[1] /\ j.id = k[2] =>
               ~(p.rank > o.rank) /\ ~(p.rank = o.rank /\ j.rank > i.rank)
    BY <1>2, HitFirst
  <2>2. ASSUME NEW other \in About(dir, req)
        PROVE  \/ MailaddrPriority(other[2]) < o.rank
               \/ MailaddrPriority(other[2]) = o.rank /\ AddressRank(other[3]) <= i.rank
    <3>1. PICK p \in outer, j \in inner, k \in listings :
            /\ p.id = k[1] /\ j.id = k[2]
            /\ p.rank = MailaddrPriority(other[2]) /\ j.rank = AddressRank(other[3])
      OBVIOUS
    <3>2. ~(p.rank > o.rank) /\ ~(p.rank = o.rank /\ j.rank > i.rank)
      BY <2>1, <3>1
    <3>3. /\ p.rank \in -1..10 /\ o.rank \in -1..10 /\ j.rank \in -1..10 /\ i.rank \in -1..10
      OBVIOUS
    <3> QED
      BY <3>1, <3>2, <3>3
  <2>3. CASE o.rank = -1 /\ mistaken
    <3>1. ASSUME NEW other \in About(dir, req) PROVE FALSE
      BY <2>2, <2>3, PriorityBounds
    <3> QED
      BY <2>3, <3>1, ForemostNone
  <2>4. CASE \E pair \in About(dir, req) :
               /\ l[3] \in due[pair] /\ o.rank = MailaddrPriority(pair[2])
               /\ i.rank <= AddressRank(pair[3])
    <3>1. PICK pair \in About(dir, req) :
               /\ l[3] \in due[pair] /\ o.rank = MailaddrPriority(pair[2])
               /\ i.rank <= AddressRank(pair[3])
      BY <2>4
    <3>2. ASSUME NEW other \in About(dir, req)
          PROVE  \/ MailaddrPriority(other[2]) < MailaddrPriority(pair[2])
                 \/ /\ MailaddrPriority(other[2]) = MailaddrPriority(pair[2])
                    /\ AddressRank(other[3]) <= AddressRank(pair[3])
      <4>1. AddressRank(other[3]) \in -1..10 /\ AddressRank(pair[3]) \in -1..10 /\ i.rank \in -1..10
        BY RankBounds
      <4> QED
        BY <2>2, <3>1, <4>1
    <3> QED
      BY <2>1, <3>1, <3>2, ForemostHas
  <2> QED
    BY <2>1, <2>3, <2>4
<1> QED
  BY <1>1, <1>2

\* The addresses a request is looked up by are no networks.
LEMMA ExternalForm ==
  ASSUME req.client.form = "ip", NEW dir, NEW a \in Externals(dir, req)
  PROVE  a.form # "network"
<1>1. ASSUME NEW mail, NEW b \in PolicyAddresses(mail) PROVE b.form # "network"
  BY <1>1 DEF PolicyAddresses, AddressType, Catchall, CatchallIP, AtDot, AtDomain
<1>2. ASSUME NEW mail, NEW b \in WithTarget(mail) PROVE b.form # "network"
  BY <1>1, <1>2 DEF WithTarget
<1>3. ASSUME NEW b \in Senders(req) PROVE b.form # "network"
  <2>1. \A c \in WildcardIPv4(req.client) : c.form = "ip"
    BY DEF WildcardIPv4, IP
  <2>2. \A user : Anywhere(user).form = "user@*"
    BY DEF Anywhere
  <2> QED
    BY <1>2, <1>3, <2>1, <2>2 DEF Senders
<1> QED
  BY <1>2, <1>3 DEF Externals, Recipients

\* A set of one value of which two are members.
LEMMA OneValue ==
  ASSUME NEW S \in SUBSET {"W", "B", "none"}, Cardinality(S) = 1
  PROVE  \E v : S = {v}
<1>1. IsFiniteSet({"W"})
  BY FS_Singleton
<1>2. IsFiniteSet({"W"} \cup {"B"})
  BY <1>1, FS_AddElement
<1>3. IsFiniteSet(({"W"} \cup {"B"}) \cup {"none"})
  BY <1>2, FS_AddElement
<1>4. S \subseteq ({"W"} \cup {"B"}) \cup {"none"}
  OBVIOUS
<1>5. IsFiniteSet(S)
  BY <1>3, <1>4, FS_Subset
<1> QED
  BY <1>5, FS_Singleton

\* A row that joins an account and an address is the listing's only value.
LEMMA RowValue ==
  ASSUME ListInv, Sure, NEW dir \in Directions, NEW r \in Table(dir), NEW u \in users, NEW m \in mailaddr,
         Joins(dir, r, u, m), Covers(<<dir, u.email, m.email>>, req)
  PROVE  <<dir, u.email, m.email>> \in About(dir, req) /\ due[<<dir, u.email, m.email>>] = {r.wb}
<1>1. PICK pair \in Pairs : pair = <<dir, u.email, m.email>>
  BY DEF ListInv, Lists
<1>2. pair[1] = dir /\ pair[2] = u.email /\ pair[3] = m.email
  BY <1>1
<1>3. r.wb \in InForce(pair) /\ r.wb \in {"W", "B"}
  BY <1>2, InForceIs DEF ListInv, Lists, ListRow
<1>4. r.wb \in due[pair] /\ due[pair] \in SUBSET {"W", "B", "none"} /\ Cardinality(due[pair]) = 1
  BY <1>1, <1>3 DEF ListInv, Values, Sure
<1>5. due[pair] = {r.wb}
  BY <1>4, OneValue
<1> QED
  BY <1>1, <1>2, <1>3, <1>5 DEF About

\* A listing has a row when no command runs.
LEMMA PairRow ==
  ASSUME ListInv, Sure, \A p \in Admin : ~Runs(p), NEW dir, NEW pair \in About(dir, req)
  PROVE  \E r \in Table(dir), u \in users, m \in mailaddr :
           Joins(dir, r, u, m) /\ u.email = pair[2] /\ m.email = pair[3]
<1>1. pair \in Pairs /\ pair[1] = dir /\ Covers(pair, req) /\ due[pair] # {"none"}
  BY DEF About
<1>2. due[pair] \in SUBSET {"W", "B", "none"} /\ Cardinality(due[pair]) = 1
  BY <1>1 DEF ListInv, Values, Sure
<1>3. "none" \notin due[pair]
  BY <1>1, <1>2, OneValue
<1>4. ~Writing(pair)
  BY DEF Writing, At, Runs
<1>5. PICK v : v \in InForce(pair)
  BY <1>1, <1>3, <1>4 DEF ListInv, Values
<1> QED
  BY <1>1, <1>5, InForceIs

-----------------------------------------------------------------------------
(* What an undisturbed request meets *)

\* A row that joins what was selected is the value of a listing about the request.
LEMMA MetAbout ==
  ASSUME ListInv, Asked, Selected, Complete, Sure, pc = "apply", direction \in Directions,
         NEW r \in Table(direction), NEW u \in local_ids, NEW m \in Held, Joins(direction, r, u, m),
         m \in ext_ids \/ direction = "inbound"
  PROVE  /\ <<direction, u.email, m.email>> \in About(direction, req)
         /\ due[<<direction, u.email, m.email>>] = {r.wb}
<1>1. m \in mailaddr
  BY DEF Complete, Referred, Joins
<1>2. u \in users /\ u.email \in Accounts(direction, req)
  BY DEF Selected, Asked
<1>3. m.email \in Externals(direction, req) \/ (direction = "inbound" /\ InNetwork(req.client, m.email))
  <2>1. CASE m \in ext_ids
    BY <2>1 DEF Asked
  <2>2. CASE m \in cidr_ids /\ direction = "inbound"
    <3>1. m.email = req.client \/ InNetwork(req.client, m.email)
      BY <2>2 DEF Asked
    <3>2. req.client \in Externals("inbound", req)
      BY DEF Externals, Senders
    <3> QED
      BY <2>2, <3>1, <3>2
  <2> QED
    BY <2>1, <2>2 DEF Held
<1>4. Covers(<<direction, u.email, m.email>>, req)
  BY <1>2, <1>3 DEF Covers
<1> QED
  BY <1>1, <1>2, <1>4, RowValue

\* A listing about the request is joined by what was selected.
LEMMA AboutMet ==
  ASSUME ListInv, Complete, Sure, pc = "apply", req.client.form = "ip",
         NEW pair \in About(direction, req)
  PROVE  \E r \in Table(direction), u \in local_ids, m \in mailaddr :
           /\ Joins(direction, r, u, m) /\ u.email = pair[2] /\ m.email = pair[3]
           /\ \/ m \in ext_ids /\ AddressRank(pair[3]) = MailaddrPriority(pair[3])
              \/ direction = "inbound" /\ m \in cidr_ids /\ AddressRank(pair[3]) = -1
<1>1. \A p \in Admin : ~Runs(p)
  BY DEF Complete
<1>2. PICK r \in Table(direction), u \in users, m \in mailaddr :
           Joins(direction, r, u, m) /\ u.email = pair[2] /\ m.email = pair[3]
  BY <1>1, PairRow
<1>3. pair[1] = direction /\ Covers(pair, req)
  BY DEF About
<1>4. u \in local_ids
  BY <1>2, <1>3 DEF Complete, Covers
<1>5. CASE pair[3] \in Externals(direction, req)
  <2>1. m \in ext_ids
    BY <1>2, <1>4, <1>5 DEF Complete
  <2>2. AddressRank(pair[3]) = MailaddrPriority(pair[3])
    BY <1>5, ExternalForm DEF AddressRank
  <2> QED
    BY <1>2, <1>4, <2>1, <2>2
<1>6. CASE direction = "inbound" /\ InNetwork(req.client, pair[3])
  <2>1. m \in cidr_ids
    BY <1>2, <1>4, <1>6 DEF Complete, OnClient
  <2>2. AddressRank(pair[3]) = -1
    BY <1>6 DEF AddressRank, InNetwork
  <2> QED
    BY <1>2, <1>4, <1>6, <2>1, <2>2
<1> QED
  BY <1>3, <1>5, <1>6 DEF Covers

\* The rows in the order of the loops.
LEMMA OrderedIs ==
  ASSUME NEW rows
  PROVE  /\ \A o \in Ordered(rows) : \E row \in rows : o.id = row.id /\ o.rank = MailaddrPriority(row.email)
         /\ \A row \in rows : \E o \in Ordered(rows) : o.id = row.id /\ o.rank = MailaddrPriority(row.email)
         /\ \A o \in Appended(rows) : o.rank = -1 /\ \E row \in rows : o.id = row.id
         /\ \A row \in rows : \E o \in Appended(rows) : o.id = row.id /\ o.rank = -1
         /\ \A o \in Ordered(rows) \cup Appended(rows) : o.rank \in -1..10
<1>1. \A o \in Ordered(rows) : \E row \in rows : o.id = row.id /\ o.rank = MailaddrPriority(row.email)
  BY DEF Ordered
<1>2. \A row \in rows : \E o \in Ordered(rows) : o.id = row.id /\ o.rank = MailaddrPriority(row.email)
  <2> SUFFICES ASSUME NEW row \in rows
               PROVE  \E o \in Ordered(rows) : o.id = row.id /\ o.rank = MailaddrPriority(row.email)
    OBVIOUS
  <2>1. PICK o : o = [id |-> row.id, rank |-> MailaddrPriority(row.email)]
    OBVIOUS
  <2>2. o \in Ordered(rows)
    BY <2>1 DEF Ordered
  <2> QED
    BY <2>1, <2>2
<1>3. \A o \in Appended(rows) : o.rank = -1 /\ \E row \in rows : o.id = row.id
  BY DEF Appended
<1>4. \A row \in rows : \E o \in Appended(rows) : o.id = row.id /\ o.rank = -1
  <2> SUFFICES ASSUME NEW row \in rows
               PROVE  \E o \in Appended(rows) : o.id = row.id /\ o.rank = -1
    OBVIOUS
  <2>1. PICK o : o = [id |-> row.id, rank |-> -1]
    OBVIOUS
  <2>2. o \in Appended(rows)
    BY <2>1 DEF Appended
  <2> QED
    BY <2>1, <2>2
<1>5. \A row \in rows : MailaddrPriority(row.email) \in -1..10
  <2>1. \A row \in rows : MailaddrPriority(row.email) \in 0..10
    BY PriorityBounds
  <2> QED
    BY <2>1
<1>6. -1 \in -1..10
  OBVIOUS
<1> QED
  BY <1>1, <1>2, <1>3, <1>4, <1>5, <1>6

\* The recipient's list gives the value of the foremost listing.
LEMMA InboundForemost ==
  ASSUME ListInv, Asked, Selected, Complete, Sure, pc = "apply", req.client.form = "ip", direction = "inbound",
         NEW wb \in (IF InboundValues = {} THEN {"none"} ELSE InboundValues)
  PROVE  wb \in Foremost("inbound", req)
<1> DEFINE outer    == Ordered(local_ids)
           inner    == Ordered(ext_ids) \cup Appended(cidr_ids)
           listings == ByRid(wblist)
<1>1. \A o \in outer : o.rank \in -1..10
  BY OrderedIs
<1>2. \A i \in inner : i.rank \in -1..10
  BY OrderedIs
<1>3. ASSUME NEW pair \in About("inbound", req)
      PROVE  \E o \in outer, i \in inner, l \in listings :
           /\ o.id = l[1] /\ i.id = l[2]
           /\ o.rank = MailaddrPriority(pair[2]) /\ i.rank = AddressRank(pair[3])
  <2>1. PICK r \in wblist, u \in local_ids, m \in mailaddr :
           /\ Joins("inbound", r, u, m) /\ u.email = pair[2] /\ m.email = pair[3]
           /\ \/ m \in ext_ids /\ AddressRank(pair[3]) = MailaddrPriority(pair[3])
              \/ m \in cidr_ids /\ AddressRank(pair[3]) = -1
    BY <1>3, AboutMet DEF Table
  <2>2. PICK o \in outer : o.id = u.id /\ o.rank = MailaddrPriority(u.email)
    <3>1. PICK o \in Ordered(local_ids) : o.id = u.id /\ o.rank = MailaddrPriority(u.email)
      BY OrderedIs
    <3> QED
      BY <3>1
  <2>3. PICK i \in inner : i.id = m.id /\ i.rank = AddressRank(pair[3])
    <3>1. CASE m \in ext_ids /\ AddressRank(pair[3]) = MailaddrPriority(pair[3])
      <4>1. PICK i \in Ordered(ext_ids) : i.id = m.id /\ i.rank = MailaddrPriority(m.email)
        BY <3>1, OrderedIs
      <4> QED
        BY <2>1, <3>1, <4>1
    <3>2. CASE m \in cidr_ids /\ AddressRank(pair[3]) = -1
      <4>1. PICK i \in Appended(cidr_ids) : i.id = m.id /\ i.rank = -1
        BY <3>2, OrderedIs
      <4> QED
        BY <3>2, <4>1
    <3> QED
      BY <2>1, <3>1, <3>2
  <2>4. PICK l \in listings : l = <<r.rid, r.sid, r.wb>>
    BY <2>1 DEF ByRid
  <2>5. o.id = l[1] /\ i.id = l[2]
    BY <2>1, <2>2, <2>3, <2>4 DEF Joins, AccountId, AddressId
  <2> QED
    BY <2>1, <2>2, <2>3, <2>5
<1>4. ASSUME NEW o \in outer, NEW i \in inner, NEW l \in listings, o.id = l[1], i.id = l[2]
      PROVE  \E pair \in About("inbound", req) :
                /\ l[3] \in due[pair] /\ o.rank = MailaddrPriority(pair[2])
                /\ i.rank <= AddressRank(pair[3])
  <2>1. PICK r \in wblist : l = <<r.rid, r.sid, r.wb>>
    BY DEF ByRid
  <2>2. PICK u \in local_ids : o.id = u.id /\ o.rank = MailaddrPriority(u.email)
    BY OrderedIs
  <2>3. PICK m \in Held : i.id = m.id /\ (i.rank = -1 \/ (m \in ext_ids /\ i.rank = MailaddrPriority(m.email)))
    BY OrderedIs DEF Held
  <2>4. Joins("inbound", r, u, m)
    BY <1>4, <2>1, <2>2, <2>3 DEF Joins, AccountId, AddressId
  <2>5. r \in Table("inbound") /\ "inbound" \in Directions
    BY DEF Table, Directions
  <2>6. PICK pair \in About("inbound", req) : pair = <<"inbound", u.email, m.email>> /\ due[pair] = {r.wb}
    <3>1. direction \in Directions /\ r \in Table(direction) /\ Joins(direction, r, u, m)
      BY <2>4, <2>5
    <3>2. /\ <<direction, u.email, m.email>> \in About(direction, req)
          /\ due[<<direction, u.email, m.email>>] = {r.wb}
      BY <3>1, MetAbout
    <3> QED
      BY <3>2
  <2>7. i.rank <= AddressRank(m.email)
    <3>1. CASE i.rank = -1
      BY <3>1, RankBounds
    <3>2. CASE m \in ext_ids /\ i.rank = MailaddrPriority(m.email)
      <4>1. m.email.form # "network"
        BY <3>2, ExternalForm DEF Asked
      <4>2. MailaddrPriority(m.email) \in 0..10
        BY PriorityBounds
      <4> QED
        BY <3>2, <4>1, <4>2 DEF AddressRank
    <3> QED
      BY <2>3, <3>1, <3>2
  <2>8. l[3] \in due[pair] /\ pair[2] = u.email /\ pair[3] = m.email
    BY <2>1, <2>6
  <2> QED
    BY <2>2, <2>6, <2>7, <2>8
<1>5. wb \in (IF FirstHit(outer, inner, listings) = {} THEN {"none"} ELSE FirstHit(outer, inner, listings))
  BY DEF InboundValues
<1> HIDE DEF outer, inner, listings
<1>6. PICK mistaken \in BOOLEAN : mistaken = FALSE
  OBVIOUS
<1>7. \A o \in outer, i \in inner, l \in listings : o.id = l[1] /\ i.id = l[2] =>
        \/ o.rank = -1 /\ mistaken
        \/ \E pair \in About("inbound", req) :
             /\ l[3] \in due[pair] /\ o.rank = MailaddrPriority(pair[2])
             /\ i.rank <= AddressRank(pair[3])
  BY <1>4
<1>a. PICK dir : dir = "inbound"
  OBVIOUS
<1>b. \A pair \in About(dir, req) : \E o \in outer, i \in inner, l \in listings :
        /\ o.id = l[1] /\ i.id = l[2]
        /\ o.rank = MailaddrPriority(pair[2]) /\ i.rank = AddressRank(pair[3])
  BY <1>3, <1>a
<1>c. \A o \in outer, i \in inner, l \in listings : o.id = l[1] /\ i.id = l[2] =>
        \/ o.rank = -1 /\ mistaken
        \/ \E pair \in About(dir, req) :
             /\ l[3] \in due[pair] /\ o.rank = MailaddrPriority(pair[2])
             /\ i.rank <= AddressRank(pair[3])
  BY <1>7, <1>a
<1>8. wb \in Foremost(dir, req) \/ (mistaken /\ Foremost(dir, req) = {"none"})
  BY <1>1, <1>2, <1>5, <1>b, <1>c, FirstIsForemost
<1> QED
  BY <1>6, <1>8, <1>a

\* The sender's list does, but for the networks taken for senders.
LEMMA OutboundForemost ==
  ASSUME ListInv, Asked, Selected, Complete, Sure, pc = "apply", req.client.form = "ip", direction = "outbound",
         NEW outer, outer = Ordered(local_ids) \cup Appended(cidr_ids),
         NEW wb \in (IF FirstHit(outer, Ordered(ext_ids), BySid(outbound_wblist)) = {} THEN {"none"}
                     ELSE FirstHit(outer, Ordered(ext_ids), BySid(outbound_wblist)))
  PROVE  wb \in Foremost("outbound", req) \/ (TakenForSender /\ Foremost("outbound", req) = {"none"})
<1> DEFINE inner    == Ordered(ext_ids)
           listings == BySid(outbound_wblist)
<1>1. \A o \in outer : o.rank \in -1..10
  BY OrderedIs
<1>2. \A i \in inner : i.rank \in -1..10
  BY OrderedIs
<1>3. ASSUME NEW pair \in About("outbound", req)
      PROVE  \E o \in outer, i \in inner, l \in listings :
           /\ o.id = l[1] /\ i.id = l[2]
           /\ o.rank = MailaddrPriority(pair[2]) /\ i.rank = AddressRank(pair[3])
  <2>1. PICK r \in outbound_wblist, u \in local_ids, m \in mailaddr :
           /\ Joins("outbound", r, u, m) /\ u.email = pair[2] /\ m.email = pair[3]
           /\ m \in ext_ids /\ AddressRank(pair[3]) = MailaddrPriority(pair[3])
    BY <1>3, AboutMet DEF Table
  <2>2. PICK o \in outer : o.id = u.id /\ o.rank = MailaddrPriority(u.email)
    <3>1. PICK o \in Ordered(local_ids) : o.id = u.id /\ o.rank = MailaddrPriority(u.email)
      BY OrderedIs
    <3> QED
      BY <3>1
  <2>3. PICK i \in inner : i.id = m.id /\ i.rank = AddressRank(pair[3])
    BY <2>1, OrderedIs
  <2>4. PICK l \in listings : l = <<r.sid, r.rid, r.wb>>
    BY <2>1 DEF BySid
  <2>5. o.id = l[1] /\ i.id = l[2]
    BY <2>1, <2>2, <2>3, <2>4 DEF Joins, AccountId, AddressId
  <2> QED
    BY <2>1, <2>2, <2>3, <2>5
<1>6. PICK mistaken \in BOOLEAN : mistaken <=> TakenForSender
  OBVIOUS
<1>4. ASSUME NEW o \in outer, NEW i \in inner, NEW l \in listings, o.id = l[1], i.id = l[2]
      PROVE  \/ o.rank = -1 /\ mistaken
             \/ \E pair \in About("outbound", req) :
                  /\ l[3] \in due[pair] /\ o.rank = MailaddrPriority(pair[2])
                  /\ i.rank <= AddressRank(pair[3])
  <2>1. PICK r \in outbound_wblist : l = <<r.sid, r.rid, r.wb>>
    BY DEF BySid
  <2>2. PICK m \in ext_ids : i.id = m.id /\ i.rank = MailaddrPriority(m.email)
    BY OrderedIs
  <2>3. CASE o \in Appended(cidr_ids)
    <3>1. PICK n \in cidr_ids : o.id = n.id
      BY <2>3, OrderedIs
    <3>2. n.id = r.sid /\ m.id = r.rid
      BY <1>4, <2>1, <2>2, <3>1
    <3>3. TakenForSender
      BY <2>2, <3>1, <3>2 DEF TakenForSender
    <3> QED
      BY <1>6, <2>3, <3>3, OrderedIs
  <2>4. CASE o \in Ordered(local_ids)
    <3>1. PICK u \in local_ids : o.id = u.id /\ o.rank = MailaddrPriority(u.email)
      BY <2>4, OrderedIs
    <3>2. Joins("outbound", r, u, m) /\ m \in Held
      BY <1>4, <2>1, <2>2, <3>1 DEF Joins, AccountId, AddressId, Held
    <3>3. r \in Table("outbound") /\ "outbound" \in Directions
      BY DEF Table, Directions
    <3>4. PICK pair \in About("outbound", req) : pair = <<"outbound", u.email, m.email>> /\ due[pair] = {r.wb}
      <4>1. direction \in Directions /\ r \in Table(direction) /\ Joins(direction, r, u, m)
        BY <3>2, <3>3
      <4>2. /\ <<direction, u.email, m.email>> \in About(direction, req)
            /\ due[<<direction, u.email, m.email>>] = {r.wb}
        BY <2>2, <3>2, <4>1, MetAbout
      <4> QED
        BY <4>2
    <3>5. m.email.form # "network"
      BY ExternalForm DEF Asked
    <3>6. MailaddrPriority(m.email) \in 0..10
      BY PriorityBounds
    <3>7. i.rank <= AddressRank(m.email)
      BY <2>2, <3>5, <3>6 DEF AddressRank
    <3>8. l[3] \in due[pair] /\ pair[2] = u.email /\ pair[3] = m.email
      BY <2>1, <3>4
    <3> QED
      BY <3>1, <3>4, <3>7, <3>8
  <2> QED
    BY <2>3, <2>4
<1> HIDE DEF inner, listings
<1>7. wb \in Foremost("outbound", req) \/ (mistaken /\ Foremost("outbound", req) = {"none"})
  BY <1>1, <1>2, <1>3, <1>4, FirstIsForemost DEF inner, listings
<1> QED
  BY <1>6, <1>7

-----------------------------------------------------------------------------
(* A request that nothing disturbs stays complete *)

\* What the answer depends on.
LEMMA ForemostKept ==
  ASSUME UNCHANGED <<due, req>>, NEW dir
  PROVE  Foremost(dir, req)' = Foremost(dir, req) /\ Sure' = Sure
BY DEF Foremost, Sure, Covers, Accounts, Externals, Senders, Recipients

\* A command's SELECT of the addresses.
LEMMA SelectIdsLeaves ==
  ASSUME NEW p \in Admin, SelectIds(p)
  PROVE  UNCHANGED <<quiet, pc, req, cidr_checked, failures>> /\ Runs(p)
<1>1. At(p, "ids") /\ UNCHANGED <<users, mailaddr, last_id, lists, failures, due, possible>> /\ CommandElsewhere
  BY Zenon DEF SelectIds
<1> QED
  BY <1>1 DEF CommandElsewhere, daemonVars, At, Runs

\* A step after which the request is undisturbed finds it so and is one of the daemon's,
\* a pruning or none.
LEMMA UndisturbedNext ==
  ASSUME Undisturbed, [Next]_vars
  PROVE  /\ req' \in Requests /\ failures' \in Nat /\ (pc' = "idle" => ~cidr_checked')
         /\ failures' = 0 => failures = 0
         /\ quiet' /\ pc # "idle" => quiet
         /\ quiet' /\ pc # "idle" /\ failures = 0 =>
              CleanupMailaddr \/ (Daemon /\ ~Receive) \/ UNCHANGED vars
<1>1. failures \in Nat /\ req \in Requests
  BY DEF Undisturbed
<1>2. CASE \E p \in Admin : Command(p)
  <2>1. PICK p \in Admin : Command(p)
    BY <1>2
  <2>2. CASE Give(p)
    BY <1>1, <2>2 DEF Give, daemonVars, Undisturbed
  <2>3. CASE GetUser(p) \/ CreateUser(p) \/ CreateMailaddr(p) \/ SelectIds(p) \/ DeleteRows(p) \/ InsertRow(p)
              \/ Report(p) \/ StatementFails(p)
    <3> DEFINE kept == UNCHANGED <<quiet, pc, req, cidr_checked>> /\ failures' \in {failures, failures + 1} /\ Runs(p)
    <3>2. GetUser(p) => kept
      BY DEF GetUser, CommandElsewhere, daemonVars, At, Runs
    <3>3. CreateUser(p) => kept
      BY DEF CreateUser, CommandElsewhere, daemonVars, At, Runs
    <3>4. CreateMailaddr(p) => kept
      BY DEF CreateMailaddr, CommandElsewhere, daemonVars, At, Runs
    <3>5. SelectIds(p) => kept
      BY SelectIdsLeaves
    <3>6. DeleteRows(p) => kept
      BY DEF DeleteRows, CommandElsewhere, daemonVars, At, Runs
    <3>7. InsertRow(p) => kept
      BY DEF InsertRow, CommandElsewhere, daemonVars, At, Runs
    <3>8. Report(p) => kept
      BY DEF Report, CommandElsewhere, daemonVars, At, Runs
    <3>9. StatementFails(p) => kept
      BY DEF StatementFails, CommandElsewhere, daemonVars, At, Runs
    <3>1. kept
      <4> HIDE DEF kept
      <4> QED
        BY <2>3, <3>2, <3>3, <3>4, <3>5, <3>6, <3>7, <3>8, <3>9
    <3>10. ~(quiet /\ pc # "idle" /\ failures = 0)
      BY <3>1 DEF Undisturbed, Complete
    <3> QED
      BY <1>1, <3>1, <3>10 DEF Undisturbed
  <2> QED
    BY <2>1, <2>2, <2>3 DEF Command
<1>3. CASE CleanupMailaddr
  BY <1>1, <1>3 DEF CleanupMailaddr, daemonVars, Undisturbed
<1>4. CASE Daemon
  <2>1. CASE Receive
    BY <1>1, <2>1 DEF Receive, Undisturbed
  <2>2. CASE SelectLocal \/ SelectExternal \/ SelectCidr
    <3>1. /\ pc # "idle" /\ pc' # "idle" /\ UNCHANGED <<req, quiet>> /\ failures' \in {failures, failures + 1}
      BY <2>2 DEF SelectLocal, SelectExternal, SelectCidr, ReadElsewhere, Counted
    <3>2. ~Receive
      BY <3>1 DEF Receive
    <3>3. failures' \in Nat /\ (failures' = 0 => failures = 0)
      BY <1>1, <3>1
    <3> QED
      BY <1>1, <1>4, <3>1, <3>2, <3>3
  <2>3. CASE Apply \/ ApplyFails
    <3>1. /\ pc = "apply" /\ UNCHANGED <<req, quiet>> /\ failures' \in {failures, failures + 1}
          /\ pc' = "local" \/ (pc' = "idle" /\ cidr_checked' = FALSE)
      BY <2>3 DEF Apply, ApplyFails, Return
    <3> QED
      BY <1>1, <1>4, <3>1 DEF Receive
  <2> QED
    BY <1>4, <2>1, <2>2, <2>3 DEF Daemon
<1>5. CASE UNCHANGED vars
  BY <1>1, <1>5 DEF vars, daemonVars, Undisturbed
<1> QED
  BY <1>2, <1>3, <1>4, <1>5 DEF Next

\* The first SELECT comes with no command running.
LEMMA CompleteReceive ==
  ASSUME ListInv, Asked, Undisturbed, Receive, quiet', pc' # "idle" PROVE Complete'
<1>1. /\ pc = "idle" /\ pc' = "local" /\ req' \in Requests /\ UNCHANGED <<local_ids, ext_ids, cidr_ids, cidr_checked, proc>>
      /\ direction' = (IF req'.sasl THEN "outbound" ELSE "inbound") /\ quiet' = \A p \in Admin : ~Runs(p)
  BY DEF Receive, DaemonElsewhere
<1>2. ext_ids' = {} /\ cidr_ids' = {} /\ ~cidr_checked'
  BY <1>1 DEF Asked, Held, Undisturbed
<1>3. Held' = {}
  BY <1>2 DEF Held
<1>4. \A p \in Admin : ~Runs(p)'
  BY <1>1 DEF Runs
<1> QED
  BY <1>1, <1>2, <1>3, <1>4 DEF Complete

\* The job prunes no address that is on a list.
LEMMA CompleteCleanup ==
  ASSUME ListInv, Complete, CleanupMailaddr PROVE Complete'
<1>1. /\ UNCHANGED <<users, last_id, wblist, outbound_wblist, daemonVars>>
      /\ UNCHANGED <<pc, req, direction, local_ids, ext_ids, cidr_ids, cidr_checked>>
      /\ \A p \in Admin : ~Runs(p)
      /\ \A p \in Admin : proc'[p] = proc[p]
      /\ due' = [pair \in Pairs |-> due[pair]] /\ due = [pair \in Pairs |-> due[pair]]
  <2>1. \A p \in Admin : ~Runs(p)
    BY DEF Complete
  <2> QED
    BY <2>1 DEF CleanupMailaddr, daemonVars, lists, ListInv, Values
<1>2. UNCHANGED due
  BY <1>1
<1>3. \A p \in Admin : ~Runs(p)'
  BY <1>1 DEF Runs
<1>4. PICK used, gone :
        /\ used = {row.sid : row \in wblist} \cup {row.rid : row \in outbound_wblist}
        /\ gone = {m.email : m \in {m \in mailaddr : m.id \notin used}}
        /\ mailaddr' = {m \in mailaddr : m.email \notin gone}
  BY DEF CleanupMailaddr
<1>5. ASSUME NEW m \in mailaddr, Referred(m) PROVE m \in mailaddr'
  <2>1. m.id \in used
    BY <1>4, <1>5 DEF Referred, Directions, Table, AddressId
  <2>2. \A n \in mailaddr : n.email = m.email => n = m
    BY DEF ListInv, Tables
  <2> QED
    BY <1>4, <2>1, <2>2
<1>6. mailaddr' \subseteq mailaddr
  BY <1>4
<1>7. \A m : Referred(m)' <=> Referred(m)
  BY <1>1 DEF Referred, Table, AddressId
<1>8. Held' = Held
  BY <1>1 DEF Held
<1>9. Foremost("outbound", req)' = Foremost("outbound", req) /\ Sure' = Sure
  BY <1>1, <1>2, ForemostKept
<1>10. \A m \in Held' : Referred(m)' => m \in mailaddr'
  BY <1>5, <1>7, <1>8 DEF Complete
<1>11. Accounts(direction, req)' = Accounts(direction, req) /\ Externals(direction, req)' = Externals(direction, req)
  BY <1>1 DEF Accounts, Externals, Senders, Recipients
<1>12. \A m : OnClient(m)' <=> OnClient(m)
  BY <1>1 DEF OnClient
<1>13. CheckInbound(req)' = CheckInbound(req)
  BY <1>1 DEF CheckInbound
<1> QED
  BY <1>1, <1>3, <1>6, <1>9, <1>10, <1>11, <1>12, <1>13 DEF Complete

\* What Complete says but for what the statement has read.
LEMMA CompleteFrame ==
  ASSUME Complete, UNCHANGED <<users, mailaddr, wblist, outbound_wblist, proc, due, req, direction>>
  PROVE  /\ \A p \in Admin : ~Runs(p)'
         /\ \A m : (Referred(m)' <=> Referred(m)) /\ (OnClient(m)' <=> OnClient(m))
         /\ Accounts(direction, req)' = Accounts(direction, req)
         /\ Externals(direction, req)' = Externals(direction, req)
         /\ ~req'.sasl => direction' = "inbound"
         /\ req'.sasl /\ direction' = "inbound" =>
              /\ CheckInbound(req)'
              /\ Sure' => \E v \in Foremost("outbound", req)' : v # "B" \/ BypassOutgoing'
<1>1. \A p \in Admin : ~Runs(p)'
  BY DEF Complete, Runs
<1>2. \A m : (Referred(m)' <=> Referred(m)) /\ (OnClient(m)' <=> OnClient(m))
  BY DEF Referred, OnClient, Table, AddressId
<1>3. /\ Accounts(direction, req)' = Accounts(direction, req)
      /\ Externals(direction, req)' = Externals(direction, req)
  BY DEF Accounts, Externals, Senders, Recipients
<1>4. Foremost("outbound", req)' = Foremost("outbound", req) /\ Sure' = Sure
  BY ForemostKept
<1>5. CheckInbound(req)' <=> CheckInbound(req)
  BY DEF CheckInbound
<1> QED
  BY <1>1, <1>2, <1>3, <1>4, <1>5 DEF Complete

\* Each SELECT that does not fail reads all it asks for.
LEMMA CompleteRead ==
  ASSUME ListInv, Complete, failures = 0, failures' = 0, SelectLocal \/ SelectExternal \/ SelectCidr
  PROVE  Complete'
<1>0. UNCHANGED <<users, mailaddr, wblist, outbound_wblist, proc, due, req, direction>>
  BY DEF SelectLocal, SelectExternal, SelectCidr, ReadElsewhere, DaemonElsewhere, lists
<1>1. \A ok \in Outcome : Counted(ok) => ok
  BY DEF Outcome, Counted
<1>2. /\ \A p \in Admin : ~Runs(p)'
      /\ ~req'.sasl => direction' = "inbound"
      /\ req'.sasl /\ direction' = "inbound" =>
           /\ CheckInbound(req)'
           /\ Sure' => \E v \in Foremost("outbound", req)' : v # "B" \/ BypassOutgoing'
  BY <1>0, CompleteFrame
<1>3. /\ \A m : (Referred(m)' <=> Referred(m)) /\ (OnClient(m)' <=> OnClient(m))
      /\ Accounts(direction, req)' = Accounts(direction, req)
      /\ Externals(direction, req)' = Externals(direction, req)
  BY <1>0, CompleteFrame
<1>4. \A m \in Held : Referred(m) => m \in mailaddr
  BY DEF Complete
<1>5. CASE SelectLocal
  <2>1. /\ pc = "local" /\ ext_ids' = {} /\ pc' = (IF local_ids' = {} THEN "apply" ELSE "external")
        /\ UNCHANGED <<cidr_ids, cidr_checked>>
        /\ local_ids' = {u \in users : u.email \in Accounts(direction, req)}
    BY <1>1, <1>5 DEF SelectLocal
  <2>2. \A u \in users' : u.email \in Accounts(direction, req)' => u \in local_ids'
    BY <1>0, <1>3, <2>1
  <2>3. \A m \in Held' : Referred(m)' => m \in mailaddr'
    BY <1>0, <1>3, <1>4, <2>1 DEF Held
  <2>4. cidr_checked' => \A m \in mailaddr' : OnClient(m)' => m \in cidr_ids'
    BY <1>0, <1>3, <2>1 DEF Complete
  <2>5. pc' # "cidr" /\ (pc' = "apply" => local_ids' = {})
    BY <2>1
  <2> QED
    BY <1>2, <2>2, <2>3, <2>4, <2>5 DEF Complete
<1>6. CASE SelectExternal
  <2>1. /\ pc = "external" /\ pc' = (IF cidr_checked THEN "apply" ELSE "cidr")
        /\ UNCHANGED <<local_ids, cidr_ids, cidr_checked>>
        /\ ext_ids' = {m \in mailaddr : m.email \in Externals(direction, req)}
    BY <1>1, <1>6 DEF SelectExternal
  <2>2. \A u \in users' : u.email \in Accounts(direction, req)' => u \in local_ids'
    BY <1>0, <1>3, <2>1 DEF Complete
  <2>3. \A m \in Held' : Referred(m)' => m \in mailaddr'
    BY <1>0, <1>3, <1>4, <2>1 DEF Held
  <2>4. cidr_checked' => \A m \in mailaddr' : OnClient(m)' => m \in cidr_ids'
    BY <1>0, <1>3, <2>1 DEF Complete
  <2>5. \A m \in mailaddr' : m.email \in Externals(direction, req)' => m \in ext_ids'
    BY <1>0, <1>3, <2>1
  <2>6. pc' = "apply" => cidr_checked'
    BY <2>1
  <2> QED
    BY <1>2, <2>2, <2>3, <2>4, <2>5, <2>6 DEF Complete
<1>7. CASE SelectCidr
  <2>1. /\ pc = "cidr" /\ pc' = "apply" /\ cidr_checked' = TRUE
        /\ UNCHANGED <<local_ids, ext_ids>>
        /\ cidr_ids' = {m \in mailaddr : m.email = req.client \/ InNetwork(req.client, m.email)}
    BY <1>1, <1>7 DEF SelectCidr
  <2>2. \A u \in users' : u.email \in Accounts(direction, req)' => u \in local_ids'
    BY <1>0, <1>3, <2>1 DEF Complete
  <2>3. \A m \in Held' : Referred(m)' => m \in mailaddr'
    BY <1>0, <1>3, <1>4, <2>1 DEF Held
  <2>4. \A m \in mailaddr' : OnClient(m)' => m \in cidr_ids'
    BY <1>0, <1>3, <2>1 DEF OnClient
  <2>5. \A m \in mailaddr' : m.email \in Externals(direction, req)' => m \in ext_ids'
    BY <1>0, <1>3, <2>1 DEF Complete
  <2> QED
    BY <1>2, <2>1, <2>2, <2>3, <2>4, <2>5 DEF Complete
<1> QED
  BY <1>5, <1>6, <1>7

\* The sender's own list has a value that lets the recipient's be asked.
LEMMA PassedOutbound ==
  ASSUME ListInv, Asked, Selected, Complete, Sure, req.client.form = "ip",
         pc = "apply", direction = "outbound",
         NEW wb \in (IF OutboundValues = {} THEN {"none"} ELSE OutboundValues)
  PROVE  /\ wb # "B" => \E v \in Foremost("outbound", req) : v # "B" \/ BypassOutgoing
         /\ ~BypassOutgoing /\ ~TakenForSender => wb \in Foremost("outbound", req)
         /\ Foremost("outbound", req) # {}
<1>1. PICK outer : outer = Ordered(local_ids) \cup Appended(cidr_ids)
  OBVIOUS
<1>2. PICK hits : hits = FirstHit(outer, Ordered(ext_ids), BySid(outbound_wblist))
  OBVIOUS
<1>3. \A v \in (IF hits = {} THEN {"none"} ELSE hits) :
        v \in Foremost("outbound", req) \/ (TakenForSender /\ Foremost("outbound", req) = {"none"})
  BY <1>1, <1>2, OutboundForemost
<1>4. PICK v : v \in (IF hits = {} THEN {"none"} ELSE hits)
  BY Zenon
<1>5. Foremost("outbound", req) # {}
  BY <1>3, <1>4
<1>6. ~BypassOutgoing => OutboundValues = hits
  BY <1>1, <1>2 DEF OutboundValues
<1> QED
  BY <1>3, <1>5, <1>6

\* The recipient's list is asked after the sender's let the message through.
LEMMA CompleteApply ==
  ASSUME ListInv, Asked, Selected, Complete, Apply, pc' # "idle", req.client.form = "ip", direction \in Directions
  PROVE  Complete'
<1>1. /\ pc = "apply" /\ pc' = "local" /\ direction = "outbound" /\ direction' = "inbound" /\ CheckInbound(req)
      /\ UNCHANGED <<req, local_ids, ext_ids, cidr_ids, cidr_checked>>
      /\ \E wb \in (IF OutboundValues = {} THEN {"none"} ELSE OutboundValues) : wb # "B"
  BY DEF Apply, Return, Directions
<1>2. UNCHANGED <<users, mailaddr, wblist, outbound_wblist, proc, due>>
  BY DEF Apply, DaemonElsewhere, lists
<1>3. PICK wb \in (IF OutboundValues = {} THEN {"none"} ELSE OutboundValues) : wb # "B"
  BY <1>1
<1>4. Sure => \E v \in Foremost("outbound", req) : v # "B" \/ BypassOutgoing
  BY <1>1, <1>3, PassedOutbound
<1>5. Foremost("outbound", req)' = Foremost("outbound", req) /\ Sure' = Sure
  BY <1>1, <1>2, ForemostKept
<1>6. \A p \in Admin : ~Runs(p)'
  BY <1>2 DEF Complete, Runs
<1>7. \A m : (Referred(m)' <=> Referred(m)) /\ (OnClient(m)' <=> OnClient(m))
  BY <1>1, <1>2 DEF Referred, OnClient, Table, AddressId
<1>8. CheckInbound(req)'
  BY <1>1 DEF CheckInbound
<1>9. \A m \in Held' : Referred(m)' => m \in mailaddr'
  BY <1>1, <1>2, <1>7 DEF Held, Complete
<1>10. cidr_checked' => \A m \in mailaddr' : OnClient(m)' => m \in cidr_ids'
  BY <1>1, <1>2, <1>7 DEF Complete
<1> QED
  BY <1>1, <1>4, <1>5, <1>6, <1>8, <1>9, <1>10 DEF Complete

\* Every step keeps it.
LEMMA UndisturbedStep ==
  ASSUME WblistAssumption, ListInv, Daemons, Asked, Selected, Undisturbed, [Next]_vars
  PROVE  Undisturbed'
<1>1. req' \in Requests /\ failures' \in Nat /\ (pc' = "idle" => ~cidr_checked')
  BY UndisturbedNext
<1>2. ASSUME pc' # "idle", quiet', failures' = 0 PROVE Complete'
  <2>1. CASE pc = "idle"
    <3>1. Receive \/ UNCHANGED pc
      <4>1. CASE \E p \in Admin : Command(p)
        <5>1. PICK p \in Admin : Command(p)
          BY <4>1
        <5>2. UNCHANGED daemonVars
          BY <5>1, Zenon DEF Command, Give, GetUser, CreateUser, CreateMailaddr, SelectIds, DeleteRows, InsertRow,
             Report, StatementFails, CommandElsewhere
        <5> QED
          BY <5>2 DEF daemonVars
      <4>2. CASE CleanupMailaddr \/ UNCHANGED vars
        BY <4>2 DEF CleanupMailaddr, vars, daemonVars
      <4>3. CASE Daemon
        BY <2>1, <4>3 DEF Daemon, SelectLocal, SelectExternal, SelectCidr, Apply, ApplyFails
      <4> QED
        BY <4>1, <4>2, <4>3 DEF Next
    <3> QED
      BY <1>2, <2>1, <3>1, CompleteReceive
  <2>2. CASE pc # "idle"
    <3>1. /\ quiet /\ failures = 0
          /\ CleanupMailaddr \/ (Daemon /\ ~Receive) \/ UNCHANGED vars
      BY <1>2, <2>2, UndisturbedNext
    <3>2. Complete
      BY <2>2, <3>1 DEF Undisturbed
    <3>3. req.client.form = "ip" /\ direction \in Directions
      BY DEF Undisturbed, WblistAssumption, Daemons
    <3>4. CASE CleanupMailaddr
      BY <3>2, <3>4, CompleteCleanup
    <3>5. CASE SelectLocal \/ SelectExternal \/ SelectCidr
      BY <1>2, <3>1, <3>2, <3>5, CompleteRead
    <3>6. CASE Apply
      BY <1>2, <3>2, <3>3, <3>6, CompleteApply
    <3>7. ~ApplyFails
      BY <1>2, <3>1 DEF ApplyFails
    <3>8. CASE UNCHANGED vars
      <4>1. UNCHANGED <<users, mailaddr, wblist, outbound_wblist, proc, due, req, direction, pc, local_ids, ext_ids,
                        cidr_ids, cidr_checked>>
        BY <3>8 DEF vars, daemonVars, lists
      <4>2. /\ \A p \in Admin : ~Runs(p)'
            /\ ~req'.sasl => direction' = "inbound"
            /\ req'.sasl /\ direction' = "inbound" =>
                 /\ CheckInbound(req)'
                 /\ Sure' => \E v \in Foremost("outbound", req)' : v # "B" \/ BypassOutgoing'
        BY <3>2, <4>1, CompleteFrame
      <4>3. /\ \A m : (Referred(m)' <=> Referred(m)) /\ (OnClient(m)' <=> OnClient(m))
            /\ Accounts(direction, req)' = Accounts(direction, req)
            /\ Externals(direction, req)' = Externals(direction, req)
        BY <3>2, <4>1, CompleteFrame
      <4>4. Held' = Held
        BY <4>1 DEF Held
      <4>5. pc' \in {"external", "cidr", "apply"} =>
              \A u \in users' : u.email \in Accounts(direction, req)' => u \in local_ids'
        BY <3>2, <4>1, <4>3 DEF Complete
      <4>6. pc' = "cidr" \/ (pc' = "apply" /\ local_ids' # {}) =>
              \A m \in mailaddr' : m.email \in Externals(direction, req)' => m \in ext_ids'
        BY <3>2, <4>1, <4>3 DEF Complete
      <4>7. /\ pc' = "apply" /\ local_ids' # {} => cidr_checked'
            /\ cidr_checked' => \A m \in mailaddr' : OnClient(m)' => m \in cidr_ids'
            /\ \A m \in Held' : Referred(m)' => m \in mailaddr'
        BY <3>2, <4>1, <4>3, <4>4 DEF Complete
      <4> QED
        BY <4>2, <4>5, <4>6, <4>7 DEF Complete
    <3> QED
      BY <3>1, <3>4, <3>5, <3>6, <3>7, <3>8 DEF Daemon
  <2> QED
    BY <2>1, <2>2
<1> QED
  BY <1>1, <1>2 DEF Undisturbed

\* It holds at the start.
LEMMA UndisturbedInit == ASSUME WblistAssumption, Init PROVE Undisturbed
BY DEF Init, Undisturbed

-----------------------------------------------------------------------------
(* The verdict *)

\* The answer to an undisturbed request.
LEMMA PriorityStep ==
  ASSUME WblistAssumption, ListInv, Daemons, Asked, Selected, Undisturbed, [Next]_vars,
         Answers, ~TakenForSender, quiet, failures' = 0, Sure
  PROVE  verdict' \in ExpectedVerdict(req)
<1>1. pc # "idle" /\ pc' = "idle"
  BY DEF Answers
<1>2. failures = 0
  BY UndisturbedNext
<1>3. Complete
  BY <1>1, <1>2 DEF Undisturbed
<1>4. req.client.form = "ip" /\ direction \in Directions
  BY DEF Undisturbed, WblistAssumption, Daemons
<1>5. Apply
  <2>1. CASE \E p \in Admin : Command(p)
    <3>1. PICK p \in Admin : Command(p)
      BY <2>1
    <3>2. UNCHANGED daemonVars
      BY <3>1, Zenon DEF Command, Give, GetUser, CreateUser, CreateMailaddr, SelectIds, DeleteRows, InsertRow,
         Report, StatementFails, CommandElsewhere
    <3> QED
      BY <1>1, <3>2 DEF daemonVars
  <2>2. CASE CleanupMailaddr \/ UNCHANGED vars
    BY <1>1, <2>2 DEF CleanupMailaddr, vars, daemonVars
  <2>3. CASE Receive \/ SelectLocal \/ SelectExternal \/ SelectCidr
    BY <1>1, <2>3 DEF Receive, SelectLocal, SelectExternal, SelectCidr
  <2>4. ~ApplyFails
    BY <1>2 DEF ApplyFails
  <2> QED
    BY <2>1, <2>2, <2>3, <2>4 DEF Next, Daemon
<1>6. PICK values, wb :
        /\ values = (IF direction = "inbound" THEN InboundValues ELSE OutboundValues)
        /\ wb \in (IF values = {} THEN {"none"} ELSE values)
        /\ ~(direction = "outbound" /\ wb # "B" /\ CheckInbound(req))
        /\ verdict' = (CASE wb = "B" -> "REJECT" [] wb = "W" /\ direction = "inbound" -> "OK" [] OTHER -> "DUNNO")
  BY <1>1, <1>5 DEF Apply, Return
<1>7. pc = "apply"
  BY <1>5 DEF Apply
<1>8. CASE direction = "inbound"
  <2>1. wb \in Foremost("inbound", req)
    BY <1>3, <1>4, <1>6, <1>7, <1>8, InboundForemost
  <2>2. verdict' = (CASE wb = "W" -> "OK" [] wb = "B" -> "REJECT" [] OTHER -> "DUNNO")
    BY <1>6, <1>8
  <2>3. verdict' \in InboundVerdict(req)
    BY <2>1, <2>2 DEF InboundVerdict
  <2>4. CASE ~req.sasl
    BY <2>3, <2>4 DEF ExpectedVerdict
  <2>5. CASE req.sasl
    <3>1. CheckInbound(req)
      BY <1>3, <1>8, <2>5 DEF Complete
    <3>2. PICK v \in Foremost("outbound", req) : v # "B" \/ BypassOutgoing
      BY <1>3, <1>8, <2>5 DEF Complete
    <3>3. verdict' \in (IF v = "B" /\ ~BypassOutgoing THEN {"REJECT"}
                        ELSE IF CheckInbound(req) THEN InboundVerdict(req) ELSE {"DUNNO"})
      BY <2>3, <3>1, <3>2
    <3> QED
      BY <2>5, <3>2, <3>3 DEF ExpectedVerdict
  <2> QED
    BY <2>4, <2>5
<1>9. CASE direction = "outbound"
  <2>1. req.sasl
    BY <1>3, <1>9 DEF Complete
  <2>2. /\ ~BypassOutgoing => wb \in Foremost("outbound", req)
        /\ Foremost("outbound", req) # {}
    BY <1>3, <1>4, <1>6, <1>7, <1>9, PassedOutbound
  <2>3. \E v \in Foremost("outbound", req) :
          verdict' \in (IF v = "B" /\ ~BypassOutgoing THEN {"REJECT"}
                        ELSE IF CheckInbound(req) THEN InboundVerdict(req) ELSE {"DUNNO"})
    <3>1. CASE BypassOutgoing
      <4>1. wb = "none"
        BY <1>6, <1>9, <3>1 DEF OutboundValues
      <4>2. verdict' = "DUNNO" /\ ~CheckInbound(req)
        BY <1>6, <1>9, <4>1
      <4> QED
        BY <2>2, <3>1, <4>2
    <3>2. CASE ~BypassOutgoing /\ wb = "B"
      BY <1>6, <2>2, <3>2
    <3>3. CASE ~BypassOutgoing /\ wb # "B"
      <4>1. verdict' = "DUNNO" /\ ~CheckInbound(req)
        BY <1>6, <1>9, <3>3
      <4> QED
        BY <2>2, <3>3, <4>1
    <3> QED
      BY <3>1, <3>2, <3>3
  <2> QED
    BY <2>1, <2>3 DEF ExpectedVerdict
<1> QED
  BY <1>4, <1>8, <1>9 DEF Directions

\* A request that no command overlaps, and of which no statement fails, gets the verdict
\* the reported listings say: the sender's own list first for outgoing mail, then the
\* recipient's, each by priority, whatever order rows of one priority come in and whatever
\* the daily job prunes between its SELECTs (plugins/amavisd_wblist.py:206).
THEOREM VerdictsByPriority == ASSUME WblistAssumption PROVE Spec => VerdictByPriority
<1> DEFINE Kept == ListInv /\ Daemons /\ Asked /\ Selected /\ Undisturbed
<1> DEFINE Expected ==
      /\ Answers /\ ~TakenForSender /\ quiet /\ failures' = 0
      /\ \A pair \in Pairs : Covers(pair, req) => Cardinality(due[pair]) = 1
      => verdict' \in ExpectedVerdict(req)
<1>1. Init => Kept
  BY ListInit, SelectedInit, UndisturbedInit DEF Init, Daemons, Directions
<1>2. Kept /\ [Next]_vars => Kept'
  BY ListNext, SelectedNext, UndisturbedStep
<1>3. Kept /\ [Next]_vars => [Expected]_vars
  BY PriorityStep DEF Sure
<1>4. VerdictByPriority <=> [][Expected]_vars
  BY DEF VerdictByPriority
<1> HIDE DEF Kept, Expected
<1> QED
  BY <1>1, <1>2, <1>3, <1>4, PTL DEF Spec
=============================================================================
