----------------------------- MODULE SRS_proofs -----------------------------
(***************************************************************************)
(* Proofs about module SRS: its types, and that no chain of rewritings and *)
(* reversals loses the mailbox a message came from.                        *)
(***************************************************************************)
EXTENDS SRS, TLAPS

\* What the reversals rely on: an address whose opaque part is the daemon's names
\* a server that runs it where the reversal will be asked for.
Rooted(a) ==
  CASE a.kind = "plain" -> TRUE
    [] a.kind = "SRS0"  -> a.opaque \in Foreign \/ a.host \in Host
    [] OTHER            -> a.host \in Host /\ (a.opaque \in Foreign \/ a.first \in Host)

HomeInv == TypeOK /\ Rooted(addr) /\ BounceHome

-----------------------------------------------------------------------------
(* Addresses *)

\* An address is of one of three forms, with the parts of that form.
LEMMA AddressForms ==
  ASSUME NEW a \in Address
  PROVE  \/ /\ a.kind = "plain" /\ a.user \in User /\ a.host \in Site
            /\ a = Plain(a.user, a.host)
         \/ /\ a.kind = "SRS0" /\ a.opaque \in Opaque /\ a.host \in Site
            /\ a = SRS0(a.opaque, a.host)
         \/ /\ a.kind = "SRS1" /\ a.opaque \in Opaque /\ a.host \in Site /\ a.first \in Site
            /\ a.hash \in [key : Secret, text : Site \X Opaque]
            /\ a = SRS1(a.hash, a.first, a.opaque, a.host)
<1>1. CASE a \in PlainAddr
  BY <1>1 DEF PlainAddr, Plain
<1>2. CASE a \in SRS0Addr
  BY <1>2 DEF SRS0Addr, SRS0
<1>3. CASE a \in SRS1Addr
  BY <1>3 DEF SRS1Addr, SRS1
<1> QED
  BY <1>1, <1>2, <1>3 DEF Address

\* The form in lower case of an opaque part is one of the same kind (srslib.py:320).
LEMMA SmallOpaque ==
  ASSUME NEW o \in Opaque
  PROVE  /\ Small(o) \in Opaque /\ (Small(o) \in Foreign <=> o \in Foreign)
         /\ Small(Small(o)) = Small(o)
         /\ o \notin Foreign =>
              /\ o.user \in User /\ o.orig \in Site /\ o.ts \in Timestamps
              /\ Small(o).user = Lower[o.user] /\ Small(o).orig = o.orig
<1>1. CASE o \in Foreign
  BY <1>1 DEF Small, Opaque
<1>2. CASE o \notin Foreign
  <2>1. o \in GuardedOpaque
    BY <1>2 DEF Opaque
  <2>2. /\ o.user \in User /\ o.orig \in Site /\ o.ts \in Timestamps
        /\ Lower[o.user] \in User /\ Lower[Lower[o.user]] = Lower[o.user]
    BY <2>1, SRSAssumption DEF GuardedOpaque
  <2>3. Small(o) = [o EXCEPT !.user = Lower[o.user]]
    BY <1>2 DEF Small
  <2>4. /\ Small(o) \in GuardedOpaque /\ Small(o).user = Lower[o.user]
        /\ Small(o).orig = o.orig
    BY <2>1, <2>2, <2>3 DEF GuardedOpaque
  <2>5. Small(o) \notin Foreign
    BY <2>4, SRSAssumption
  <2>6. Small(Small(o)) = Small(o)
    BY <2>1, <2>2, <2>3, <2>4, <2>5 DEF Small, GuardedOpaque
  <2> QED
    BY <1>2, <2>2, <2>4, <2>5, <2>6 DEF Opaque
<1> QED
  BY <1>1, <1>2

\* A day is encoded as one of the timestamps (srslib.py:354).
LEMMA TimestampOf == TypeOK => generate_ts(day) \in Timestamps
BY SRSAssumption DEF TypeOK, generate_ts, Timestamps

\* SRS.forward makes an address that leads home as the old one did (srslib.py:131-175).
LEMMA RewriteKeepsHome ==
  ASSUME TypeOK, NEW h \in Host, NEW a \in Address, Rooted(a)
  PROVE  /\ Rewrite(h, a) \in Address /\ Rooted(Rewrite(h, a))
         /\ Home(Rewrite(h, a)) = Home(a)
<1>1. Head(secrets[h]) \in Secret /\ h \in Site
  BY DEF TypeOK, Site
<1>2. CASE a.kind = "plain"
  <2> DEFINE ts == generate_ts(day)
             o  == Guarded(generate_hash(Head(secrets[h]), Text0(ts, a.host, a.user)),
                           ts, a.host, a.user)
  <2>1. a.user \in User /\ a.host \in Site /\ a = Plain(a.user, a.host)
    BY <1>2, AddressForms
  <2>2. ts \in Timestamps /\ Lower[a.user] \in User
    BY <2>1, TimestampOf, SRSAssumption
  <2>3. o \in GuardedOpaque
    BY <1>1, <2>1, <2>2 DEF GuardedOpaque, Guarded, generate_hash, Text0
  <2>4. o \notin Foreign
    BY <2>3, SRSAssumption
  <2>5. Rewrite(h, a) = SRS0(o, h)
    BY <1>2 DEF Rewrite, generate_srs0_address
  <2>6. SRS0(o, h) \in Address
    BY <1>1, <2>3 DEF SRS0, SRS0Addr, Address, Opaque
  <2>7. o.user = a.user /\ o.orig = a.host
    BY DEF Guarded
  <2>8. Home(SRS0(o, h)) = a /\ Rooted(SRS0(o, h))
    <3> HIDE DEF o
    <3> QED
      BY <2>1, <2>4, <2>7 DEF Home, Rooted, SRS0
  <2> QED
    BY <1>2, <2>5, <2>6, <2>8 DEF Home
<1>3. ASSUME NEW first \in Site, NEW o \in Opaque, o \in Foreign \/ first \in Host
      PROVE  LET b == generate_srs1_address(h, first, o)
             IN  /\ b \in Address /\ Rooted(b)
                 /\ b.kind = "SRS1" /\ b.opaque = o /\ b.first = first
  <2>1. generate_hash(Head(secrets[h]), Text1(first, o)) \in [key : Secret, text : Site \X Opaque]
    BY <1>1, SmallOpaque DEF generate_hash, Text1
  <2> QED
    BY <1>1, <1>3, <2>1 DEF generate_srs1_address, SRS1, SRS1Addr, Address, Rooted
<1>4. CASE a.kind = "SRS0"
  <2>1. a.opaque \in Opaque /\ a.host \in Site /\ (a.opaque \in Foreign \/ a.host \in Host)
    BY <1>4, AddressForms DEF Rooted
  <2>2. Rewrite(h, a) = generate_srs1_address(h, a.host, a.opaque)
    BY <1>4 DEF Rewrite
  <2> QED
    BY <1>3, <1>4, <2>1, <2>2 DEF Home
<1>5. CASE a.kind = "SRS1"
  <2>1. a.opaque \in Opaque /\ a.first \in Site /\ (a.opaque \in Foreign \/ a.first \in Host)
    BY <1>5, AddressForms DEF Rooted
  <2>2. Rewrite(h, a) = generate_srs1_address(h, a.first, a.opaque)
    BY <1>5 DEF Rewrite
  <2> QED
    BY <1>3, <1>5, <2>1, <2>2 DEF Home
<1> QED
  BY <1>2, <1>4, <1>5, AddressForms

\* SRS.reverse takes off one rewriting and leads to the same home (srslib.py:177-220).
LEMMA ReverseKeepsHome ==
  ASSUME NEW a \in Address, Rooted(a), is_srs_address(a)
  PROVE  /\ Original(a) \in Address /\ Rooted(Original(a)) /\ Home(Original(a)) = Home(a)
<1>1. CASE a.kind = "SRS1"
  <2>1. a.opaque \in Opaque /\ a.first \in Site /\ (a.opaque \in Foreign \/ a.first \in Host)
    BY <1>1, AddressForms DEF Rooted
  <2> QED
    BY <1>1, <2>1 DEF Original, SRS0, SRS0Addr, Address, Rooted, Home
<1>2. CASE a.kind # "SRS1"
  <2>1. a.kind = "SRS0" /\ a.opaque \in Opaque /\ a.opaque \notin Foreign
    BY <1>2, AddressForms DEF is_srs_address
  <2>2. a.opaque.user \in User /\ a.opaque.orig \in Site
    BY <2>1, SmallOpaque
  <2> QED
    BY <2>1, <2>2 DEF Original, Plain, PlainAddr, Address, Rooted, Home
<1> QED
  BY <1>1, <1>2

\* A mail server that writes an address in lower case keeps its home, up to case.
LEMMA FoldingKeepsHome ==
  ASSUME NEW a \in Address, Rooted(a)
  PROVE  /\ Folded(a) \in Address /\ Rooted(Folded(a))
         /\ Folded(Home(Folded(a))) = Folded(Home(a))
<1>1. CASE a.kind = "plain"
  <2>1. a.user \in User /\ a.host \in Site /\ a = Plain(a.user, a.host)
    BY <1>1, AddressForms
  <2>2. Lower[a.user] \in User /\ Lower[Lower[a.user]] = Lower[a.user]
    BY <2>1, SRSAssumption
  <2>3. Folded(a) = Plain(Lower[a.user], a.host)
    BY <2>1 DEF Folded, Plain
  <2> QED
    BY <2>1, <2>2, <2>3 DEF Folded, Home, Plain, PlainAddr, Address, Rooted
<1>2. CASE a.kind # "plain"
  <2> DEFINE o == a.opaque
             first == IF a.kind = "SRS1" THEN a.first ELSE a.host
  <2>1. o \in Opaque /\ first \in Site
    BY <1>2, AddressForms
  <2>2. Folded(a) = [a EXCEPT !.opaque = Small(o)]
    BY <1>2 DEF Folded
  <2>3. /\ Small(o) \in Opaque /\ Small(Small(o)) = Small(o)
        /\ (Small(o) \in Foreign <=> o \in Foreign)
    BY <2>1, SmallOpaque
  <2>4. /\ Folded(a) \in Address /\ Folded(a).opaque = Small(o)
        /\ Folded(a).kind = a.kind /\ Folded(a).host = a.host
        /\ a.kind = "SRS1" => Folded(a).first = a.first
    <3>1. CASE a.kind = "SRS0"
      <4>1. a = SRS0(o, a.host) /\ a.host \in Site
        BY <3>1, AddressForms
      <4> QED
        BY <2>2, <2>3, <3>1, <4>1 DEF SRS0, SRS0Addr, Address
    <3>2. CASE a.kind = "SRS1"
      <4>1. /\ a = SRS1(a.hash, a.first, o, a.host) /\ a.host \in Site /\ a.first \in Site
            /\ a.hash \in [key : Secret, text : Site \X Opaque]
        BY <3>2, AddressForms
      <4> QED
        BY <2>2, <2>3, <3>2, <4>1 DEF SRS1, SRS1Addr, Address
    <3> QED
      BY <1>2, <3>1, <3>2, AddressForms
  <2>5. Rooted(Folded(a))
    BY <1>2, <2>3, <2>4, AddressForms DEF Rooted
  <2>6. CASE o \in Foreign
    <3>1. Small(o) = o
      BY <2>6 DEF Small
    <3>2. Home(a) = SRS0(o, first) /\ Home(Folded(a)) = SRS0(o, first)
      BY <1>2, <2>4, <2>6, <3>1 DEF Home
    <3> QED
      BY <2>4, <2>5, <3>2
  <2>7. CASE o \notin Foreign
    <3>1. /\ o.user \in User /\ Small(o).user = Lower[o.user] /\ Small(o).orig = o.orig
          /\ Lower[Lower[o.user]] = Lower[o.user]
      BY <2>1, <2>7, SmallOpaque, SRSAssumption
    <3>2. /\ Home(a) = Plain(o.user, o.orig)
          /\ Home(Folded(a)) = Plain(Lower[o.user], o.orig)
      BY <1>2, <2>3, <2>4, <2>7, <3>1 DEF Home
    <3>3. Folded(Home(a)) = Folded(Home(Folded(a)))
      BY <3>1, <3>2 DEF Folded, Plain
    <3> QED
      BY <2>4, <2>5, <3>3
  <2> QED
    BY <2>6, <2>7
<1> QED
  BY <1>1, <1>2

-----------------------------------------------------------------------------
(* What an address and the history say of each other *)

\* The daemon's opaque part o, made by server h on the day of the first rewriting.
Genuine(o, h) ==
  /\ o.hash.text = Text0(o.ts, o.orig, o.user)
  /\ <<h, o.hash.key>> \in keys
  /\ o.ts = generate_ts(made)
  /\ o.orig \in Domain

\* The address was made by the servers it names, with secrets that they had, and
\* names no server for anything it did not make.
Kept(a) ==
  CASE a.kind = "plain" -> a.host \in Domain
    [] a.kind = "SRS0"  -> IF a.opaque \in Foreign THEN a.host \in Domain
                           ELSE Genuine(a.opaque, a.host)
    [] OTHER -> /\ a.hash.text = Text1(a.first, a.opaque)
                /\ <<a.host, a.hash.key>> \in keys
                /\ IF a.opaque \in Foreign THEN a.first \in Domain
                   ELSE Genuine(a.opaque, a.first)

\* What the history says of days and reversals.
Dated ==
  /\ made <= day /\ faults \in Nat
  /\ phase = "forward" => reversed = <<>>
  /\ reversed \in Seq([kind : {"SRS0", "SRS1"}, day : Nat])
  /\ \A i \in DOMAIN reversed :
       reversed[i].kind = "SRS0" => (reversed[i].day - made) % Modulus < validity_days

AgeInv == HomeInv /\ Kept(addr) /\ Dated

-----------------------------------------------------------------------------
(* Timestamps *)

\* A number is divided with a remainder.
LEMMA Division ==
  ASSUME NEW m \in Nat \ {0}, NEW x \in Int
  PROVE  \E q \in Int : \E r \in 0..(m - 1) : x = (m * q) + r /\ r = x % m
<1>1. x \div m \in Int /\ x % m \in 0..(m - 1) /\ x = (m * (x \div m)) + (x % m)
  OBVIOUS
<1> QED
  BY <1>1, Zenon

\* A number has one remainder.
LEMMA OneRemainder ==
  ASSUME NEW m \in Nat \ {0}, NEW x \in Int, NEW q \in Int, NEW r \in 0..(m - 1),
         x = (m * q) + r
  PROVE  x % m = r
<1> DEFINE p == x \div m
           s == x % m
<1>1. p \in Int /\ s \in 0..(m - 1) /\ x = (m * p) + s
  OBVIOUS
<1> HIDE DEF p, s
<1>2. CASE q < p
  <2>1. PICK k \in Nat : p = q + 1 + k
    <3>1. p - q - 1 \in Nat /\ p = q + 1 + (p - q - 1)
      BY <1>1, <1>2
    <3> QED
      BY <3>1
  <2>2. m * p = (m * q) + m + (m * k) /\ m * k >= 0
    BY <2>1
  <2> QED
    BY <1>1, <2>2
<1>3. CASE p < q
  <2>1. PICK k \in Nat : q = p + 1 + k
    <3>1. q - p - 1 \in Nat /\ q = p + 1 + (q - p - 1)
      BY <1>1, <1>3
    <3> QED
      BY <3>1
  <2>2. m * q = (m * p) + m + (m * k) /\ m * k >= 0
    BY <1>1, <2>1
  <2> QED
    BY <1>1, <2>2
<1>4. CASE p = q
  <2> DEFINE z == m * q
  <2>1. x = z + s /\ x = z + r
    BY <1>1, <1>4, Zenon
  <2>2. z \in Int /\ s \in Int /\ r \in Int
    BY <1>1
  <2> HIDE DEF z
  <2> QED
    BY <2>1, <2>2
<1>5. s = r
  BY <1>1, <1>2, <1>3, <1>4
<1> QED
  BY <1>5 DEF s

\* A timestamp made on day a, that is i days older than the one of day d, is of an
\* age that agrees with i but for the days after which timestamps repeat
\* (srslib.py:354-382).
LEMMA AgeOfTimestamp ==
  ASSUME NEW a \in Int, NEW d \in Int, NEW i \in Nat,
         generate_ts(a) = generate_ts(generate_ts(d) - i)
  PROVE  (d - a) % Modulus <= i
<1> DEFINE m == Modulus
<1>1. m \in Nat \ {0} /\ a % m = ((d % m) - i) % m
  BY SRSAssumption DEF generate_ts
<1> HIDE DEF m
<1>2. PICK q1 \in Int, r \in 0..(m - 1) : a = (m * q1) + r /\ r = a % m
  BY <1>1, Division, Zenon
<1>3. PICK q2 \in Int, s \in 0..(m - 1) : d = (m * q2) + s /\ s = d % m
  BY <1>1, Division, Zenon
<1>4. PICK q3 \in Int : s - i = (m * q3) + r
  <2>1. s - i \in Int
    BY <1>3
  <2>2. (s - i) % m = r
    BY <1>1, <1>2, <1>3, Zenon
  <2> QED
    <3>1. PICK q3 \in Int, r3 \in 0..(m - 1) : s - i = (m * q3) + r3 /\ r3 = (s - i) % m
      BY <1>1, <2>1, Division, Zenon
    <3> QED
      BY <2>2, <3>1, Zenon
<1>5. PICK q4 \in Int, t \in 0..(m - 1) : i = (m * q4) + t /\ t = i % m
  <2>1. i \in Int
    OBVIOUS
  <2> QED
    BY <1>1, <2>1, Division, Zenon
<1>6. t <= i
  <2>1. q4 >= 0
    <3>1. SUFFICES ASSUME q4 < 0 PROVE FALSE
      BY <1>5
    <3>2. PICK k \in Nat : q4 = -1 - k
      <4>1. -1 - q4 \in Nat /\ q4 = -1 - (-1 - q4)
        BY <1>5, <3>1
      <4> QED
        BY <4>1
    <3>3. m * q4 = -m - (m * k) /\ m * k >= 0
      BY <1>1, <3>2
    <3> QED
      BY <1>1, <1>5, <3>3
  <2>2. m * q4 >= 0
    BY <1>1, <1>5, <2>1
  <2> QED
    BY <1>1, <1>5, <2>2
<1>7. d - a = (m * (q2 - q1 + q3 + q4)) + t
  <2>1. m * (q2 - q1 + q3 + q4) = (m * q2) - (m * q1) + (m * q3) + (m * q4)
    BY <1>1, <1>2, <1>3, <1>4, <1>5
  <2> QED
    BY <1>1, <1>2, <1>3, <1>4, <1>5, <2>1
<1>8. (d - a) % m = t
  <2>1. q2 - q1 + q3 + q4 \in Int /\ d - a \in Int
    BY <1>2, <1>3, <1>4, <1>5
  <2> QED
    BY <1>1, <1>5, <1>7, <2>1, OneRemainder, Zenon
<1> QED
  BY <1>6, <1>8 DEF m

\* The timestamp of day a is found when day d looks d - a days back (srslib.py:354-382).
LEMMA TimestampFound ==
  ASSUME NEW a \in Int, NEW d \in Int
  PROVE  generate_ts(a) = generate_ts(generate_ts(d) - (d - a))
<1> DEFINE m == Modulus
<1>1. m \in Nat \ {0}
  BY SRSAssumption
<1> HIDE DEF m
<1>2. PICK q1 \in Int, r \in 0..(m - 1) : a = (m * q1) + r /\ r = a % m
  BY <1>1, Division, Zenon
<1>3. PICK q2 \in Int, s \in 0..(m - 1) : d = (m * q2) + s /\ s = d % m
  BY <1>1, Division, Zenon
<1>4. s - (d - a) = (m * (q1 - q2)) + r
  <2>1. m * (q1 - q2) = (m * q1) - (m * q2)
    BY <1>1, <1>2, <1>3
  <2> QED
    BY <1>1, <1>2, <1>3, <2>1
<1>5. (s - (d - a)) % m = r
  <2>1. q1 - q2 \in Int /\ s - (d - a) \in Int
    BY <1>2, <1>3
  <2> QED
    BY <1>1, <1>2, <1>4, <2>1, OneRemainder, Zenon
<1> QED
  BY <1>2, <1>3, <1>5 DEF m, generate_ts

-----------------------------------------------------------------------------
(* The theorems *)

\* The address is of its type, rooted and leads home in the initial state.
LEMMA HomeInit == Init => HomeInv
<1> SUFFICES ASSUME Init PROVE HomeInv
  OBVIOUS
<1>1. /\ sender \in Address /\ addr = sender /\ phase = "forward"
      /\ addr \in PlainAddr \/ (addr \in SRS0Addr /\ addr.opaque \in Foreign)
  BY SRSAssumption DEF Init, Address
<1>2. Rooted(addr)
  BY <1>1 DEF Rooted, PlainAddr, SRS0Addr
<1>3. TypeOK
  BY <1>1, SRSAssumption DEF Init, TypeOK
<1> QED
  BY <1>1, <1>2, <1>3 DEF HomeInv, BounceHome

\* Every step keeps the types (channel.py:213-289, srslib.py:131-382).
LEMMA TypeStep == HomeInv /\ [Next]_vars => TypeOK'
<1> SUFFICES ASSUME HomeInv, [Next]_vars PROVE TypeOK'
  OBVIOUS
<1> USE DEF HomeInv, TypeOK
<1>1. \A h \in Host : Refreshed(h) \in Timestamps
  BY TimestampOf DEF Refreshed
<1>2. ASSUME NEW h \in Host, Forward(h) PROVE TypeOK'
  BY <1>2, RewriteKeepsHome DEF Forward
<1>3. ASSUME NEW h \in Host, Reverse(h) PROVE TypeOK'
  BY <1>1, <1>3, ReverseKeepsHome DEF Reverse
<1>4. ASSUME NEW h \in Host, Refuse(h) PROVE TypeOK'
  BY <1>1, <1>4 DEF Refuse
<1>5. ASSUME NEW h \in Host, Others(h) PROVE TypeOK'
  BY <1>1, <1>5 DEF Others
<1>6. ASSUME NEW h \in Host, Rotate(h) PROVE TypeOK'
  <2>1. PICK s \in Secret, keep \in 0..Len(secrets[h]) :
          secrets' = [secrets EXCEPT ![h] = <<s>> \o SubSeq(secrets[h], 1, keep)]
    BY <1>6 DEF Rotate
  <2>2. SubSeq(secrets[h], 1, keep) \in Seq(Secret)
    BY <2>1
  <2>3. /\ <<s>> \o SubSeq(secrets[h], 1, keep) \in Seq(Secret)
        /\ <<s>> \o SubSeq(secrets[h], 1, keep) # <<>>
    BY <2>2
  <2> QED
    BY <1>6, <2>1, <2>3 DEF Rotate
<1>7. CASE Bounce
  BY <1>7, FoldingKeepsHome DEF Bounce
<1>8. CASE Deliver
  BY <1>8 DEF Deliver
<1>9. CASE NextDay
  BY <1>9, SRSAssumption DEF NextDay
<1>10. CASE UNCHANGED vars
  BY <1>10 DEF vars
<1> QED
  BY <1>2, <1>3, <1>4, <1>5, <1>6, <1>7, <1>8, <1>9, <1>10 DEF Next

\* Every step keeps the address rooted and its home (channel.py:213-289).
LEMMA HomeStep == HomeInv /\ [Next]_vars => Rooted(addr)' /\ BounceHome'
<1> SUFFICES ASSUME HomeInv, [Next]_vars PROVE Rooted(addr)' /\ BounceHome'
  OBVIOUS
<1>1. addr \in Address /\ Rooted(addr) /\ Folded(Home(addr)) = Folded(Home(sender))
  BY DEF HomeInv, TypeOK, BounceHome
<1>2. ASSUME addr' = addr, sender' = sender, phase' = "delivered" => addr = Home(addr)
      PROVE  Rooted(addr)' /\ BounceHome'
  BY <1>1, <1>2 DEF Rooted, BounceHome, Home, Folded
<1>3. ASSUME NEW h \in Host, Forward(h) PROVE Rooted(addr)' /\ BounceHome'
  <2>1. Rooted(addr') /\ Home(addr') = Home(addr)
    BY <1>1, <1>3, RewriteKeepsHome DEF Forward, HomeInv
  <2>2. sender' = sender /\ phase' = "forward"
    BY <1>3 DEF Forward
  <2> QED
    BY <1>1, <2>1, <2>2 DEF BounceHome
<1>4. ASSUME NEW h \in Host, Reverse(h) PROVE Rooted(addr)' /\ BounceHome'
  <2>1. Rooted(addr') /\ Home(addr') = Home(addr)
    BY <1>1, <1>4, ReverseKeepsHome DEF Reverse
  <2>2. sender' = sender /\ phase' = "bounce"
    BY <1>4 DEF Reverse
  <2> QED
    BY <1>1, <2>1, <2>2 DEF BounceHome
<1>5. CASE Bounce
  <2>1. Rooted(addr') /\ Folded(Home(addr')) = Folded(Home(addr))
    BY <1>1, <1>5, FoldingKeepsHome DEF Bounce
  <2>2. sender' = sender /\ phase' = "bounce"
    BY <1>5 DEF Bounce
  <2> QED
    BY <1>1, <2>1, <2>2 DEF BounceHome
<1>6. CASE Deliver
  <2>1. addr.host \notin Host /\ addr' = addr /\ sender' = sender
    BY <1>6 DEF Deliver
  <2>2. addr = Home(addr)
    BY <1>1, <2>1, AddressForms DEF Rooted, Home
  <2> QED
    BY <1>2, <2>1, <2>2
<1>7. ASSUME NEW h \in Host, Refuse(h) \/ Others(h) \/ Rotate(h)
      PROVE  Rooted(addr)' /\ BounceHome'
  BY <1>2, <1>7 DEF Refuse, Others, Rotate
<1>8. CASE NextDay
  BY <1>2, <1>8 DEF NextDay
<1>9. CASE UNCHANGED vars
  BY <1>2, <1>9 DEF vars, HomeInv, BounceHome
<1> QED
  BY <1>3, <1>4, <1>5, <1>6, <1>7, <1>8, <1>9 DEF Next

\* The first address and history are well made.
LEMMA AgeInit == Init => AgeInv
<1> SUFFICES ASSUME Init PROVE AgeInv
  OBVIOUS
<1>1. addr \in PlainAddr \/ (addr \in SRS0Addr /\ addr.opaque \in Foreign)
  BY SRSAssumption DEF Init
<1>2. addr.host \in Domain
  BY SendersAssumption DEF Init
<1>3. Kept(addr)
  BY <1>1, <1>2 DEF Kept, PlainAddr, SRS0Addr
<1>4. Dated
  BY DEF Init, Dated
<1> QED
  BY <1>3, <1>4, HomeInit DEF AgeInv

\* A step that leaves the address, what made it and the day it was made as they are
\* leaves it well made.
LEMMA KeptStays ==
  ASSUME Kept(addr), addr' = addr, keys' = keys, made' = made
  PROVE  Kept(addr)'
BY DEF Kept, Genuine

\* Every step leaves an address well made: srs_forward makes it, a mail server may
\* write it in lower case, srs_reverse takes off one rewriting (channel.py:213-289).
LEMMA KeptStep == AgeInv /\ [Next]_vars => Kept(addr)'
<1> SUFFICES ASSUME AgeInv, [Next]_vars PROVE Kept(addr)'
  OBVIOUS
<1>1. addr \in Address /\ Kept(addr) /\ day \in Nat /\ made \in Nat
  BY SRSAssumption DEF AgeInv, HomeInv, TypeOK
<1>2. ASSUME NEW h \in Host, Forward(h) PROVE Kept(addr)'
  <2> DEFINE key == Head(secrets[h])
  <2>1. CASE addr' = addr /\ made' = made /\ keys' = keys
    BY <1>1, <2>1, KeptStays
  <2>2. CASE /\ addr' = Rewrite(h, addr)
             /\ made' = IF addr.kind = "plain" THEN day ELSE made
             /\ keys' = keys \cup {<<h, key>>}
    <3>1. CASE addr.kind = "plain"
      <4> DEFINE ts == generate_ts(day)
                 o == Guarded(generate_hash(key, Text0(ts, addr.host, addr.user)),
                              ts, addr.host, addr.user)
      <4>1. addr' = SRS0(o, h) /\ made' = day
        BY <2>2, <3>1 DEF Rewrite, generate_srs0_address
      <4>2. /\ o.hash.text = Text0(o.ts, o.orig, o.user) /\ o.hash.key = key
            /\ o.ts = generate_ts(day) /\ o.orig = addr.host
        BY DEF Guarded, generate_hash
      <4>3. o \in GuardedOpaque
        <5>1. addr.user \in User /\ addr.host \in Site /\ Lower[addr.user] \in User
          BY <1>1, <3>1, AddressForms, SRSAssumption
        <5>2. key \in Secret /\ ts \in Timestamps
          BY TimestampOf DEF AgeInv, HomeInv, TypeOK
        <5> QED
          BY <5>1, <5>2 DEF GuardedOpaque, Guarded, generate_hash, Text0
      <4>4. o \notin Foreign
        BY <4>3, SRSAssumption
      <4>5. addr.host \in Domain
        BY <1>1, <3>1 DEF Kept
      <4> HIDE DEF o
      <4>6. /\ addr'.kind = "SRS0" /\ addr'.opaque = o /\ addr'.host = h
        BY <4>1 DEF SRS0
      <4> QED
        BY <2>2, <4>1, <4>2, <4>4, <4>5, <4>6 DEF Kept, Genuine
    <3>2. ASSUME NEW first, NEW o, addr' = generate_srs1_address(h, first, o), made' = made,
                 IF o \in Foreign THEN first \in Domain ELSE Genuine(o, first)
          PROVE  Kept(addr)'
      <4>1. /\ addr'.kind = "SRS1" /\ addr'.first = first /\ addr'.opaque = o
            /\ addr'.host = h /\ addr'.hash.text = Text1(first, o) /\ addr'.hash.key = key
        BY <3>2 DEF generate_srs1_address, SRS1, generate_hash
      <4>2. IF o \in Foreign THEN first \in Domain ELSE Genuine(o, first)'
        BY <2>2, <3>2 DEF Genuine
      <4> QED
        BY <2>2, <4>1, <4>2 DEF Kept
    <3>3. CASE addr.kind = "SRS0"
      <4>1. addr' = generate_srs1_address(h, addr.host, addr.opaque) /\ made' = made
        BY <2>2, <3>3 DEF Rewrite
      <4>2. IF addr.opaque \in Foreign THEN addr.host \in Domain ELSE Genuine(addr.opaque, addr.host)
        BY <1>1, <3>3 DEF Kept
      <4> QED
        BY <3>2, <4>1, <4>2
    <3>4. CASE addr.kind = "SRS1"
      <4>1. addr' = generate_srs1_address(h, addr.first, addr.opaque) /\ made' = made
        BY <2>2, <3>4 DEF Rewrite
      <4>2. IF addr.opaque \in Foreign THEN addr.first \in Domain ELSE Genuine(addr.opaque, addr.first)
        BY <1>1, <3>4 DEF Kept
      <4> QED
        BY <3>2, <4>1, <4>2
    <3> QED
      BY <1>1, <3>1, <3>3, <3>4, AddressForms
  <2> QED
    BY <1>2, <2>1, <2>2 DEF Forward
<1>3. ASSUME NEW h \in Host, Reverse(h) PROVE Kept(addr)'
  <2>1. addr' = Original(addr) /\ keys' = keys /\ made' = made /\ is_srs_address(addr)
    BY <1>3 DEF Reverse
  <2>2. CASE addr.kind = "SRS1"
    <3>1. addr'.kind = "SRS0" /\ addr'.opaque = addr.opaque /\ addr'.host = addr.first
      BY <2>1, <2>2 DEF Original, SRS0
    <3> QED
      BY <1>1, <2>1, <2>2, <3>1 DEF Kept, Genuine
  <2>3. CASE addr.kind # "SRS1"
    <3>1. addr.kind = "SRS0" /\ addr.opaque \notin Foreign
      BY <2>1, <2>3 DEF is_srs_address
    <3>2. addr.opaque.orig \in Domain
      BY <1>1, <3>1 DEF Kept, Genuine
    <3>3. addr'.kind = "plain" /\ addr'.host = addr.opaque.orig
      BY <2>1, <3>1 DEF Original, Plain
    <3> QED
      BY <3>2, <3>3 DEF Kept
  <2> QED
    BY <2>2, <2>3
<1>4. CASE Bounce
  <2>1. keys' = keys /\ made' = made /\ addr' \in {addr, Folded(addr)}
    BY <1>4 DEF Bounce
  <2>2. CASE addr' = Folded(addr) /\ addr.kind = "plain"
    <3>1. addr'.kind = "plain" /\ addr'.host = addr.host
      BY <1>1, <2>2, AddressForms DEF Folded, Plain
    <3> QED
      BY <1>1, <2>2, <3>1 DEF Kept
  <2>3. CASE addr' = Folded(addr) /\ addr.kind # "plain"
    <3>0. PICK o : o = addr.opaque
      OBVIOUS
    <3>1. /\ addr'.kind = addr.kind /\ addr'.host = addr.host /\ addr'.opaque = Small(o)
          /\ addr.kind = "SRS1" => addr'.first = addr.first /\ addr'.hash = addr.hash
      <4>1. addr' = [addr EXCEPT !.opaque = Small(o)]
        BY <2>3, <3>0 DEF Folded
      <4>2. CASE addr.kind = "SRS0"
        BY <1>1, <4>1, <4>2, AddressForms DEF SRS0
      <4>3. CASE addr.kind = "SRS1"
        BY <1>1, <4>1, <4>3, AddressForms DEF SRS1
      <4> QED
        BY <1>1, <2>3, <4>2, <4>3, AddressForms
    <3>2. o \in Opaque
      BY <1>1, <2>3, <3>0, AddressForms
    <3>3. /\ Small(o) \in Foreign <=> o \in Foreign
          /\ Small(Small(o)) = Small(o)
      BY <3>2, SmallOpaque
    <3>4. ASSUME NEW h, o \notin Foreign, Genuine(o, h) PROVE Genuine(Small(o), h)'
      <4>1. o \in GuardedOpaque
        BY <3>2, <3>4 DEF Opaque
      <4>2. Small(o) = [o EXCEPT !.user = Lower[o.user]]
        BY <3>4 DEF Small
      <4>3. /\ Small(o).hash = o.hash /\ Small(o).ts = o.ts /\ Small(o).orig = o.orig
            /\ Small(o).user = Lower[o.user]
        BY <4>1, <4>2 DEF GuardedOpaque
      <4>4. Lower[Lower[o.user]] = Lower[o.user]
        BY <4>1, SRSAssumption DEF GuardedOpaque
      <4> QED
        BY <2>1, <3>4, <4>3, <4>4 DEF Genuine, Text0
    <3>5. ASSUME NEW first PROVE Text1(first, Small(o)) = Text1(first, o)
      BY <3>3 DEF Text1
    <3>6. CASE addr.kind = "SRS0"
      <4>1. IF o \in Foreign THEN addr.host \in Domain ELSE Genuine(o, addr.host)
        BY <1>1, <3>0, <3>6 DEF Kept
      <4>2. PICK h : h = addr.host /\ h = addr'.host
        BY <3>1
      <4>3. IF Small(o) \in Foreign THEN h \in Domain ELSE Genuine(Small(o), h)'
        BY <3>3, <3>4, <4>1, <4>2
      <4> QED
        BY <3>1, <3>6, <4>2, <4>3 DEF Kept
    <3>7. CASE addr.kind = "SRS1"
      <4>1. /\ addr.hash.text = Text1(addr.first, o) /\ <<addr.host, addr.hash.key>> \in keys
            /\ IF o \in Foreign THEN addr.first \in Domain ELSE Genuine(o, addr.first)
        BY <1>1, <3>0, <3>7 DEF Kept
      <4>2. PICK first : first = addr.first /\ first = addr'.first
        BY <3>1, <3>7
      <4>3. IF Small(o) \in Foreign THEN first \in Domain ELSE Genuine(Small(o), first)'
        BY <3>3, <3>4, <4>1, <4>2
      <4> QED
        BY <2>1, <3>1, <3>5, <3>7, <4>1, <4>2, <4>3 DEF Kept
    <3> QED
      BY <1>1, <2>3, <3>6, <3>7, AddressForms
  <2> QED
    BY <1>1, <2>1, <2>2, <2>3, KeptStays
<1>5. ASSUME NEW h \in Host, Refuse(h) \/ Others(h) \/ Rotate(h) PROVE Kept(addr)'
  <2>1. addr' = addr /\ keys' = keys /\ made' = made
    BY <1>5, Zenon DEF Refuse, Others, Rotate
  <2> QED
    BY <1>1, <2>1, KeptStays
<1>6. CASE Deliver \/ NextDay \/ UNCHANGED vars
  <2>1. addr' = addr /\ keys' = keys /\ made' = made
    BY <1>6 DEF Deliver, NextDay, vars
  <2> QED
    BY <1>1, <2>1, KeptStays
<1> QED
  BY <1>2, <1>3, <1>4, <1>5, <1>6 DEF Next

\* An SRS0 address that check_ts lets pass was made less than validity_days ago, but
\* for the days after which timestamps repeat (srslib.py:207-218, 354-382).
LEMMA ReversedInTime ==
  ASSUME AgeInv, NEW h \in Host, Reverse(h), addr.kind = "SRS0"
  PROVE  (day - made) % Modulus < validity_days
<1>1. day \in Int /\ made \in Int
  BY SRSAssumption DEF AgeInv, HomeInv, TypeOK
<1>2. addr.opaque.ts = generate_ts(made)
  BY DEF AgeInv, Kept, Genuine, Reverse, is_srs_address
<1>3. PICK i \in 0..(validity_days - 1) : addr.opaque.ts = generate_ts(generate_ts(day) - i)
  BY Zenon DEF Reverse, check_ts, Refreshed
<1>4. i \in Nat /\ i < validity_days /\ validity_days \in Nat
  BY SRSAssumption
<1>5. (day - made) % Modulus <= i
  BY <1>1, <1>2, <1>3, <1>4, AgeOfTimestamp, Zenon
<1>6. (day - made) % Modulus \in Int
  BY <1>1, SRSAssumption
<1> QED
  BY <1>4, <1>5, <1>6

\* Every step keeps what the history says of days and reversals.
LEMMA DatedStep == AgeInv /\ [Next]_vars => Dated'
<1> SUFFICES ASSUME AgeInv, [Next]_vars PROVE Dated'
  OBVIOUS
<1>1. Dated /\ day \in Nat /\ made \in Nat
  BY SRSAssumption DEF AgeInv, HomeInv, TypeOK
<1>2. ASSUME reversed' = reversed, made' = made, day' \in {day, day + 1}, faults' \in Nat,
             phase' = "forward" => phase = "forward"
      PROVE  Dated'
  <2>1. made <= day'
    BY <1>1, <1>2 DEF Dated
  <2> QED
    BY <1>1, <1>2, <2>1 DEF Dated
<1>3. ASSUME NEW h \in Host, Forward(h) PROVE Dated'
  <2>1. /\ reversed' = reversed /\ reversed = <<>> /\ day' = day /\ made' \in {day, made}
        /\ faults' \in {faults, faults + 1}
    BY <1>1, <1>3 DEF Forward, Dated
  <2> QED
    BY <1>1, <2>1 DEF Dated
<1>4. ASSUME NEW h \in Host, Reverse(h) PROVE Dated'
  <2>1. /\ reversed' = Append(reversed, [kind |-> addr.kind, day |-> day])
        /\ made' = made /\ day' = day /\ faults' = faults /\ phase' = phase /\ phase = "bounce"
    BY <1>4 DEF Reverse
  <2>2. addr.kind \in {"SRS0", "SRS1"}
    BY <1>4 DEF Reverse, is_srs_address
  <2>3. [kind |-> addr.kind, day |-> day] \in [kind : {"SRS0", "SRS1"}, day : Nat]
    BY <1>1, <2>2
  <2>4. addr.kind = "SRS0" => (day - made) % Modulus < validity_days
    BY <1>4, ReversedInTime
  <2>5. \A i \in DOMAIN reversed' :
          reversed'[i].kind = "SRS0" => (reversed'[i].day - made) % Modulus < validity_days
    <3>1. SUFFICES ASSUME NEW i \in DOMAIN reversed', reversed'[i].kind = "SRS0"
                   PROVE  (reversed'[i].day - made) % Modulus < validity_days
      OBVIOUS
    <3>2. \/ i \in DOMAIN reversed /\ reversed'[i] = reversed[i]
          \/ reversed'[i] = [kind |-> addr.kind, day |-> day]
      BY <1>1, <2>1, <2>3, <3>1 DEF Dated
    <3>3. CASE i \in DOMAIN reversed /\ reversed'[i] = reversed[i]
      BY <1>1, <3>1, <3>3, Zenon DEF Dated
    <3>4. CASE reversed'[i] = [kind |-> addr.kind, day |-> day]
      <4>1. reversed'[i].kind = addr.kind /\ reversed'[i].day = day
        BY <3>4
      <4> QED
        BY <2>4, <3>1, <4>1, Zenon
    <3> QED
      BY <3>2, <3>3, <3>4
  <2>6. reversed' \in Seq([kind : {"SRS0", "SRS1"}, day : Nat])
    BY <1>1, <2>1, <2>3 DEF Dated
  <2> QED
    BY <1>1, <2>1, <2>5, <2>6 DEF Dated
<1>5. ASSUME NEW h \in Host, Refuse(h) PROVE Dated'
  <2>1. /\ reversed' = reversed /\ made' = made /\ day' = day
        /\ faults' \in {faults, faults + 1} /\ phase' # "forward"
    BY <1>5, Zenon DEF Refuse
  <2> QED
    BY <1>1, <1>2, <2>1 DEF Dated
<1>6. ASSUME NEW h \in Host, Others(h) \/ Rotate(h) PROVE Dated'
  BY <1>1, <1>2, <1>6 DEF Others, Rotate, Dated
<1>7. CASE Bounce \/ Deliver \/ NextDay \/ UNCHANGED vars
  BY <1>1, <1>2, <1>7 DEF Bounce, Deliver, NextDay, vars, Dated
<1> QED
  BY <1>3, <1>4, <1>5, <1>6, <1>7 DEF Next

\* The day, the secrets and the faults do not explain a loss.
Unexplained ==
  /\ faults = 0 /\ day - made < validity_days
  /\ \A k \in keys : \E i \in DOMAIN secrets[k[1]] : secrets[k[1]][i] = k[2]

\* A keyed hash holds while the secret that made it is among srs_secrets.
LEMMA SecretHolds ==
  ASSUME Unexplained, NEW h, NEW hash, <<h, hash.key>> \in keys,
         hash = generate_hash(hash.key, hash.text)
  PROVE  check_hash(h, hash, hash.text)
<1>1. PICK i \in DOMAIN secrets[h] : secrets[h][i] = hash.key
  <2>1. <<h, hash.key>>[1] = h /\ <<h, hash.key>>[2] = hash.key
    OBVIOUS
  <2> QED
    BY <2>1, Zenon DEF Unexplained
<1> QED
  BY <1>1, Zenon DEF check_hash

\* The server an address names refuses it only for one of three reasons: a fault, its
\* age, or a secret that is gone (channel.py:268-289, srslib.py:177-220).
LEMMA RefusedForCause ==
  ASSUME AgeInv, NEW h \in Host, Refuse(h), addr.host = h, faults' = 0, Unexplained
  PROVE  FALSE
<1>1. addr \in Address /\ Kept(addr) /\ h \notin Domain
  BY SRSAssumption DEF AgeInv, HomeInv, TypeOK
<1>2. faults \in Nat
  BY DEF AgeInv, Dated
<1>3. \/ ~(is_srs_address(addr) /\ HashHolds(h, addr))
      \/ addr.kind = "SRS0" /\ is_srs_address(addr) /\ ~check_ts(h, addr.opaque.ts)
  <2>1. faults' # faults + 1
    BY <1>2
  <2> QED
    BY <2>1, Zenon DEF Refuse
<1>4. CASE addr.kind = "plain"
  BY <1>1, <1>4 DEF Kept
<1>5. CASE addr.kind = "SRS0"
  <2> DEFINE o == addr.opaque
  <2>1. o \in Opaque /\ o \notin Foreign /\ Genuine(o, h)
    BY <1>1, <1>5, AddressForms DEF Kept
  <2>2. o \in GuardedOpaque
    BY <2>1 DEF Opaque
  <2>3. o.hash = generate_hash(o.hash.key, o.hash.text)
    BY <2>2 DEF GuardedOpaque, generate_hash
  <2>4. check_hash(h, o.hash, o.hash.text)
    BY <2>1, <2>3, SecretHolds DEF Genuine
  <2>5. is_srs_address(addr) /\ HashHolds(h, addr)
    BY <1>5, <2>1, <2>4 DEF is_srs_address, HashHolds, Genuine
  <2>6. check_ts(h, o.ts)
    <3>1. day \in Int /\ made \in Int /\ day - made \in 0..(validity_days - 1)
      BY SRSAssumption DEF AgeInv, HomeInv, TypeOK, Dated, Unexplained
    <3>2. generate_ts(made) = generate_ts(generate_ts(day) - (day - made))
      BY <3>1, TimestampFound
    <3> QED
      BY <2>1, <3>1, <3>2, Zenon DEF check_ts, Refreshed, Genuine
  <2> QED
    BY <1>3, <2>5, <2>6
<1>6. CASE addr.kind = "SRS1"
  <2>1. /\ addr.hash.text = Text1(addr.first, addr.opaque)
        /\ <<h, addr.hash.key>> \in keys
    BY <1>1, <1>6 DEF Kept
  <2>2. addr.hash = generate_hash(addr.hash.key, addr.hash.text)
    BY <1>1, <1>6, AddressForms DEF generate_hash
  <2>3. check_hash(h, addr.hash, addr.hash.text)
    BY <2>1, <2>2, SecretHolds
  <2> QED
    BY <1>3, <1>6, <2>1, <2>3 DEF is_srs_address, HashHolds
<1> QED
  BY <1>1, <1>4, <1>5, <1>6, AddressForms

\* A step that loses a bounce has a reason, and nothing changes afterwards.
LEMMA LossStep == AgeInv /\ LossExplained /\ [Next]_vars => LossExplained'
<1> SUFFICES ASSUME AgeInv, LossExplained, [Next]_vars, phase' = "lost"
             PROVE  \/ faults' > 0
                    \/ day' - made' >= validity_days
                    \/ \E k \in keys' : \A i \in DOMAIN secrets'[k[1]] : secrets'[k[1]][i] # k[2]
  BY DEF LossExplained
<1>1. CASE UNCHANGED vars
  BY <1>1 DEF vars, LossExplained
<1>2. ASSUME NEW h \in Host, Refuse(h)
      PROVE  \/ faults' > 0
             \/ day' - made' >= validity_days
             \/ \E k \in keys' : \A i \in DOMAIN secrets'[k[1]] : secrets'[k[1]][i] # k[2]
  <2>1. /\ addr.host = h /\ faults' \in {faults, faults + 1} /\ faults \in Nat
        /\ day' = day /\ made' = made /\ keys' = keys /\ secrets' = secrets
    BY <1>2 DEF Refuse, AgeInv, Dated
  <2>2. faults' # 0 \/ ~Unexplained
    BY <1>2, <2>1, RefusedForCause
  <2>3. day \in Int /\ made \in Int /\ validity_days \in Int
    BY SRSAssumption DEF AgeInv, HomeInv, TypeOK
  <2> QED
    BY <2>1, <2>2, <2>3 DEF Unexplained
<1>3. ASSUME NEW h \in Host, Forward(h) \/ Reverse(h) \/ Others(h) \/ Rotate(h) PROVE FALSE
  BY <1>3 DEF Forward, Reverse, Others, Rotate
<1>4. CASE Bounce \/ Deliver \/ NextDay
  BY <1>4 DEF Bounce, Deliver, NextDay
<1> QED
  BY <1>1, <1>2, <1>3, <1>4 DEF Next

\* The sender channel hands out, and the recipient channel takes back, addresses
\* of the three forms only, whatever the servers, secrets and days.
THEOREM TypeCorrect == Spec => []TypeOK
<1>1. HomeInv /\ [Next]_vars => HomeInv'
  BY TypeStep, HomeStep DEF HomeInv
<1>2. HomeInv => TypeOK
  BY DEF HomeInv
<1> QED
  BY HomeInit, <1>1, <1>2, PTL DEF Spec

\* For any number of servers, hops, days, secrets and rotations, a bounce that is
\* delivered reaches the mailbox the message came from (srslib.py:131-220).
THEOREM BounceComesHome == Spec => []BounceHome
<1>1. HomeInv /\ [Next]_vars => HomeInv'
  BY TypeStep, HomeStep DEF HomeInv
<1>2. HomeInv => BounceHome
  BY DEF HomeInv
<1> QED
  BY HomeInit, <1>1, <1>2, PTL DEF Spec

\* On whatever day a connection filled its cache, the sender of a message is found
\* again only within validity_days of the first rewriting, but for the days after
\* which timestamps repeat (srslib.py:63-92, 354-382).
THEOREM OldAddressesRefused == Spec => []ExpiredRejected
<1>1. AgeInv /\ [Next]_vars => AgeInv'
  BY TypeStep, HomeStep, KeptStep, DatedStep DEF AgeInv, HomeInv
<1>2. AgeInv => ExpiredRejected
  BY DEF AgeInv, Dated, ExpiredRejected
<1> QED
  BY AgeInit, <1>1, <1>2, PTL DEF Spec

\* No server loses a bounce to an address made less than validity_days ago while the
\* servers keep the secrets that made it and every request is answered as asked, by
\* whatever relays it comes (channel.py:213-289, srslib.py:131-382).
THEOREM LossesExplained == Spec => []LossExplained
<1>1. AgeInv /\ [Next]_vars => AgeInv'
  BY TypeStep, HomeStep, KeptStep, DatedStep DEF AgeInv, HomeInv
<1>2. Init => LossExplained
  BY DEF Init, LossExplained
<1> QED
  BY AgeInit, LossStep, <1>1, <1>2, PTL DEF Spec
=============================================================================
