-------------------------------- MODULE SRS --------------------------------
(***************************************************************************)
(* Sender rewriting (class SRS of libs/channel.py, and libs/srslib.py).    *)
(* Postfix asks one channel to rewrite the envelope sender of a message it *)
(* forwards, and the other to reverse the recipient of a bounce.  One      *)
(* message passes through mail servers that each run the daemon; any day   *)
(* later a bounce goes to the address the last of them made, by way of any *)
(* relay, each of which asks its own daemon.  Administrators replace       *)
(* secrets meanwhile.                                                      *)
(*                                                                         *)
(* A mail server is named by its srs_domain.  A keyed hash is the pair of  *)
(* its key and its text: no two texts and no two keys give one hash.  The  *)
(* comparisons ignore case, and so does the text of a hash, which the      *)
(* model keeps in lower case; only user names remember their case.         *)
(***************************************************************************)
EXTENDS Integers, Sequences

CONSTANTS
  Host,          \* srs_domain of the servers
  Domain,        \* other domains
  User, Lower,   \* local parts, and how each is written in lower case
  Foreign,       \* what other rewriting software puts after `SRS0`
  Secret, NoTs,
  server_name,   \* fqdn of each server
  PrimaryDomain, \* mail domains of each server, table domain
  AliasDomain,   \* and table alias_domain
  Excluded,      \* domains that its srs_exclude_domains covers
  Initial,       \* srs_secrets of each server at first
  Senders,       \* envelope senders of messages
  Modulus,       \* days after which timestamps repeat: 1024
  validity_days, \* 21
  MaxDay, MaxHops, MaxRotations, MaxFaults     \* bounds

Site == Host \cup Domain

\* The texts of addresses: what follows `SRS0` of another program is opaque.
Plain(user, host) == [kind |-> "plain", user |-> user, host |-> host]
SRS0(opaque, host) == [kind |-> "SRS0", opaque |-> opaque, host |-> host]
SRS1(hash, first, opaque, host) ==
  [kind |-> "SRS1", hash |-> hash, first |-> first, opaque |-> opaque, host |-> host]
Guarded(hash, ts, orig, user) == [hash |-> hash, ts |-> ts, orig |-> orig, user |-> user]

Timestamps == 0..(Modulus - 1)
GuardedOpaque ==
  [hash : [key : Secret, text : Timestamps \X Site \X User],
   ts : Timestamps, orig : Site, user : User]
Opaque    == GuardedOpaque \cup Foreign
PlainAddr == [kind : {"plain"}, user : User, host : Site]
SRS0Addr  == [kind : {"SRS0"}, opaque : Opaque, host : Site]
SRS1Addr  == [kind : {"SRS1"}, hash : [key : Secret, text : Site \X Opaque],
              first : Site, opaque : Opaque, host : Site]
Address   == PlainAddr \cup SRS0Addr \cup SRS1Addr

ASSUME SRSAssumption ==
  /\ Modulus \in Nat \ {0} /\ validity_days \in Nat \ {0}
  /\ MaxDay \in Nat
  /\ Host \cap Domain = {}
  /\ server_name \in [Host -> Domain]
  /\ Lower \in [User -> User] /\ \A u \in User : Lower[Lower[u]] = Lower[u]
  /\ \A o \in Foreign : o \notin GuardedOpaque
  /\ Initial \in [Host -> Seq(Secret) \ {<<>>}]
  /\ \A a \in Senders : a \in PlainAddr \/ (a \in SRS0Addr /\ a.opaque \in Foreign)

\* Nobody has a mailbox at an srs_domain: it is there for rewritten addresses.
ASSUME SendersAssumption == \A a \in Senders : a.host \in Domain

Small(o) == IF o \in Foreign THEN o ELSE [o EXCEPT !.user = Lower[o.user]]

\* An address in lower case, as a mail server may write it.
Folded(a) ==
  IF a.kind = "plain" THEN [a EXCEPT !.user = Lower[a.user]]
  ELSE [a EXCEPT !.opaque = Small(a.opaque)]

VARIABLES
  sender, addr,     \* the envelope sender at first, and the address as it is now
  phase,            \* "forward", "bounce", "delivered" or "lost"
  day,
  secrets,          \* srs_secrets of each server: the current one, then previous ones
  valid_ts_cache,   \* first element of _valid_ts_cache of each reversing connection
  (* history *)
  hops, made, keys, reversed, rotations, faults

vars == <<sender, addr, phase, day, secrets, valid_ts_cache,
          hops, made, keys, reversed, rotations, faults>>

-----------------------------------------------------------------------------
(* srslib.py                                                               *)

generate_ts(d) == d % Modulus

generate_hash(key, text) == [key |-> key, text |-> text]

\* The text of an SRS0 hash and of an SRS1 hash.
Text0Exact(ts, orig, user) == <<ts, orig, user>>     \* seeded fault
Text0(ts, orig, user) == <<ts, orig, Lower[user]>>
Text1(first, opaque)  == <<first, Small(opaque)>>

generate_srs0_address(h, orig, user) ==
  LET ts == generate_ts(day)
  IN  SRS0(Guarded(generate_hash(Head(secrets[h]), Text0(ts, orig, user)), ts, orig, user), h)

generate_srs1_address(h, first, opaque) ==
  SRS1(generate_hash(Head(secrets[h]), Text1(first, opaque)), first, opaque, h)

RewriteHops(h, a) ==     \* seeded fault: the last hop is taken for the first one
  IF a.kind = "plain" THEN generate_srs0_address(h, a.host, a.user)
  ELSE generate_srs1_address(h, a.host, a.opaque)

\* SRS.forward
Rewrite(h, a) ==
  IF a.kind = "SRS1" THEN generate_srs1_address(h, a.first, a.opaque)
  ELSE IF a.kind = "SRS0" THEN generate_srs1_address(h, a.host, a.opaque)
  ELSE generate_srs0_address(h, a.host, a.user)

check_hash(h, hash, text) ==
  \E i \in DOMAIN secrets[h] : hash = generate_hash(secrets[h][i], text)

\* The first element of _valid_ts_cache once check_ts has refreshed it: today.
RefreshedOnce(h) ==     \* seeded fault: the cache is filled once
  IF valid_ts_cache[h] = NoTs THEN generate_ts(day) ELSE valid_ts_cache[h]

Refreshed(h) == generate_ts(day)

check_ts(h, ts) == \E i \in 0..(validity_days - 1) : ts = generate_ts(Refreshed(h) - i)

\* SRS.is_srs_address, strict: an SRS0 address of the guarded scheme, or SRS1.
is_srs_address(a) == a.kind = "SRS1" \/ (a.kind = "SRS0" /\ a.opaque \notin Foreign)

HashHolds(h, a) ==
  IF a.kind = "SRS1" THEN check_hash(h, a.hash, Text1(a.first, a.opaque))
  ELSE check_hash(h, a.opaque.hash, Text0(a.opaque.ts, a.opaque.orig, a.opaque.user))

Original(a) ==
  IF a.kind = "SRS1" THEN SRS0(a.opaque, a.first) ELSE Plain(a.opaque.user, a.opaque.orig)

-----------------------------------------------------------------------------
(* The sender channel                                                      *)

\* is_local_domain: a failed query of either table is logged and passed over.
LocalDomain(h, d, failed) ==
  \/ d \in PrimaryDomain[h] /\ "domain" \notin failed
  \/ d \in AliasDomain[h] /\ "alias_domain" \notin failed

Bypassed(h, d, failed) ==
  \/ d = h \/ d = server_name[h]
  \/ LocalDomain(h, d, failed)
  \/ "srs_exclude_domains" \in failed
  \/ d \in Excluded[h]

\* What may go wrong in one request: a query fails, or the request comes in
\* two segments, and the last fragment is not one that begins with `get `.
Trouble == {{}} \cup IF faults >= MaxFaults THEN {}
                     ELSE {{"domain"}, {"alias_domain"}, {"srs_exclude_domains"}, {"split"}}

\* srs_forward, in the server h that sends the message on.
Forward(h) ==
  /\ phase = "forward" /\ hops < MaxHops
  /\ \E failed \in Trouble :
       /\ faults' = IF failed = {} THEN faults ELSE faults + 1
       /\ IF "split" \in failed \/ Bypassed(h, addr.host, failed)
            THEN UNCHANGED <<addr, made, keys>>
            ELSE /\ addr' = Rewrite(h, addr)
                 /\ made' = IF addr.kind = "plain" THEN day ELSE made
                 /\ keys' = keys \cup {<<h, Head(secrets[h])>>}
  /\ hops' = hops + 1
  /\ UNCHANGED <<sender, phase, day, secrets, valid_ts_cache, reversed, rotations>>

\* The message cannot be delivered: a bounce goes to its envelope sender.
Bounce ==
  /\ phase = "forward" /\ phase' = "bounce"
  /\ addr' \in {addr, Folded(addr)}
  /\ UNCHANGED <<sender, day, secrets, valid_ts_cache, hops, made, keys, reversed, rotations, faults>>

-----------------------------------------------------------------------------
(* The recipient channel                                                   *)

\* srs_reverse succeeds in the server h, be it the one of the address or a relay.
Reverse(h) ==
  /\ phase = "bounce" /\ is_srs_address(addr) /\ HashHolds(h, addr)
  /\ IF addr.kind = "SRS1"
       THEN UNCHANGED valid_ts_cache
       ELSE /\ valid_ts_cache' = [valid_ts_cache EXCEPT ![h] = Refreshed(h)]
            /\ check_ts(h, addr.opaque.ts)
  /\ addr' = Original(addr)
  /\ reversed' = Append(reversed, [kind |-> addr.kind, day |-> day])
  /\ UNCHANGED <<sender, phase, day, secrets, hops, made, keys, rotations, faults>>

\* It replies `500`: a relay sends the bounce on, and the server that the
\* address names has no such mailbox.
Refuse(h) ==
  /\ phase = "bounce"
  /\ \/ faults < MaxFaults /\ faults' = faults + 1 /\ UNCHANGED valid_ts_cache      \* split
     \/ /\ ~(is_srs_address(addr) /\ HashHolds(h, addr))
        /\ UNCHANGED <<valid_ts_cache, faults>>
     \/ /\ addr.kind = "SRS0" /\ is_srs_address(addr) /\ HashHolds(h, addr)
        /\ ~check_ts(h, addr.opaque.ts)
        /\ valid_ts_cache' = [valid_ts_cache EXCEPT ![h] = Refreshed(h)]
        /\ UNCHANGED faults
  /\ phase' = IF addr.host = h THEN "lost" ELSE phase
  /\ UNCHANGED <<sender, addr, day, secrets, hops, made, keys, reversed, rotations>>

\* Other bounces on the connection, and new connections in its place: only on
\* the server whose turn it is, to bound the model.
Others(h) ==
  /\ phase = "bounce" /\ addr.host = h
  /\ valid_ts_cache' \in {[valid_ts_cache EXCEPT ![h] = t] : t \in {NoTs, Refreshed(h)}}
  /\ UNCHANGED <<sender, addr, phase, day, secrets, hops, made, keys, reversed, rotations, faults>>

\* The bounce reaches a server that does not run the daemon.
Deliver ==
  /\ phase = "bounce" /\ addr.host \notin Host /\ phase' = "delivered"
  /\ UNCHANGED <<sender, addr, day, secrets, valid_ts_cache, hops, made, keys, reversed, rotations, faults>>

-----------------------------------------------------------------------------
\* The administrator puts a new secret in front, drops old ones, and restarts
\* the daemon: every connection is new.
Rotate(h) ==
  /\ phase \in {"forward", "bounce"} /\ rotations < MaxRotations
  /\ \E s \in Secret, keep \in 0..Len(secrets[h]) :
       /\ \A g \in Host : \A i \in DOMAIN secrets[g] : secrets[g][i] # s
       /\ \A k \in keys : k[2] # s
       /\ secrets' = [secrets EXCEPT ![h] = <<s>> \o SubSeq(secrets[h], 1, keep)]
  /\ valid_ts_cache' = [valid_ts_cache EXCEPT ![h] = NoTs]
  /\ rotations' = rotations + 1
  /\ UNCHANGED <<sender, addr, phase, day, hops, made, keys, reversed, faults>>

NextDay ==
  /\ phase \in {"forward", "bounce"} /\ day < MaxDay /\ day' = day + 1
  /\ UNCHANGED <<sender, addr, phase, secrets, valid_ts_cache, hops, made, keys, reversed, rotations, faults>>

Init ==
  /\ sender \in Senders /\ addr = sender
  /\ phase = "forward" /\ day = 0 /\ secrets = Initial
  /\ valid_ts_cache = [h \in Host |-> NoTs]
  /\ hops = 0 /\ made = 0 /\ keys = {} /\ reversed = <<>> /\ rotations = 0 /\ faults = 0

Next ==
  \/ \E h \in Host : Forward(h) \/ Reverse(h) \/ Refuse(h) \/ Others(h) \/ Rotate(h)
  \/ Bounce \/ Deliver \/ NextDay

Spec == Init /\ [][Next]_vars

-----------------------------------------------------------------------------
TypeOK ==
  /\ sender \in Address /\ addr \in Address
  /\ phase \in {"forward", "bounce", "delivered", "lost"}
  /\ day \in 0..MaxDay /\ made \in 0..MaxDay
  /\ secrets \in [Host -> Seq(Secret)] /\ \A h \in Host : secrets[h] # <<>>
  /\ valid_ts_cache \in [Host -> Timestamps \cup {NoTs}]

\* Where bounces to an address end up, whoever reverses it.
Home(a) ==
  LET o == a.opaque
      first == IF a.kind = "SRS1" THEN a.first ELSE a.host
  IN  IF a.kind = "plain" THEN a
      ELSE IF o \in Foreign THEN SRS0(o, first) ELSE Plain(o.user, o.orig)

\* A bounce reaches the mailbox that sent the message, up to case, however many
\* servers rewrote the address, relays reversed it or lost a reply, and whatever
\* became of the secrets: no rewriting and no reversal of srslib loses it.
BounceHome ==
  /\ Folded(Home(addr)) = Folded(Home(sender))
  /\ phase = "delivered" => addr = Home(addr)

\* A bounce is lost only because an address it depended on is too old for
\* validity_days, a secret that made one is gone, or a request went wrong.
LossExplained ==
  phase = "lost" =>
    \/ faults > 0
    \/ day - made >= validity_days
    \/ \E k \in keys : \A i \in DOMAIN secrets[k[1]] : secrets[k[1]][i] # k[2]

\* A sender is found again only within validity_days of the first rewriting,
\* give or take the days after which timestamps repeat; on which day a
\* connection filled its cache does not matter.
ExpiredRejected ==
  \A i \in DOMAIN reversed :
    reversed[i].kind = "SRS0" /\ sender.kind = "plain"
      => (reversed[i].day - made) % Modulus < validity_days
=============================================================================
