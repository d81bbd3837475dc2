----------------------------- MODULE EventLoop -----------------------------
(***************************************************************************)
(* The loop in which the one thread of iRedAPD serves every connection:    *)
(* asyncore.loop with poll2, asyncore.dispatcher, asynchat.async_chat and  *)
(* channel.DaemonSocket.  The kernel's part is here as the loop uses it:   *)
(* the queue of connections not yet accepted, the table of file            *)
(* descriptors, and for each connection what either side has sent and the  *)
(* other has not read.  The clients are the mail server's processes, each  *)
(* with at most one request in flight; one of them is the submission       *)
(* service, to which the daemon itself sends the throttle plugin's         *)
(* notifications, and which asks the daemon about that mail.               *)
(***************************************************************************)
EXTENDS Naturals, Sequences, FiniteSets

CONSTANTS
  Client,
  Submission,     \* the client that takes the daemon's own mail
  Fd,             \* file descriptors the process may have, the listener's included
  Backlog,        \* `listen(5)`
  ReplyLen,       \* chunks of a reply
  SendBuffer,     \* chunks the kernel keeps for a peer that does not read
  Listener, None,
  MaxConns, MaxRequests, MaxMails, MaxFaults      \* bounds

ASSUME EventLoopAssumption ==
  /\ Submission \in Client /\ Fd \subseteq Nat /\ Fd # {} /\ IsFiniteSet(Fd)
  /\ {Backlog, ReplyLen, SendBuffer} \subseteq Nat \ {0}
  /\ {MaxConns, MaxRequests, MaxMails, MaxFaults} \subseteq Nat
  /\ Listener \notin Nat /\ None \notin Nat /\ None # Listener

Conn == 1..MaxConns

VARIABLES
  (* the kernel *)
  backlog,     \* connections that wait to be accepted
  inbox,       \* the request the daemon has not read, by connection, or 0
  peer,        \* "open", "fin" or "rst": whether the client has closed its side
  buf,         \* chunks the client has not read, by connection
  (* the process *)
  map,         \* asyncore.socket_map
  fd,          \* self._fileno of the connection's channel, or None
  fifo,        \* producer_fifo of the channel: replies or their unsent ends
  pc, ready,   \* where the loop is; events of this round not yet dispatched
  channel, flags, handled,    \* the one being dispatched, and the request it read
  (* the clients *)
  phase, conn, request, taken,
  asked, made, mails, faults     \* counters for the bounds

kernelVars  == <<backlog, inbox, peer, buf>>
objectVars  == <<map, fd, fifo>>
loopVars    == <<pc, ready, channel, flags, handled>>
clientVars  == <<phase, conn, request, taken>>
countVars   == <<asked, made, mails, faults>>
vars == <<kernelVars, objectVars, loopVars, clientVars, countVars>>

Lowest(S) == CHOOSE f \in S : \A g \in S : f <= g
ListenFd == Lowest(Fd)
Listening == map[ListenFd] = Listener
Free == {f \in Fd : map[f] = None}

ReplyTo(n) == [i \in 1..ReplyLen |-> <<n, i>>]

\* Neither accepted nor waiting to be: the daemon has closed it.
Gone(k) == fd[k] = None /\ \A i \in DOMAIN backlog : backlog[i] # k

-----------------------------------------------------------------------------
(* asyncore and asynchat                                                   *)

\* poll2 registers every channel: for reading always, for writing while replies wait.
WritableNever(k) == FALSE     \* seeded fault: only push() sends
writable(k) == fifo[k] # <<>>

Flags(f) ==
  IF map[f] = Listener THEN {x \in {"in"} : backlog # <<>>}
  ELSE LET k == map[f]
       IN  {x \in {"in"}  : inbox[k] # 0 \/ peer[k] # "open"}
             \cup {x \in {"out"} : writable(k) /\ (Len(buf[k]) < SendBuffer \/ peer[k] # "open")}
             \cup {x \in {"hup"} : peer[k] = "rst"}

Events == {<<f, Flags(f)>> : f \in {g \in Fd : map[g] # None /\ Flags(g) # {}}}

\* `while map: poll_fun(timeout, map)`
Poll ==
  /\ pc = "poll" /\ Events # {}
  /\ pc' = "dispatch" /\ ready' = Events
  /\ UNCHANGED <<kernelVars, objectVars, channel, flags, handled, clientVars, countVars>>

EndRound ==
  /\ pc = "dispatch" /\ ready = {}
  /\ pc' = IF \A f \in Fd : map[f] = None THEN "dead" ELSE "poll"
  /\ UNCHANGED <<kernelVars, objectVars, ready, channel, flags, handled, clientVars, countVars>>

\* close(): del_channel forgets the descriptor, so that a second close() of the same
\* channel does nothing; what it has not sent is lost.
CloseKeepsEntry(k) ==     \* seeded fault: `del map[fd]` is forgotten
  fd' = [fd EXCEPT ![k] = None] /\ fifo' = [fifo EXCEPT ![k] = <<>>] /\ UNCHANGED map

Close(k) ==
  /\ map' = [f \in Fd |-> IF f = fd[k] THEN None ELSE map[f]]
  /\ fd' = [fd EXCEPT ![k] = None]
  /\ fifo' = [fifo EXCEPT ![k] = <<>>]

\* handle_error of the listener: an accept() that returns no connection, which
\* handle_accept cannot unpack, or one that raises, closes it.  The kernel resets
\* the connections that waited.
ListenerError ==
  /\ map' = [map EXCEPT ![ListenFd] = None]
  /\ backlog' = <<>>
  /\ UNCHANGED <<fd, fifo>>

\* DaemonSocket.handle_accept; the new channel gets the lowest free descriptor.
Accept ==
  IF backlog = <<>> \/ Free = {} THEN ListenerError
  ELSE LET f == Lowest(Free)
       IN  /\ map' = [map EXCEPT ![f] = Head(backlog)]
           /\ fd' = [fd EXCEPT ![Head(backlog)] = f]
           /\ backlog' = Tail(backlog)
           /\ UNCHANGED fifo

\* `obj = map.get(fd)`: the events of a round are dispatched one after the other, and
\* one whose channel has gone meanwhile is passed over.
Dispatch ==
  /\ pc = "dispatch"
  /\ \E e \in ready :
       /\ ready' = ready \ {e}
       /\ IF map[e[1]] \in {Listener, None}
            THEN /\ IF map[e[1]] = Listener THEN Accept ELSE UNCHANGED <<backlog, objectVars>>
                 /\ UNCHANGED <<pc, channel, flags>>
            ELSE /\ pc' = "in" /\ channel' = map[e[1]] /\ flags' = e[2]
                 /\ UNCHANGED <<backlog, objectVars>>
  /\ UNCHANGED <<inbox, peer, buf, handled, clientVars, countVars>>

\* The channel is done with its events of this round.
Dispatched == pc' = "dispatch" /\ channel' = 0 /\ flags' = {} /\ handled' = 0

\* handle_read: the request the client has sent, the end of the connection, or an
\* error that counts as its end.
HandleRead ==
  /\ pc = "in"
  /\ IF "in" \notin flags
       THEN pc' = "out" /\ UNCHANGED <<inbox, handled, objectVars>>
     ELSE IF inbox[channel] # 0 /\ peer[channel] # "rst"
       THEN /\ pc' = "busy" /\ handled' = inbox[channel]
            /\ inbox' = [inbox EXCEPT ![channel] = 0]
            /\ UNCHANGED objectVars
     ELSE Close(channel) /\ pc' = "out" /\ UNCHANGED <<inbox, handled>>
  /\ UNCHANGED <<backlog, peer, buf, ready, channel, flags, clientVars, countVars>>

\* initiate_send, for a channel whose producer_fifo is `queue`: as much of the first
\* reply as the kernel takes.  The first send to a client that has closed is answered by
\* a reset, and the next closes the channel.
InitiateSend(k, queue) ==
  LET first == Head(queue)
      space == SendBuffer - Len(buf[k])
      sent == IF Len(first) <= space THEN Len(first) ELSE space
  IN  IF fd[k] = None \/ queue = <<>>
        THEN UNCHANGED <<buf, peer, objectVars>>
      ELSE IF peer[k] = "rst"
        THEN Close(k) /\ UNCHANGED <<buf, peer>>
      ELSE IF peer[k] = "fin"
        THEN /\ peer' = [peer EXCEPT ![k] = "rst"]
             /\ fifo' = [fifo EXCEPT ![k] = Tail(queue)]
             /\ UNCHANGED <<buf, map, fd>>
      ELSE /\ buf' = [buf EXCEPT ![k] = @ \o SubSeq(first, 1, sent)]
           /\ fifo' = [fifo EXCEPT ![k] =
                         IF sent = Len(first) THEN Tail(queue)
                         ELSE <<SubSeq(first, sent + 1, Len(first))>> \o Tail(queue)]
           /\ UNCHANGED <<peer, map, fd>>

\* found_terminator has judged the request and pushes the reply.
Push ==
  /\ pc = "busy"
  /\ pc' = "out" /\ handled' = 0
  /\ InitiateSend(channel, Append(fifo[channel], ReplyTo(handled)))
  /\ UNCHANGED <<backlog, inbox, ready, channel, flags, clientVars, countVars>>

\* What a handler raises ends its connection, and the rest of its events.
HandlerRaises ==
  /\ pc = "busy" /\ faults < MaxFaults /\ faults' = faults + 1
  /\ Close(channel) /\ Dispatched
  /\ UNCHANGED <<kernelVars, ready, clientVars, asked, made, mails>>

\* throttle exceeds a limit and notifies the administrator: utils.sendmail talks to the
\* submission service, and the loop waits for it.
SendMail ==
  /\ pc = "busy" /\ mails < MaxMails /\ mails' = mails + 1
  /\ pc' = "mailing"
  /\ UNCHANGED <<kernelVars, objectVars, ready, channel, flags, handled, clientVars,
                 asked, made, faults>>

MailReturnsAnswered ==     \* seeded fault: it returns only once the mail is accepted
  /\ pc = "mailing" /\ phase[Submission] = "idle" /\ request[Submission] # 0 /\ conn[Submission] # None
  /\ pc' = "busy"
  /\ UNCHANGED <<kernelVars, objectVars, ready, channel, flags, handled, clientVars, countVars>>

MailReturns ==
  /\ pc = "mailing" /\ phase[Submission] = "idle"
  /\ pc' = "busy"
  /\ UNCHANGED <<kernelVars, objectVars, ready, channel, flags, handled, clientVars, countVars>>

HandleWrite ==
  /\ pc = "out"
  /\ pc' = "hup"
  /\ IF "out" \in flags THEN InitiateSend(channel, fifo[channel])
     ELSE UNCHANGED <<buf, peer, objectVars>>
  /\ UNCHANGED <<backlog, inbox, ready, channel, flags, handled, clientVars, countVars>>

HandleHup ==
  /\ pc = "hup" /\ Dispatched
  /\ IF "hup" \in flags THEN Close(channel) ELSE UNCHANGED objectVars
  /\ UNCHANGED <<kernelVars, ready, clientVars, countVars>>

\* The process is killed; the kernel closes what it had open.
Kill ==
  /\ pc # "dead" /\ faults < MaxFaults /\ faults' = faults + 1
  /\ pc' = "dead" /\ ready' = {}
  /\ map' = [f \in Fd |-> None] /\ fd' = [k \in Conn |-> None] /\ backlog' = <<>>
  /\ fifo' = [k \in Conn |-> <<>>]
  /\ channel' = 0 /\ flags' = {} /\ handled' = 0
  /\ UNCHANGED <<inbox, peer, buf, clientVars, asked, made, mails>>

Start ==
  /\ pc = "dead"
  /\ pc' = "poll" /\ map' = [map EXCEPT ![ListenFd] = Listener]
  /\ UNCHANGED <<kernelVars, fd, fifo, ready, channel, flags, handled, clientVars, countVars>>

Daemon ==
  \/ Poll \/ EndRound \/ Dispatch \/ HandleRead \/ Push \/ MailReturns \/ HandleWrite \/ HandleHup

-----------------------------------------------------------------------------
(* The clients (external)                                                  *)

\* The submission service has something to ask only while it takes the daemon's mail.
Busy(c) == c = Submission => pc = "mailing"

Request(c, k) ==
  /\ Busy(c) /\ phase[c] = "idle" /\ asked < MaxRequests
  /\ asked' = asked + 1
  /\ phase' = [phase EXCEPT ![c] = "waiting"]
  /\ request' = [request EXCEPT ![c] = asked + 1]
  /\ taken' = [taken EXCEPT ![c] = <<>>]
  /\ inbox' = [inbox EXCEPT ![k] = asked + 1]

\* It connects when it has something to ask, and keeps the connection for later requests.
Connect(c) ==
  /\ conn[c] = None /\ Listening /\ Len(backlog) < Backlog /\ made < MaxConns
  /\ Request(c, made + 1)
  /\ made' = made + 1
  /\ conn' = [conn EXCEPT ![c] = made + 1]
  /\ backlog' = Append(backlog, made + 1)
  /\ UNCHANGED <<peer, buf, objectVars, loopVars, mails, faults>>

Ask(c) ==
  /\ conn[c] # None /\ Request(c, conn[c])
  /\ UNCHANGED <<backlog, peer, buf, objectVars, loopVars, conn, made, mails, faults>>

\* It reads a chunk, and has its reply with the last.
Take(c) ==
  /\ phase[c] = "waiting" /\ buf[conn[c]] # <<>>
  /\ buf' = [buf EXCEPT ![conn[c]] = Tail(@)]
  /\ taken' = [taken EXCEPT ![c] = Append(@, Head(buf[conn[c]]))]
  /\ phase' = [phase EXCEPT ![c] = IF Len(taken'[c]) = ReplyLen THEN "idle" ELSE @]
  /\ UNCHANGED <<backlog, inbox, peer, objectVars, loopVars, conn, request, countVars>>

\* smtpd_policy_service_timeout: it gives up and closes, unread chunks make that a reset.
Leave(c) ==
  /\ peer' = [peer EXCEPT ![conn[c]] = IF buf[conn[c]] = <<>> THEN "fin" ELSE "rst"]
  /\ conn' = [conn EXCEPT ![c] = None]
  /\ phase' = [phase EXCEPT ![c] = "idle"]
  /\ UNCHANGED <<backlog, inbox, buf, objectVars, loopVars, request, taken, countVars>>

Timeout(c) == phase[c] = "waiting" /\ Leave(c)
Quit(c) == phase[c] = "idle" /\ conn[c] # None /\ Leave(c)

\* The daemon, or the kernel for it, has closed the connection.
SeeClosed(c) ==
  /\ conn[c] # None /\ Gone(conn[c])
  /\ conn' = [conn EXCEPT ![c] = None]
  /\ phase' = [phase EXCEPT ![c] = "idle"]
  /\ UNCHANGED <<kernelVars, objectVars, loopVars, request, taken, countVars>>

\* ECONNABORTED: a client that has closed disappears from the queue.
Abort ==
  /\ faults < MaxFaults /\ faults' = faults + 1
  /\ backlog # <<>> /\ peer[Head(backlog)] # "open"
  /\ backlog' = Tail(backlog)
  /\ UNCHANGED <<inbox, peer, buf, objectVars, loopVars, clientVars, asked, made, mails>>

Clients ==
  \/ \E c \in Client : Connect(c) \/ Ask(c) \/ Take(c) \/ Timeout(c) \/ Quit(c) \/ SeeClosed(c)
  \/ Abort

-----------------------------------------------------------------------------
Init ==
  /\ backlog = <<>> /\ inbox = [k \in Conn |-> 0]
  /\ peer = [k \in Conn |-> "open"] /\ buf = [k \in Conn |-> <<>>]
  /\ map = [f \in Fd |-> IF f = ListenFd THEN Listener ELSE None]
  /\ fd = [k \in Conn |-> None] /\ fifo = [k \in Conn |-> <<>>]
  /\ pc = "poll" /\ ready = {} /\ channel = 0 /\ flags = {} /\ handled = 0
  /\ phase = [c \in Client |-> "idle"] /\ conn = [c \in Client |-> None]
  /\ request = [c \in Client |-> 0] /\ taken = [c \in Client |-> <<>>]
  /\ asked = 0 /\ made = 0 /\ mails = 0 /\ faults = 0

Next == Daemon \/ HandlerRaises \/ SendMail \/ Kill \/ Start \/ Clients

\* The loop runs; the mail server's processes read what arrives and notice a closed
\* connection, and the submission service gives up in the end.  No other client has to.
Fairness ==
  /\ WF_vars(Daemon)
  /\ \A c \in Client : WF_vars(Take(c)) /\ WF_vars(SeeClosed(c))
  /\ WF_vars(Timeout(Submission))

Spec == Init /\ [][Next]_vars /\ Fairness

-----------------------------------------------------------------------------
(* Properties                                                              *)

Chunk == (1..MaxRequests) \X (1..ReplyLen)

\* Each variable has its type; a request waits unread only where a client that has not
\* given up made it.
TypeOK ==
  /\ backlog \in Seq(Conn) /\ Len(backlog) <= Backlog
  /\ inbox \in [Conn -> 0..MaxRequests] /\ peer \in [Conn -> {"open", "fin", "rst"}]
  /\ buf \in [Conn -> Seq(Chunk)] /\ \A k \in Conn : Len(buf[k]) <= SendBuffer
  /\ map \in [Fd -> Conn \cup {Listener, None}] /\ fd \in [Conn -> Fd \cup {None}]
  /\ fifo \in [Conn -> Seq(Seq(Chunk) \ {<<>>})]
  /\ pc \in {"poll", "dispatch", "in", "busy", "mailing", "out", "hup", "dead"}
  /\ ready \subseteq Fd \X SUBSET {"in", "out", "hup"}
  /\ channel \in Conn \cup {0} /\ flags \subseteq {"in", "out", "hup"}
  /\ handled \in 0..MaxRequests
  /\ phase \in [Client -> {"idle", "waiting"}] /\ conn \in [Client -> Conn \cup {None}]
  /\ request \in [Client -> 0..MaxRequests]
  /\ taken \in [Client -> Seq(Chunk)] /\ \A c \in Client : Len(taken[c]) <= ReplyLen
  /\ asked \in 0..MaxRequests /\ made \in 0..MaxConns
  /\ mails \in 0..MaxMails /\ faults \in 0..MaxFaults

\* The map that the loop goes by and the descriptors the channels hold agree, through
\* closing twice and through descriptors that the kernel gives out again: an event is
\* never dispatched to a channel that has gone, and none is forgotten.  Variables
\* always have their types.
ChannelsMapped ==
  /\ TypeOK
  /\ \A k \in Conn : fd[k] # None => map[fd[k]] = k
  /\ \A f \in Fd : map[f] \in Conn => fd[map[f]] = f
  /\ \A f \in Fd : map[f] = Listener => f = ListenFd
  /\ \A i \in DOMAIN backlog : fd[backlog[i]] = None
  /\ pc \in {"in", "busy", "mailing"} => fd[channel] # None

\* The request that a client's last whole reply answers: 0 while it has none, None for
\* chunks that are no reply.
ReplyOf(c) ==
  IF Len(taken[c]) < ReplyLen THEN 0
  ELSE IF taken[c] = ReplyTo(taken[c][1][1]) THEN taken[c][1][1] ELSE None

Service == INSTANCE PolicyService WITH reply <- [c \in Client |-> ReplyOf(c)]

\* Whatever the order of events, partial sends, closed and reused descriptors: a client
\* that waits has the reply to its own request, whole and once, or loses its connection,
\* and in the end one of the two (refinement of PolicyService).
Implements == Service!Spec

\* The loop does not wait for ever for the mail it sends, although the server that takes
\* it asks this loop (utils.sendmail under throttle's notification).
MailEnds == pc = "mailing" ~> pc # "mailing"

\* While the daemon runs it accepts connections: an accept that fails is passed over.
AcceptsWhileAlive == pc # "dead" => Listening
=============================================================================
