-------------------------- MODULE EventLoop_proofs --------------------------
(***************************************************************************)
(* Proofs about EventLoop for any clients, descriptors and bounds: that    *)
(* the map and the channels agree, and that the loop with its clients      *)
(* implements the safety part of PolicyService.  The second half is about  *)
(* a channel of the loop, PolicyChannel, for any messages and any cuts of  *)
(* the stream: one verdict for a request, worked out from its attributes,  *)
(* and a message logged once.                                              *)
(***************************************************************************)
EXTENDS EventLoop, PolicyChannel, TLAPS, SequenceTheorems, FiniteSetTheorems, WellFoundedInduction

-----------------------------------------------------------------------------
(* The operators of the model                                              *)

\* A set of descriptors has a lowest one.
LEMMA LowestIn == ASSUME NEW S \in SUBSET Nat, S # {} PROVE Lowest(S) \in S
<1> DEFINE Below == OpToRel(<, Nat)
<1>1. \E x \in S : \A y \in S : <<y, x>> \notin Below
  <2> HIDE DEF Below
  <2>1. IsWellFoundedOn(Below, Nat)
    BY NatLessThanWellFounded DEF Below
  <2> QED
    BY <2>1, WFMin
<1>2. \A x, y \in Nat : x < y => <<x, y>> \in Below
  BY DEF OpToRel
<1>3. \E x \in S : \A y \in S : x <= y
  <2>1. PICK x \in S : \A y \in S : <<y, x>> \notin Below
    BY <1>1
  <2>2. \A y \in S : ~ (y < x)
    BY <2>1, <1>2
  <2> QED
    BY <2>2
<1> QED
  BY <1>3 DEF Lowest

\* Descriptors and connections are numbers, apart from the values that stand for none and
\* for the listener, and the listener has a descriptor.
LEMMA ConstantFacts ==
  /\ ListenFd \in Fd /\ Fd \subseteq Nat /\ Conn \subseteq Nat \ {0}
  /\ None \notin Conn /\ Listener \notin Conn /\ None \notin Fd /\ None # Listener
  /\ ReplyLen \in Nat \ {0} /\ SendBuffer \in Nat \ {0} /\ Backlog \in Nat \ {0}
  /\ MaxConns \in Nat /\ MaxRequests \in Nat /\ MaxMails \in Nat /\ MaxFaults \in Nat
<1>1. ListenFd \in Fd
  BY LowestIn, EventLoopAssumption DEF ListenFd
<1>2. Conn \subseteq Nat \ {0}
  BY EventLoopAssumption DEF Conn
<1> QED
  BY <1>1, <1>2, EventLoopAssumption

ReplyChunks == Seq(Chunk) \ {<<>>}

\* The reply to a request is some chunks.
LEMMA ReplyToType == ASSUME NEW n \in 1..MaxRequests PROVE ReplyTo(n) \in ReplyChunks /\ Len(ReplyTo(n)) = ReplyLen
<1>1. \A i \in 1..ReplyLen : <<n, i>> \in Chunk
  BY DEF Chunk
<1>2. ReplyTo(n) \in [1..ReplyLen -> Chunk]
  BY <1>1 DEF ReplyTo
<1>3. ReplyTo(n) \in Seq(Chunk) /\ Len(ReplyTo(n)) = ReplyLen
  BY <1>2, ConstantFacts
<1> QED
  BY <1>3, ConstantFacts, EmptySeq DEF ReplyChunks

\* What one send leaves of the replies of a channel.
Rest(queue, sent) ==
  IF sent = Len(Head(queue)) THEN Tail(queue)
  ELSE <<SubSeq(Head(queue), sent + 1, Len(Head(queue)))>> \o Tail(queue)

\* A channel never keeps an empty reply: a send takes one off the queue with its last chunk.
LEMMA RestType ==
  ASSUME NEW queue \in Seq(ReplyChunks), queue # <<>>, NEW sent \in 0..Len(Head(queue))
  PROVE  Rest(queue, sent) \in Seq(ReplyChunks)
<1> DEFINE first == Head(queue)
<1>1. first \in Seq(Chunk) /\ Tail(queue) \in Seq(ReplyChunks) /\ Len(first) \in Nat
  BY HeadTailProperties, LenProperties DEF ReplyChunks
<1>2. CASE sent = Len(first)
  BY <1>1, <1>2 DEF Rest
<1>3. CASE sent # Len(first)
  <2> DEFINE tail == SubSeq(first, sent + 1, Len(first))
  <2>1. sent + 1 \in 1..Len(first) /\ Len(first) - (sent + 1) + 1 > 0
    <3>1. sent \in 0..Len(first)
      BY DEF first
    <3> HIDE DEF first
    <3> QED
      BY <1>1, <1>3, <3>1
  <2> HIDE DEF first
  <2>2. \A i \in (sent + 1)..Len(first) : first[i] \in Chunk
    BY <1>1, <2>1, ElementOfSeq
  <2>3. tail \in Seq(Chunk) /\ Len(tail) = Len(first) - (sent + 1) + 1
    BY <1>1, <2>1, <2>2, SubSeqProperties
  <2>4. tail # <<>>
    <3> HIDE DEF tail
    <3> QED
      BY <2>3, <2>1, <1>1, EmptySeq
  <2>5. <<tail>> \in Seq(ReplyChunks)
    BY <2>3, <2>4 DEF ReplyChunks
  <2>6. <<tail>> \o Tail(queue) \in Seq(ReplyChunks)
    BY <2>5, <1>1, ConcatProperties
  <2> QED
    BY <2>6, <1>3 DEF Rest, first
<1> QED
  BY <1>2, <1>3

\* What a send may do.
LEMMA SendType ==
  ASSUME TypeOK, NEW k \in Conn, NEW queue \in Seq(ReplyChunks), InitiateSend(k, queue)
  PROVE  /\ buf' \in [Conn -> Seq(Chunk)] /\ \A x \in Conn : Len(buf'[x]) <= SendBuffer
         /\ peer' \in [Conn -> {"open", "fin", "rst"}]
         /\ fifo' \in [Conn -> Seq(ReplyChunks)]
         /\ \/ UNCHANGED <<map, fd>>
            \/ /\ fd[k] # None /\ fd' = [fd EXCEPT ![k] = None]
               /\ map' = [f \in Fd |-> IF f = fd[k] THEN None ELSE map[f]]
<1> USE ConstantFacts
<1>0. /\ buf \in [Conn -> Seq(Chunk)] /\ \A x \in Conn : Len(buf[x]) <= SendBuffer
      /\ peer \in [Conn -> {"open", "fin", "rst"}] /\ fifo \in [Conn -> Seq(ReplyChunks)]
  BY DEF TypeOK, ReplyChunks
<1>1. CASE fd[k] = None \/ queue = <<>>
  BY <1>0, <1>1 DEF InitiateSend, objectVars
<1>2. CASE fd[k] # None /\ queue # <<>> /\ peer[k] = "rst"
  <2>1. Close(k) /\ UNCHANGED <<buf, peer>>
    BY <1>2 DEF InitiateSend
  <2>2. <<>> \in Seq(ReplyChunks)
    BY EmptySeq
  <2> QED
    BY <1>0, <1>2, <2>1, <2>2 DEF Close
<1>3. CASE fd[k] # None /\ queue # <<>> /\ peer[k] = "fin"
  <2>1. Tail(queue) \in Seq(ReplyChunks)
    BY <1>3, HeadTailProperties
  <2>2. /\ peer' = [peer EXCEPT ![k] = "rst"] /\ fifo' = [fifo EXCEPT ![k] = Tail(queue)]
        /\ UNCHANGED <<buf, map, fd>>
    BY <1>3 DEF InitiateSend
  <2> QED
    BY <1>0, <2>1, <2>2
<1>4. CASE fd[k] # None /\ queue # <<>> /\ peer[k] \notin {"rst", "fin"}
  <2> DEFINE first == Head(queue)
             space == SendBuffer - Len(buf[k])
             sent == IF Len(first) <= space THEN Len(first) ELSE space
  <2>1. first \in Seq(Chunk) /\ Len(first) \in Nat
    BY <1>4, HeadTailProperties, LenProperties DEF ReplyChunks
  <2>2. buf[k] \in Seq(Chunk) /\ Len(buf[k]) \in Nat /\ space \in Nat
    BY <1>0, LenProperties
  <2>3. sent \in 0..Len(first) /\ sent <= space
    <3> HIDE DEF first, space
    <3> QED
      BY <2>1, <2>2
  <2>4. /\ buf' = [buf EXCEPT ![k] = buf[k] \o SubSeq(first, 1, sent)]
        /\ fifo' = [fifo EXCEPT ![k] = Rest(queue, sent)]
        /\ UNCHANGED <<peer, map, fd>>
    BY <1>4 DEF InitiateSend, Rest
  <2>5. Rest(queue, sent) \in Seq(ReplyChunks)
    BY <2>3, <1>4, RestType
  <2> HIDE DEF first, space, sent
  <2>6. SubSeq(first, 1, sent) \in Seq(Chunk) /\ Len(SubSeq(first, 1, sent)) = sent
    <3>1. \A i \in 1..sent : first[i] \in Chunk
      BY <2>1, <2>3, ElementOfSeq
    <3> QED
      BY <3>1, <2>1, <2>3, SubSeqProperties
  <2>7. buf[k] \o SubSeq(first, 1, sent) \in Seq(Chunk)
        /\ Len(buf[k] \o SubSeq(first, 1, sent)) = Len(buf[k]) + sent
    BY <2>2, <2>6, ConcatProperties
  <2>8. Len(buf[k]) + sent <= SendBuffer
    BY <2>2, <2>3 DEF space
  <2> QED
    BY <1>0, <2>4, <2>5, <2>7, <2>8
<1> QED
  BY <1>0, <1>1, <1>2, <1>3, <1>4

-----------------------------------------------------------------------------
(* Types                                                                   *)

KernelType ==
  /\ backlog \in Seq(Conn) /\ Len(backlog) <= Backlog
  /\ inbox \in [Conn -> 0..MaxRequests] /\ peer \in [Conn -> {"open", "fin", "rst"}]
  /\ buf \in [Conn -> Seq(Chunk)] /\ \A k \in Conn : Len(buf[k]) <= SendBuffer

ObjectType ==
  /\ map \in [Fd -> Conn \cup {Listener, None}] /\ fd \in [Conn -> Fd \cup {None}]
  /\ fifo \in [Conn -> Seq(ReplyChunks)]

LoopType ==
  /\ pc \in {"poll", "dispatch", "in", "busy", "mailing", "out", "hup", "dead"}
  /\ ready \subseteq Fd \X SUBSET {"in", "out", "hup"}
  /\ channel \in Conn \cup {0} /\ flags \subseteq {"in", "out", "hup"}
  /\ handled \in 0..MaxRequests

ClientType ==
  /\ phase \in [Client -> {"idle", "waiting"}] /\ conn \in [Client -> Conn \cup {None}]
  /\ request \in [Client -> 0..MaxRequests]
  /\ taken \in [Client -> Seq(Chunk)] /\ \A c \in Client : Len(taken[c]) <= ReplyLen

CountType ==
  /\ asked \in 0..MaxRequests /\ made \in 0..MaxConns
  /\ mails \in 0..MaxMails /\ faults \in 0..MaxFaults

\* The types, of the kernel, the channels, the loop, the clients and the counters.
LEMMA TypeParts == TypeOK <=> KernelType /\ ObjectType /\ LoopType /\ ClientType /\ CountType
BY DEF TypeOK, KernelType, ObjectType, LoopType, ClientType, CountType, ReplyChunks

\* What a step leaves alone keeps its type.
LEMMA KeptTypes ==
  ASSUME TypeOK
  PROVE  /\ UNCHANGED kernelVars => KernelType'
         /\ UNCHANGED objectVars => ObjectType'
         /\ UNCHANGED loopVars => LoopType'
         /\ UNCHANGED clientVars => ClientType'
         /\ UNCHANGED countVars => CountType'
<1>0. KernelType /\ ObjectType /\ LoopType /\ ClientType /\ CountType
  BY TypeParts
<1>1. UNCHANGED kernelVars => KernelType'
  BY <1>0 DEF kernelVars, KernelType
<1>2. UNCHANGED objectVars => ObjectType'
  BY <1>0 DEF objectVars, ObjectType
<1>3. UNCHANGED loopVars => LoopType'
  BY <1>0 DEF loopVars, LoopType
<1>4. UNCHANGED clientVars => ClientType'
  BY <1>0 DEF clientVars, ClientType
<1>5. UNCHANGED countVars => CountType'
  BY <1>0 DEF countVars, CountType
<1> QED
  BY <1>1, <1>2, <1>3, <1>4, <1>5

\* Closing a channel keeps the types of the channels.
LEMMA CloseType == ASSUME TypeOK, NEW k \in Conn, Close(k) PROVE ObjectType'
<1>1. <<>> \in Seq(ReplyChunks)
  BY EmptySeq
<1> QED
  BY <1>1, TypeParts DEF Close, ObjectType

\* Accepting keeps the types of the queue and the channels, whether it fails or not.
LEMMA AcceptType ==
  ASSUME TypeOK, Accept
  PROVE  backlog' \in Seq(Conn) /\ Len(backlog') <= Backlog /\ ObjectType'
<1> USE ConstantFacts
<1>0. ObjectType /\ backlog \in Seq(Conn) /\ Len(backlog) <= Backlog
  BY TypeParts DEF KernelType
<1>1. CASE backlog = <<>> \/ Free = {}
  <2>1. ListenerError
    BY <1>1 DEF Accept
  <2>2. backlog' = <<>> /\ <<>> \in Seq(Conn) /\ Len(<<>>) = 0
    BY <2>1, EmptySeq DEF ListenerError
  <2> QED
    BY <1>0, <2>1, <2>2 DEF ListenerError, ObjectType
<1>2. CASE backlog # <<>> /\ Free # {}
  <2>1. Lowest(Free) \in Free /\ Free \subseteq Fd
    BY <1>2, LowestIn DEF Free
  <2>2. Head(backlog) \in Conn /\ Tail(backlog) \in Seq(Conn) /\ Len(Tail(backlog)) <= Backlog
    BY <1>0, <1>2, HeadTailProperties, LenProperties
  <2>3. /\ map' = [map EXCEPT ![Lowest(Free)] = Head(backlog)]
        /\ fd' = [fd EXCEPT ![Head(backlog)] = Lowest(Free)]
        /\ backlog' = Tail(backlog) /\ UNCHANGED fifo
    BY <1>2 DEF Accept
  <2> QED
    BY <1>0, <2>1, <2>2, <2>3 DEF ObjectType
<1> QED
  BY <1>1, <1>2

-----------------------------------------------------------------------------
(* The inductive invariant                                                 *)

\* The map and the descriptors agree; only a connection that was made has one.
MapAgrees ==
  /\ \A k \in Conn : fd[k] # None => map[fd[k]] = k /\ k <= made
  /\ \A f \in Fd : map[f] \in Conn => fd[map[f]] = f
  /\ \A f \in Fd : map[f] = Listener => f = ListenFd

\* A connection waits to be accepted at most once, and only before it is accepted.
QueueAgrees ==
  /\ \A i \in 1..Len(backlog) : fd[backlog[i]] = None /\ backlog[i] <= made
  /\ \A i, j \in 1..Len(backlog) : backlog[i] = backlog[j] => i = j

\* The loop is at a channel from its dispatch to its last event, which has a descriptor
\* as long as nothing has closed it, and at a request while a handler judges it.
LoopAt ==
  /\ pc \in {"in", "busy", "mailing", "out", "hup"} <=> channel # 0
  /\ pc \in {"in", "busy", "mailing"} => fd[channel] # None
  /\ pc \in {"busy", "mailing"} <=> handled # 0
  /\ pc = "dead" => \A f \in Fd : map[f] = None

\* A client that waits has a connection and has not read the last chunk.
ClientsAt ==
  /\ \A c \in Client : phase[c] = "waiting" => conn[c] # None /\ Len(taken[c]) < ReplyLen
  /\ \A c \in Client : conn[c] # None => conn[c] <= made
  /\ \A c \in Client : request[c] <= asked

LoopInv == TypeOK /\ MapAgrees /\ QueueAgrees /\ LoopAt /\ ClientsAt

\* The daemon starts with the listener in its map and no connection.
LEMMA LoopInvInit == Init => LoopInv
<1> SUFFICES ASSUME Init PROVE LoopInv
  OBVIOUS
<1> USE ConstantFacts DEF Init
<1>0. <<>> \in Seq(Conn) /\ <<>> \in Seq(Chunk) /\ <<>> \in Seq(ReplyChunks) /\ Len(<<>>) = 0
  BY EmptySeq
<1>1. KernelType
  BY <1>0 DEF KernelType
<1>2. ObjectType
  BY <1>0 DEF ObjectType
<1>3. LoopType
  BY DEF LoopType
<1>4. ClientType
  BY <1>0 DEF ClientType
<1>5. CountType
  BY DEF CountType
<1>6. MapAgrees
  BY DEF MapAgrees
<1>7. QueueAgrees /\ LoopAt /\ ClientsAt
  BY <1>0 DEF QueueAgrees, LoopAt, ClientsAt
<1> QED
  BY <1>1, <1>2, <1>3, <1>4, <1>5, <1>6, <1>7, TypeParts DEF LoopInv

\* What Push queues is a sequence of replies.
LEMMA PushQueue ==
  ASSUME LoopInv, pc = "busy"
  PROVE  /\ channel \in Conn /\ handled \in 1..MaxRequests /\ fd[channel] # None
         /\ Append(fifo[channel], ReplyTo(handled)) \in Seq(ReplyChunks)
<1> USE ConstantFacts
<1>1. channel \in Conn /\ handled \in 1..MaxRequests /\ fd[channel] # None
  BY DEF LoopInv, LoopAt, TypeOK
<1>2. fifo[channel] \in Seq(ReplyChunks) /\ ReplyTo(handled) \in ReplyChunks
  BY <1>1, ReplyToType DEF LoopInv, TypeOK, ReplyChunks
<1> QED
  BY <1>1, <1>2, AppendProperties

\* Every step of the loop, its handlers, the kernel and the clients keeps the types.
LEMMA TypeStep == LoopInv /\ [Next]_vars => TypeOK'
<1> SUFFICES ASSUME LoopInv, [Next]_vars PROVE TypeOK'
  OBVIOUS
<1> USE ConstantFacts
<1>0. TypeOK /\ KernelType /\ ObjectType /\ LoopType /\ ClientType /\ CountType
  BY TypeParts DEF LoopInv
<1> SUFFICES KernelType' /\ ObjectType' /\ LoopType' /\ ClientType' /\ CountType'
  BY DEF TypeOK, KernelType, ObjectType, LoopType, ClientType, CountType, ReplyChunks
<1>1. CASE Poll
  <2>1. Events \subseteq Fd \X SUBSET {"in", "out", "hup"}
    BY DEF Events, Flags
  <2>2. LoopType'
    BY <1>0, <1>1, <2>1 DEF Poll, LoopType
  <2>3. UNCHANGED <<kernelVars, objectVars, clientVars, countVars>>
    BY <1>1 DEF Poll
  <2> QED
    BY <1>0, <2>2, <2>3, KeptTypes
<1>2. CASE EndRound
  <2>1. LoopType'
    BY <1>0, <1>2 DEF EndRound, LoopType
  <2>2. UNCHANGED <<kernelVars, objectVars, clientVars, countVars>>
    BY <1>2 DEF EndRound
  <2> QED
    BY <1>0, <2>1, <2>2, KeptTypes
<1>3. CASE Dispatch
  <2>1. PICK e \in ready :
          /\ ready' = ready \ {e}
          /\ IF map[e[1]] \in {Listener, None}
               THEN /\ IF map[e[1]] = Listener THEN Accept ELSE UNCHANGED <<backlog, objectVars>>
                    /\ UNCHANGED <<pc, channel, flags>>
               ELSE /\ pc' = "in" /\ channel' = map[e[1]] /\ flags' = e[2]
                    /\ UNCHANGED <<backlog, objectVars>>
    BY <1>3 DEF Dispatch
  <2>2. e[1] \in Fd /\ e[2] \subseteq {"in", "out", "hup"} /\ map[e[1]] \in Conn \cup {Listener, None}
    BY <1>0 DEF LoopType, ObjectType
  <2>3. UNCHANGED <<inbox, peer, buf, handled>> /\ UNCHANGED <<clientVars, countVars>>
    BY <1>3 DEF Dispatch
  <2>4. LoopType'
    BY <1>0, <2>1, <2>2, <2>3 DEF LoopType
  <2>5. backlog' \in Seq(Conn) /\ Len(backlog') <= Backlog /\ ObjectType'
    <3>1. CASE map[e[1]] = Listener
      BY <1>0, <2>1, <3>1, AcceptType
    <3>2. CASE map[e[1]] # Listener
      <4>1. UNCHANGED backlog /\ UNCHANGED objectVars
        BY <2>1, <3>2
      <4> QED
        BY <1>0, <4>1, KeptTypes DEF KernelType
    <3> QED
      BY <3>1, <3>2
  <2>6. KernelType'
    BY <1>0, <2>3, <2>5 DEF KernelType
  <2> QED
    BY <1>0, <2>3, <2>4, <2>5, <2>6, KeptTypes
<1>4. CASE HandleRead
  <2>1. channel \in Conn
    BY <1>0, <1>4 DEF HandleRead, LoopInv, LoopAt, LoopType
  <2>2. /\ pc' \in {"out", "busy"} /\ handled' \in {handled, inbox[channel]}
        /\ inbox' \in {inbox, [inbox EXCEPT ![channel] = 0]}
        /\ (UNCHANGED objectVars \/ Close(channel))
    BY <1>4 DEF HandleRead
  <2>3. UNCHANGED <<backlog, peer, buf, ready, channel, flags>> /\ UNCHANGED <<clientVars, countVars>>
    BY <1>4 DEF HandleRead
  <2>4. KernelType'
    BY <1>0, <2>1, <2>2, <2>3 DEF KernelType
  <2>5. LoopType'
    BY <1>0, <2>1, <2>2, <2>3 DEF LoopType, KernelType
  <2>6. ObjectType'
    BY <1>0, <2>1, <2>2, KeptTypes, CloseType
  <2> QED
    BY <1>0, <2>3, <2>4, <2>5, <2>6, KeptTypes
<1>5. CASE Push
  <2>1. channel \in Conn
    BY <1>5, PushQueue DEF Push
  <2>2. Append(fifo[channel], ReplyTo(handled)) \in Seq(ReplyChunks)
    BY <1>5, PushQueue DEF Push
  <2>3. InitiateSend(channel, Append(fifo[channel], ReplyTo(handled)))
    BY <1>5 DEF Push
  <2>4. /\ pc' = "out" /\ handled' = 0
        /\ UNCHANGED <<backlog, inbox, ready, channel, flags>> /\ UNCHANGED <<clientVars, countVars>>
    BY <1>5 DEF Push
  <2>5. KernelType'
    BY <1>0, <2>1, <2>2, <2>3, <2>4, SendType DEF KernelType
  <2>6. ObjectType'
    BY <1>0, <2>1, <2>2, <2>3, SendType DEF ObjectType
  <2>7. LoopType'
    BY <1>0, <2>4 DEF LoopType
  <2> QED
    BY <1>0, <2>4, <2>5, <2>6, <2>7, KeptTypes
<1>6. CASE HandlerRaises
  <2>1. channel \in Conn
    BY <1>0, <1>6 DEF HandlerRaises, LoopInv, LoopAt, LoopType
  <2>2. ObjectType'
    BY <1>0, <1>6, <2>1, CloseType DEF HandlerRaises
  <2>3. LoopType'
    BY <1>0, <1>6 DEF HandlerRaises, Dispatched, LoopType
  <2>4. CountType'
    BY <1>0, <1>6 DEF HandlerRaises, CountType
  <2>5. UNCHANGED <<kernelVars, clientVars>>
    BY <1>6 DEF HandlerRaises
  <2> QED
    BY <1>0, <2>2, <2>3, <2>4, <2>5, KeptTypes
<1>7. CASE SendMail
  <2>1. LoopType'
    BY <1>0, <1>7 DEF SendMail, LoopType
  <2>2. CountType'
    BY <1>0, <1>7 DEF SendMail, CountType
  <2>3. UNCHANGED <<kernelVars, objectVars, clientVars>>
    BY <1>7 DEF SendMail
  <2> QED
    BY <1>0, <2>1, <2>2, <2>3, KeptTypes
<1>8. CASE MailReturns
  <2>1. LoopType'
    BY <1>0, <1>8 DEF MailReturns, LoopType
  <2>2. UNCHANGED <<kernelVars, objectVars, clientVars, countVars>>
    BY <1>8 DEF MailReturns
  <2> QED
    BY <1>0, <2>1, <2>2, KeptTypes
<1>9. CASE HandleWrite
  <2>1. channel \in Conn /\ fifo[channel] \in Seq(ReplyChunks)
    BY <1>0, <1>9 DEF HandleWrite, LoopInv, LoopAt, LoopType, ObjectType
  <2>2. /\ pc' = "hup"
        /\ UNCHANGED <<backlog, inbox, ready, channel, flags, handled>> /\ UNCHANGED <<clientVars, countVars>>
    BY <1>9 DEF HandleWrite
  <2>3. KernelType' /\ ObjectType'
    <3>1. CASE InitiateSend(channel, fifo[channel])
      <4>1. KernelType'
        BY <1>0, <2>1, <2>2, <3>1, SendType DEF KernelType
      <4>2. ObjectType'
        BY <1>0, <2>1, <3>1, SendType DEF ObjectType
      <4> QED
        BY <4>1, <4>2
    <3>2. CASE UNCHANGED <<buf, peer, objectVars>>
      BY <1>0, <2>2, <3>2, KeptTypes DEF kernelVars
    <3> QED
      BY <1>9, <3>1, <3>2 DEF HandleWrite
  <2>4. LoopType'
    BY <1>0, <2>2 DEF LoopType
  <2> QED
    BY <1>0, <2>2, <2>3, <2>4, KeptTypes
<1>10. CASE HandleHup
  <2>1. channel \in Conn
    BY <1>0, <1>10 DEF HandleHup, LoopInv, LoopAt, LoopType
  <2>2. ObjectType'
    BY <1>0, <1>10, <2>1, CloseType, KeptTypes DEF HandleHup
  <2>3. LoopType'
    BY <1>0, <1>10 DEF HandleHup, Dispatched, LoopType
  <2>4. UNCHANGED <<kernelVars, clientVars, countVars>>
    BY <1>10 DEF HandleHup
  <2> QED
    BY <1>0, <2>2, <2>3, <2>4, KeptTypes
<1>11. CASE Kill
  <2>1. <<>> \in Seq(Conn) /\ <<>> \in Seq(ReplyChunks) /\ Len(<<>>) = 0
    BY EmptySeq
  <2>2. KernelType'
    BY <1>0, <1>11, <2>1 DEF Kill, KernelType
  <2>3. ObjectType'
    BY <1>11, <2>1 DEF Kill, ObjectType
  <2>4. LoopType'
    BY <1>11 DEF Kill, LoopType
  <2>5. CountType' /\ UNCHANGED clientVars
    BY <1>0, <1>11 DEF Kill, CountType
  <2> QED
    BY <1>0, <2>2, <2>3, <2>4, <2>5, KeptTypes
<1>12. CASE Start
  <2>1. ObjectType'
    BY <1>0, <1>12 DEF Start, ObjectType
  <2>2. LoopType'
    BY <1>0, <1>12 DEF Start, LoopType
  <2>3. UNCHANGED <<kernelVars, clientVars, countVars>>
    BY <1>12 DEF Start
  <2> QED
    BY <1>0, <2>1, <2>2, <2>3, KeptTypes
<1>13. ASSUME NEW c \in Client, NEW k \in Conn, Request(c, k)
       PROVE  /\ asked' \in 0..MaxRequests
              /\ phase' \in [Client -> {"idle", "waiting"}] /\ request' \in [Client -> 0..MaxRequests]
              /\ taken' \in [Client -> Seq(Chunk)] /\ \A d \in Client : Len(taken'[d]) <= ReplyLen
              /\ inbox' \in [Conn -> 0..MaxRequests]
  <2>1. asked + 1 \in 0..MaxRequests
    BY <1>0, <1>13 DEF Request, CountType
  <2>2. <<>> \in Seq(Chunk) /\ Len(<<>>) = 0
    BY EmptySeq
  <2> QED
    BY <1>0, <1>13, <2>1, <2>2 DEF Request, ClientType, KernelType
<1>14. ASSUME NEW c \in Client, Connect(c) PROVE KernelType' /\ ObjectType' /\ LoopType' /\ ClientType' /\ CountType'
  <2>1. made + 1 \in Conn /\ made + 1 \in 0..MaxConns
    BY <1>0, <1>14 DEF Connect, CountType, Conn
  <2>2. Append(backlog, made + 1) \in Seq(Conn) /\ Len(Append(backlog, made + 1)) <= Backlog
    <3>1. backlog \in Seq(Conn) /\ Len(backlog) \in Nat
      BY <1>0, LenProperties DEF KernelType
    <3> QED
      BY <1>14, <2>1, <3>1, AppendProperties DEF Connect
  <2>3. Request(c, made + 1) /\ conn' = [conn EXCEPT ![c] = made + 1] /\ made' = made + 1
        /\ backlog' = Append(backlog, made + 1)
        /\ UNCHANGED <<peer, buf, mails, faults>> /\ UNCHANGED <<objectVars, loopVars>>
    BY <1>14 DEF Connect
  <2>4. KernelType'
    BY <1>0, <1>13, <2>1, <2>2, <2>3 DEF KernelType
  <2>5. ClientType'
    BY <1>0, <1>13, <2>1, <2>3 DEF ClientType
  <2>6. CountType'
    BY <1>0, <1>13, <2>1, <2>3 DEF CountType
  <2> QED
    BY <1>0, <2>3, <2>4, <2>5, <2>6, KeptTypes
<1>15. ASSUME NEW c \in Client, Ask(c) PROVE KernelType' /\ ObjectType' /\ LoopType' /\ ClientType' /\ CountType'
  <2>1. conn[c] \in Conn
    BY <1>0, <1>15 DEF Ask, ClientType
  <2>2. Request(c, conn[c]) /\ UNCHANGED <<backlog, peer, buf, conn, made, mails, faults>>
        /\ UNCHANGED <<objectVars, loopVars>>
    BY <1>15 DEF Ask
  <2>3. KernelType'
    BY <1>0, <1>13, <2>1, <2>2 DEF KernelType
  <2>4. ClientType'
    BY <1>0, <1>13, <2>1, <2>2 DEF ClientType
  <2>5. CountType'
    BY <1>0, <1>13, <2>1, <2>2 DEF CountType
  <2> QED
    BY <1>0, <2>2, <2>3, <2>4, <2>5, KeptTypes
<1>16. ASSUME NEW c \in Client, Take(c) PROVE KernelType' /\ ObjectType' /\ LoopType' /\ ClientType' /\ CountType'
  <2>1. conn[c] \in Conn /\ Len(taken[c]) < ReplyLen /\ taken[c] \in Seq(Chunk) /\ Len(taken[c]) \in Nat
    BY <1>0, <1>16, LenProperties DEF Take, LoopInv, ClientsAt, ClientType
  <2>2. buf[conn[c]] \in Seq(Chunk) /\ buf[conn[c]] # <<>> /\ Len(buf[conn[c]]) \in Nat
        /\ Len(buf[conn[c]]) <= SendBuffer
    BY <1>0, <1>16, <2>1, LenProperties DEF Take, KernelType
  <2>3. /\ Head(buf[conn[c]]) \in Chunk /\ Tail(buf[conn[c]]) \in Seq(Chunk)
        /\ Len(Tail(buf[conn[c]])) <= SendBuffer
    BY <2>2, HeadTailProperties
  <2>4. /\ Append(taken[c], Head(buf[conn[c]])) \in Seq(Chunk)
        /\ Len(Append(taken[c], Head(buf[conn[c]]))) <= ReplyLen
    BY <2>1, <2>3, AppendProperties
  <2>5. /\ buf' = [buf EXCEPT ![conn[c]] = Tail(buf[conn[c]])]
        /\ taken' = [taken EXCEPT ![c] = Append(taken[c], Head(buf[conn[c]]))]
        /\ phase' \in {phase, [phase EXCEPT ![c] = "idle"]}
        /\ UNCHANGED <<backlog, inbox, peer, conn, request>> /\ UNCHANGED <<objectVars, loopVars, countVars>>
    <3>1. phase[c] = "waiting" => phase = [phase EXCEPT ![c] = phase[c]]
      BY <1>0 DEF ClientType
    <3> QED
      BY <1>0, <1>16, <3>1 DEF Take, ClientType
  <2>6. KernelType'
    BY <1>0, <2>1, <2>3, <2>5 DEF KernelType
  <2>7. ClientType'
    BY <1>0, <2>4, <2>5 DEF ClientType
  <2> QED
    BY <1>0, <2>5, <2>6, <2>7, KeptTypes
<1>17. ASSUME NEW c \in Client, conn[c] # None, Leave(c)
       PROVE  KernelType' /\ ObjectType' /\ LoopType' /\ ClientType' /\ CountType'
  <2>1. /\ conn[c] \in Conn /\ peer' = [peer EXCEPT ![conn[c]] = peer'[conn[c]]]
        /\ peer'[conn[c]] \in {"fin", "rst"}
    BY <1>0, <1>17 DEF Leave, ClientType, KernelType
  <2>2. /\ conn' = [conn EXCEPT ![c] = None] /\ phase' = [phase EXCEPT ![c] = "idle"]
        /\ UNCHANGED <<backlog, inbox, buf, request, taken>> /\ UNCHANGED <<objectVars, loopVars, countVars>>
    BY <1>17 DEF Leave
  <2>3. KernelType'
    BY <1>0, <2>1, <2>2 DEF KernelType
  <2>4. ClientType'
    BY <1>0, <2>2 DEF ClientType
  <2> QED
    BY <1>0, <2>2, <2>3, <2>4, KeptTypes
<1>18. ASSUME NEW c \in Client, Timeout(c) \/ Quit(c) PROVE conn[c] # None /\ Leave(c)
  BY <1>18 DEF Timeout, Quit, LoopInv, ClientsAt
<1>19. ASSUME NEW c \in Client, SeeClosed(c)
       PROVE  KernelType' /\ ObjectType' /\ LoopType' /\ ClientType' /\ CountType'
  <2>1. ClientType'
    BY <1>0, <1>19 DEF SeeClosed, ClientType
  <2>2. UNCHANGED <<kernelVars, objectVars, loopVars, countVars>>
    BY <1>19 DEF SeeClosed
  <2> QED
    BY <1>0, <2>1, <2>2, KeptTypes
<1>20. CASE Abort
  <2>1. Tail(backlog) \in Seq(Conn) /\ Len(Tail(backlog)) <= Backlog
    <3>1. backlog \in Seq(Conn) /\ backlog # <<>> /\ Len(backlog) \in Nat /\ Len(backlog) <= Backlog
      BY <1>0, <1>20, LenProperties DEF Abort, KernelType
    <3> QED
      BY <3>1, HeadTailProperties
  <2>2. KernelType'
    BY <1>0, <1>20, <2>1 DEF Abort, KernelType
  <2>3. CountType'
    BY <1>0, <1>20 DEF Abort, CountType
  <2>4. UNCHANGED <<objectVars, loopVars, clientVars>>
    BY <1>20 DEF Abort
  <2> QED
    BY <1>0, <2>2, <2>3, <2>4, KeptTypes
<1>21. CASE UNCHANGED vars
  BY <1>0, <1>21, KeptTypes DEF vars
<1> QED
  BY <1>1, <1>2, <1>3, <1>4, <1>5, <1>6, <1>7, <1>8, <1>9, <1>10, <1>11, <1>12, <1>14, <1>15,
     <1>16, <1>17, <1>18, <1>19, <1>20, <1>21 DEF Next, Daemon, Clients

\* The channel of a connection is closed, or nothing is done to the map.
ClosesOrKeeps(k) ==
  \/ UNCHANGED <<map, fd>>
  \/ /\ fd' = [fd EXCEPT ![k] = None]
     /\ map' = [f \in Fd |-> IF f = fd[k] THEN None ELSE map[f]]

\* Closing a channel takes out of the map what it takes from the channel, and nothing else.
LEMMA ClosesAgree ==
  ASSUME LoopInv, NEW k \in Conn, ClosesOrKeeps(k), UNCHANGED <<backlog, made>>
  PROVE  MapAgrees' /\ QueueAgrees' /\ (\A f \in Fd : map[f] = None => map'[f] = None)
<1> USE ConstantFacts
<1>0. fd \in [Conn -> Fd \cup {None}] /\ map \in [Fd -> Conn \cup {Listener, None}]
      /\ backlog \in Seq(Conn)
  BY DEF LoopInv, TypeOK
<1>1. CASE UNCHANGED <<map, fd>>
  BY <1>1 DEF LoopInv, MapAgrees, QueueAgrees
<1>2. CASE /\ fd' = [fd EXCEPT ![k] = None]
           /\ map' = [f \in Fd |-> IF f = fd[k] THEN None ELSE map[f]]
  <2>1. MapAgrees
    BY DEF LoopInv
  <2>2. \A j \in Conn : fd'[j] # None => j # k /\ fd'[j] = fd[j] /\ fd[j] # fd[k]
    BY <1>0, <1>2, <2>1 DEF MapAgrees
  <2>3. \A f \in Fd : map'[f] # None => map'[f] = map[f] /\ f # fd[k]
    BY <1>0, <1>2
  <2>4. \A j \in Conn : fd'[j] # None => map'[fd'[j]] = j /\ j <= made'
    BY <1>0, <1>2, <2>1, <2>2 DEF MapAgrees
  <2>5. \A f \in Fd : map'[f] \in Conn => fd'[map'[f]] = f
    BY <1>0, <1>2, <2>1, <2>3 DEF MapAgrees
  <2>6. \A f \in Fd : map'[f] = Listener => f = ListenFd
    BY <2>1, <2>3 DEF MapAgrees
  <2>7. QueueAgrees'
    <3>1. \A i \in 1..Len(backlog) : backlog[i] \in Conn
      BY <1>0, ElementOfSeq
    <3> QED
      BY <1>0, <1>2, <3>1 DEF LoopInv, QueueAgrees
  <2> QED
    BY <1>0, <1>2, <2>4, <2>5, <2>6, <2>7 DEF MapAgrees
<1> QED
  BY <1>1, <1>2 DEF ClosesOrKeeps

\* What a step leaves alone still agrees.
LEMMA KeptAgree ==
  ASSUME LoopInv
  PROVE  /\ UNCHANGED <<map, fd, backlog, made>> => MapAgrees' /\ QueueAgrees'
         /\ UNCHANGED <<map, fd, pc, channel, handled>> => LoopAt'
         /\ UNCHANGED <<phase, conn, request, taken, asked, made>> => ClientsAt'
<1>1. UNCHANGED <<map, fd, backlog, made>> => MapAgrees' /\ QueueAgrees'
  BY DEF LoopInv, MapAgrees, QueueAgrees
<1>2. UNCHANGED <<map, fd, pc, channel, handled>> => LoopAt'
  BY DEF LoopInv, LoopAt
<1>3. UNCHANGED <<phase, conn, request, taken, asked, made>> => ClientsAt'
  BY DEF LoopInv, ClientsAt
<1> QED
  BY <1>1, <1>2, <1>3

\* A listener that accepts gives the head of the queue a descriptor that is free, and one
\* that fails leaves the map.
LEMMA AcceptAgrees ==
  ASSUME LoopInv, Accept, made' = made, map[ListenFd] = Listener
  PROVE  MapAgrees' /\ QueueAgrees'
<1> USE ConstantFacts
<1>0. /\ fd \in [Conn -> Fd \cup {None}] /\ map \in [Fd -> Conn \cup {Listener, None}]
      /\ backlog \in Seq(Conn) /\ MapAgrees /\ QueueAgrees
  BY DEF LoopInv, TypeOK
<1>1. CASE backlog = <<>> \/ Free = {}
  <2>1. map' = [map EXCEPT ![ListenFd] = None] /\ backlog' = <<>> /\ fd' = fd
    BY <1>1 DEF Accept, ListenerError
  <2>2. \A k \in Conn : fd[k] # None => fd[k] # ListenFd
    BY <1>0 DEF MapAgrees
  <2>3. MapAgrees'
    BY <1>0, <2>1, <2>2 DEF MapAgrees
  <2>4. QueueAgrees'
    BY <2>1, EmptySeq DEF QueueAgrees
  <2> QED
    BY <2>3, <2>4
<1>2. CASE backlog # <<>> /\ Free # {}
  <2> DEFINE f == Lowest(Free)
             k == Head(backlog)
  <2>1. f \in Fd /\ map[f] = None
    BY <1>2, LowestIn DEF Free
  <2>2. /\ k \in Conn /\ k = backlog[1] /\ 1 \in 1..Len(backlog)
        /\ Tail(backlog) \in Seq(Conn) /\ Len(Tail(backlog)) = Len(backlog) - 1
        /\ \A i \in 1..Len(Tail(backlog)) : Tail(backlog)[i] = backlog[i + 1]
    <3>1. Len(backlog) \in Nat \ {0}
      BY <1>0, <1>2, EmptySeq
    <3> QED
      BY <1>0, <1>2, <3>1, HeadTailProperties
  <2>3. /\ map' = [map EXCEPT ![f] = k] /\ fd' = [fd EXCEPT ![k] = f] /\ backlog' = Tail(backlog)
    BY <1>2 DEF Accept
  <2>4. fd[k] = None /\ k <= made
    BY <1>0, <2>2 DEF QueueAgrees
  <2> HIDE DEF f, k
  <2>5. \A j \in Conn : j # k /\ fd[j] # None => fd[j] # f
    BY <1>0, <2>1 DEF MapAgrees
  <2>6. \A j \in Conn : fd'[j] # None => map'[fd'[j]] = j /\ j <= made'
    BY <1>0, <2>1, <2>2, <2>3, <2>4, <2>5 DEF MapAgrees
  <2>7. \A g \in Fd : map'[g] \in Conn => fd'[map'[g]] = g
    <3>1. \A g \in Fd \ {f} : map[g] # k
      BY <1>0, <2>2, <2>4 DEF MapAgrees
    <3> QED
      BY <1>0, <2>1, <2>2, <2>3, <3>1 DEF MapAgrees
  <2>8. \A g \in Fd : map'[g] = Listener => g = ListenFd
    BY <1>0, <2>1, <2>2, <2>3 DEF MapAgrees
  <2>9. QueueAgrees'
    <3>1. Len(backlog) \in Nat /\ \A i \in 1..Len(backlog) : backlog[i] \in Conn
      BY <1>0, ElementOfSeq, LenProperties
    <3>2. \A i \in 1..Len(backlog') : i + 1 \in 1..Len(backlog) /\ i + 1 # 1 /\ backlog'[i] = backlog[i + 1]
      BY <2>2, <2>3, <3>1
    <3>3. \A i \in 1..Len(backlog') : backlog'[i] # k /\ backlog'[i] \in Conn
      BY <1>0, <2>2, <3>1, <3>2 DEF QueueAgrees
    <3>4. \A i \in 1..Len(backlog') : fd'[backlog'[i]] = None /\ backlog'[i] <= made'
      BY <1>0, <2>3, <3>2, <3>3 DEF QueueAgrees
    <3>5. \A i, j \in 1..Len(backlog') : backlog'[i] = backlog'[j] => i = j
      BY <1>0, <3>2 DEF QueueAgrees
    <3> QED
      BY <3>4, <3>5 DEF QueueAgrees
  <2> QED
    BY <2>6, <2>7, <2>8, <2>9 DEF MapAgrees
<1> QED
  BY <1>1, <1>2

\* Every step keeps the invariant.
LEMMA LoopInvStep == LoopInv /\ [Next]_vars => LoopInv'
<1> SUFFICES ASSUME LoopInv, [Next]_vars PROVE LoopInv'
  OBVIOUS
<1> USE ConstantFacts
<1>0. TypeOK /\ TypeOK' /\ MapAgrees /\ QueueAgrees /\ LoopAt /\ ClientsAt
  BY TypeStep DEF LoopInv
<1>a. /\ fd \in [Conn -> Fd \cup {None}] /\ map \in [Fd -> Conn \cup {Listener, None}]
      /\ phase \in [Client -> {"idle", "waiting"}] /\ conn \in [Client -> Conn \cup {None}]
      /\ request \in [Client -> 0..MaxRequests] /\ taken \in [Client -> Seq(Chunk)]
      /\ asked \in Nat /\ made \in Nat
  <2>1. asked \in 0..MaxRequests /\ made \in 0..MaxConns
    BY <1>0 DEF TypeOK
  <2>2. asked \in Nat /\ made \in Nat
    BY <2>1
  <2> QED
    BY <1>0, <2>2 DEF TypeOK
<1> SUFFICES MapAgrees' /\ QueueAgrees' /\ LoopAt' /\ ClientsAt'
  BY <1>0 DEF LoopInv
<1>1. CASE Poll \/ EndRound \/ SendMail \/ MailReturns
  <2>1. /\ UNCHANGED <<map, fd, backlog, made>> /\ UNCHANGED <<phase, conn, request, taken, asked, made>>
    BY <1>1 DEF Poll, EndRound, SendMail, MailReturns, kernelVars, objectVars, clientVars, countVars
  <2>2. LoopAt'
    BY <1>0, <1>1 DEF Poll, EndRound, SendMail, MailReturns, LoopAt, objectVars
  <2> QED
    BY <2>1, <2>2, KeptAgree
<1>2. CASE Dispatch
  <2>1. PICK e \in ready :
          IF map[e[1]] \in {Listener, None}
            THEN /\ IF map[e[1]] = Listener THEN Accept ELSE UNCHANGED <<backlog, objectVars>>
                 /\ UNCHANGED <<pc, channel, flags>>
            ELSE /\ pc' = "in" /\ channel' = map[e[1]] /\ flags' = e[2]
                 /\ UNCHANGED <<backlog, objectVars>>
    BY <1>2 DEF Dispatch
  <2>2. e[1] \in Fd /\ map[e[1]] \in Conn \cup {Listener, None}
    BY <1>0 DEF TypeOK
  <2>3. pc = "dispatch" /\ handled' = handled /\ UNCHANGED <<phase, conn, request, taken, asked, made>>
    BY <1>2 DEF Dispatch, clientVars, countVars
  <2>4. ClientsAt'
    BY <2>3, KeptAgree
  <2>5. CASE map[e[1]] = Listener
    <3>1. map[ListenFd] = Listener
      BY <1>0, <2>2, <2>5 DEF MapAgrees
    <3>2. Accept /\ UNCHANGED <<pc, channel, flags>>
      BY <2>1, <2>5
    <3>3. MapAgrees' /\ QueueAgrees'
      BY <2>3, <3>1, <3>2, AcceptAgrees
    <3>4. LoopAt'
      BY <1>0, <2>3, <3>2 DEF LoopAt
    <3> QED
      BY <2>4, <3>3, <3>4
  <2>6. CASE map[e[1]] = None
    <3>1. UNCHANGED <<map, fd, pc, channel, handled>> /\ UNCHANGED <<map, fd, backlog, made>>
      BY <2>1, <2>3, <2>6 DEF objectVars
    <3> QED
      BY <2>4, <3>1, KeptAgree
  <2>7. CASE map[e[1]] \in Conn
    <3>1. pc' = "in" /\ channel' = map[e[1]] /\ UNCHANGED <<map, fd, backlog, made>>
      BY <2>1, <2>3, <2>7 DEF objectVars
    <3>2. fd[map[e[1]]] = e[1]
      BY <1>0, <2>2, <2>7 DEF MapAgrees
    <3>3. LoopAt'
      BY <1>0, <2>2, <2>3, <2>7, <3>1, <3>2 DEF LoopAt
    <3> QED
      BY <2>4, <3>1, <3>3, KeptAgree
  <2> QED
    BY <2>2, <2>5, <2>6, <2>7
<1>3. CASE HandleRead
  <2>1. channel \in Conn /\ fd[channel] # None /\ pc = "in" /\ handled = 0 /\ channel' = channel
    BY <1>0, <1>3 DEF HandleRead, LoopAt, TypeOK
  <2>2. UNCHANGED <<backlog, made>> /\ UNCHANGED <<phase, conn, request, taken, asked, made>>
    BY <1>3 DEF HandleRead, clientVars, countVars
  <2>3. ClosesOrKeeps(channel)
    BY <1>3 DEF HandleRead, Close, ClosesOrKeeps, objectVars
  <2>4. LoopAt'
    <3>1. \/ pc' = "out" /\ handled' = 0
          \/ pc' = "busy" /\ handled' = inbox[channel] /\ inbox[channel] # 0 /\ fd' = fd
      BY <1>3, <2>1 DEF HandleRead, objectVars
    <3> QED
      BY <2>1, <3>1 DEF LoopAt
  <2> QED
    BY <2>1, <2>2, <2>3, <2>4, ClosesAgree, KeptAgree
<1>4. CASE Push
  <2>1. channel \in Conn /\ handled \in 1..MaxRequests /\ channel' = channel
    BY <1>0, <1>4 DEF Push, LoopAt, TypeOK
  <2>2. UNCHANGED <<backlog, made>> /\ UNCHANGED <<phase, conn, request, taken, asked, made>>
    BY <1>4 DEF Push, clientVars, countVars
  <2>3. ClosesOrKeeps(channel)
    BY <1>0, <2>1, <1>4, PushQueue, SendType DEF Push, ClosesOrKeeps
  <2>4. LoopAt'
    BY <1>4, <2>1 DEF Push, LoopAt
  <2> QED
    BY <2>1, <2>2, <2>3, <2>4, ClosesAgree, KeptAgree
<1>5. CASE HandlerRaises
  <2>1. channel \in Conn
    BY <1>0, <1>5 DEF HandlerRaises, LoopAt, TypeOK
  <2>2. UNCHANGED <<backlog, made>> /\ UNCHANGED <<phase, conn, request, taken, asked, made>>
    BY <1>5 DEF HandlerRaises, kernelVars, clientVars
  <2>3. ClosesOrKeeps(channel)
    BY <1>5 DEF HandlerRaises, Close, ClosesOrKeeps
  <2>4. LoopAt'
    BY <1>5 DEF HandlerRaises, Dispatched, LoopAt
  <2> QED
    BY <2>1, <2>2, <2>3, <2>4, ClosesAgree, KeptAgree
<1>6. CASE HandleWrite
  <2>1. channel \in Conn /\ channel' = channel /\ handled' = 0 /\ pc' = "hup"
    BY <1>0, <1>6 DEF HandleWrite, LoopAt, TypeOK
  <2>2. UNCHANGED <<backlog, made>> /\ UNCHANGED <<phase, conn, request, taken, asked, made>>
    BY <1>6 DEF HandleWrite, clientVars, countVars
  <2>3. ClosesOrKeeps(channel)
    <3>1. fifo[channel] \in Seq(ReplyChunks)
      BY <1>0, <2>1 DEF TypeOK, ReplyChunks
    <3> QED
      BY <1>0, <1>6, <2>1, <3>1, SendType DEF HandleWrite, ClosesOrKeeps, objectVars
  <2>4. LoopAt'
    BY <2>1 DEF LoopAt
  <2> QED
    BY <2>1, <2>2, <2>3, <2>4, ClosesAgree, KeptAgree
<1>7. CASE HandleHup
  <2>1. channel \in Conn
    BY <1>0, <1>7 DEF HandleHup, LoopAt, TypeOK
  <2>2. UNCHANGED <<backlog, made>> /\ UNCHANGED <<phase, conn, request, taken, asked, made>>
    BY <1>7 DEF HandleHup, kernelVars, clientVars, countVars
  <2>3. ClosesOrKeeps(channel)
    BY <1>7 DEF HandleHup, Close, ClosesOrKeeps, objectVars
  <2>4. LoopAt'
    BY <1>7 DEF HandleHup, Dispatched, LoopAt
  <2> QED
    BY <2>1, <2>2, <2>3, <2>4, ClosesAgree, KeptAgree
<1>8. CASE Kill
  <2>1. /\ backlog' = <<>> /\ fd' = [k \in Conn |-> None] /\ map' = [f \in Fd |-> None]
        /\ pc' = "dead" /\ channel' = 0 /\ handled' = 0
        /\ UNCHANGED <<phase, conn, request, taken, asked, made>>
    BY <1>8 DEF Kill, clientVars
  <2>2. MapAgrees' /\ QueueAgrees'
    BY <2>1, EmptySeq DEF MapAgrees, QueueAgrees
  <2>3. LoopAt'
    BY <2>1 DEF LoopAt
  <2> QED
    BY <2>1, <2>2, <2>3, KeptAgree
<1>9. CASE Start
  <2>1. /\ pc = "dead" /\ pc' = "poll" /\ map' = [map EXCEPT ![ListenFd] = Listener]
        /\ UNCHANGED <<fd, backlog, channel, handled>>
        /\ UNCHANGED <<phase, conn, request, taken, asked, made>>
    BY <1>9 DEF Start, kernelVars, clientVars, countVars
  <2>2. \A k \in Conn : fd[k] = None
    <3>1. \A f \in Fd : map[f] = None
      BY <1>0, <2>1 DEF LoopAt
    <3>2. ASSUME NEW k \in Conn, fd[k] # None PROVE map[fd[k]] = k /\ fd[k] \in Fd
      BY <1>0, <1>a, <3>2 DEF MapAgrees
    <3>3. \A k \in Conn : k # None
      OBVIOUS
    <3> QED
      BY <3>1, <3>2, <3>3
  <2>3. MapAgrees'
    BY <1>0, <1>a, <2>1, <2>2 DEF LoopAt, MapAgrees
  <2>4. QueueAgrees' /\ LoopAt'
    BY <1>0, <2>1 DEF QueueAgrees, LoopAt
  <2> QED
    BY <2>1, <2>3, <2>4, KeptAgree
<1>10. ASSUME NEW c \in Client, NEW k \in Conn, Request(c, k), UNCHANGED <<loopVars, objectVars>>
       PROVE  /\ LoopAt' /\ asked' = asked + 1
              /\ phase[c] = "idle" /\ phase' = [phase EXCEPT ![c] = "waiting"]
              /\ request' = [request EXCEPT ![c] = asked + 1]
              /\ taken' = [taken EXCEPT ![c] = <<>>] /\ Len(<<>>) < ReplyLen
              /\ \A d \in Client : request'[d] <= asked'
  <2>1. LoopAt'
    BY <1>10, KeptAgree DEF loopVars, objectVars
  <2>2. /\ asked' = asked + 1 /\ phase[c] = "idle" /\ phase' = [phase EXCEPT ![c] = "waiting"]
        /\ request' = [request EXCEPT ![c] = asked + 1] /\ taken' = [taken EXCEPT ![c] = <<>>]
    BY <1>10 DEF Request
  <2>3. Len(<<>>) < ReplyLen
    BY EmptySeq
  <2>4. \A d \in Client : request[d] \in Nat /\ request[d] <= asked /\ asked \in Nat
    BY <1>0, <1>a DEF ClientsAt
  <2>5. \A d \in Client : request'[d] <= asked'
    BY <1>a, <2>2, <2>4
  <2> QED
    BY <2>1, <2>2, <2>3, <2>5
<1>11. ASSUME NEW c \in Client, Connect(c) PROVE MapAgrees' /\ QueueAgrees' /\ LoopAt' /\ ClientsAt'
  <2>1. made \in Nat /\ made + 1 \in Conn /\ made' = made + 1
    BY <1>0, <1>11 DEF Connect, TypeOK, Conn
  <2>2. Request(c, made + 1) /\ conn' = [conn EXCEPT ![c] = made + 1]
        /\ backlog' = Append(backlog, made + 1) /\ UNCHANGED <<loopVars, objectVars>>
    BY <1>11 DEF Connect
  <2>3. UNCHANGED <<map, fd>>
    BY <2>2 DEF objectVars
  <2>4. MapAgrees'
    <3>1. \A k \in Conn : k <= made => k <= made + 1
      BY <1>a
    <3> QED
      BY <1>0, <2>1, <2>3, <3>1 DEF MapAgrees
  <2>5. QueueAgrees'
    <3>1. backlog \in Seq(Conn) /\ Len(backlog) \in Nat
      BY <1>0, LenProperties DEF TypeOK
    <3>2. /\ Len(backlog') = Len(backlog) + 1 /\ backlog'[Len(backlog) + 1] = made + 1
          /\ \A i \in 1..Len(backlog) : backlog'[i] = backlog[i] /\ backlog[i] \in Conn
      BY <2>1, <2>2, <3>1, AppendProperties, ElementOfSeq
    <3>3. fd[made + 1] = None
      BY <1>0, <2>1 DEF MapAgrees
    <3>4. \A k \in Conn : k <= made => k # made + 1 /\ k <= made + 1
      BY <1>a
    <3>5. \A i \in 1..Len(backlog) : backlog'[i] # made + 1 /\ backlog'[i] <= made + 1 /\ fd'[backlog'[i]] = None
      BY <1>0, <2>1, <2>3, <3>2, <3>4 DEF QueueAgrees
    <3> QED
      BY <1>0, <2>1, <2>3, <3>1, <3>2, <3>3, <3>5 DEF QueueAgrees
  <2>6. ClientsAt'
    <3>1. \A d \in Client : phase'[d] = "waiting" => conn'[d] # None /\ Len(taken'[d]) < ReplyLen
      BY <1>0, <1>a, <1>10, <2>1, <2>2 DEF ClientsAt
    <3>2. \A d \in Client : conn'[d] # None => conn'[d] <= made'
      <4>1. \A k \in Conn : k <= made => k <= made + 1
        BY <1>a
      <4>2. \A d \in Client : conn'[d] = IF d = c THEN made + 1 ELSE conn[d]
        BY <1>a, <2>2
      <4>3. \A d \in Client : conn[d] # None => conn[d] \in Conn /\ conn[d] <= made
        BY <1>0, <1>a DEF ClientsAt
      <4>4. made + 1 <= made + 1
        BY <1>a
      <4> QED
        BY <2>1, <4>1, <4>2, <4>3, <4>4
    <3> QED
      BY <1>10, <2>1, <2>2, <3>1, <3>2 DEF ClientsAt
  <2> QED
    BY <1>10, <2>1, <2>2, <2>4, <2>5, <2>6
<1>12. ASSUME NEW c \in Client, Ask(c) PROVE MapAgrees' /\ QueueAgrees' /\ LoopAt' /\ ClientsAt'
  <2>1. conn[c] \in Conn /\ Request(c, conn[c]) /\ UNCHANGED <<conn, made, backlog>>
        /\ UNCHANGED <<loopVars, objectVars>>
    BY <1>0, <1>12 DEF Ask, TypeOK
  <2>2. MapAgrees' /\ QueueAgrees'
    BY <2>1, KeptAgree DEF objectVars
  <2>3. ClientsAt'
    BY <1>0, <1>a, <1>10, <2>1 DEF ClientsAt
  <2> QED
    BY <1>10, <2>1, <2>2, <2>3
<1>13. ASSUME UNCHANGED <<map, fd, backlog, made>>, UNCHANGED <<pc, channel, handled>>, ClientsAt'
       PROVE  MapAgrees' /\ QueueAgrees' /\ LoopAt' /\ ClientsAt'
  BY <1>13, KeptAgree
<1>14. ASSUME NEW c \in Client, Take(c) PROVE MapAgrees' /\ QueueAgrees' /\ LoopAt' /\ ClientsAt'
  <2>1. UNCHANGED <<map, fd, backlog, made>> /\ UNCHANGED <<pc, channel, handled>>
        /\ UNCHANGED <<conn, request, asked, made>>
    BY <1>14 DEF Take, objectVars, loopVars, countVars
  <2>2. /\ phase[c] = "waiting" /\ taken' = [taken EXCEPT ![c] = taken'[c]]
        /\ phase' = [phase EXCEPT ![c] = IF Len(taken'[c]) = ReplyLen THEN "idle" ELSE phase[c]]
    BY <1>0, <1>14 DEF Take, TypeOK
  <2>3. Len(taken'[c]) \in Nat /\ Len(taken'[c]) <= ReplyLen
    BY <1>0, LenProperties DEF TypeOK
  <2>4. ClientsAt'
    BY <1>0, <2>1, <2>2, <2>3 DEF ClientsAt, TypeOK
  <2> QED
    BY <1>13, <2>1, <2>4
<1>15. ASSUME NEW c \in Client, Timeout(c) \/ Quit(c) \/ SeeClosed(c)
       PROVE  MapAgrees' /\ QueueAgrees' /\ LoopAt' /\ ClientsAt'
  <2>1. /\ conn' = [conn EXCEPT ![c] = None] /\ phase' = [phase EXCEPT ![c] = "idle"]
        /\ UNCHANGED <<map, fd, backlog, made>> /\ UNCHANGED <<pc, channel, handled>>
        /\ UNCHANGED <<request, taken, asked, made>>
    BY <1>15 DEF Timeout, Quit, Leave, SeeClosed, kernelVars, objectVars, loopVars, countVars
  <2>2. ClientsAt'
    BY <1>0, <1>a, <2>1 DEF ClientsAt
  <2> QED
    BY <1>13, <2>1, <2>2
<1>16. CASE Abort
  <2>1. /\ backlog # <<>> /\ backlog' = Tail(backlog)
        /\ UNCHANGED <<map, fd, pc, channel, handled>> /\ UNCHANGED <<phase, conn, request, taken, asked, made>>
    BY <1>16 DEF Abort, objectVars, loopVars, clientVars
  <2>2. QueueAgrees'
    <3>1. Len(backlog) \in Nat
      BY <1>0, LenProperties DEF TypeOK
    <3>2. Len(backlog') = Len(backlog) - 1 /\ \A i \in 1..Len(backlog') : backlog'[i] = backlog[i + 1]
      BY <1>0, <2>1, HeadTailProperties DEF TypeOK
    <3>3. \A i \in 1..Len(backlog') : i + 1 \in 1..Len(backlog)
      BY <3>1, <3>2
    <3> QED
      BY <1>0, <2>1, <3>2, <3>3 DEF QueueAgrees
  <2>3. MapAgrees'
    BY <1>0, <2>1 DEF MapAgrees
  <2> QED
    BY <2>1, <2>2, <2>3, KeptAgree
<1>17. CASE UNCHANGED vars
  BY <1>17, KeptAgree DEF vars, kernelVars, objectVars, loopVars, clientVars, countVars
<1> QED
  BY <1>1, <1>2, <1>3, <1>4, <1>5, <1>6, <1>7, <1>8, <1>9, <1>11, <1>12, <1>14, <1>15, <1>16, <1>17
     DEF Next, Daemon, Clients

\* The map, the descriptors of channels, the queue of connections not accepted and the
\* place of the loop agree in every state, whatever is accepted, fails or is closed while
\* the loop is at it (asyncore/__init__.py:105-190, 265-278, 387-401, 456-474).
THEOREM LoopInvariant == Spec => []LoopInv
BY LoopInvInit, LoopInvStep, PTL DEF Spec

\* Every variable of the loop, the kernel and the clients has its type: the queue of
\* connections and the kernel's buffers stay in their bounds, no channel keeps an empty
\* reply, and no client takes more than a reply (asyncore/__init__.py:506-530).
THEOREM TypeCorrect == Spec => []TypeOK
BY LoopInvariant, PTL DEF LoopInv

\* socket_map and the channels agree: an event is dispatched to the channel its descriptor
\* belongs to, and a closed channel is in the map no more, for any number of descriptors,
\* connections and failures (asyncore/__init__.py:171-190, 265-278, 387-401).
THEOREM MapsAgree == Spec => []ChannelsMapped
<1>1. LoopInv => ChannelsMapped
  <2> SUFFICES ASSUME LoopInv PROVE ChannelsMapped
    OBVIOUS
  <2>1. DOMAIN backlog = 1..Len(backlog)
    BY LenProperties DEF LoopInv, TypeOK
  <2> QED
    BY <2>1 DEF LoopInv, MapAgrees, QueueAgrees, LoopAt, ChannelsMapped
<1> QED
  BY <1>1, LoopInvariant, PTL

-----------------------------------------------------------------------------
(* The reply                                                               *)

\* A handler judges what came over the connection.
Judging(k) == handled # 0 /\ channel = k

\* The four stages of a request on a connection k of the client c: there is none, it waits
\* to be read, it is judged, and the reply is on its way: the chunks that c has taken, those
\* that the kernel keeps and those that the channel has not sent are, in this order, the
\* reply, or its beginning once the channel has gone.
Idle(c, k) ==
  phase[c] = "idle" /\ inbox[k] = 0 /\ ~Judging(k) /\ buf[k] = <<>> /\ fifo[k] = <<>>
Unread(c, k) ==
  /\ phase[c] = "waiting" /\ inbox[k] # 0 /\ inbox[k] = request[c] /\ ~Judging(k)
  /\ taken[c] = <<>> /\ buf[k] = <<>> /\ fifo[k] = <<>>
Judged(c, k) ==
  /\ phase[c] = "waiting" /\ inbox[k] = 0 /\ Judging(k) /\ handled = request[c]
  /\ taken[c] = <<>> /\ buf[k] = <<>> /\ fifo[k] = <<>>

Unsent(k) == IF fifo[k] = <<>> THEN 0 ELSE Len(fifo[k][1])
Given(c, k) == Len(taken[c]) + Len(buf[k])
Answered(c, k) ==
  /\ phase[c] = "waiting" /\ inbox[k] = 0 /\ ~Judging(k) /\ Len(fifo[k]) <= 1
  /\ \A i \in 1..Len(taken[c]) : taken[c][i] = <<request[c], i>>
  /\ \A i \in 1..Len(buf[k]) : buf[k][i] = <<request[c], Len(taken[c]) + i>>
  /\ fifo[k] # <<>> => \A i \in 1..Unsent(k) : fifo[k][1][i] = <<request[c], Given(c, k) + i>>
  /\ Given(c, k) + Unsent(k) <= ReplyLen
  /\ fd[k] # None => Given(c, k) + Unsent(k) = ReplyLen

At(c, k) ==
  peer[k] = "open" /\ (Idle(c, k) \/ Unread(c, k) \/ Judged(c, k) \/ Answered(c, k))

\* Each connection has one client, one not accepted has a request unread, and one not
\* made has nothing.
OneClient == \A c, d \in Client : conn[c] # None /\ conn[c] = conn[d] => c = d
QueuedUnread == \A i \in 1..Len(backlog) : inbox[backlog[i]] # 0
NothingYet ==
  \A k \in Conn : k > made => inbox[k] = 0 /\ peer[k] = "open" /\ buf[k] = <<>> /\ fifo[k] = <<>>

ReplyInv ==
  /\ LoopInv /\ OneClient /\ QueuedUnread /\ NothingYet
  /\ \A c \in Client : conn[c] # None => At(c, conn[c])

\* Nothing has been asked or answered at first.
LEMMA ReplyInvInit == Init => ReplyInv
<1> SUFFICES ASSUME Init PROVE ReplyInv
  OBVIOUS
<1>1. \A k \in Conn : inbox[k] = 0 /\ peer[k] = "open" /\ buf[k] = <<>> /\ fifo[k] = <<>>
  BY DEF Init
<1>2. Len(backlog) = 0 /\ \A c \in Client : conn[c] = None
  BY EmptySeq DEF Init
<1> QED
  BY <1>1, <1>2, LoopInvInit DEF ReplyInv, OneClient, QueuedUnread, NothingYet

\* What the client, the kernel and the channel have of a reply can be counted.
LEMMA ReplyTypes ==
  ASSUME LoopInv, NEW c \in Client, NEW k \in Conn
  PROVE  /\ taken[c] \in Seq(Chunk) /\ buf[k] \in Seq(Chunk) /\ fifo[k] \in Seq(ReplyChunks)
         /\ request[c] \in 0..MaxRequests
         /\ Len(taken[c]) \in Nat /\ Len(buf[k]) \in Nat /\ Len(fifo[k]) \in Nat
         /\ Unsent(k) \in Nat /\ Given(c, k) \in Nat
<1>1. /\ taken[c] \in Seq(Chunk) /\ buf[k] \in Seq(Chunk)
      /\ fifo[k] \in Seq(ReplyChunks) /\ request[c] \in 0..MaxRequests
  BY DEF LoopInv, TypeOK, ReplyChunks
<1>2. Len(taken[c]) \in Nat /\ Len(buf[k]) \in Nat /\ Len(fifo[k]) \in Nat
  BY <1>1, LenProperties
<1>3. fifo[k] # <<>> => fifo[k][1] \in Seq(Chunk)
  BY <1>1, EmptySeq, ElementOfSeq DEF ReplyChunks
<1>4. Unsent(k) \in Nat
  BY <1>3, LenProperties DEF Unsent
<1>5. Given(c, k) \in Nat
  <2> DEFINE t == Len(taken[c])
             b == Len(buf[k])
  <2>1. Given(c, k) = t + b
    BY DEF Given
  <2>2. t \in Nat /\ b \in Nat
    BY <1>2
  <2> HIDE DEF t, b
  <2> QED
    BY <2>1, <2>2
<1> QED
  BY <1>1, <1>2, <1>4, <1>5

\* A step that leaves what the client c and its connection k have, or closes the channel,
\* which loses what it has not sent.
Stays(c, k) ==
  /\ inbox'[k] = inbox[k] /\ peer'[k] = peer[k] /\ buf'[k] = buf[k]
  /\ phase'[c] = phase[c] /\ request'[c] = request[c] /\ taken'[c] = taken[c]
  /\ \/ fifo'[k] = fifo[k] /\ (fd'[k] = fd[k] \/ fd'[k] = None \/ inbox[k] # 0)
     \/ fifo'[k] = <<>> /\ fd'[k] = None

\* No handler begins to judge what came over k, and one that has begun either goes on or
\* has raised.
JudgingStays(k) ==
  \/ handled' = handled /\ (handled # 0 => channel' = channel)
  \/ handled = 0 /\ channel' # k
  \/ handled' = 0 /\ (channel = k => fd'[k] = None)

\* Such a step leaves a client at its stage, or takes it from a handler that raised to a
\* reply that was never sent.
LEMMA StaysAt ==
  ASSUME LoopInv, NEW c \in Client, NEW k \in Conn, At(c, k), Stays(c, k), JudgingStays(k)
  PROVE  At(c, k)'
<1>0. Given(c, k) \in Nat /\ Unsent(k) \in Nat
  BY ReplyTypes
<1>1. fifo[k] = <<>> => fifo'[k] = <<>>
  BY DEF Stays
<1>2. Judging(k)' => Judging(k) /\ handled' = handled
  BY DEF Judging, JudgingStays
<1>3. CASE Idle(c, k)
  BY <1>1, <1>2, <1>3 DEF At, Idle, Stays
<1>4. CASE Unread(c, k)
  BY <1>1, <1>2, <1>4 DEF At, Unread, Stays
<1>5. CASE Judged(c, k)
  <2>1. CASE Judging(k)'
    BY <1>1, <1>2, <1>5, <2>1 DEF At, Judged, Stays
  <2>2. CASE ~Judging(k)'
    <3>1. fd'[k] = None
      BY <1>5, <2>2 DEF Judged, Judging, JudgingStays
    <3>2. fifo'[k] = <<>> /\ taken'[c] = <<>> /\ buf'[k] = <<>> /\ Len(<<>>) = 0
      BY <1>1, <1>5, EmptySeq DEF Judged, Stays
    <3>3. Given(c, k)' = 0 /\ Unsent(k)' = 0
      BY <3>2 DEF Given, Unsent
    <3>4. Answered(c, k)'
      <4>1. Len(taken[c])' = 0 /\ Len(buf[k])' = 0 /\ Len(fifo[k])' = 0
        BY <3>2
      <4>2. Given(c, k)' + Unsent(k)' <= ReplyLen
        BY <3>3, ConstantFacts
      <4> QED
        BY <1>5, <2>2, <4>1, <4>2, <3>1, <3>2, <3>3 DEF Answered, Judged, Stays
    <3> QED
      BY <3>4 DEF At, Stays
  <2> QED
    BY <2>1, <2>2
<1>6. CASE Answered(c, k)
  <2>1. Given(c, k)' = Given(c, k)
    BY DEF Given, Stays
  <2>2. CASE fifo'[k] = fifo[k]
    <3>1. Unsent(k)' = Unsent(k)
      BY <2>2 DEF Unsent
    <3>2. fd'[k] # None => fd[k] # None
      BY <1>6, <2>2 DEF Stays, Answered
    <3>3. Answered(c, k)'
      BY <1>2, <1>6, <2>1, <2>2, <3>1, <3>2 DEF Answered, Stays
    <3> QED
      BY <3>3 DEF At, Stays
  <2>3. CASE fifo'[k] = <<>> /\ fd'[k] = None
    <3>1. Unsent(k)' = 0 /\ Len(<<>>) = 0
      BY <2>3, EmptySeq DEF Unsent
    <3>2. Given(c, k)' + Unsent(k)' <= ReplyLen
      <4>1. Given(c, k) + Unsent(k) <= ReplyLen
        BY <1>6 DEF Answered
      <4> QED
        BY <1>0, <2>1, <3>1, <4>1, ConstantFacts
    <3>3. Answered(c, k)'
      BY <1>2, <1>6, <2>3, <3>1, <3>2 DEF Answered, Stays
    <3> QED
      BY <3>3 DEF At, Stays
  <2> QED
    BY <2>2, <2>3 DEF Stays
<1> QED
  BY <1>3, <1>4, <1>5, <1>6 DEF At

\* A send to a client that has not closed moves the first chunks of the reply to the kernel.
LEMMA SendMoves ==
  ASSUME LoopInv, NEW k \in Conn, fd[k] # None, peer[k] = "open",
         NEW queue \in Seq(ReplyChunks), Len(queue) = 1, InitiateSend(k, queue)
  PROVE  /\ peer' = peer /\ fd' = fd
         /\ \A x \in Conn \ {k} : buf'[x] = buf[x] /\ fifo'[x] = fifo[x]
         /\ \E sent \in 0..Len(queue[1]) :
              /\ Len(buf'[k]) = Len(buf[k]) + sent
              /\ \A i \in 1..Len(buf[k]) : buf'[k][i] = buf[k][i]
              /\ \A i \in 1..sent : buf'[k][Len(buf[k]) + i] = queue[1][i]
              /\ Len(fifo'[k]) <= 1
              /\ Unsent(k)' = Len(queue[1]) - sent
              /\ fifo'[k] # <<>> => \A i \in 1..Unsent(k)' : fifo'[k][1][i] = queue[1][sent + i]
<1> DEFINE space == SendBuffer - Len(buf[k])
           sent == IF Len(Head(queue)) <= space THEN Len(Head(queue)) ELSE space
           first == queue[1]
<1>0. /\ buf \in [Conn -> Seq(Chunk)] /\ fifo \in [Conn -> Seq(ReplyChunks)]
      /\ buf[k] \in Seq(Chunk) /\ Len(buf[k]) \in Nat /\ Len(buf[k]) <= SendBuffer
  BY LenProperties DEF LoopInv, TypeOK, ReplyChunks
<1>1. /\ queue # <<>> /\ Head(queue) = first /\ first \in Seq(Chunk) /\ Len(first) \in Nat
      /\ Len(first) # 0
  <2>1. queue # <<>> /\ Head(queue) = first /\ first \in ReplyChunks
    BY EmptySeq, ElementOfSeq
  <2> QED
    BY <2>1, EmptySeq, LenProperties DEF ReplyChunks
<1>2. Tail(queue) = <<>>
  <2>1. Tail(queue) \in Seq(ReplyChunks) /\ Len(Tail(queue)) = Len(queue) - 1
    BY <1>1, HeadTailProperties
  <2>2. Len(Tail(queue)) = 0
    BY <2>1
  <2> QED
    BY <2>1, <2>2, EmptySeq
<1>3. /\ buf' = [buf EXCEPT ![k] = buf[k] \o SubSeq(Head(queue), 1, sent)]
      /\ fifo' = [fifo EXCEPT ![k] = Rest(queue, sent)]
      /\ UNCHANGED <<peer, map, fd>>
  BY <1>1 DEF InitiateSend, Rest
<1>4. sent \in 0..Len(first)
  <2> HIDE DEF first, space
  <2>1. space \in Nat
    BY <1>0, ConstantFacts DEF space
  <2> QED
    BY <1>1, <2>1
<1> HIDE DEF sent, first
<1>5. /\ SubSeq(first, 1, sent) \in Seq(Chunk) /\ Len(SubSeq(first, 1, sent)) = sent
      /\ \A i \in 1..sent : SubSeq(first, 1, sent)[i] = first[i]
  <2>1. \A i \in 1..sent : first[i] \in Chunk
    BY <1>1, <1>4, ElementOfSeq
  <2> QED
    BY <2>1, <1>1, <1>4, SubSeqProperties
<1>6. buf'[k] = buf[k] \o SubSeq(first, 1, sent)
  BY <1>0, <1>1, <1>3
<1>7. /\ Len(buf'[k]) = Len(buf[k]) + sent
      /\ \A i \in 1..Len(buf[k]) : buf'[k][i] = buf[k][i]
      /\ \A i \in 1..sent : buf'[k][Len(buf[k]) + i] = first[i]
  <2>1. \A i \in 1..(Len(buf[k]) + sent) :
          buf'[k][i] = IF i <= Len(buf[k]) THEN buf[k][i] ELSE SubSeq(first, 1, sent)[i - Len(buf[k])]
    BY <1>0, <1>4, <1>5, <1>6, ConcatProperties
  <2>2. Len(buf'[k]) = Len(buf[k]) + sent
    BY <1>0, <1>4, <1>5, <1>6, ConcatProperties
  <2>3. sent \in Nat
    BY <1>1, <1>4
  <2>4. ASSUME NEW i \in 1..Len(buf[k]) PROVE buf'[k][i] = buf[k][i]
    BY <1>0, <2>1, <2>3
  <2>5. ASSUME NEW i \in 1..sent PROVE buf'[k][Len(buf[k]) + i] = first[i]
    <3>1. Len(buf[k]) + i \in 1..(Len(buf[k]) + sent) /\ ~(Len(buf[k]) + i <= Len(buf[k]))
          /\ Len(buf[k]) + i - Len(buf[k]) = i
      BY <1>0, <2>3
    <3> DEFINE x == Len(buf[k]) + i
    <3> HIDE DEF x
    <3>2. buf'[k][x] = SubSeq(first, 1, sent)[x - Len(buf[k])]
      BY <2>1, <3>1 DEF x
    <3> QED
      BY <1>5, <3>1, <3>2 DEF x
  <2> QED
    BY <2>2, <2>4, <2>5
<1>8. fifo'[k] = Rest(queue, sent)
  BY <1>0, <1>3
<1>9. /\ Len(fifo'[k]) <= 1 /\ Unsent(k)' = Len(first) - sent
      /\ fifo'[k] # <<>> => \A i \in 1..Unsent(k)' : fifo'[k][1][i] = first[sent + i]
  <2>1. CASE sent = Len(first)
    <3>1. fifo'[k] = <<>> /\ Len(<<>>) = 0
      BY <1>1, <1>2, <1>8, <2>1, EmptySeq DEF Rest
    <3> QED
      BY <1>1, <2>1, <3>1 DEF Unsent
  <2>2. CASE sent # Len(first)
    <3> DEFINE tail == SubSeq(first, sent + 1, Len(first))
    <3>1. fifo'[k] = <<tail>> \o <<>>
      BY <1>1, <1>2, <1>8, <2>2 DEF Rest
    <3>2. sent \in Nat /\ sent + 1 <= Len(first) /\ Len(first) - (sent + 1) + 1 = Len(first) - sent
      BY <1>1, <1>4, <2>2
    <3>3. \A i \in (sent + 1)..Len(first) : first[i] \in Chunk
      BY <1>1, <3>2, ElementOfSeq
    <3>4. tail \in Seq(Chunk) /\ Len(tail) = Len(first) - sent
          /\ \A i \in 1..Len(first) - (sent + 1) + 1 : tail[i] = first[sent + 1 + i - 1]
      BY <1>1, <3>2, <3>3, SubSeqProperties
    <3>5. \A i \in 1..Len(first) - sent : tail[i] = first[sent + i]
      <4>1. \A i \in Nat : sent + 1 + i - 1 = sent + i
        BY <3>2
      <4> QED
        BY <1>1, <3>2, <3>4, <4>1
    <3> HIDE DEF tail
    <3>6. <<tail>> \o <<>> = <<tail>>
      BY <3>4, ConcatEmptySeq
    <3>7. fifo'[k] = <<tail>> /\ fifo'[k] # <<>> /\ fifo'[k][1] = tail /\ Len(fifo'[k]) = 1
      BY <3>1, <3>6
    <3>8. Unsent(k)' = Len(tail)
      BY <3>7 DEF Unsent
    <3> QED
      BY <3>4, <3>5, <3>7, <3>8
  <2> QED
    BY <2>1, <2>2
<1>10. \A x \in Conn \ {k} : buf'[x] = buf[x] /\ fifo'[x] = fifo[x]
  BY <1>0, <1>3
<1> QED
  BY <1>3, <1>4, <1>7, <1>9, <1>10 DEF first

\* The reply to the client's request is on its way, the chunks q of it not yet sent.
Sending(c, k, q) ==
  /\ \A i \in 1..Len(taken[c]) : taken[c][i] = <<request[c], i>>
  /\ \A i \in 1..Len(buf[k]) : buf[k][i] = <<request[c], Len(taken[c]) + i>>
  /\ \A i \in 1..Len(q) : q[i] = <<request[c], Given(c, k) + i>>
  /\ Given(c, k) + Len(q) = ReplyLen

\* A send of a reply to a client leaves the whole of it on its way.
LEMMA SendAnswers ==
  ASSUME LoopInv, NEW c \in Client, NEW k \in Conn, fd[k] # None, peer[k] = "open",
         NEW queue \in Seq(ReplyChunks), Len(queue) = 1, InitiateSend(k, queue),
         Sending(c, k, queue[1]),
         phase'[c] = "waiting", request'[c] = request[c], taken'[c] = taken[c],
         inbox'[k] = 0, ~Judging(k)'
  PROVE  At(c, k)'
<1> DEFINE q == queue[1]
           t == Len(taken[c])
           b == Len(buf[k])
<1>0. t \in Nat /\ b \in Nat /\ Len(q) \in Nat
  <2>1. queue[1] \in Seq(Chunk)
    BY ElementOfSeq, 1 \in 1..Len(queue) DEF ReplyChunks
  <2> QED
    BY <2>1, ReplyTypes, LenProperties
<1>1. PICK sent \in 0..Len(q) :
        /\ Len(buf'[k]) = b + sent
        /\ \A i \in 1..b : buf'[k][i] = buf[k][i]
        /\ \A i \in 1..sent : buf'[k][b + i] = q[i]
        /\ Len(fifo'[k]) <= 1
        /\ Unsent(k)' = Len(q) - sent
        /\ fifo'[k] # <<>> => \A i \in 1..Unsent(k)' : fifo'[k][1][i] = q[sent + i]
  BY SendMoves
<1>2. peer'[k] = "open"
  BY SendMoves
<1>3. sent \in Nat /\ sent <= Len(q)
  BY <1>0, <1>1
<1>4. Given(c, k) = t + b /\ Given(c, k)' = t + Len(buf'[k])
  BY DEF Given
<1> HIDE DEF q, t, b
<1>5. Given(c, k)' = Given(c, k) + sent
  BY <1>0, <1>1, <1>3, <1>4
<1>6. /\ \A i \in 1..b : buf[k][i] = <<request[c], t + i>>
      /\ \A i \in 1..Len(q) : q[i] = <<request[c], t + b + i>>
      /\ t + b + Len(q) = ReplyLen
  BY <1>4 DEF Sending, q, t, b
<1>7. ASSUME NEW i \in 1..Len(buf'[k]) PROVE buf'[k][i] = <<request[c], t + i>>
  <2>1. CASE i <= b
    <3>1. i \in 1..b
      BY <1>0, <1>1, <2>1
    <3> QED
      BY <1>1, <1>6, <3>1
  <2>2. CASE ~(i <= b)
    <3> DEFINE j == i - b
    <3>1. j \in 1..sent /\ i = b + j
      BY <1>0, <1>1, <1>3, <2>2
    <3>2. j \in 1..Len(q) /\ t + b + j = t + i
      BY <1>0, <1>3, <3>1
    <3> HIDE DEF j
    <3> QED
      BY <1>1, <1>6, <3>1, <3>2
  <2> QED
    BY <2>1, <2>2
<1>8. fifo'[k] # <<>> => \A i \in 1..Unsent(k)' : fifo'[k][1][i] = <<request[c], Given(c, k)' + i>>
  <2> SUFFICES ASSUME fifo'[k] # <<>>, NEW i \in 1..Unsent(k)'
               PROVE  fifo'[k][1][i] = <<request[c], Given(c, k)' + i>>
    OBVIOUS
  <2>1. i \in 1..Len(q) - sent
    BY <1>1
  <2>2. sent + i \in 1..Len(q) /\ t + b + (sent + i) = Given(c, k)' + i
    BY <1>0, <1>3, <1>4, <1>5, <2>1
  <2> QED
    BY <1>1, <1>6, <2>2
<1>9. Given(c, k)' + Unsent(k)' = ReplyLen
  BY <1>0, <1>1, <1>3, <1>4, <1>5, <1>6
<1>10. \A i \in 1..Len(taken[c]) : taken[c][i] = <<request[c], i>>
  BY DEF Sending
<1>11. Given(c, k)' + Unsent(k)' <= ReplyLen
  BY <1>9, ConstantFacts
<1>12. Answered(c, k)'
  BY <1>1, <1>7, <1>8, <1>9, <1>10, <1>11 DEF Answered, t
<1> QED
  BY <1>2, <1>12 DEF At

\* Closing or sending on one connection leaves the others.
LEMMA OthersKept ==
  ASSUME LoopInv, NEW k \in Conn, NEW x \in Conn, x # k
  PROVE  /\ Close(k) => fifo'[x] = fifo[x] /\ fd'[x] = fd[x]
         /\ \A queue : InitiateSend(k, queue) =>
              buf'[x] = buf[x] /\ peer'[x] = peer[x] /\ fifo'[x] = fifo[x] /\ fd'[x] = fd[x]
<1>0. /\ fd \in [Conn -> Fd \cup {None}] /\ fifo \in [Conn -> Seq(ReplyChunks)]
      /\ buf \in [Conn -> Seq(Chunk)] /\ peer \in [Conn -> {"open", "fin", "rst"}]
  BY DEF LoopInv, TypeOK, ReplyChunks
<1>1. Close(k) => fifo'[x] = fifo[x] /\ fd'[x] = fd[x]
  BY <1>0 DEF Close
<1>2. ASSUME NEW queue, InitiateSend(k, queue)
      PROVE  buf'[x] = buf[x] /\ peer'[x] = peer[x] /\ fifo'[x] = fifo[x] /\ fd'[x] = fd[x]
  <2>1. CASE fd[k] = None \/ queue = <<>>
    BY <1>2, <2>1 DEF InitiateSend, objectVars
  <2>2. CASE ~(fd[k] = None \/ queue = <<>>) /\ peer[k] = "rst"
    BY <1>1, <1>2, <2>2 DEF InitiateSend
  <2>3. CASE ~(fd[k] = None \/ queue = <<>>) /\ peer[k] = "fin"
    BY <1>0, <1>2, <2>3 DEF InitiateSend
  <2>4. CASE ~(fd[k] = None \/ queue = <<>>) /\ peer[k] \notin {"fin", "rst"}
    <3>1. /\ buf' = [buf EXCEPT ![k] = buf'[k]] /\ fifo' = [fifo EXCEPT ![k] = fifo'[k]]
          /\ UNCHANGED <<peer, map, fd>>
      BY <1>0, <1>2, <2>4 DEF InitiateSend
    <3> QED
      BY <1>0, <3>1
  <2> QED
    BY <2>1, <2>2, <2>3, <2>4
<1> QED
  BY <1>1, <1>2

\* Every step keeps the three facts about connections.
LEMMA ConnectionsStep == ReplyInv /\ LoopInv' /\ [Next]_vars => OneClient' /\ QueuedUnread' /\ NothingYet'
<1> SUFFICES ASSUME ReplyInv, LoopInv', [Next]_vars PROVE OneClient' /\ QueuedUnread' /\ NothingYet'
  OBVIOUS
<1> USE ConstantFacts
<1>0. OneClient /\ QueuedUnread /\ NothingYet /\ LoopInv
  BY DEF ReplyInv
<1>a. /\ fd \in [Conn -> Fd \cup {None}] /\ fifo \in [Conn -> Seq(ReplyChunks)]
      /\ buf \in [Conn -> Seq(Chunk)] /\ peer \in [Conn -> {"open", "fin", "rst"}]
      /\ inbox \in [Conn -> 0..MaxRequests] /\ backlog \in Seq(Conn)
      /\ conn \in [Client -> Conn \cup {None}] /\ channel \in Conn \cup {0}
  BY <1>0 DEF LoopInv, TypeOK, ReplyChunks
<1>b. \A i \in 1..Len(backlog) : backlog[i] \in Conn /\ fd[backlog[i]] = None /\ backlog[i] <= made
  BY <1>0, <1>a, ElementOfSeq DEF LoopInv, QueueAgrees
<1>c. \A k \in Conn : fd[k] # None => ~(k > made)
  <2>1. made \in 0..MaxConns
    BY <1>0 DEF LoopInv, TypeOK
  <2> QED
    BY <1>0, <2>1 DEF LoopInv, MapAgrees
<1>d. \A c \in Client : conn[c] # None => ~(conn[c] > made)
  <2>1. made \in 0..MaxConns
    BY <1>0 DEF LoopInv, TypeOK
  <2>2. \A k \in Conn : k <= made => ~(k > made)
    BY <2>1
  <2> QED
    BY <1>0, <1>a, <2>2 DEF LoopInv, ClientsAt
<1>e. UNCHANGED conn => OneClient'
  BY <1>0 DEF OneClient
<1>f. UNCHANGED <<backlog, inbox>> => QueuedUnread'
  BY <1>0 DEF QueuedUnread
<1>g. UNCHANGED <<made, inbox, peer, buf, fifo>> => NothingYet'
  BY <1>0 DEF NothingYet
<1>h. backlog # <<>> /\ backlog' = Tail(backlog) /\ inbox' = inbox => QueuedUnread'
  <2> SUFFICES ASSUME backlog # <<>>, backlog' = Tail(backlog), inbox' = inbox PROVE QueuedUnread'
    OBVIOUS
  <2>1. Len(backlog) \in Nat
    BY <1>a, LenProperties
  <2>2. Len(backlog') = Len(backlog) - 1 /\ \A i \in 1..Len(backlog') : backlog'[i] = backlog[i + 1]
    BY <1>a, HeadTailProperties
  <2>3. \A i \in 1..Len(backlog') : i + 1 \in 1..Len(backlog)
    BY <2>1, <2>2
  <2> QED
    BY <1>0, <2>2, <2>3 DEF QueuedUnread
<1>1. CASE Poll \/ EndRound \/ SendMail \/ MailReturns \/ Start \/ UNCHANGED vars
  <2>1. UNCHANGED conn /\ UNCHANGED <<backlog, inbox>> /\ UNCHANGED <<made, inbox, peer, buf, fifo>>
    BY <1>1 DEF Poll, EndRound, SendMail, MailReturns, Start, kernelVars, objectVars, clientVars, countVars, vars
  <2> QED
    BY <2>1, <1>e, <1>f, <1>g
<1>2. CASE Dispatch
  <2>1. UNCHANGED conn /\ UNCHANGED <<made, inbox, peer, buf>>
    BY <1>2 DEF Dispatch, clientVars, countVars
  <2>2. Accept \/ UNCHANGED <<backlog, objectVars>>
    BY <1>2 DEF Dispatch
  <2>3. fifo' = fifo
    BY <2>2 DEF Accept, ListenerError, objectVars
  <2>4. backlog' = backlog \/ backlog' = <<>> \/ (backlog # <<>> /\ backlog' = Tail(backlog))
    BY <2>2 DEF Accept, ListenerError
  <2>5. backlog' = <<>> => QueuedUnread'
    BY EmptySeq DEF QueuedUnread
  <2> QED
    BY <2>1, <2>3, <2>4, <2>5, <1>e, <1>f, <1>g, <1>h
<1>3. CASE HandleRead
  <2>1. channel \in Conn /\ fd[channel] # None
    BY <1>0, <1>3, <1>a DEF HandleRead, LoopInv, LoopAt
  <2>2. /\ inbox' = inbox \/ inbox' = [inbox EXCEPT ![channel] = 0]
        /\ fifo' = fifo \/ fifo' = [fifo EXCEPT ![channel] = <<>>]
    BY <1>3 DEF HandleRead, Close, objectVars
  <2>3. UNCHANGED conn /\ UNCHANGED <<backlog, made, peer, buf>>
    BY <1>3 DEF HandleRead, clientVars, countVars
  <2>4. \A i \in 1..Len(backlog) : inbox'[backlog[i]] = inbox[backlog[i]]
    BY <1>a, <1>b, <2>1, <2>2
  <2>5. QueuedUnread'
    BY <1>0, <2>3, <2>4 DEF QueuedUnread
  <2>6. NothingYet'
    BY <1>0, <1>a, <1>c, <2>1, <2>2, <2>3 DEF NothingYet
  <2> QED
    BY <2>3, <2>5, <2>6, <1>e
<1>4. ASSUME NEW queue, InitiateSend(channel, queue), channel \in Conn, fd[channel] # None, made' = made,
             inbox' = inbox
      PROVE  NothingYet'
  <2>1. \A x \in Conn \ {channel} :
          buf'[x] = buf[x] /\ peer'[x] = peer[x] /\ fifo'[x] = fifo[x]
    BY <1>0, <1>4, OthersKept
  <2> QED
    BY <1>0, <1>4, <1>c, <2>1 DEF NothingYet
<1>5. CASE Push
  <2>1. channel \in Conn /\ fd[channel] # None
    BY <1>0, <1>5, PushQueue DEF Push
  <2>2. UNCHANGED conn /\ UNCHANGED <<backlog, inbox>> /\ made' = made
    BY <1>5 DEF Push, clientVars, countVars
  <2> QED
    BY <1>5, <2>1, <2>2, <1>4, <1>e, <1>f DEF Push
<1>6. CASE HandlerRaises \/ HandleHup
  <2>1. UNCHANGED conn /\ UNCHANGED <<backlog, inbox>> /\ UNCHANGED <<made, peer, buf>>
    BY <1>6 DEF HandlerRaises, HandleHup, kernelVars, clientVars, countVars
  <2>2. fifo' = fifo \/ fifo' = [fifo EXCEPT ![channel] = <<>>]
    BY <1>6 DEF HandlerRaises, HandleHup, Close, objectVars
  <2>3. NothingYet'
    BY <1>0, <1>a, <2>1, <2>2 DEF NothingYet
  <2> QED
    BY <2>1, <2>3, <1>e, <1>f
<1>7. CASE HandleWrite
  <2>1. channel \in Conn
    BY <1>0, <1>7, <1>a DEF HandleWrite, LoopInv, LoopAt
  <2>2. UNCHANGED conn /\ UNCHANGED <<backlog, inbox>> /\ made' = made
    BY <1>7 DEF HandleWrite, clientVars, countVars
  <2>3. \/ UNCHANGED <<buf, peer, fifo>>
        \/ InitiateSend(channel, fifo[channel]) /\ fd[channel] # None
    BY <1>7 DEF HandleWrite, InitiateSend, objectVars
  <2>4. NothingYet'
    BY <2>1, <2>2, <2>3, <1>4, <1>g
  <2> QED
    BY <2>2, <2>4, <1>e, <1>f
<1>8. CASE Kill
  <2>1. UNCHANGED conn /\ UNCHANGED <<inbox, peer, buf, made>> /\ backlog' = <<>>
        /\ fifo' = [k \in Conn |-> <<>>]
    BY <1>8 DEF Kill, clientVars
  <2>2. QueuedUnread'
    BY <2>1, EmptySeq DEF QueuedUnread
  <2>3. NothingYet'
    BY <1>0, <2>1 DEF NothingYet
  <2> QED
    BY <2>1, <2>2, <2>3, <1>e
<1>9. ASSUME NEW c \in Client, Connect(c) PROVE OneClient' /\ QueuedUnread' /\ NothingYet'
  <2>1. /\ made' = made + 1 /\ conn' = [conn EXCEPT ![c] = made + 1]
        /\ backlog' = Append(backlog, made + 1) /\ inbox' = [inbox EXCEPT ![made + 1] = asked + 1]
        /\ UNCHANGED <<peer, buf>> /\ fifo' = fifo
    BY <1>9 DEF Connect, Request, objectVars
  <2>2. made \in Nat /\ made + 1 \in Conn /\ asked + 1 # 0 /\ asked + 1 \in 0..MaxRequests
    <3>1. made \in 0..MaxConns /\ made < MaxConns /\ asked \in 0..MaxRequests /\ asked < MaxRequests
      BY <1>0, <1>9 DEF Connect, Request, LoopInv, TypeOK
    <3> QED
      BY <3>1 DEF Conn
  <2>3. \A d \in Client : conn[d] # made + 1
    BY <1>a, <1>d, <2>2
  <2>4. OneClient'
    BY <1>0, <1>a, <2>1, <2>3 DEF OneClient
  <2>5. QueuedUnread'
    <3>1. Len(backlog) \in Nat
      BY <1>a, LenProperties
    <3>2. /\ Len(backlog') = Len(backlog) + 1 /\ backlog'[Len(backlog) + 1] = made + 1
          /\ \A i \in 1..Len(backlog) : backlog'[i] = backlog[i]
      BY <1>a, <2>1, <2>2, AppendProperties
    <3>3. inbox'[made + 1] # 0 /\ \A x \in Conn : inbox[x] # 0 => inbox'[x] # 0
      BY <1>a, <2>1, <2>2
    <3>4. \A i \in 1..Len(backlog) : inbox'[backlog'[i]] # 0
      BY <1>0, <1>b, <3>2, <3>3 DEF QueuedUnread
    <3> QED
      BY <3>1, <3>2, <3>3, <3>4 DEF QueuedUnread
  <2>6. NothingYet'
    <3>1. \A x \in Conn : x > made + 1 => x > made /\ x # made + 1
      BY <2>2
    <3> QED
      BY <1>0, <1>a, <2>1, <3>1 DEF NothingYet
  <2> QED
    BY <2>4, <2>5, <2>6
<1>10. ASSUME NEW c \in Client, Ask(c) PROVE OneClient' /\ QueuedUnread' /\ NothingYet'
  <2>1. /\ conn[c] \in Conn /\ UNCHANGED <<conn, backlog, made, peer, buf>> /\ fifo' = fifo
        /\ inbox' = [inbox EXCEPT ![conn[c]] = asked + 1]
    BY <1>10, <1>a DEF Ask, Request, objectVars
  <2>2. asked + 1 # 0
    <3>1. asked \in 0..MaxRequests
      BY <1>0 DEF LoopInv, TypeOK
    <3> QED
      BY <3>1
  <2>3. QueuedUnread'
    BY <1>0, <1>a, <1>b, <2>1, <2>2 DEF QueuedUnread
  <2>4. NothingYet'
    BY <1>0, <1>a, <1>d, <2>1 DEF NothingYet
  <2> QED
    BY <1>e, <2>1, <2>3, <2>4
<1>11. ASSUME NEW c \in Client, Take(c) PROVE OneClient' /\ QueuedUnread' /\ NothingYet'
  <2>1. conn[c] \in Conn
    BY <1>0, <1>a, <1>11 DEF Take, LoopInv, ClientsAt
  <2>2. /\ UNCHANGED <<conn, backlog, inbox, made, peer>> /\ fifo' = fifo
        /\ buf' = [buf EXCEPT ![conn[c]] = Tail(buf[conn[c]])]
    BY <1>11 DEF Take, objectVars, countVars
  <2>3. NothingYet'
    BY <1>0, <1>a, <1>d, <2>1, <2>2 DEF NothingYet
  <2> QED
    BY <1>e, <1>f, <2>2, <2>3
<1>12. ASSUME NEW c \in Client, Timeout(c) \/ Quit(c) \/ SeeClosed(c)
       PROVE  OneClient' /\ QueuedUnread' /\ NothingYet'
  <2>1. conn[c] \in Conn
    BY <1>0, <1>a, <1>12 DEF Timeout, Quit, SeeClosed, LoopInv, ClientsAt
  <2>2. /\ conn' = [conn EXCEPT ![c] = None] /\ UNCHANGED <<backlog, inbox, buf, made>> /\ fifo' = fifo
        /\ peer' = peer \/ peer' = [peer EXCEPT ![conn[c]] = IF buf[conn[c]] = <<>> THEN "fin" ELSE "rst"]
    BY <1>12 DEF Timeout, Quit, SeeClosed, Leave, kernelVars, objectVars, countVars
  <2>3. NothingYet'
    BY <1>0, <1>a, <1>d, <2>1, <2>2 DEF NothingYet
  <2>4. OneClient'
    BY <1>0, <1>a, <2>2 DEF OneClient
  <2> QED
    BY <1>f, <2>2, <2>3, <2>4
<1>13. CASE Abort
  <2>1. UNCHANGED conn /\ UNCHANGED <<made, inbox, peer, buf, fifo>>
        /\ backlog # <<>> /\ backlog' = Tail(backlog)
    BY <1>13 DEF Abort, clientVars, objectVars
  <2> QED
    BY <2>1, <1>e, <1>g, <1>h
<1> QED
  BY <1>1, <1>2, <1>3, <1>5, <1>6, <1>7, <1>8, <1>9, <1>10, <1>11, <1>12, <1>13 DEF Next, Daemon, Clients

\* A client that takes a chunk has begun to take the reply to its request, and takes the
\* next chunk of it.
LEMMA TakeMoves ==
  ASSUME ReplyInv, NEW c \in Client, NEW k \in Conn, conn[c] = k, Take(c)
  PROVE  /\ Answered(c, k)
         /\ Len(taken'[c]) = Len(taken[c]) + 1 /\ Len(buf'[k]) = Len(buf[k]) - 1
         /\ \A i \in 1..Len(taken'[c]) : taken'[c][i] = <<request[c], i>>
<1> DEFINE t == Len(taken[c])
           b == Len(buf[k])
           n == request[c]
<1>0. LoopInv /\ conn[c] # None
  BY ConstantFacts DEF ReplyInv
<1>1. /\ phase[c] = "waiting" /\ buf[k] # <<>>
      /\ buf' = [buf EXCEPT ![k] = Tail(buf[k])]
      /\ taken' = [taken EXCEPT ![c] = Append(taken[c], Head(buf[k]))]
  BY DEF Take
<1>2. Answered(c, k)
  BY <1>0, <1>1 DEF ReplyInv, At, Idle, Unread, Judged
<1>3. /\ t \in Nat /\ b \in Nat \ {0}
      /\ taken[c] \in Seq(Chunk) /\ buf[k] \in Seq(Chunk)
  BY <1>0, <1>1, ReplyTypes, EmptySeq
<1>4. /\ Head(buf[k]) = buf[k][1] /\ Len(Tail(buf[k])) = b - 1 /\ Head(buf[k]) \in Chunk
  BY <1>1, <1>3, HeadTailProperties
<1>5. buf'[k] = Tail(buf[k]) /\ taken'[c] = Append(taken[c], buf[k][1])
  BY <1>0, <1>1, <1>4 DEF LoopInv, TypeOK
<1>6. /\ Len(taken'[c]) = t + 1 /\ Len(buf'[k]) = b - 1
      /\ \A i \in 1..t : taken'[c][i] = taken[c][i]
      /\ taken'[c][t + 1] = buf[k][1]
  BY <1>3, <1>4, <1>5, AppendProperties
<1>7. /\ \A i \in 1..t : taken[c][i] = <<n, i>>
      /\ \A i \in 1..b : buf[k][i] = <<n, t + i>>
  BY <1>2 DEF Answered
<1> HIDE DEF t, b, n
<1>8. taken'[c][t + 1] = <<n, t + 1>>
  BY <1>3, <1>6, <1>7
<1>9. ASSUME NEW i \in 1..(t + 1) PROVE taken'[c][i] = <<n, i>>
  <2>1. i = t + 1 \/ i \in 1..t
    BY <1>3
  <2> QED
    BY <1>6, <1>7, <1>8, <2>1
<1> QED
  BY <1>2, <1>6, <1>9 DEF t, b, n

\* What a client is told stays true of it after any step.
LEMMA AtStep == ReplyInv /\ LoopInv' /\ [Next]_vars => \A c \in Client : conn'[c] # None => At(c, conn[c])'
<1> SUFFICES ASSUME ReplyInv, LoopInv', [Next]_vars, NEW c \in Client, conn'[c] # None
             PROVE  At(c, conn[c])'
  OBVIOUS
<1>0. LoopInv /\ OneClient /\ QueuedUnread /\ NothingYet /\ TypeOK /\ LoopAt
  BY DEF ReplyInv, LoopInv
<1>a. /\ fd \in [Conn -> Fd \cup {None}] /\ fifo \in [Conn -> Seq(ReplyChunks)]
      /\ buf \in [Conn -> Seq(Chunk)] /\ peer \in [Conn -> {"open", "fin", "rst"}]
      /\ inbox \in [Conn -> 0..MaxRequests] /\ backlog \in Seq(Conn)
      /\ conn \in [Client -> Conn \cup {None}] /\ channel \in Conn \cup {0}
      /\ phase \in [Client -> {"idle", "waiting"}] /\ request \in [Client -> 0..MaxRequests]
      /\ taken \in [Client -> Seq(Chunk)]
  BY <1>0 DEF TypeOK, ReplyChunks
<1>b. ASSUME conn'[c] = conn[c], Stays(c, conn[c]), JudgingStays(conn[c])
      PROVE  At(c, conn[c])'
  <2>1. PICK k \in Conn : conn[c] = k /\ At(c, k)
    BY <1>a, <1>b DEF ReplyInv
  <2>2. At(c, k)'
    BY <1>0, <1>b, <2>1, StaysAt
  <2> QED
    BY <1>b, <2>1, <2>2
<1>1. CASE Poll \/ EndRound \/ SendMail \/ MailReturns \/ Start \/ UNCHANGED vars
  <2>1. UNCHANGED <<inbox, peer, buf, fifo, fd, phase, request, taken, conn, handled>>
        /\ UNCHANGED channel
    BY <1>1 DEF Poll, EndRound, SendMail, MailReturns, Start, kernelVars, objectVars, clientVars, countVars,
         loopVars, vars
  <2> QED
    BY <2>1, <1>b DEF Stays, JudgingStays
<1>2. CASE Dispatch
  <2>1. UNCHANGED <<inbox, peer, buf, phase, request, taken, conn, handled>> /\ handled = 0
    BY <1>0, <1>2 DEF Dispatch, clientVars, LoopAt
  <2>2. Accept \/ UNCHANGED <<backlog, objectVars>>
    BY <1>2 DEF Dispatch
  <2>3. fifo' = fifo
    BY <2>2 DEF Accept, ListenerError, objectVars
  <2>4. fd' = fd \/ (backlog # <<>> /\ \E f \in Fd : fd' = [fd EXCEPT ![Head(backlog)] = f])
    <3>1. CASE backlog = <<>> \/ Free = {}
      BY <2>2, <3>1 DEF Accept, ListenerError, objectVars
    <3>2. CASE backlog # <<>> /\ Free # {}
      <4>1. Lowest(Free) \in Fd
        BY <3>2, LowestIn, ConstantFacts DEF Free
      <4> QED
        BY <2>2, <3>2, <4>1 DEF Accept, objectVars
    <3> QED
      BY <3>1, <3>2
  <2>5. backlog # <<>> => Head(backlog) = backlog[1] /\ 1 \in 1..Len(backlog)
    BY <1>a, EmptySeq
  <2>6. conn[c] \in Conn
    BY <1>a, <2>1
  <2>7. fd'[conn[c]] = fd[conn[c]] \/ inbox[conn[c]] # 0
    BY <1>0, <1>a, <2>4, <2>5, <2>6 DEF QueuedUnread
  <2>8. Stays(c, conn[c])
    BY <2>1, <2>3, <2>7 DEF Stays
  <2> QED
    BY <1>b, <2>1, <2>8 DEF JudgingStays
<1>3. CASE HandleRead
  <2>1. UNCHANGED <<peer, buf, phase, request, taken, conn, channel>> /\ handled = 0
    BY <1>0, <1>3 DEF HandleRead, clientVars, LoopAt
  <2>2. PICK k \in Conn : conn[c] = k /\ At(c, k)
    BY <1>a, <2>1 DEF ReplyInv
  <2>3. CASE inbox' = inbox /\ handled' = handled /\ (UNCHANGED objectVars \/ Close(channel))
    <3>1. CASE channel = k
      BY <1>a, <1>b, <2>1, <2>2, <2>3, <3>1 DEF Stays, JudgingStays, Close, objectVars
    <3>2. CASE channel # k
      BY <1>a, <1>b, <2>1, <2>2, <2>3, <3>2 DEF Stays, JudgingStays, Close, objectVars
    <3> QED
      BY <3>1, <3>2
  <2>4. CASE /\ handled' = inbox[channel] /\ inbox[channel] # 0
             /\ inbox' = [inbox EXCEPT ![channel] = 0] /\ UNCHANGED objectVars
    <3>1. CASE channel = k
      <4>1. Unread(c, k)
        BY <2>1, <2>2, <2>4, <3>1 DEF At, Idle, Judged, Answered
      <4>2. Judged(c, k)'
        BY <1>a, <2>1, <2>4, <3>1, <4>1 DEF Unread, Judged, Judging, objectVars
      <4> QED
        BY <2>1, <2>2, <4>2 DEF At
    <3>2. CASE channel # k
      <4>1. Stays(c, k) /\ JudgingStays(k)
        BY <1>a, <2>1, <2>4, <3>2 DEF Stays, JudgingStays, objectVars
      <4> QED
        BY <1>b, <2>1, <2>2, <4>1
    <3> QED
      BY <3>1, <3>2
  <2> QED
    BY <1>3, <2>3, <2>4 DEF HandleRead
<1>4. CASE Push
  <2>1. UNCHANGED <<inbox, phase, request, taken, conn, channel>> /\ handled' = 0
        /\ InitiateSend(channel, Append(fifo[channel], ReplyTo(handled)))
    BY <1>4 DEF Push, clientVars
  <2>2. PICK k \in Conn : conn[c] = k /\ At(c, k)
    BY <1>a, <2>1 DEF ReplyInv
  <2>3. /\ channel \in Conn /\ handled \in 1..MaxRequests /\ fd[channel] # None
        /\ Append(fifo[channel], ReplyTo(handled)) \in Seq(ReplyChunks)
    BY <1>0, <1>4, PushQueue DEF Push
  <2>4. CASE channel = k
    <3> DEFINE queue == Append(fifo[k], ReplyTo(handled))
    <3>1. Judged(c, k)
      <4>1. Judging(k)
        BY <2>3, <2>4 DEF Judging
      <4> QED
        BY <2>2, <4>1 DEF At, Idle, Unread, Answered
    <3>2. Len(queue) = 1 /\ queue[1] = ReplyTo(handled)
      <4>1. fifo[k] = <<>>
        BY <3>1 DEF Judged
      <4> QED
        BY <4>1
    <3>3. Len(taken[c]) = 0 /\ Len(buf[k]) = 0 /\ Given(c, k) = 0
      <4>1. taken[c] = <<>> /\ buf[k] = <<>>
        BY <3>1 DEF Judged
      <4> QED
        BY <4>1, EmptySeq DEF Given
    <3>4. Sending(c, k, ReplyTo(handled))
      <4>1. Len(ReplyTo(handled)) = ReplyLen
        BY <2>3, ReplyToType
      <4>2. \A i \in 1..ReplyLen : ReplyTo(handled)[i] = <<request[c], 0 + i>>
        BY <3>1 DEF Judged, ReplyTo
      <4>3. 0 + ReplyLen = ReplyLen
        BY ConstantFacts
      <4> QED
        BY <3>3, <4>1, <4>2, <4>3 DEF Sending
    <3>5. peer[k] = "open" /\ phase'[c] = "waiting" /\ inbox'[k] = 0 /\ ~Judging(k)'
      BY <2>1, <2>2, <3>1 DEF At, Judged, Judging
    <3>6. InitiateSend(k, queue) /\ queue \in Seq(ReplyChunks) /\ fd[k] # None
      BY <2>1, <2>3, <2>4
    <3> HIDE DEF queue
    <3>7. At(c, k)'
      BY <1>0, <2>1, <3>2, <3>4, <3>5, <3>6, SendAnswers
    <3> QED
      BY <2>1, <2>2, <3>7
  <2>5. CASE channel # k
    <3>1. buf'[k] = buf[k] /\ peer'[k] = peer[k] /\ fifo'[k] = fifo[k] /\ fd'[k] = fd[k]
      BY <1>0, <2>1, <2>3, <2>5, OthersKept
    <3>2. Stays(c, k) /\ JudgingStays(k)
      BY <2>1, <2>5, <3>1 DEF Stays, JudgingStays
    <3> QED
      BY <1>b, <2>1, <2>2, <3>2
  <2> QED
    BY <2>4, <2>5
<1>5. CASE HandlerRaises \/ HandleHup
  <2>1. UNCHANGED <<inbox, peer, buf, phase, request, taken, conn>> /\ handled' = 0
    BY <1>5 DEF HandlerRaises, HandleHup, Dispatched, kernelVars, clientVars
  <2>2. Close(channel) \/ (UNCHANGED objectVars /\ handled = 0)
    BY <1>0, <1>5 DEF HandlerRaises, HandleHup, LoopAt
  <2>3. conn[c] \in Conn
    BY <1>a, <2>1
  <2>4. CASE UNCHANGED objectVars /\ handled = 0
    BY <1>b, <2>1, <2>4 DEF Stays, JudgingStays, objectVars
  <2>5. CASE Close(channel) /\ channel = conn[c]
    <3>1. fifo'[conn[c]] = <<>> /\ fd'[conn[c]] = None
      BY <1>a, <2>3, <2>5 DEF Close
    <3> QED
      BY <1>b, <2>1, <3>1 DEF Stays, JudgingStays
  <2>6. CASE Close(channel) /\ channel # conn[c]
    <3>1. fifo'[conn[c]] = fifo[conn[c]] /\ fd'[conn[c]] = fd[conn[c]]
      BY <1>a, <2>3, <2>6 DEF Close
    <3> QED
      BY <1>b, <2>1, <2>6, <3>1 DEF Stays, JudgingStays
  <2> QED
    BY <2>2, <2>4, <2>5, <2>6
<1>6. CASE HandleWrite
  <2>1. UNCHANGED <<inbox, phase, request, taken, conn, channel, handled>> /\ handled = 0
    BY <1>0, <1>6 DEF HandleWrite, clientVars, LoopAt
  <2>2. PICK k \in Conn : conn[c] = k /\ At(c, k)
    BY <1>a, <2>1 DEF ReplyInv
  <2>3. channel \in Conn
    BY <1>0, <1>6, <1>a DEF HandleWrite, LoopAt
  <2>4. JudgingStays(k)
    BY <2>1 DEF JudgingStays
  <2>5. CASE UNCHANGED <<buf, peer, objectVars>>
    BY <1>b, <2>1, <2>2, <2>4, <2>5 DEF Stays, objectVars
  <2>6. CASE /\ InitiateSend(channel, fifo[channel]) /\ channel = k
             /\ fd[k] # None /\ fifo[k] # <<>>
    <3>1. peer[k] = "open" /\ Answered(c, k)
      BY <2>2, <2>6 DEF At, Idle, Unread, Judged
    <3>2. fifo[k] \in Seq(ReplyChunks) /\ Len(fifo[k]) = 1
      <4>1. fifo[k] \in Seq(ReplyChunks) /\ Len(fifo[k]) <= 1
        BY <1>a, <3>1 DEF Answered
      <4> QED
        <5>1. Len(fifo[k]) \in Nat \ {0}
          BY <2>6, <4>1, EmptySeq
        <5> DEFINE l == Len(fifo[k])
        <5>2. l \in Nat \ {0} /\ l <= 1
          BY <4>1, <5>1
        <5> HIDE DEF l
        <5>3. l = 1
          BY <5>2
        <5> QED
          BY <4>1, <5>3 DEF l
    <3>3. Sending(c, k, fifo[k][1])
      <4>1. Unsent(k) = Len(fifo[k][1])
        BY <2>6 DEF Unsent
      <4> QED
        BY <2>6, <3>1, <4>1 DEF Answered, Sending
    <3>4. phase'[c] = "waiting" /\ inbox'[k] = 0 /\ ~Judging(k)'
      BY <2>1, <3>1 DEF Answered, Judging
    <3>5. At(c, k)'
      BY <1>0, <2>1, <2>6, <3>1, <3>2, <3>3, <3>4, SendAnswers
    <3> QED
      BY <2>1, <2>2, <3>5
  <2>7. CASE InitiateSend(channel, fifo[channel]) /\ channel # k
    <3>1. buf'[k] = buf[k] /\ peer'[k] = peer[k] /\ fifo'[k] = fifo[k] /\ fd'[k] = fd[k]
      BY <1>0, <2>3, <2>7, OthersKept
    <3>2. Stays(c, k)
      BY <2>1, <3>1 DEF Stays
    <3> QED
      BY <1>b, <2>1, <2>2, <2>4, <3>2
  <2>8. InitiateSend(channel, fifo[channel]) \/ UNCHANGED <<buf, peer, objectVars>>
    BY <1>6 DEF HandleWrite
  <2>9. InitiateSend(channel, fifo[channel]) /\ (fd[channel] = None \/ fifo[channel] = <<>>)
          => UNCHANGED <<buf, peer, objectVars>>
    BY DEF InitiateSend
  <2> QED
    BY <2>5, <2>6, <2>7, <2>8, <2>9
<1>7. CASE Kill
  <2>1. UNCHANGED <<inbox, peer, buf, phase, request, taken, conn>> /\ handled' = 0
        /\ fifo' = [k \in Conn |-> <<>>] /\ fd' = [k \in Conn |-> None]
    BY <1>7 DEF Kill, clientVars
  <2>2. conn[c] \in Conn
    BY <1>a, <2>1
  <2> QED
    BY <1>b, <2>1, <2>2 DEF Stays, JudgingStays
<1>8. ASSUME NEW d \in Client, d # c,
             conn'[c] = conn[c], phase'[c] = phase[c], request'[c] = request[c], taken'[c] = taken[c],
             inbox'[conn[c]] = inbox[conn[c]], peer'[conn[c]] = peer[conn[c]],
             buf'[conn[c]] = buf[conn[c]], UNCHANGED <<fifo, fd, handled, channel>>
      PROVE  At(c, conn[c])'
  BY <1>b, <1>8 DEF Stays, JudgingStays
<1>9. ASSUME NEW d \in Client, Connect(d) PROVE At(c, conn[c])'
  <2>1. /\ conn' = [conn EXCEPT ![d] = made + 1] /\ inbox' = [inbox EXCEPT ![made + 1] = asked + 1]
        /\ phase' = [phase EXCEPT ![d] = "waiting"] /\ request' = [request EXCEPT ![d] = asked + 1]
        /\ taken' = [taken EXCEPT ![d] = <<>>]
        /\ UNCHANGED <<peer, buf>> /\ UNCHANGED <<fifo, fd, handled, channel>>
    BY <1>9 DEF Connect, Request, objectVars, loopVars
  <2>2. made \in Nat /\ made + 1 \in Conn /\ ~(made + 1 <= made) /\ made + 1 > made
        /\ asked + 1 # 0 /\ asked + 1 \in 0..MaxRequests
    <3>1. made \in 0..MaxConns /\ made < MaxConns /\ asked \in 0..MaxRequests /\ asked < MaxRequests
      BY <1>0, <1>9 DEF Connect, Request, TypeOK
    <3> QED
      BY <3>1, ConstantFacts DEF Conn
  <2>3. CASE d = c
    <3>0. PICK k \in Conn : k = made + 1
      BY <2>2
    <3>1. inbox[k] = 0 /\ peer[k] = "open" /\ buf[k] = <<>> /\ fifo[k] = <<>>
      BY <1>0, <2>2, <3>0 DEF NothingYet
    <3>2. fd[k] = None
      BY <1>0, <2>2, <3>0 DEF LoopInv, MapAgrees
    <3>3. ~Judging(k)
      BY <1>0, <3>2 DEF LoopAt, Judging
    <3>4. conn'[c] = k /\ inbox'[k] = asked + 1 /\ phase'[c] = "waiting" /\ request'[c] = asked + 1
          /\ taken'[c] = <<>>
      BY <1>a, <2>1, <2>2, <2>3, <3>0
    <3>5. Unread(c, k)'
      BY <2>1, <2>2, <3>1, <3>3, <3>4 DEF Unread, Judging
    <3>6. peer'[k] = "open"
      BY <2>1, <3>1
    <3> QED
      BY <3>4, <3>5, <3>6 DEF At
  <2>4. CASE d # c
    <3>1. conn'[c] = conn[c] /\ phase'[c] = phase[c] /\ request'[c] = request[c] /\ taken'[c] = taken[c]
      BY <1>a, <2>1, <2>4
    <3>2. conn[c] # made + 1 /\ conn[c] \in Conn
      BY <1>0, <1>a, <2>2, <3>1 DEF LoopInv, ClientsAt
    <3>3. inbox'[conn[c]] = inbox[conn[c]]
      BY <1>a, <2>1, <2>2, <3>2
    <3> QED
      BY <1>8, <2>1, <2>4, <3>1, <3>3
  <2> QED
    BY <2>3, <2>4
<1>10. ASSUME NEW d \in Client, Ask(d) PROVE At(c, conn[c])'
  <2>1. /\ conn' = conn /\ inbox' = [inbox EXCEPT ![conn[d]] = asked + 1]
        /\ phase[d] = "idle"
        /\ phase' = [phase EXCEPT ![d] = "waiting"] /\ request' = [request EXCEPT ![d] = asked + 1]
        /\ taken' = [taken EXCEPT ![d] = <<>>]
        /\ UNCHANGED <<peer, buf>> /\ UNCHANGED <<fifo, fd, handled, channel>> /\ conn[d] \in Conn
    BY <1>10, <1>a DEF Ask, Request, objectVars, loopVars
  <2>2. asked + 1 # 0
    <3>1. asked \in 0..MaxRequests
      BY <1>0 DEF TypeOK
    <3> QED
      BY <3>1
  <2>3. CASE d = c
    <3>1. PICK k \in Conn : conn[c] = k /\ At(c, k)
      BY <1>a, <2>1 DEF ReplyInv
    <3>2. Idle(c, k)
      BY <2>1, <2>3, <3>1 DEF At, Unread, Judged, Answered
    <3>3. inbox'[k] = asked + 1 /\ phase'[c] = "waiting" /\ request'[c] = asked + 1 /\ taken'[c] = <<>>
      BY <1>a, <2>1, <2>3, <3>1
    <3>4. Unread(c, k)'
      BY <2>1, <2>2, <3>2, <3>3 DEF Idle, Unread, Judging
    <3> QED
      BY <2>1, <3>1, <3>4 DEF At
  <2>4. CASE d # c
    <3>1. conn[c] # conn[d]
      BY <1>0, <2>1, <2>4 DEF OneClient
    <3>2. phase'[c] = phase[c] /\ request'[c] = request[c] /\ taken'[c] = taken[c]
          /\ inbox'[conn[c]] = inbox[conn[c]]
      BY <1>a, <2>1, <2>4, <3>1
    <3> QED
      BY <1>8, <2>1, <2>4, <3>2
  <2> QED
    BY <2>3, <2>4
<1>11. ASSUME NEW d \in Client, Take(d) PROVE At(c, conn[c])'
  <2>1. /\ conn' = conn /\ UNCHANGED <<inbox, peer, request>> /\ UNCHANGED <<fifo, fd, handled, channel>>
        /\ phase[d] = "waiting" /\ buf[conn[d]] # <<>>
        /\ buf' = [buf EXCEPT ![conn[d]] = Tail(buf[conn[d]])]
        /\ taken' = [taken EXCEPT ![d] = Append(taken[d], Head(buf[conn[d]]))]
        /\ phase' = [phase EXCEPT ![d] = IF Len(taken'[d]) = ReplyLen THEN "idle" ELSE phase[d]]
    BY <1>11 DEF Take, objectVars, loopVars
  <2>2. conn[d] \in Conn
    BY <1>0, <1>a, <2>1 DEF LoopInv, ClientsAt
  <2>3. CASE d = c
    <3> SUFFICES ASSUME NEW k \in Conn, k = conn[c] PROVE At(c, k)'
      BY <2>1, <2>2, <2>3
    <3> DEFINE t == Len(taken[c])
               b == Len(buf[k])
               n == request[c]
    <3>1. At(c, k) /\ Answered(c, k)
      <4>1. conn[c] = k /\ conn[c] # None
        BY ConstantFacts
      <4> QED
        BY <1>11, <2>3, <4>1, TakeMoves DEF ReplyInv
    <3>2. t \in Nat /\ b \in Nat \ {0} /\ Unsent(k) \in Nat
      BY <1>0, <2>1, <2>3, ReplyTypes, EmptySeq
    <3>3. Tail(buf[k]) \in Seq(Chunk) /\ \A i \in 1..(b - 1) : Tail(buf[k])[i] = buf[k][i + 1]
      BY <1>a, <2>1, <2>3, HeadTailProperties
    <3>4. buf'[k] = Tail(buf[k]) /\ request'[c] = n
      BY <1>a, <2>1, <2>3
    <3>5. /\ Len(taken'[c]) = t + 1 /\ Len(buf'[k]) = b - 1
          /\ \A i \in 1..Len(taken'[c]) : taken'[c][i] = <<n, i>>
      BY <1>11, <2>2, <2>3, TakeMoves
    <3>6. /\ \A i \in 1..b : buf[k][i] = <<n, t + i>>
          /\ Given(c, k) = t + b
          /\ fd[k] # None => Given(c, k) + Unsent(k) = ReplyLen
          /\ Given(c, k) + Unsent(k) <= ReplyLen
      BY <3>1 DEF Answered, Given
    <3>7. Given(c, k)' = Len(taken'[c]) + Len(buf'[k]) /\ Unsent(k)' = Unsent(k)
      BY <2>1 DEF Given, Unsent
    <3> HIDE DEF t, b, n
    <3>9. \A i \in 1..Len(buf'[k]) : buf'[k][i] = <<n, Len(taken'[c]) + i>>
      <4> SUFFICES ASSUME NEW i \in 1..(b - 1) PROVE buf'[k][i] = <<n, (t + 1) + i>>
        BY <3>5
      <4>1. i + 1 \in 1..b /\ t + (i + 1) = (t + 1) + i
        BY <3>2
      <4> QED
        BY <3>3, <3>4, <3>5, <3>6, <4>1
    <3>10. Given(c, k)' = Given(c, k) /\ Given(c, k) = t + b
      BY <3>2, <3>5, <3>6, <3>7
    <3>11. peer'[k] = "open" /\ inbox'[k] = 0 /\ ~Judging(k)' /\ Len(fifo'[k]) <= 1 /\ fifo' = fifo /\ fd' = fd
      BY <2>1, <3>1 DEF At, Answered, Judging
    <3>12. CASE t + 1 # ReplyLen
      <4>1. phase'[c] = "waiting"
        BY <1>a, <2>1, <2>3, <3>5, <3>12
      <4>2. Answered(c, k)'
        BY <3>1, <3>4, <3>5, <3>6, <3>7, <3>9, <3>10, <3>11, <4>1 DEF Answered, n
      <4> QED
        BY <3>11, <4>2 DEF At
    <3>13. CASE t + 1 = ReplyLen
      <4>1. phase'[c] = "idle"
        BY <1>a, <2>1, <2>3, <3>5, <3>13
      <4>2. b - 1 = 0 /\ Unsent(k) = 0
        BY <3>2, <3>6, <3>13, ConstantFacts
      <4>3. buf'[k] = <<>>
        <5>1. Tail(buf[k]) \in Seq(Chunk) /\ Len(Tail(buf[k])) = 0
          BY <3>3, <3>4, <3>5, <4>2
        <5> QED
          BY <3>4, <5>1, EmptySeq
      <4>4. fifo[k] = <<>>
        <5> SUFFICES ASSUME fifo[k] # <<>> PROVE FALSE
          OBVIOUS
        <5>1. fifo[k] \in Seq(ReplyChunks) /\ 1 \in 1..Len(fifo[k])
          BY <1>a, EmptySeq
        <5>2. fifo[k][1] \in ReplyChunks
          BY <5>1, ElementOfSeq
        <5>3. Len(fifo[k][1]) # 0
          BY <5>2, EmptySeq DEF ReplyChunks
        <5> QED
          BY <4>2, <5>3 DEF Unsent
      <4>5. Idle(c, k)'
        BY <3>11, <4>1, <4>3, <4>4 DEF Idle
      <4> QED
        BY <3>11, <4>5 DEF At
    <3> QED
      BY <3>12, <3>13
  <2>4. CASE d # c
    <3>1. conn[c] # conn[d] /\ conn[c] \in Conn
      BY <1>0, <1>a, <2>1, <2>2, <2>4, ConstantFacts DEF OneClient
    <3>2. phase'[c] = phase[c] /\ taken'[c] = taken[c] /\ buf'[conn[c]] = buf[conn[c]]
      BY <1>a, <2>1, <2>4, <3>1
    <3> QED
      BY <1>8, <2>1, <2>4, <3>2
  <2> QED
    BY <2>3, <2>4
<1>12. ASSUME NEW d \in Client, Timeout(d) \/ Quit(d) \/ SeeClosed(d) PROVE At(c, conn[c])'
  <2>1. /\ conn' = [conn EXCEPT ![d] = None] /\ phase' = [phase EXCEPT ![d] = "idle"]
        /\ peer' = peer \/ peer' = [peer EXCEPT ![conn[d]] = IF buf[conn[d]] = <<>> THEN "fin" ELSE "rst"]
        /\ UNCHANGED <<inbox, buf, request, taken>> /\ UNCHANGED <<fifo, fd, handled, channel>>
    BY <1>12 DEF Timeout, Quit, SeeClosed, Leave, kernelVars, objectVars, loopVars
  <2>2. d # c
    BY <1>a, <2>1
  <2>3. conn[d] # None
    BY <1>0, <1>12 DEF Timeout, Quit, SeeClosed, LoopInv, ClientsAt
  <2>4. conn'[c] = conn[c] /\ phase'[c] = phase[c]
    BY <1>a, <2>1, <2>2
  <2>5. conn[c] # conn[d] /\ conn[c] \in Conn
    BY <1>0, <1>a, <2>2, <2>3, <2>4 DEF OneClient
  <2>6. peer'[conn[c]] = peer[conn[c]]
    BY <1>a, <2>1, <2>5
  <2> QED
    BY <1>8, <2>1, <2>2, <2>4, <2>6
<1>13. CASE Abort
  <2>1. UNCHANGED <<inbox, peer, buf, fifo, fd, phase, request, taken, conn, handled>>
        /\ UNCHANGED channel
    BY <1>13 DEF Abort, objectVars, loopVars, clientVars
  <2> QED
    BY <2>1, <1>b DEF Stays, JudgingStays
<1> QED
  BY <1>1, <1>2, <1>3, <1>4, <1>5, <1>6, <1>7, <1>9, <1>10, <1>11, <1>12, <1>13
     DEF Next, Daemon, Clients

\* So every client is at one of the stages in every state.
LEMMA ReplyInvariant == Spec => []ReplyInv
<1>1. ReplyInv /\ LoopInv' /\ [Next]_vars => ReplyInv'
  BY ConnectionsStep, AtStep DEF ReplyInv
<1> QED
  BY <1>1, ReplyInvInit, LoopInvariant, PTL DEF Spec

-----------------------------------------------------------------------------
(* The loop and its clients implement PolicyService                        *)

\* A client that has all chunks of a reply knows which request it answers.
LEMMA ReplyOfWhole ==
  ASSUME NEW n, NEW seq, seq = ReplyTo(n)
  PROVE  /\ ~(Len(seq) < ReplyLen) /\ seq[1][1] = n
<1>1. ReplyTo(n) \in [1..ReplyLen -> {<<n, i>> : i \in 1..ReplyLen}]
  BY DEF ReplyTo
<1>2. Len(ReplyTo(n)) = ReplyLen
  BY <1>1, ConstantFacts
<1>3. ReplyTo(n)[1] = <<n, 1>>
  BY ConstantFacts DEF ReplyTo
<1>4. ~(ReplyLen < ReplyLen)
  BY ConstantFacts
<1> QED
  BY <1>2, <1>3, <1>4

\* The chunk that a client takes last completes the reply to its request.
LEMMA TakenWhole ==
  ASSUME ReplyInv, LoopInv', NEW c \in Client, Take(c), Len(taken'[c]) = ReplyLen
  PROVE  taken'[c] = ReplyTo(request[c])
<1>1. PICK k \in Conn : conn[c] = k
  BY DEF ReplyInv, LoopInv, ClientsAt, TypeOK, Take
<1>2. \A i \in 1..ReplyLen : taken'[c][i] = <<request[c], i>>
  BY <1>1, TakeMoves
<1>3. taken'[c] \in [1..ReplyLen -> Chunk]
  BY LenProperties DEF LoopInv, TypeOK
<1> QED
  BY <1>2, <1>3 DEF ReplyTo

\* The loop starts where the service does.
LEMMA ServiceInit == Init => Service!Init
<1> SUFFICES ASSUME Init PROVE Service!Init
  OBVIOUS
<1>1. ASSUME NEW c \in Client PROVE ReplyOf(c) = 0
  <2>1. Len(taken[c]) = 0 /\ 0 < ReplyLen
    BY EmptySeq, ConstantFacts DEF Init
  <2> QED
    BY <2>1 DEF ReplyOf
<1> QED
  BY <1>1 DEF Init, Service!Init

\* Every step of the loop, the kernel or a client is one of the service, or changes
\* nothing of what a client sees of it.
LEMMA ServiceStep == ReplyInv /\ ReplyInv' /\ [Next]_vars => [Service!Next]_(Service!vars)
<1> SUFFICES ASSUME ReplyInv, ReplyInv', [Next]_vars PROVE [Service!Next]_(Service!vars)
  OBVIOUS
<1>0. LoopInv /\ LoopInv' /\ ClientsAt
  BY DEF ReplyInv, LoopInv
<1>a. /\ phase \in [Client -> {"idle", "waiting"}] /\ request \in [Client -> 0..MaxRequests]
      /\ taken \in [Client -> Seq(Chunk)] /\ asked \in 0..MaxRequests
  BY <1>0 DEF LoopInv, TypeOK
<1>b. ASSUME UNCHANGED <<phase, request, taken>> PROVE UNCHANGED Service!vars
  BY <1>b DEF Service!vars, ReplyOf
<1>c. ASSUME NEW c \in Client, NEW k \in Conn, Request(c, k) PROVE Service!Ask(c)
  <2>1. /\ phase[c] = "idle" /\ phase' = [phase EXCEPT ![c] = "waiting"]
        /\ request' = [request EXCEPT ![c] = asked + 1] /\ taken' = [taken EXCEPT ![c] = <<>>]
    BY <1>c DEF Request
  <2>2. request'[c] = asked + 1 /\ asked + 1 > request[c]
    <3>1. request[c] \in 0..MaxRequests /\ request[c] <= asked
      BY <1>0, <1>a DEF ClientsAt
    <3> QED
      BY <1>a, <2>1, <3>1, ConstantFacts
  <2>3. taken'[c] = <<>>
    BY <1>a, <2>1
  <2>4. ReplyOf(c)' = 0
    <3>1. Len(taken'[c]) < ReplyLen
      BY <2>3, EmptySeq, ConstantFacts
    <3> QED
      BY <3>1 DEF ReplyOf
  <2>5. \A d \in Client \ {c} : ReplyOf(d)' = ReplyOf(d)
    BY <1>a, <2>1 DEF ReplyOf
  <2>6. [d \in Client |-> ReplyOf(d)]' = [[d \in Client |-> ReplyOf(d)] EXCEPT ![c] = 0]
    BY <2>4, <2>5
  <2> QED
    BY <2>1, <2>2, <2>6 DEF Service!Ask
<1>d. ASSUME NEW c \in Client, Take(c) PROVE Service!Answer(c) \/ UNCHANGED Service!vars
  <2>1. /\ phase[c] = "waiting" /\ UNCHANGED request
        /\ taken' = [taken EXCEPT ![c] = taken'[c]]
        /\ phase' = [phase EXCEPT ![c] = IF Len(taken'[c]) = ReplyLen THEN "idle" ELSE phase[c]]
    BY <1>a, <1>d DEF Take
  <2>2. \A d \in Client \ {c} : ReplyOf(d)' = ReplyOf(d)
    BY <1>a, <2>1 DEF ReplyOf
  <2>3. CASE Len(taken'[c]) = ReplyLen
    <3>1. ReplyOf(c)' = request[c]
      <4>1. taken'[c] = ReplyTo(request[c])
        BY <1>0, <1>d, <2>3, TakenWhole
      <4>2. \A n : taken'[c] = ReplyTo(n) => ReplyOf(c)' = n
        BY ReplyOfWhole DEF ReplyOf
      <4> QED
        BY <4>1, <4>2
    <3>2. [d \in Client |-> ReplyOf(d)]' = [[d \in Client |-> ReplyOf(d)] EXCEPT ![c] = request[c]]
      BY <2>2, <3>1
    <3> QED
      BY <2>1, <2>3, <3>2 DEF Service!Answer
  <2>4. CASE Len(taken'[c]) # ReplyLen
    <3>1. ReplyOf(c) = 0
      <4>1. Len(taken[c]) < ReplyLen
        BY <1>0, <2>1 DEF ClientsAt
      <4> QED
        BY <4>1 DEF ReplyOf
    <3>2. ReplyOf(c)' = 0
      <4>1. Len(taken'[c]) < ReplyLen
        BY <1>0, <2>1, <2>4, ConstantFacts DEF LoopInv, ClientsAt
      <4> QED
        BY <4>1 DEF ReplyOf
    <3>3. [d \in Client |-> ReplyOf(d)]' = [d \in Client |-> ReplyOf(d)]
      BY <2>2, <3>1, <3>2
    <3>4. phase' = phase
      BY <1>a, <2>1, <2>4
    <3> QED
      BY <2>1, <3>3, <3>4 DEF Service!vars
  <2> QED
    BY <2>3, <2>4
<1>e. ASSUME NEW c \in Client, phase' = [phase EXCEPT ![c] = "idle"], UNCHANGED <<request, taken>>
      PROVE  Service!Lose(c) \/ UNCHANGED Service!vars
  <2>1. [d \in Client |-> ReplyOf(d)]' = [d \in Client |-> ReplyOf(d)]
    BY <1>e DEF ReplyOf
  <2>2. CASE phase[c] = "waiting"
    BY <1>e, <2>1, <2>2 DEF Service!Lose
  <2>3. CASE phase[c] = "idle"
    <3>1. phase' = phase
      BY <1>a, <1>e, <2>3
    <3> QED
      BY <1>e, <2>1, <3>1 DEF Service!vars
  <2> QED
    BY <1>a, <2>2, <2>3
<1>1. CASE Daemon \/ HandlerRaises \/ SendMail \/ Kill \/ Start \/ Abort \/ UNCHANGED vars
  <2>1. UNCHANGED <<phase, request, taken>>
    BY <1>1 DEF Daemon, Poll, EndRound, Dispatch, HandleRead, Push, MailReturns, HandleWrite, HandleHup,
         HandlerRaises, SendMail, Kill, Start, Abort, clientVars, vars
  <2> QED
    BY <1>b, <2>1
<1>2. ASSUME NEW c \in Client, Connect(c) \/ Ask(c) PROVE Service!Next
  <2>1. \E k \in Conn : Request(c, k)
    <3>1. made \in 0..MaxConns /\ conn[c] \in Conn \cup {None}
      BY <1>0 DEF LoopInv, TypeOK
    <3>2. CASE Connect(c)
      <4>1. made + 1 \in Conn
        BY <3>1, <3>2, ConstantFacts DEF Connect, Conn
      <4> QED
        BY <3>2, <4>1 DEF Connect
    <3>3. CASE Ask(c)
      BY <3>1, <3>3 DEF Ask
    <3> QED
      BY <1>2, <3>2, <3>3
  <2> QED
    BY <1>c, <2>1 DEF Service!Next
<1>3. ASSUME NEW c \in Client, Take(c) PROVE [Service!Next]_(Service!vars)
  BY <1>d, <1>3 DEF Service!Next
<1>4. ASSUME NEW c \in Client, Timeout(c) \/ Quit(c) \/ SeeClosed(c) PROVE [Service!Next]_(Service!vars)
  <2>1. phase' = [phase EXCEPT ![c] = "idle"] /\ UNCHANGED <<request, taken>>
    BY <1>4 DEF Timeout, Quit, SeeClosed, Leave
  <2> QED
    BY <1>e, <2>1 DEF Service!Next
<1> QED
  BY <1>1, <1>2, <1>3, <1>4 DEF Next, Clients

\* Whatever the order of events, partial sends, closed and reused descriptors, kills and
\* restarts: a client that waits takes the whole reply to its own request, once, or loses
\* its connection (the safety part of Implements).
THEOREM ImplementsSafety == Spec => Service!Safety
BY ServiceInit, ServiceStep, ReplyInvariant, PTL DEF Spec, Service!Safety

-----------------------------------------------------------------------------
(***************************************************************************)
(* A channel the loop serves (PolicyChannel), for any attributes, messages *)
(* and verdicts.                                                           *)
(***************************************************************************)


-----------------------------------------------------------------------------
(* Inductive invariants *)

\* The names and the values of attributes: strings, whichever Truncated is.
Text == STRING \cup {"", "protocol_state", "RCPT", "END-OF-MESSAGE", Truncated}
SessionData == UNION {[D -> Text] : D \in SUBSET Attributes}
Atom == [name : Text, value : Text, part : {"name", "value", "newline"}]
ChannelReply == [action : Verdicts, data : SessionData]
LogRow == [instance : Text, action : Verdicts]

\* Types of the state of a channel and of its peer.
ChannelTypes ==
  /\ wire \in Seq(Atom) /\ ac_in_buffer \in Seq(Atom) /\ buffer \in Seq(Seq(Atom))
  /\ \A n \in 1..Len(buffer) :
       buffer[n] # <<>> /\ \A i \in 1..Len(buffer[n]) : ~IsNewline(buffer[n][i])
  /\ replies \in Seq(ChannelReply) /\ got \in Seq(ChannelReply) /\ requests \in Seq(SessionData)
  /\ smtp_session_data \in SessionData /\ smtp_sessions \in Seq(LogRow)
  /\ connected \in BOOLEAN /\ waiting \in BOOLEAN /\ settings \in LogSettings
  /\ state \in {"RCPT", "END-OF-MESSAGE"} /\ splits \in 0..MaxSplits
  /\ message \in 1..(Len(Messages) + 1) /\ (waiting => message <= Len(Messages))

\* What Postfix wrote and no line has been made of.
Stream == ac_in_buffer \o wire

\* The newlines that are a line of their own.
Blanks(s, begun) ==
  {k \in 1..Len(s) : IsNewline(s[k]) /\ (IF k = 1 THEN ~begun ELSE IsNewline(s[k - 1]))}

\* The replies, taken or not, that are verdicts of the plugins.
Verdicted(s) == {n \in 1..Len(s) : s[n].data # Empty}

\* Each request asked is still a blank line of the stream, or was judged, or neither.
VerdictInv ==
  /\ ChannelTypes
  /\ Cardinality(Verdicted(got \o replies)) + Cardinality(Blanks(Stream, buffer # <<>>)) <= Len(requests)

-----------------------------------------------------------------------------
(* What Postfix keeps to *)

NamesOf(lines) == {lines[i].name : i \in 1..Len(lines)}

\* The lines of a request name different attributes, those of every other request, and no
\* address in it is one utils.is_email refuses.
RegularMessages ==
  /\ {"RCPT", "END-OF-MESSAGE"} \cap Invalid = {}
  /\ \A m \in 1..Len(Messages) :
       /\ \A i, j \in 1..Len(Messages[m]) : Messages[m][i].name = Messages[m][j].name => i = j
       /\ \A i \in 1..Len(Messages[m]) : Messages[m][i].name # "protocol_state"
       /\ \A i \in 1..Len(Messages[m]) :
            Messages[m][i].name \in Addresses => Messages[m][i].value \notin Invalid
       /\ NamesOf(Messages[m]) = NamesOf(Messages[1])

\* The attributes of every request.
AllNames == ({"protocol_state"} \cup NamesOf(Messages[1])) \cap Attributes

\* The channel has read j lines of the request in hand.
LinesRead(j) ==
  /\ Len(Stream) = 3 * (Len(RequestLines) - j) + 1
  /\ \A k \in 1..Len(Stream) : Stream[k] = Encode(RequestLines)[3 * j + k]
  /\ \A i \in 1..j : RequestLines[i].name \in Attributes =>
       /\ RequestLines[i].name \in DOMAIN smtp_session_data
       /\ smtp_session_data[RequestLines[i].name] = RequestLines[i].value

\* As long as no line is cut.
InStep ==
  /\ DOMAIN smtp_session_data \subseteq AllNames
  /\ Len(got) <= Len(requests) /\ \A n \in 1..Len(got) : got[n].data = requests[n]
  /\ IF waiting THEN Len(requests) = Len(got) + 1 /\ requests[Len(requests)] = Described(RequestLines)
                ELSE Len(requests) = Len(got) /\ replies = <<>>
  /\ replies # <<>> => Len(replies) = 1 /\ replies[1].data = requests[Len(requests)]
  /\ connected =>
       /\ buffer = <<>>
       /\ ac_in_buffer # <<>> => IsNewline(ac_in_buffer[Len(ac_in_buffer)])
       /\ IF waiting /\ replies = <<>> THEN \E j \in 0..Len(RequestLines) : LinesRead(j)
                                       ELSE Stream = <<>>

InStepInv == ChannelTypes /\ (Whole => InStep)

\* The instance of a message is the value of its "instance" line: every message has one,
\* and no two the same.
InstanceOf(m) == Described(Messages[m])["instance"]
TellApart ==
  /\ "instance" \in Attributes
  /\ \A m \in 1..Len(Messages) : "instance" \in NamesOf(Messages[m])
  /\ \A m, n \in 1..Len(Messages) : InstanceOf(m) = InstanceOf(n) => m = n

Loggable == {"client_address", "protocol_state"} \subseteq AllNames

\* What is logged of the message in hand, and of those before it.
LogInStep ==
  /\ \A i \in 1..Len(smtp_sessions) : \E m \in 1..Len(Messages) :
       m <= message /\ smtp_sessions[i].instance = InstanceOf(m)
  /\ \A i \in 1..Len(smtp_sessions) : smtp_sessions[i].action = "OK" => ~settings.bypass_whitelist
  /\ \A i, j \in 1..Len(smtp_sessions) :
       i < j /\ smtp_sessions[i].instance = smtp_sessions[j].instance
         => smtp_sessions[i].action = "OK" /\ ~settings.bypass_whitelist
  /\ message <= Len(Messages) =>
       \A i \in 1..Len(smtp_sessions) : smtp_sessions[i].instance = InstanceOf(message) =>
         IF state = "RCPT"
           THEN replies # <<>> /\ smtp_sessions[i].action = replies[1].action /\ replies[1].action # "DUNNO"
           ELSE replies = <<>> => smtp_sessions[i].action = "OK"
  /\ ~Loggable => smtp_sessions = <<>>
  /\ ~connected /\ (waiting => replies # <<>>) => ~Loggable
  /\ state = "END-OF-MESSAGE" => message <= Len(Messages)

LogInv == InStepInv /\ (Whole => LogInStep)

-----------------------------------------------------------------------------
(* The operators of the model *)

Line == [name : Text, value : Text]

\* The last element of a sequence something was appended to, and the rest.
LEMMA LastOfAppend ==
  ASSUME NEW S, NEW s \in Seq(S), NEW e \in S
  PROVE  Append(s, e) # <<>> /\ Last(Append(s, e)) = e /\ Front(Append(s, e)) = s
<1>1. Append(s, e) \in Seq(S) /\ Len(Append(s, e)) = Len(s) + 1 /\ Append(s, e)[Len(s) + 1] = e
  OBVIOUS
<1>2. SubSeq(Append(s, e), 1, Len(s)) = s
  <2>1. SubSeq(Append(s, e), 1, Len(s)) \in Seq(S) /\ Len(SubSeq(Append(s, e), 1, Len(s))) = Len(s)
        /\ \A i \in 1..Len(s) : SubSeq(Append(s, e), 1, Len(s))[i] = s[i]
    BY <1>1
  <2> QED
    BY <2>1, SeqEqual
<1> QED
  BY <1>1, <1>2, EmptySeq DEF Last, Front

LEMMA FrontType ==
  ASSUME NEW S, NEW s \in Seq(S), s # <<>>
  PROVE  /\ Front(s) \in Seq(S) /\ Len(Front(s)) = Len(s) - 1
         /\ \A n \in 1..Len(Front(s)) : Front(s)[n] = s[n]
<1> DEFINE m == Len(s) - 1
<1>1. m \in Nat /\ \A n \in 1..m : s[n] \in S
  BY EmptySeq, ElementOfSeq
<1>2. Front(s) = SubSeq(s, 1, m)
  BY DEF Front
<1> HIDE DEF m
<1>3. /\ SubSeq(s, 1, m) \in Seq(S) /\ Len(SubSeq(s, 1, m)) = m
      /\ \A n \in 1..m : SubSeq(s, 1, m)[n] = s[n]
  BY <1>1
<1> QED
  BY <1>2, <1>3 DEF m

LEMMA AppendType == ASSUME NEW S, NEW s \in Seq(S) PROVE \A e \in S : Append(s, e) \in Seq(S)
BY AppendProperties

LEMMA MessagesLen == Len(Messages) \in Nat
<1> DEFINE Typed == Seq([name : STRING, value : STRING])
<1>1. Messages \in Seq(Typed)
  BY PolicyChannelAssumption
<1> HIDE DEF Typed
<1> QED
  BY <1>1

\* A request is the lines of the message after the protocol state.
LEMMA RequestLinesType ==
  ASSUME message \in 1..Len(Messages), state \in {"RCPT", "END-OF-MESSAGE"}
  PROVE  /\ RequestLines \in Seq(Line) /\ Len(RequestLines) = Len(Messages[message]) + 1
         /\ RequestLines[1] = [name |-> "protocol_state", value |-> state]
         /\ \A i \in 1..Len(Messages[message]) : RequestLines[i + 1] = Messages[message][i]
<1> DEFINE Typed == [name : STRING, value : STRING]
<1>1. Messages[message] \in Seq(Typed)
  <2>1. Messages \in Seq(Seq(Typed))
    BY PolicyChannelAssumption
  <2> HIDE DEF Typed
  <2> QED
    BY <2>1
<1>2. Messages[message] \in Seq(Line)
  <2>1. Typed \subseteq Line
    BY DEF Line, Text
  <2> HIDE DEF Typed
  <2> QED
    BY <1>1, <2>1
<1>3. << [name |-> "protocol_state", value |-> state] >> \in Seq(Line)
  <2>1. state \in Text /\ "protocol_state" \in Text
    BY DEF Text
  <2>2. [name |-> "protocol_state", value |-> state] \in Line
    BY <2>1 DEF Line
  <2> QED
    BY <2>2
<1>4. /\ Len(<< [name |-> "protocol_state", value |-> state] >>) = 1
      /\ << [name |-> "protocol_state", value |-> state] >>[1] = [name |-> "protocol_state", value |-> state]
  OBVIOUS
<1> QED
  BY <1>2, <1>3, <1>4 DEF RequestLines

\* A line is a name, a value and a newline; a request ends in a newline of its own.
LEMMA EncodeType ==
  ASSUME NEW lines \in Seq(Line)
  PROVE  /\ Encode(lines) \in Seq(Atom) /\ Len(Encode(lines)) = 3 * Len(lines) + 1
         /\ \A j \in 0..(Len(lines) - 1) :
              /\ Encode(lines)[3 * j + 1] = [name |-> lines[j + 1].name, value |-> lines[j + 1].value, part |-> "name"]
              /\ Encode(lines)[3 * j + 2] = [name |-> lines[j + 1].name, value |-> lines[j + 1].value, part |-> "value"]
              /\ Encode(lines)[3 * j + 3] = Newline
         /\ Encode(lines)[3 * Len(lines) + 1] = Newline
<1> DEFINE N == Len(lines)
<1>0. N \in Nat
  OBVIOUS
<1>1. Newline \in Atom
  BY DEF Newline, Atom, Text
<1>2. ASSUME NEW i \in 1..N
      PROVE  /\ Atoms(lines[i]) \in Seq(Atom) /\ Len(Atoms(lines[i])) = 3
             /\ Atoms(lines[i])[1] = [name |-> lines[i].name, value |-> lines[i].value, part |-> "name"]
             /\ Atoms(lines[i])[2] = [name |-> lines[i].name, value |-> lines[i].value, part |-> "value"]
             /\ Atoms(lines[i])[3] = Newline
  <2>1. lines[i] \in Line
    OBVIOUS
  <2>2. lines[i].name \in Text /\ lines[i].value \in Text
    BY <2>1 DEF Line
  <2> QED
    BY <2>2, <1>1 DEF Atoms, Atom
<1>3. ASSUME NEW k \in 1..(3 * N + 1), k # 3 * N + 1
      PROVE  (k + 2) \div 3 \in 1..N /\ ((k + 2) % 3) + 1 \in 1..3
  <2> HIDE DEF N
  <2>1. k \in Nat /\ k <= 3 * N /\ k >= 1
    BY <1>0, <1>3
  <2>2. (k + 2) \div 3 \in 1..N
    BY <1>0, <2>1
  <2>3. (k + 2) % 3 \in 0..2
    BY <2>1
  <2> QED
    BY <2>2, <2>3
<1>4. \A k \in 1..(3 * N + 1) : Encode(lines)[k] \in Atom
  <2> SUFFICES ASSUME NEW k \in 1..(3 * N + 1) PROVE Encode(lines)[k] \in Atom
    OBVIOUS
  <2>1. CASE k = 3 * N + 1
    BY <2>1, <1>1 DEF Encode
  <2>2. CASE k # 3 * N + 1
    <3>1. Encode(lines)[k] = Atoms(lines[(k + 2) \div 3])[((k + 2) % 3) + 1]
      BY <2>2 DEF Encode
    <3>2. Atoms(lines[(k + 2) \div 3]) \in Seq(Atom) /\ Len(Atoms(lines[(k + 2) \div 3])) = 3
      BY <2>2, <1>2, <1>3
    <3> QED
      BY <3>1, <3>2, <2>2, <1>3
  <2> QED
    BY <2>1, <2>2
<1>5. Encode(lines) = [k \in 1..(3 * N + 1) |-> Encode(lines)[k]]
  BY DEF Encode
<1>6. Encode(lines) \in Seq(Atom) /\ Len(Encode(lines)) = 3 * N + 1
  BY <1>0, <1>4, <1>5, SeqDef
<1>7. ASSUME NEW j \in 0..(N - 1), NEW p \in 1..3
      PROVE  Encode(lines)[3 * j + p] = Atoms(lines[j + 1])[p]
  <2>1. 3 * j + p \in 1..(3 * N + 1) /\ 3 * j + p # 3 * N + 1
    BY <1>0
  <2>2. (3 * j + p + 2) \div 3 = j + 1 /\ ((3 * j + p + 2) % 3) + 1 = p
    BY <1>0
  <2> QED
    BY <2>1, <2>2 DEF Encode
<1>8. Encode(lines)[3 * N + 1] = Newline
  BY <1>0 DEF Encode
<1> QED
  BY <1>0, <1>2, <1>6, <1>7, <1>8

\* Whatever a fragment is read as, its value is text.
LEMMA ReadingsType ==
  ASSUME NEW fragment \in Seq(Atom), fragment # <<>>,
         NEW line \in Readings(fragment)
  PROVE  line.value \in Text
<1>1. fragment[1] \in Atom
  BY EmptySeq
<1>2. fragment[1].value \in Text
  BY <1>1 DEF Atom
<1>3. Truncated \in Text /\ "" \in Text
  BY DEF Text
<1>4. CASE Len(fragment) = 2
  BY <1>2, <1>4 DEF Readings
<1>5. CASE Len(fragment) # 2 /\ fragment[1].part = "value"
  <2>1. Readings(fragment) =
          {[name |-> s, value |-> fragment[1].value] :
             s \in {NoName} \cup {a \in Attributes : <<fragment[1].name, a>> \in SuffixOf}}
    BY <1>5 DEF Readings
  <2>2. \E s : line = [name |-> s, value |-> fragment[1].value]
    BY <2>1
  <2> QED
    BY <2>2, <1>2
<1>6. CASE Len(fragment) # 2 /\ fragment[1].part # "value"
  <2>1. Readings(fragment) = {[name |-> NoName, value |-> ""], [name |-> fragment[1].name, value |-> Truncated]}
    BY <1>6 DEF Readings
  <2>2. CASE line = [name |-> NoName, value |-> ""]
    BY <2>2, <1>3
  <2>3. CASE line = [name |-> fragment[1].name, value |-> Truncated]
    BY <2>3, <1>3
  <2> QED
    BY <2>1, <2>2, <2>3
<1> QED
  BY <1>4, <1>5, <1>6

\* What split finds in a whole line is its name and its value.
LEMMA ReadingsWhole ==
  ASSUME NEW fragment, Len(fragment) = 2, NEW line \in Readings(fragment)
  PROVE  line.name = fragment[1].name /\ line.value = fragment[1].value
BY DEF Readings

\* Session data stays session data when an attribute is stored, which changes no other.
LEMMA StoreType ==
  ASSUME NEW data \in SessionData, NEW line, line.name \in Attributes, line.value \in Text
  PROVE  /\ Store(data, line) \in SessionData
         /\ DOMAIN Store(data, line) = DOMAIN data \cup {line.name}
         /\ Store(data, line)[line.name] = line.value
         /\ \A k \in DOMAIN data : k # line.name => Store(data, line)[k] = data[k]
<1>1. PICK D \in SUBSET Attributes : data \in [D -> Text]
  BY DEF SessionData
<1>2. Store(data, line) \in [D \cup {line.name} -> Text] /\ D \cup {line.name} \in SUBSET Attributes
  BY <1>1 DEF Store
<1>3. Store(data, line) \in SessionData
  BY <1>2 DEF SessionData
<1> QED
  BY <1>1, <1>3 DEF Store

LEMMA GetType == ASSUME NEW data \in SessionData, NEW k PROVE Get(data, k) \in Text
<1>1. PICK D \in SUBSET Attributes : data \in [D -> Text]
  BY DEF SessionData
<1>2. "" \in Text
  BY DEF Text
<1> QED
  BY <1>1, <1>2 DEF Get

LEMMA EmptyType == Empty \in SessionData /\ DOMAIN Empty = {}
<1>1. Empty \in [{} -> Text] /\ {} \in SUBSET Attributes
  BY DEF Empty
<1> QED
  BY <1>1 DEF SessionData, Empty

\* What a request describes is session data.
LEMMA DescribedType ==
  ASSUME NEW lines \in Seq(Line)
  PROVE  /\ Described(lines) \in SessionData
         /\ DOMAIN Described(lines) = NamesOf(lines) \cap Attributes
<1> DEFINE D == NamesOf(lines) \cap Attributes
<1>1. ASSUME NEW k \in D PROVE Described(lines)[k] \in Text
  <2>1. \E i \in 1..Len(lines) : lines[i].name = k
    BY DEF NamesOf
  <2>2. (CHOOSE i \in 1..Len(lines) : lines[i].name = k) \in 1..Len(lines)
    BY <2>1
  <2>3. \A i \in 1..Len(lines) : lines[i].value \in Text
    <3>1. \A i \in 1..Len(lines) : lines[i] \in Line
      OBVIOUS
    <3> QED
      BY <3>1 DEF Line
  <2> QED
    BY <2>2, <2>3 DEF Described, NamesOf
<1>2. Described(lines) = [k \in D |-> Described(lines)[k]]
  BY DEF Described, NamesOf
<1>3. Described(lines) \in [D -> Text] /\ D \in SUBSET Attributes
  BY <1>1, <1>2
<1> QED
  BY <1>3 DEF SessionData

-----------------------------------------------------------------------------
(* The steps of the channel, and the types *)

\* What handling a request does: a verdict on the session data, or none and the end of the
\* connection; a row at most.
LEMMA HandleRequestFacts ==
  ASSUME ChannelTypes, HandleRequest
  PROVE  /\ smtp_session_data' = smtp_session_data /\ connected' \in BOOLEAN
         /\ smtp_sessions' \in Seq(LogRow)
         /\ \/ /\ "protocol_state" \notin DOMAIN smtp_session_data
               /\ connected' = FALSE /\ replies' = replies /\ smtp_sessions' = smtp_sessions
            \/ \E action \in Verdicts :
                 /\ "protocol_state" \in DOMAIN smtp_session_data
                 /\ replies' = Append(replies, Reply(action, smtp_session_data))
                 /\ IF log_policy_request_raises
                      THEN connected' = FALSE /\ smtp_sessions' = smtp_sessions
                      ELSE /\ connected' = connected
                           /\ \/ smtp_sessions' = smtp_sessions
                              \/ Logged(action) /\ (settings.bypass_whitelist => action # "OK")
                                   /\ smtp_sessions' = Append(smtp_sessions,
                                        [instance |-> Get(smtp_session_data, "instance"), action |-> action])
<1>1. smtp_session_data \in SessionData /\ smtp_sessions \in Seq(LogRow) /\ connected \in BOOLEAN
  BY DEF ChannelTypes
<1>2. CASE "protocol_state" \notin DOMAIN smtp_session_data
  BY <1>1, <1>2 DEF HandleRequest, HandleError
<1>3. CASE "protocol_state" \in DOMAIN smtp_session_data
  <2>1. PICK action \in Verdicts :
          /\ PushAction(action, smtp_session_data)
          /\ IF log_policy_request_raises THEN HandleError
               ELSE /\ IF Logged(action) THEN log_smtp_session(action)
                                         ELSE UNCHANGED smtp_sessions
                    /\ UNCHANGED <<connected, smtp_session_data>>
    BY <1>3 DEF HandleRequest
  <2>2. replies' = Append(replies, Reply(action, smtp_session_data))
    BY <2>1 DEF PushAction
  <2>3. CASE log_policy_request_raises
    BY <1>1, <1>3, <2>1, <2>2, <2>3 DEF HandleError
  <2>4. CASE ~log_policy_request_raises
    <3>1. connected' = connected /\ smtp_session_data' = smtp_session_data
      BY <2>1, <2>4
    <3>2. \/ smtp_sessions' = smtp_sessions
          \/ Logged(action) /\ (settings.bypass_whitelist => action # "OK")
               /\ smtp_sessions' = Append(smtp_sessions,
                    [instance |-> Get(smtp_session_data, "instance"), action |-> action])
      BY <2>1, <2>4 DEF log_smtp_session
    <3>3. [instance |-> Get(smtp_session_data, "instance"), action |-> action] \in LogRow
      BY <1>1, GetType DEF LogRow
    <3>4. smtp_sessions' \in Seq(LogRow)
      <4> DEFINE row == [instance |-> Get(smtp_session_data, "instance"), action |-> action]
      <4>1. row \in LogRow /\ (smtp_sessions' = smtp_sessions \/ smtp_sessions' = Append(smtp_sessions, row))
        BY <3>2, <3>3
      <4> HIDE DEF row
      <4> QED
        BY <1>1, <4>1, AppendType
    <3> QED
      BY <1>1, <1>3, <2>2, <2>4, <3>1, <3>2, <3>4
  <2> QED
    BY <2>3, <2>4
<1> QED
  BY <1>2, <1>3

\* What a line does: it is stored, or dropped, or ends the connection; a bad address is
\* answered at once.
LEMMA ReadLineFacts ==
  ASSUME ChannelTypes, NEW line, line.value \in Text, ReadLine(line)
  PROVE  /\ smtp_session_data' \in SessionData /\ connected' \in BOOLEAN
         /\ smtp_sessions' = smtp_sessions
         /\ replies' = replies \/ replies' = Append(replies, Reply("DUNNO", Empty))
<1>1. smtp_session_data \in SessionData /\ connected \in BOOLEAN
  BY DEF ChannelTypes
<1>2. line.name \in Attributes => Store(smtp_session_data, line) \in SessionData
  BY <1>1, StoreType
<1> QED
  BY <1>1, <1>2 DEF ReadLine, HandleError, PushAction

\* One turn of the loop that ends at a newline: a fragment is read as a line, the last
\* collected, or, when there is none, the request is handled.
LEMMA FoundTerminatorFacts ==
  ASSUME ChannelTypes, FoundTerminator
  PROVE  \E i \in 1..Len(ac_in_buffer) :
           /\ IsNewline(ac_in_buffer[i]) /\ \A j \in 1..(i - 1) : ~IsNewline(ac_in_buffer[j])
           /\ ac_in_buffer' = SubSeq(ac_in_buffer, i + 1, Len(ac_in_buffer))
           /\ \/ /\ i = 1 /\ buffer = <<>> /\ buffer' = <<>>
                 /\ \/ smtp_session_data # Empty /\ HandleRequest
                    \/ /\ smtp_session_data = Empty /\ PushAction("DUNNO", Empty)
                       /\ UNCHANGED <<smtp_session_data, connected, smtp_sessions>>
              \/ /\ IF i = 1 THEN buffer # <<>> /\ buffer' = Front(buffer)
                             ELSE buffer' = buffer
                 /\ \E line \in Readings(IF i = 1 THEN Last(buffer) ELSE SubSeq(ac_in_buffer, 1, i - 1)) :
                      ReadLine(line)
<1> DEFINE Fragments(i) == IF i = 1 THEN buffer ELSE Append(buffer, SubSeq(ac_in_buffer, 1, i - 1))
<1>1. PICK i \in 1..Len(ac_in_buffer) :
         /\ IsNewline(ac_in_buffer[i])
         /\ \A j \in 1..(i - 1) : ~IsNewline(ac_in_buffer[j])
         /\ ac_in_buffer' = SubSeq(ac_in_buffer, i + 1, Len(ac_in_buffer))
         /\ IF Fragments(i) # <<>>
               THEN /\ \E line \in Readings(Last(Fragments(i))) : ReadLine(line)
                    /\ buffer' = Front(Fragments(i))
             ELSE /\ buffer' = Fragments(i)
                  /\ IF smtp_session_data # Empty THEN HandleRequest
                     ELSE /\ PushAction("DUNNO", Empty)
                          /\ UNCHANGED <<smtp_session_data, connected, smtp_sessions>>
  BY DEF FoundTerminator
<1>2. ac_in_buffer \in Seq(Atom) /\ buffer \in Seq(Seq(Atom))
  BY DEF ChannelTypes
<1>3. CASE i # 1
  <2> DEFINE cut == SubSeq(ac_in_buffer, 1, i - 1)
  <2>1. cut \in Seq(Atom)
    BY <1>2
  <2> HIDE DEF cut
  <2>2. Fragments(i) = Append(buffer, cut)
    BY <1>3 DEF cut
  <2>3. /\ Append(buffer, cut) # <<>> /\ Last(Append(buffer, cut)) = cut
        /\ Front(Append(buffer, cut)) = buffer
    BY <1>2, <2>1, LastOfAppend
  <2> HIDE DEF Fragments
  <2>4. /\ buffer' = Front(Fragments(i))
        /\ \E line \in Readings(Last(Fragments(i))) : ReadLine(line)
    BY <1>1, <2>2, <2>3
  <2>5. buffer' = buffer /\ \E line \in Readings(cut) : ReadLine(line)
    BY <2>2, <2>3, <2>4
  <2> QED
    BY <1>1, <1>3, <2>5 DEF cut
<1>4. CASE i = 1 /\ buffer # <<>>
  <2>1. Fragments(i) = buffer
    BY <1>4
  <2> QED
    BY <1>1, <1>4, <2>1
<1>5. CASE i = 1 /\ buffer = <<>>
  <2>1. Fragments(i) = <<>>
    BY <1>5
  <2> QED
    BY <1>1, <1>5, <2>1
<1> QED
  BY <1>3, <1>4, <1>5

\* The types imply the types that the run checks.
LEMMA TypesGiveTypeOK == ASSUME ChannelTypes PROVE ChannelTypeOK
<1>1. \A a \in Range(wire \o ac_in_buffer) : a.part \in {"name", "value", "newline"}
  <2>1. wire \o ac_in_buffer \in Seq(Atom)
    BY ConcatProperties DEF ChannelTypes
  <2>2. \A a \in Range(wire \o ac_in_buffer) : a \in Atom
    BY <2>1, LenProperties, ElementOfSeq DEF Range
  <2> QED
    BY <2>2 DEF Atom
<1>2. \A f \in Range(buffer) : f # <<>> /\ ~\E i \in 1..Len(f) : IsNewline(f[i])
  BY LenProperties DEF ChannelTypes, Range
<1>3. DOMAIN smtp_session_data \subseteq Attributes
  BY DEF ChannelTypes, SessionData
<1>4. \A r \in Range(replies) : r.action \in Verdicts
  <2>1. \A r \in Range(replies) : r \in ChannelReply
    BY LenProperties, ElementOfSeq DEF ChannelTypes, Range
  <2> QED
    BY <2>1 DEF ChannelReply
<1> QED
  BY <1>1, <1>2, <1>3, <1>4 DEF ChannelTypes, ChannelTypeOK

\* Types hold initially and every step keeps them.
LEMMA ChannelTypesInit == ASSUME ChannelInit PROVE ChannelTypes
<1>1. message = 1 /\ Len(Messages) \in Nat /\ waiting = FALSE /\ splits \in 0..MaxSplits
  BY MessagesLen, PolicyChannelAssumption DEF ChannelInit
<1>2. /\ wire = <<>> /\ ac_in_buffer = <<>> /\ buffer = <<>> /\ smtp_session_data \in SessionData
      /\ connected = TRUE /\ replies = <<>> /\ smtp_sessions = <<>> /\ state = "RCPT"
      /\ requests = <<>> /\ got = <<>> /\ settings \in LogSettings
  BY EmptyType DEF ChannelInit
<1>3. \A n \in 1..Len(buffer) : buffer[n] # <<>> /\ \A i \in 1..Len(buffer[n]) : ~IsNewline(buffer[n][i])
  BY <1>2
<1>4. <<>> \in Seq(Atom) /\ <<>> \in Seq(Seq(Atom)) /\ <<>> \in Seq(ChannelReply)
      /\ <<>> \in Seq(SessionData) /\ <<>> \in Seq(LogRow)
  BY EmptySeq
<1>5. message \in 1..(Len(Messages) + 1) /\ (waiting => message <= Len(Messages))
  BY <1>1
<1>6. /\ wire \in Seq(Atom) /\ ac_in_buffer \in Seq(Atom) /\ buffer \in Seq(Seq(Atom))
      /\ replies \in Seq(ChannelReply) /\ got \in Seq(ChannelReply) /\ requests \in Seq(SessionData)
      /\ smtp_sessions \in Seq(LogRow)
  BY <1>2, <1>4
<1> QED
  BY <1>1, <1>2, <1>3, <1>5, <1>6 DEF ChannelTypes

LEMMA ReplyType ==
  ASSUME NEW action \in Verdicts, NEW data \in SessionData
  PROVE  Reply(action, data) \in ChannelReply /\ Reply(action, data).data = data
           /\ Reply(action, data).action = action
BY DEF Reply, ChannelReply

\* The turn of the loop at a newline keeps the types.
LEMMA FoundTerminatorTypes ==
  ASSUME ChannelTypes, FoundTerminator PROVE ChannelTypes'
<1>1. PICK i \in 1..Len(ac_in_buffer) :
           /\ IsNewline(ac_in_buffer[i]) /\ \A j \in 1..(i - 1) : ~IsNewline(ac_in_buffer[j])
           /\ ac_in_buffer' = SubSeq(ac_in_buffer, i + 1, Len(ac_in_buffer))
           /\ \/ /\ i = 1 /\ buffer = <<>> /\ buffer' = <<>>
                 /\ \/ smtp_session_data # Empty /\ HandleRequest
                    \/ /\ smtp_session_data = Empty /\ PushAction("DUNNO", Empty)
                       /\ UNCHANGED <<smtp_session_data, connected, smtp_sessions>>
              \/ /\ IF i = 1 THEN buffer # <<>> /\ buffer' = Front(buffer)
                             ELSE buffer' = buffer
                 /\ \E line \in Readings(IF i = 1 THEN Last(buffer) ELSE SubSeq(ac_in_buffer, 1, i - 1)) :
                      ReadLine(line)
  BY FoundTerminatorFacts
<1>2. /\ wire' = wire /\ settings' = settings /\ message' = message /\ state' = state
      /\ waiting' = waiting /\ requests' = requests /\ got' = got /\ splits' = splits
  BY DEF FoundTerminator, postfixVars
<1>3. ac_in_buffer' \in Seq(Atom)
  BY <1>1, SubSeqProperties DEF ChannelTypes
<1>4. Reply("DUNNO", Empty) \in ChannelReply
  BY EmptyType, ReplyType, PolicyChannelAssumption
<1>5. \A action \in Verdicts : Reply(action, smtp_session_data) \in ChannelReply
  BY ReplyType DEF ChannelTypes
<1>6. CASE /\ i = 1 /\ buffer = <<>> /\ buffer' = <<>>
           /\ smtp_session_data # Empty /\ HandleRequest
  <2>1. /\ smtp_session_data' = smtp_session_data /\ connected' \in BOOLEAN
        /\ smtp_sessions' \in Seq(LogRow)
    BY <1>6, HandleRequestFacts
  <2>2. replies' = replies \/ \E action \in Verdicts : replies' = Append(replies, Reply(action, smtp_session_data))
    BY <1>6, HandleRequestFacts
  <2>3. replies' \in Seq(ChannelReply)
    <3>1. replies \in Seq(ChannelReply)
      BY DEF ChannelTypes
    <3> QED
      BY <2>2, <1>5, <3>1, AppendType
  <2> QED
    BY <1>2, <1>3, <1>6, <2>1, <2>3, EmptySeq DEF ChannelTypes
<1>7. CASE /\ i = 1 /\ buffer = <<>> /\ buffer' = <<>>
           /\ smtp_session_data = Empty /\ PushAction("DUNNO", Empty)
           /\ UNCHANGED <<smtp_session_data, connected, smtp_sessions>>
  <2>1. replies' \in Seq(ChannelReply)
    BY <1>7, <1>4, AppendProperties DEF ChannelTypes, PushAction
  <2> QED
    BY <1>2, <1>3, <1>7, <2>1, EmptySeq DEF ChannelTypes
<1>8. CASE /\ IF i = 1 THEN buffer # <<>> /\ buffer' = Front(buffer) ELSE buffer' = buffer
           /\ \E line \in Readings(IF i = 1 THEN Last(buffer) ELSE SubSeq(ac_in_buffer, 1, i - 1)) :
                ReadLine(line)
  <2> DEFINE fragment == IF i = 1 THEN Last(buffer) ELSE SubSeq(ac_in_buffer, 1, i - 1)
  <2>1. fragment \in Seq(Atom) /\ fragment # <<>>
    <3>1. CASE i = 1
      <4>1. Len(buffer) \in 1..Len(buffer)
        BY <1>8, <3>1, EmptySeq DEF ChannelTypes
      <4> QED
        BY <3>1, <4>1, ElementOfSeq DEF ChannelTypes, Last
    <3>2. CASE i # 1
      <4>1. ac_in_buffer \in Seq(Atom)
        BY DEF ChannelTypes
      <4>2. SubSeq(ac_in_buffer, 1, i - 1) \in Seq(Atom) /\ Len(SubSeq(ac_in_buffer, 1, i - 1)) = i - 1
        BY <4>1, <3>2, SubSeqProperties
      <4>3. SubSeq(ac_in_buffer, 1, i - 1) # <<>>
        BY <4>2, <3>2, EmptySeq
      <4> QED
        BY <4>2, <4>3, <3>2
    <3> QED
      BY <3>1, <3>2
  <2>2. PICK line \in Readings(fragment) : ReadLine(line)
    BY <1>8
  <2> HIDE DEF fragment
  <2>3. line.value \in Text
    BY <2>1, ReadingsType
  <2>4. /\ smtp_session_data' \in SessionData /\ connected' \in BOOLEAN
        /\ smtp_sessions' = smtp_sessions
        /\ replies' = replies \/ replies' = Append(replies, Reply("DUNNO", Empty))
    BY <2>2, <2>3, ReadLineFacts
  <2>5. replies' \in Seq(ChannelReply)
    <3>1. replies \in Seq(ChannelReply)
      BY DEF ChannelTypes
    <3> QED
      BY <2>4, <1>4, <3>1, AppendType
  <2>6. /\ buffer' \in Seq(Seq(Atom))
        /\ \A n \in 1..Len(buffer') :
              buffer'[n] # <<>> /\ \A k \in 1..Len(buffer'[n]) : ~IsNewline(buffer'[n][k])
    <3>1. CASE i # 1
      BY <1>8, <3>1 DEF ChannelTypes
    <3>2. CASE i = 1
      <4>1. buffer \in Seq(Seq(Atom)) /\ Len(buffer) \in Nat \ {0}
        BY <1>8, <3>2, EmptySeq DEF ChannelTypes
      <4>2. buffer' = Front(buffer)
        BY <1>8, <3>2
      <4>3. /\ buffer' \in Seq(Seq(Atom)) /\ Len(buffer') = Len(buffer) - 1
            /\ \A n \in 1..Len(buffer') : buffer'[n] = buffer[n]
        BY <4>1, <4>2, FrontType
      <4>4. \A n \in 1..Len(buffer') : n \in 1..Len(buffer)
        BY <4>1, <4>3
      <4> QED
        BY <4>3, <4>4 DEF ChannelTypes
    <3> QED
      BY <3>1, <3>2
  <2> QED
    BY <1>2, <1>3, <2>4, <2>5, <2>6 DEF ChannelTypes
<1> QED
  BY <1>1, <1>6, <1>7, <1>8

\* recv moves a part of the stream, and takes nothing out of it.
LEMMA RecvFacts ==
  ASSUME ChannelTypes, Recv
  PROVE  /\ ChannelTypes' /\ Stream' = Stream /\ ac_in_buffer = <<>> /\ connected
         /\ UNCHANGED <<buffer, smtp_session_data, connected, settings, replies, smtp_sessions,
                        message, state, waiting, requests, got>>
         /\ \E n \in 1..Len(wire) :
              /\ ac_in_buffer' = SubSeq(wire, 1, n) /\ Len(ac_in_buffer') = n /\ ac_in_buffer'[n] = wire[n]
              /\ splits' = IF IsNewline(wire[n]) THEN splits ELSE splits + 1
<1>1. PICK n \in 1..Len(wire) :
        /\ splits' = IF IsNewline(wire[n]) THEN splits ELSE splits + 1
        /\ splits' <= MaxSplits
        /\ ac_in_buffer' = SubSeq(wire, 1, n)
        /\ wire' = SubSeq(wire, n + 1, Len(wire))
  BY DEF Recv
<1>2. /\ ac_in_buffer = <<>> /\ connected
      /\ UNCHANGED <<buffer, smtp_session_data, connected, settings, replies, smtp_sessions,
                     message, state, waiting, requests, got>>
  BY DEF Recv, postfixVars
<1>3. wire \in Seq(Atom) /\ splits \in 0..MaxSplits /\ MaxSplits \in Nat
  BY PolicyChannelAssumption DEF ChannelTypes
<1>4. /\ ac_in_buffer' \in Seq(Atom) /\ Len(ac_in_buffer') = n /\ ac_in_buffer'[n] = wire[n]
      /\ wire' \in Seq(Atom)
  BY <1>1, <1>3
<1>5. splits' \in 0..MaxSplits
  BY <1>1, <1>3
<1>6. ChannelTypes'
  BY <1>2, <1>4, <1>5 DEF ChannelTypes
<1>7. Stream' = Stream
  <2>1. SubSeq(wire, 1, n) \o SubSeq(wire, n + 1, Len(wire)) = SubSeq(wire, 1, Len(wire))
    <3>1. 1 \in 1..(Len(wire) + 1) /\ n \in (1 - 1)..Len(wire) /\ Len(wire) \in n..Len(wire)
      BY <1>3
    <3> QED
      BY <1>3, <3>1, ConcatAdjacentSubSeq
  <2>2. SubSeq(wire, 1, Len(wire)) = wire /\ <<>> \o wire = wire
    BY <1>3, SubSeqFull, ConcatEmptySeq
  <2> QED
    BY <1>1, <1>2, <2>1, <2>2, Zenon DEF Stream
<1> QED
  BY <1>1, <1>2, <1>4, <1>6, <1>7

\* The rest that no newline ends is collected whole.
LEMMA CollectRestFacts ==
  ASSUME ChannelTypes, CollectRest
  PROVE  /\ ChannelTypes' /\ connected /\ ac_in_buffer # <<>> /\ ac_in_buffer' = <<>> /\ buffer' # <<>>
         /\ \A i \in 1..Len(ac_in_buffer) : ~IsNewline(ac_in_buffer[i])
         /\ UNCHANGED <<wire, smtp_session_data, connected, settings, replies, smtp_sessions,
                        message, state, waiting, requests, got, splits>>
<1>1. /\ connected /\ ac_in_buffer # <<>> /\ ac_in_buffer' = <<>> /\ buffer' = Append(buffer, ac_in_buffer)
      /\ \A i \in 1..Len(ac_in_buffer) : ~IsNewline(ac_in_buffer[i])
      /\ UNCHANGED <<wire, smtp_session_data, connected, settings, replies, smtp_sessions,
                     message, state, waiting, requests, got, splits>>
  BY DEF CollectRest, postfixVars
<1>2. ac_in_buffer \in Seq(Atom) /\ buffer \in Seq(Seq(Atom))
  BY DEF ChannelTypes
<1>3. /\ buffer' \in Seq(Seq(Atom)) /\ buffer' # <<>> /\ Len(buffer') = Len(buffer) + 1
      /\ \A n \in 1..Len(buffer) : buffer'[n] = buffer[n]
      /\ buffer'[Len(buffer) + 1] = ac_in_buffer
  BY <1>1, <1>2, AppendProperties
<1>4. \A n \in 1..Len(buffer') :
         buffer'[n] # <<>> /\ \A i \in 1..Len(buffer'[n]) : ~IsNewline(buffer'[n][i])
  <2> SUFFICES ASSUME NEW n \in 1..Len(buffer')
               PROVE  buffer'[n] # <<>> /\ \A i \in 1..Len(buffer'[n]) : ~IsNewline(buffer'[n][i])
    OBVIOUS
  <2>1. CASE n = Len(buffer) + 1
    BY <1>1, <1>3, <2>1
  <2>2. CASE n # Len(buffer) + 1
    <3>1. n \in 1..Len(buffer) /\ buffer'[n] = buffer[n]
      BY <1>2, <1>3, <2>2
    <3> QED
      BY <3>1 DEF ChannelTypes
  <2> QED
    BY <2>1, <2>2
<1>5. <<>> \in Seq(Atom)
  BY EmptySeq
<1> QED
  BY <1>1, <1>3, <1>4, <1>5 DEF ChannelTypes

\* Postfix adds a request to the stream.
LEMMA PostfixSendFacts ==
  ASSUME ChannelTypes, PostfixSend
  PROVE  /\ ChannelTypes' /\ ~waiting /\ waiting' /\ connected /\ message \in 1..Len(Messages)
         /\ RequestLines \in Seq(Line) /\ RequestLines' = RequestLines
         /\ Stream' = Stream \o Encode(RequestLines)
         /\ requests' = Append(requests, Described(RequestLines)) /\ Described(RequestLines) \in SessionData
         /\ UNCHANGED <<ac_in_buffer, buffer, smtp_session_data, connected, settings, replies,
                        smtp_sessions, message, state, got, splits>>
<1>1. /\ ~waiting /\ waiting' = TRUE /\ connected /\ message <= Len(Messages)
      /\ wire' = wire \o Encode(RequestLines)
      /\ requests' = Append(requests, Described(RequestLines))
      /\ UNCHANGED <<ac_in_buffer, buffer, smtp_session_data, connected, settings, replies,
                     smtp_sessions, message, state, got, splits>>
  BY DEF PostfixSend, daemonVars
<1>2. Len(Messages) \in Nat
  BY MessagesLen
<1>3. message \in 1..Len(Messages) /\ state \in {"RCPT", "END-OF-MESSAGE"}
  BY <1>1, <1>2 DEF ChannelTypes
<1>4. RequestLines \in Seq(Line)
  BY <1>3, RequestLinesType
<1>5. Encode(RequestLines) \in Seq(Atom) /\ Described(RequestLines) \in SessionData
  BY <1>4, EncodeType, DescribedType
<1>6. wire \in Seq(Atom) /\ ac_in_buffer \in Seq(Atom) /\ requests \in Seq(SessionData)
  BY DEF ChannelTypes
<1>7. wire' \in Seq(Atom) /\ requests' \in Seq(SessionData)
  BY <1>1, <1>5, <1>6, ConcatProperties, AppendType
<1>8. Stream' = Stream \o Encode(RequestLines)
  <2> DEFINE E == Encode(RequestLines)
  <2>1. E \in Seq(Atom) /\ wire' = wire \o E /\ ac_in_buffer' = ac_in_buffer
    BY <1>1, <1>5
  <2> HIDE DEF E
  <2>2. (ac_in_buffer \o wire) \o E = ac_in_buffer \o (wire \o E)
    <3>1. \A u, v \in Seq(Atom) : (u \o v) \o E = u \o (v \o E)
      BY <2>1, ConcatAssociative
    <3> QED
      BY <1>6, <3>1
  <2>3. Stream' = Stream \o E
    BY <2>1, <2>2 DEF Stream
  <2> QED
    BY <2>3 DEF E
<1>9. RequestLines' = RequestLines
  BY <1>1 DEF RequestLines
<1>10. ChannelTypes'
  BY <1>1, <1>3, <1>7 DEF ChannelTypes
<1> QED
  BY <1>1, <1>3, <1>4, <1>5, <1>8, <1>9, <1>10

\* Postfix takes a reply, which passes from one sequence to the other.
LEMMA PostfixTakeFacts ==
  ASSUME ChannelTypes, PostfixTake
  PROVE  /\ ChannelTypes' /\ waiting /\ ~waiting' /\ replies # <<>>
         /\ Head(replies) = replies[1] /\ got' = Append(got, Head(replies)) /\ replies' = Tail(replies)
         /\ got' \o replies' = got \o replies
         /\ UNCHANGED <<wire, ac_in_buffer, buffer, smtp_session_data, connected, settings,
                        smtp_sessions, requests, splits>>
         /\ IF state = "RCPT" /\ Head(replies).action \in {"DUNNO", "OK"}
              THEN state' = "END-OF-MESSAGE" /\ message' = message
              ELSE state' = "RCPT" /\ message' = message + 1
<1>1. /\ waiting /\ replies # <<>> /\ replies' = Tail(replies) /\ got' = Append(got, Head(replies))
      /\ waiting' = FALSE
      /\ IF state = "RCPT" /\ Head(replies).action \in {"DUNNO", "OK"}
           THEN state' = "END-OF-MESSAGE" /\ message' = message
           ELSE state' = "RCPT" /\ message' = message + 1
      /\ UNCHANGED <<wire, ac_in_buffer, buffer, smtp_session_data, connected, settings,
                     smtp_sessions, requests, splits>>
  BY DEF PostfixTake, daemonVars
<1>2. replies \in Seq(ChannelReply) /\ got \in Seq(ChannelReply) /\ message <= Len(Messages)
  BY <1>1 DEF ChannelTypes
<1>3. Head(replies) \in ChannelReply /\ Tail(replies) \in Seq(ChannelReply) /\ Head(replies) = replies[1]
  BY <1>1, <1>2, HeadTailProperties
<1>4. got' \in Seq(ChannelReply)
  BY <1>1, <1>2, <1>3, AppendType
<1>5. Len(Messages) \in Nat
  BY MessagesLen
<1>6. message' \in 1..(Len(Messages) + 1)
  BY <1>1, <1>2, <1>5 DEF ChannelTypes
<1>7. ChannelTypes'
  BY <1>1, <1>3, <1>4, <1>6 DEF ChannelTypes
<1>8. got' \o replies' = got \o replies
  <2>1. <<Head(replies)>> \in Seq(ChannelReply)
    BY <1>3
  <2>2. got' = got \o <<Head(replies)>>
    BY <1>1, <1>2, <1>3, AppendIsConcat
  <2>3. <<Head(replies)>> \o Tail(replies) = replies
    BY <1>1, <1>2, <1>3, <2>1, SeqEqual, ConcatProperties, HeadTailProperties
  <2> QED
    BY <1>1, <1>2, <1>3, <2>1, <2>2, <2>3, ConcatAssociative
<1> QED
  BY <1>1, <1>3, <1>7, <1>8

\* A new connection begins with nothing in it.
LEMMA PostfixReconnectFacts ==
  ASSUME ChannelTypes, PostfixReconnect
  PROVE  /\ ChannelTypes' /\ ~connected /\ connected' /\ replies = <<>> /\ ~waiting'
         /\ wire' = <<>> /\ ac_in_buffer' = <<>> /\ Stream' = <<>> /\ buffer' = <<>>
         /\ smtp_session_data' = Empty /\ requests' = <<>> /\ got' = <<>> /\ state' = "RCPT"
         /\ message' = IF waiting THEN message + 1 ELSE message
         /\ UNCHANGED <<replies, smtp_sessions, settings, splits>>
<1>1. /\ ~connected /\ connected' = TRUE /\ replies = <<>> /\ waiting' = FALSE
      /\ wire' = <<>> /\ ac_in_buffer' = <<>> /\ buffer' = <<>>
      /\ smtp_session_data' = Empty /\ requests' = <<>> /\ got' = <<>> /\ state' = "RCPT"
      /\ message' = IF waiting THEN message + 1 ELSE message
      /\ UNCHANGED <<replies, smtp_sessions, settings, splits>>
  BY DEF PostfixReconnect
<1>2. Len(Messages) \in Nat
  BY MessagesLen
<1>3. message' \in 1..(Len(Messages) + 1)
  BY <1>1, <1>2 DEF ChannelTypes
<1>4. <<>> \in Seq(Atom) /\ <<>> \in Seq(Seq(Atom)) /\ <<>> \in Seq(ChannelReply)
      /\ <<>> \in Seq(SessionData)
  BY EmptySeq
<1>5. /\ wire' \in Seq(Atom) /\ ac_in_buffer' \in Seq(Atom) /\ buffer' \in Seq(Seq(Atom))
      /\ got' \in Seq(ChannelReply) /\ requests' \in Seq(SessionData) /\ smtp_session_data' \in SessionData
  BY <1>1, <1>4, EmptyType
<1>6. \A n \in 1..Len(buffer') :
         buffer'[n] # <<>> /\ \A i \in 1..Len(buffer'[n]) : ~IsNewline(buffer'[n][i])
  BY <1>1
<1>7. ChannelTypes'
  BY <1>1, <1>3, <1>5, <1>6 DEF ChannelTypes
<1>8. Stream' = <<>>
  BY <1>1, <1>4, ConcatEmptySeq DEF Stream
<1> QED
  BY <1>1, <1>7, <1>8

\* The types are inductive.
LEMMA ChannelTypesNext == ASSUME ChannelTypes, [ChannelNext]_channelVars PROVE ChannelTypes'
<1>1. CASE Recv
  BY <1>1, RecvFacts
<1>2. CASE CollectRest
  BY <1>2, CollectRestFacts
<1>3. CASE FoundTerminator
  BY <1>3, FoundTerminatorTypes
<1>4. CASE PostfixSend
  BY <1>4, PostfixSendFacts
<1>5. CASE PostfixTake
  BY <1>5, PostfixTakeFacts
<1>6. CASE PostfixReconnect
  BY <1>6, PostfixReconnectFacts
<1>7. CASE UNCHANGED channelVars
  BY <1>7 DEF channelVars, daemonVars, postfixVars, ChannelTypes
<1> QED
  BY <1>1, <1>2, <1>3, <1>4, <1>5, <1>6, <1>7 DEF ChannelNext, Loop

-----------------------------------------------------------------------------
(* One verdict for each request *)

LEMMA OneElementMore ==
  ASSUME NEW S, NEW x, IsFiniteSet(S)
  PROVE  /\ IsFiniteSet(S \cup {x}) /\ Cardinality(S \cup {x}) \in Nat
         /\ Cardinality(S \cup {x}) <= Cardinality(S) + 1
<1>1. /\ IsFiniteSet(S \cup {x})
      /\ Cardinality(S \cup {x}) = IF x \in S THEN Cardinality(S) ELSE Cardinality(S) + 1
  BY FS_AddElement
<1>2. Cardinality(S) \in Nat /\ Cardinality(S \cup {x}) \in Nat
  BY <1>1, FS_CardinalityType
<1> QED
  BY <1>1, <1>2

LEMMA JudgedFinite ==
  ASSUME NEW s \in Seq(ChannelReply)
  PROVE  IsFiniteSet(Verdicted(s)) /\ Cardinality(Verdicted(s)) \in Nat
<1>1. Verdicted(s) \in SUBSET (1..Len(s)) /\ IsFiniteSet(1..Len(s))
  BY FS_Interval DEF Verdicted
<1> QED
  BY <1>1, FS_Subset, FS_CardinalityType

LEMMA BlanksFinite ==
  ASSUME NEW s \in Seq(Atom), NEW begun
  PROVE  IsFiniteSet(Blanks(s, begun)) /\ Cardinality(Blanks(s, begun)) \in Nat
<1>1. Blanks(s, begun) \in SUBSET (1..Len(s)) /\ IsFiniteSet(1..Len(s))
  BY FS_Interval DEF Blanks
<1> QED
  BY <1>1, FS_Subset, FS_CardinalityType

\* A reply is one verdict more, or none.
LEMMA JudgedAppend ==
  ASSUME NEW s \in Seq(ChannelReply), NEW r \in ChannelReply
  PROVE  /\ Cardinality(Verdicted(Append(s, r))) <= Cardinality(Verdicted(s)) + 1
         /\ r.data = Empty => Cardinality(Verdicted(Append(s, r))) = Cardinality(Verdicted(s))
<1>1. /\ Len(Append(s, r)) = Len(s) + 1 /\ Append(s, r)[Len(s) + 1] = r
      /\ \A n \in 1..Len(s) : Append(s, r)[n] = s[n]
  BY AppendProperties
<1>2. Len(s) \in Nat
  OBVIOUS
<1>3. \A n \in Verdicted(Append(s, r)) : n \in Verdicted(s) \/ n = Len(s) + 1
  BY <1>1, <1>2 DEF Verdicted
<1>4. \A n \in Verdicted(s) : n \in Verdicted(Append(s, r))
  BY <1>1, <1>2 DEF Verdicted
<1>5. r.data = Empty => Len(s) + 1 \notin Verdicted(Append(s, r))
  BY <1>1, <1>2 DEF Verdicted
<1>6. IsFiniteSet(Verdicted(s)) /\ Cardinality(Verdicted(s)) \in Nat
  BY JudgedFinite
<1>7. CASE r.data = Empty
  <2>1. Verdicted(Append(s, r)) = Verdicted(s)
    BY <1>3, <1>4, <1>5, <1>7
  <2> QED
    BY <2>1, <1>6
<1>8. CASE r.data # Empty
  <2>1. Verdicted(Append(s, r)) \in SUBSET (Verdicted(s) \cup {Len(s) + 1})
    BY <1>3
  <2>2. /\ IsFiniteSet(Verdicted(s) \cup {Len(s) + 1})
        /\ Cardinality(Verdicted(s) \cup {Len(s) + 1}) <= Cardinality(Verdicted(s)) + 1
    BY <1>6, OneElementMore
  <2>3. Cardinality(Verdicted(Append(s, r))) <= Cardinality(Verdicted(s) \cup {Len(s) + 1})
    BY <2>1, <2>2, FS_Subset
  <2>4. /\ Cardinality(Verdicted(Append(s, r))) \in Nat
        /\ Cardinality(Verdicted(s) \cup {Len(s) + 1}) \in Nat
    BY <2>1, <2>2, FS_Subset, FS_CardinalityType
  <2> QED
    BY <1>6, <1>8, <2>2, <2>3, <2>4
<1> QED
  BY <1>7, <1>8

\* Where a newline or a line begun stands before what is left of a stream, the blank lines
\* of what is left were blank lines, and the first of the stream is not among them.
LEMMA BlanksShift ==
  ASSUME NEW s \in Seq(Atom), NEW t \in Seq(Atom), NEW n \in 1..Len(s), NEW b \in BOOLEAN, NEW c \in BOOLEAN,
         Len(t) = Len(s) - n, \A k \in 1..Len(t) : t[k] = s[n + k],
         b \/ IsNewline(s[n])
  PROVE  /\ Cardinality(Blanks(t, b)) <= Cardinality(Blanks(s, c))
         /\ 1 \in Blanks(s, c) => Cardinality(Blanks(t, b)) + 1 <= Cardinality(Blanks(s, c))
<1> DEFINE T == Blanks(t, b)
           Later == Blanks(s, c) \ {1}
           f == [k \in T |-> n + k]
<1>1. \A k \in T : n + k \in Later
  <2> SUFFICES ASSUME NEW k \in T PROVE n + k \in Blanks(s, c) /\ n + k # 1
    OBVIOUS
  <2>1. k \in 1..Len(t) /\ IsNewline(t[k]) /\ (IF k = 1 THEN ~b ELSE IsNewline(t[k - 1]))
    BY DEF Blanks
  <2>2. Len(s) \in Nat /\ n + k \in 1..Len(s) /\ n + k # 1 /\ IsNewline(s[n + k])
    BY <2>1
  <2>3. IsNewline(s[n + k - 1])
    <3>1. CASE k = 1
      BY <3>1, <2>1
    <3>2. CASE k # 1
      <4>1. k - 1 \in 1..Len(t) /\ n + (k - 1) = n + k - 1
        BY <3>2, <2>1
      <4> QED
        BY <4>1, <3>2, <2>1
    <3> QED
      BY <3>1, <3>2
  <2> QED
    BY <2>2, <2>3 DEF Blanks
<1>2. T \subseteq Nat
  BY DEF Blanks
<1>3. IsFiniteSet(T) /\ Cardinality(T) \in Nat /\ IsFiniteSet(Blanks(s, c)) /\ Cardinality(Blanks(s, c)) \in Nat
  BY BlanksFinite
<1> HIDE DEF T, Later
<1>4. f \in Injection(T, Later)
  BY <1>1, <1>2 DEF Injection, IsInjective
<1>5. /\ IsFiniteSet(Later)
      /\ Cardinality(Later) = IF 1 \in Blanks(s, c) THEN Cardinality(Blanks(s, c)) - 1 ELSE Cardinality(Blanks(s, c))
  BY <1>3, FS_RemoveElement DEF Later
<1>6. Cardinality(T) <= Cardinality(Later)
  BY <1>4, <1>5, FS_Injection
<1> QED
  BY <1>3, <1>5, <1>6 DEF T

\* A request brings one blank line.
LEMMA BlanksOfRequest ==
  ASSUME NEW s \in Seq(Atom), NEW b \in BOOLEAN, NEW lines \in Seq(Line), lines # <<>>
  PROVE  Cardinality(Blanks(s \o Encode(lines), b)) <= Cardinality(Blanks(s, b)) + 1
<1> DEFINE E == Encode(lines)
           N == Len(lines)
           end == Len(s) + 3 * N + 1
<1>1. /\ E \in Seq(Atom) /\ Len(E) = 3 * N + 1 /\ N \in Nat \ {0} /\ Len(s) \in Nat
      /\ \A j \in 0..(N - 1) : ~IsNewline(E[3 * j + 1]) /\ ~IsNewline(E[3 * j + 2])
  <2>1. /\ E \in Seq(Atom) /\ Len(E) = 3 * N + 1 /\ N \in Nat \ {0} /\ Len(s) \in Nat
    BY EncodeType, EmptySeq
  <2>2. ASSUME NEW j \in 0..(N - 1) PROVE ~IsNewline(E[3 * j + 1]) /\ ~IsNewline(E[3 * j + 2])
    <3>1. /\ E[3 * j + 1] = [name |-> lines[j + 1].name, value |-> lines[j + 1].value, part |-> "name"]
          /\ E[3 * j + 2] = [name |-> lines[j + 1].name, value |-> lines[j + 1].value, part |-> "value"]
      BY EncodeType
    <3> HIDE DEF E
    <3>2. E[3 * j + 1].part = "name" /\ E[3 * j + 2].part = "value"
      BY <3>1
    <3>3. Newline.part = "newline"
      BY DEF Newline
    <3> QED
      BY <3>2, <3>3 DEF IsNewline
  <2> QED
    BY <2>1, <2>2
<1> HIDE DEF E, N
<1>2. ASSUME NEW k \in 1..(3 * N), IsNewline(E[k]) PROVE k # 1 /\ ~IsNewline(E[k - 1])
  <2>1. PICK j \in 0..(N - 1) : k = 3 * j + 1 \/ k = 3 * j + 2 \/ k = 3 * j + 3
    <3>1. /\ (k - 1) \div 3 \in 0..(N - 1)
          /\ \/ k = 3 * ((k - 1) \div 3) + 1
             \/ k = 3 * ((k - 1) \div 3) + 2
             \/ k = 3 * ((k - 1) \div 3) + 3
      BY <1>1
    <3> QED
      BY <3>1
  <2>2. k = 3 * j + 3
    BY <1>1, <1>2, <2>1
  <2>3. k - 1 = 3 * j + 2 /\ k # 1
    BY <2>2
  <2> QED
    BY <1>1, <2>3
<1>3. /\ s \o E \in Seq(Atom) /\ Len(s \o E) = end
      /\ \A k \in 1..Len(s) : (s \o E)[k] = s[k]
      /\ \A k \in 1..(3 * N + 1) : (s \o E)[Len(s) + k] = E[k]
  <2>1. /\ s \o E \in Seq(Atom) /\ Len(s \o E) = Len(s) + Len(E)
        /\ \A k \in 1..(Len(s) + Len(E)) : (s \o E)[k] = IF k <= Len(s) THEN s[k] ELSE E[k - Len(s)]
    BY <1>1, ConcatProperties
  <2>2. \A k \in 1..Len(s) : (s \o E)[k] = s[k]
    BY <1>1, <2>1
  <2>3. ASSUME NEW k \in 1..(3 * N + 1) PROVE (s \o E)[Len(s) + k] = E[k]
    <3>1. Len(s) + k \in 1..(Len(s) + Len(E)) /\ ~(Len(s) + k <= Len(s)) /\ (Len(s) + k) - Len(s) = k
      BY <1>1
    <3> QED
      BY <2>1, <3>1
  <2> QED
    BY <1>1, <2>1, <2>2, <2>3
<1>4. \A k \in Blanks(s \o E, b) : k \in Blanks(s, b) \cup {end}
  <2> SUFFICES ASSUME NEW k \in Blanks(s \o E, b), k # end PROVE k \in Blanks(s, b)
    OBVIOUS
  <2>1. k \in 1..end /\ IsNewline((s \o E)[k]) /\ (IF k = 1 THEN ~b ELSE IsNewline((s \o E)[k - 1]))
    BY <1>3 DEF Blanks
  <2>2. CASE k <= Len(s)
    <3>1. k \in 1..Len(s) /\ (k # 1 => k - 1 \in 1..Len(s))
      BY <1>1, <2>1, <2>2
    <3> QED
      BY <1>3, <2>1, <3>1 DEF Blanks
  <2>3. CASE k > Len(s)
    <3>1. PICK q \in 1..(3 * N) : k = Len(s) + q
      <4>1. k - Len(s) \in 1..(3 * N) /\ k = Len(s) + (k - Len(s))
        <5>1. k \in Nat /\ k <= Len(s) + 3 * N + 1 /\ k # Len(s) + 3 * N + 1 /\ k > Len(s)
          BY <1>1, <2>1, <2>3
        <5> QED
          BY <1>1, <5>1
      <4> QED
        BY <4>1
    <3>2. IsNewline(E[q])
      BY <1>1, <1>3, <2>1, <3>1
    <3>3. q # 1 /\ ~IsNewline(E[q - 1])
      BY <1>2, <3>2
    <3>4. q - 1 \in 1..(3 * N + 1) /\ k - 1 = Len(s) + (q - 1) /\ k # 1
      BY <1>1, <3>1, <3>3
    <3>5. (s \o E)[k - 1] = E[q - 1]
      BY <1>3, <3>4
    <3> QED
      BY <2>1, <3>3, <3>4, <3>5
  <2> QED
    BY <1>1, <2>1, <2>2, <2>3
<1>5. IsFiniteSet(Blanks(s, b)) /\ Cardinality(Blanks(s, b)) \in Nat /\ Cardinality(Blanks(s \o E, b)) \in Nat
  BY <1>3, BlanksFinite
<1>6. /\ IsFiniteSet(Blanks(s, b) \cup {end})
      /\ Cardinality(Blanks(s, b) \cup {end}) <= Cardinality(Blanks(s, b)) + 1
      /\ Cardinality(Blanks(s, b) \cup {end}) \in Nat
  BY <1>5, OneElementMore
<1>7. Cardinality(Blanks(s \o E, b)) <= Cardinality(Blanks(s, b) \cup {end})
  BY <1>4, <1>6, FS_Subset
<1> QED
  BY <1>5, <1>6, <1>7 DEF E

\* The stream after a line, or the start of one, was taken off its front.
LEMMA StreamCut ==
  ASSUME ChannelTypes, NEW n \in 1..Len(ac_in_buffer), wire' = wire,
         ac_in_buffer' = SubSeq(ac_in_buffer, n + 1, Len(ac_in_buffer))
  PROVE  /\ Stream \in Seq(Atom) /\ Stream' \in Seq(Atom) /\ n \in 1..Len(Stream)
         /\ Stream[n] = ac_in_buffer[n] /\ Len(Stream') = Len(Stream) - n
         /\ \A k \in 1..Len(Stream') : Stream'[k] = Stream[n + k]
<1> DEFINE a == ac_in_buffer
           t == SubSeq(a, n + 1, Len(a))
<1>1. a \in Seq(Atom) /\ wire \in Seq(Atom) /\ Len(a) \in Nat /\ Len(wire) \in Nat
  BY DEF ChannelTypes
<1>2. /\ t \in Seq(Atom) /\ Len(t) = Len(a) - n
      /\ \A k \in 1..(Len(a) - n) : t[k] = a[n + k]
  BY <1>1
<1>3. Stream = a \o wire /\ Stream' = t \o wire
  BY DEF Stream
<1> HIDE DEF a, t
<1>4. /\ Stream \in Seq(Atom) /\ Len(Stream) = Len(a) + Len(wire)
      /\ \A k \in 1..(Len(a) + Len(wire)) : Stream[k] = IF k <= Len(a) THEN a[k] ELSE wire[k - Len(a)]
  BY <1>1, <1>3, ConcatProperties
<1>5. /\ Stream' \in Seq(Atom) /\ Len(Stream') = Len(t) + Len(wire)
      /\ \A k \in 1..(Len(t) + Len(wire)) : Stream'[k] = IF k <= Len(t) THEN t[k] ELSE wire[k - Len(t)]
  BY <1>1, <1>2, <1>3, ConcatProperties
<1>6. n \in 1..Len(a)
  BY DEF a
<1>7. n \in 1..Len(Stream) /\ Len(Stream') = Len(Stream) - n /\ Stream[n] = a[n]
  BY <1>1, <1>2, <1>4, <1>5, <1>6
<1>8. ASSUME NEW k \in 1..Len(Stream') PROVE Stream'[k] = Stream[n + k]
  <2>1. n + k \in 1..(Len(a) + Len(wire)) /\ k \in 1..(Len(t) + Len(wire))
    BY <1>1, <1>2, <1>5, <1>6
  <2>2. CASE k <= Len(t)
    BY <1>2, <1>1, <1>4, <1>5, <1>6, <2>1, <2>2
  <2>3. CASE ~(k <= Len(t))
    <3>1. ~(n + k <= Len(a)) /\ (n + k) - Len(a) = k - Len(t)
      BY <1>1, <1>2, <1>6, <2>1, <2>3
    <3> QED
      BY <1>4, <1>5, <2>1, <2>3, <3>1
  <2> QED
    BY <2>2, <2>3
<1> QED
  BY <1>4, <1>5, <1>7, <1>8 DEF a

VerdictCount == Cardinality(Verdicted(got \o replies)) + Cardinality(Blanks(Stream, buffer # <<>>))

\* The terms of the count are numbers.
LEMMA VerdictCountType ==
  ASSUME ChannelTypes
  PROVE  /\ Cardinality(Verdicted(got \o replies)) \in Nat
         /\ Cardinality(Blanks(Stream, buffer # <<>>)) \in Nat /\ Len(requests) \in Nat
         /\ got \o replies \in Seq(ChannelReply) /\ Stream \in Seq(Atom)
<1>1. got \o replies \in Seq(ChannelReply) /\ Stream \in Seq(Atom) /\ Len(requests) \in Nat
  BY ConcatProperties DEF ChannelTypes, Stream
<1> QED
  BY <1>1, JudgedFinite, BlanksFinite

\* What a push does to the replies taken and to take.
LEMMA PushOnBoth ==
  ASSUME ChannelTypes, NEW r \in ChannelReply, replies' = Append(replies, r), got' = got
  PROVE  got' \o replies' = Append(got \o replies, r)
<1>1. got \in Seq(ChannelReply) /\ replies \in Seq(ChannelReply) /\ <<r>> \in Seq(ChannelReply)
  BY DEF ChannelTypes
<1>2. replies' = replies \o <<r>>
  BY <1>1, AppendIsConcat
<1>3. got \o replies \in Seq(ChannelReply)
  BY <1>1, ConcatProperties
<1>4. Append(got \o replies, r) = (got \o replies) \o <<r>>
  BY <1>3, AppendIsConcat
<1> QED
  BY <1>1, <1>2, <1>4, ConcatAssociative

\* A turn of the loop at a newline: a verdict takes a blank line off the stream.
LEMMA VerdictFoundTerminator ==
  ASSUME VerdictInv, FoundTerminator PROVE VerdictInv'
<1>0. ChannelTypes /\ ChannelTypes' /\ VerdictCount <= Len(requests)
  BY FoundTerminatorTypes DEF VerdictInv, VerdictCount
<1>1. PICK i \in 1..Len(ac_in_buffer) :
           /\ IsNewline(ac_in_buffer[i]) /\ \A j \in 1..(i - 1) : ~IsNewline(ac_in_buffer[j])
           /\ ac_in_buffer' = SubSeq(ac_in_buffer, i + 1, Len(ac_in_buffer))
           /\ \/ /\ i = 1 /\ buffer = <<>> /\ buffer' = <<>>
                 /\ \/ smtp_session_data # Empty /\ HandleRequest
                    \/ /\ smtp_session_data = Empty /\ PushAction("DUNNO", Empty)
                       /\ UNCHANGED <<smtp_session_data, connected, smtp_sessions>>
              \/ /\ IF i = 1 THEN buffer # <<>> /\ buffer' = Front(buffer)
                             ELSE buffer' = buffer
                 /\ \E line \in Readings(IF i = 1 THEN Last(buffer) ELSE SubSeq(ac_in_buffer, 1, i - 1)) :
                      ReadLine(line)
  BY <1>0, FoundTerminatorFacts
<1>2. wire' = wire /\ got' = got /\ requests' = requests
  BY DEF FoundTerminator, postfixVars
<1>3. /\ Stream \in Seq(Atom) /\ Stream' \in Seq(Atom) /\ i \in 1..Len(Stream)
      /\ Stream[i] = ac_in_buffer[i] /\ Len(Stream') = Len(Stream) - i
      /\ \A k \in 1..Len(Stream') : Stream'[k] = Stream[i + k]
  BY <1>0, <1>1, <1>2, StreamCut
<1> DEFINE before == Blanks(Stream, buffer # <<>>)
           after == Blanks(Stream', buffer' # <<>>)
           old == got \o replies
           new == got' \o replies'
<1>4. Cardinality(after) <= Cardinality(before) /\ (1 \in before => Cardinality(after) + 1 <= Cardinality(before))
  <2>1. IsNewline(Stream[i])
    BY <1>1, <1>3
  <2>2. (buffer # <<>>) \in BOOLEAN /\ (buffer' # <<>>) \in BOOLEAN
    OBVIOUS
  <2> QED
    BY <1>3, <2>1, <2>2, BlanksShift
<1>5. /\ Cardinality(Verdicted(old)) \in Nat /\ Cardinality(before) \in Nat /\ Len(requests) \in Nat
      /\ old \in Seq(ChannelReply)
  BY <1>0, VerdictCountType
<1>6. Cardinality(Verdicted(new)) \in Nat /\ Cardinality(after) \in Nat
  <2>1. (Cardinality(Verdicted(got \o replies)) \in Nat /\ Cardinality(Blanks(Stream, buffer # <<>>)) \in Nat)'
    BY <1>0, JudgedFinite, BlanksFinite, ConcatProperties DEF ChannelTypes, Stream
  <2> QED
    BY <2>1
<1>7. Reply("DUNNO", Empty) \in ChannelReply /\ Reply("DUNNO", Empty).data = Empty
  BY EmptyType, ReplyType, PolicyChannelAssumption
<1>8. replies' = Append(replies, Reply("DUNNO", Empty)) => Cardinality(Verdicted(new)) = Cardinality(Verdicted(old))
  BY <1>0, <1>2, <1>5, <1>7, PushOnBoth, JudgedAppend
<1>9. replies' = replies => Cardinality(Verdicted(new)) = Cardinality(Verdicted(old))
  BY <1>2
<1> HIDE DEF before, after, old, new
<1>10. Cardinality(Verdicted(new)) + Cardinality(after) <= Cardinality(Verdicted(old)) + Cardinality(before)
  <2>1. CASE /\ i = 1 /\ buffer = <<>> /\ buffer' = <<>>
             /\ smtp_session_data # Empty /\ HandleRequest
    <3>1. 1 \in before
      BY <1>1, <1>3, <2>1 DEF before, Blanks
    <3>2. replies' = replies \/ \E action \in Verdicts : replies' = Append(replies, Reply(action, smtp_session_data))
      BY <1>0, <2>1, HandleRequestFacts
    <3>3. ASSUME NEW action \in Verdicts, replies' = Append(replies, Reply(action, smtp_session_data))
          PROVE  Cardinality(Verdicted(new)) <= Cardinality(Verdicted(old)) + 1
      <4>1. Reply(action, smtp_session_data) \in ChannelReply
        BY <1>0, ReplyType DEF ChannelTypes
      <4>2. new = Append(old, Reply(action, smtp_session_data))
        BY <1>0, <1>2, <3>3, <4>1, PushOnBoth DEF new, old
      <4> QED
        BY <1>5, <4>1, <4>2, JudgedAppend
    <3>4. Cardinality(Verdicted(new)) <= Cardinality(Verdicted(old)) + 1
      BY <1>5, <1>6, <1>9, <3>2, <3>3
    <3> QED
      BY <1>4, <1>5, <1>6, <3>1, <3>4
  <2>2. CASE smtp_session_data = Empty /\ PushAction("DUNNO", Empty)
    BY <1>4, <1>5, <1>6, <1>8, <2>2 DEF PushAction
  <2>3. CASE \E line \in Readings(IF i = 1 THEN Last(buffer) ELSE SubSeq(ac_in_buffer, 1, i - 1)) :
               ReadLine(line)
    <3>1. replies' = replies \/ replies' = Append(replies, Reply("DUNNO", Empty))
      BY <2>3 DEF ReadLine, PushAction
    <3> QED
      BY <1>4, <1>5, <1>6, <1>8, <1>9, <3>1
  <2> QED
    BY <1>1, <2>1, <2>2, <2>3
<1>11. VerdictCount = Cardinality(Verdicted(old)) + Cardinality(before)
       /\ VerdictCount' = Cardinality(Verdicted(new)) + Cardinality(after)
  BY DEF VerdictCount, old, new, before, after
<1>12. VerdictCount' <= Len(requests')
  BY <1>0, <1>2, <1>5, <1>6, <1>10, <1>11
<1> QED
  BY <1>0, <1>12 DEF VerdictInv, VerdictCount

\* Every step keeps the count.
LEMMA VerdictNext == ASSUME VerdictInv, [ChannelNext]_channelVars PROVE VerdictInv'
<1>0. ChannelTypes /\ ChannelTypes' /\ VerdictCount <= Len(requests)
  BY ChannelTypesNext DEF VerdictInv, VerdictCount
<1>1. /\ Cardinality(Verdicted(got \o replies)) \in Nat
      /\ Cardinality(Blanks(Stream, buffer # <<>>)) \in Nat /\ Len(requests) \in Nat
      /\ got \o replies \in Seq(ChannelReply) /\ Stream \in Seq(Atom)
  BY <1>0, VerdictCountType
<1>2. ASSUME UNCHANGED <<got, replies, requests, buffer>>, Stream' = Stream PROVE VerdictInv'
  BY <1>0, <1>2 DEF VerdictInv, VerdictCount
<1>3. CASE Recv
  BY <1>0, <1>2, <1>3, RecvFacts
<1>4. CASE CollectRest
  <2>1. /\ ac_in_buffer # <<>> /\ ac_in_buffer' = <<>> /\ buffer' # <<>>
        /\ UNCHANGED <<wire, replies, requests, got>>
    BY <1>0, <1>4, CollectRestFacts
  <2>2. ac_in_buffer \in Seq(Atom) /\ Len(ac_in_buffer) \in 1..Len(ac_in_buffer)
    BY <1>0, <2>1, EmptySeq DEF ChannelTypes
  <2>3. ac_in_buffer' = SubSeq(ac_in_buffer, Len(ac_in_buffer) + 1, Len(ac_in_buffer))
    BY <2>1, <2>2, SubSeqEmpty
  <2> DEFINE n == Len(ac_in_buffer)
  <2>4. /\ Stream' \in Seq(Atom) /\ n \in 1..Len(Stream) /\ Len(Stream') = Len(Stream) - n
        /\ \A k \in 1..Len(Stream') : Stream'[k] = Stream[n + k]
    BY <1>0, <2>1, <2>2, <2>3, StreamCut
  <2> HIDE DEF n
  <2>5. Cardinality(Blanks(Stream', TRUE)) <= Cardinality(Blanks(Stream, buffer # <<>>))
    BY <1>1, <2>4, BlanksShift
  <2>6. Cardinality(Blanks(Stream', TRUE)) \in Nat
    BY <2>4, BlanksFinite
  <2>7. VerdictCount' = Cardinality(Verdicted(got \o replies)) + Cardinality(Blanks(Stream', TRUE))
    <3>1. (buffer' # <<>>) = TRUE
      BY <2>1
    <3> QED
      BY <2>1, <3>1 DEF VerdictCount
  <2>8. VerdictCount' <= Len(requests')
    <3> DEFINE judged == Cardinality(Verdicted(got \o replies))
               before == Cardinality(Blanks(Stream, buffer # <<>>))
               after == Cardinality(Blanks(Stream', TRUE))
    <3>1. VerdictCount = judged + before /\ VerdictCount' = judged + after /\ after <= before
      BY <2>5, <2>7 DEF VerdictCount
    <3>2. judged \in Nat /\ before \in Nat /\ after \in Nat /\ requests' = requests
      BY <1>1, <2>1, <2>6
    <3> HIDE DEF judged, before, after
    <3> QED
      BY <1>0, <1>1, <3>1, <3>2
  <2> QED
    BY <1>0, <2>8 DEF VerdictInv, VerdictCount
<1>5. CASE FoundTerminator
  BY <1>5, VerdictFoundTerminator
<1>6. CASE PostfixSend
  <2>1. /\ RequestLines \in Seq(Line) /\ Stream' = Stream \o Encode(RequestLines)
        /\ requests' = Append(requests, Described(RequestLines)) /\ Described(RequestLines) \in SessionData
        /\ UNCHANGED <<buffer, replies, got>> /\ message \in 1..Len(Messages)
    BY <1>0, <1>6, PostfixSendFacts
  <2>2. RequestLines # <<>>
    <3>1. Len(RequestLines) = Len(Messages[message]) + 1
      <4>1. state \in {"RCPT", "END-OF-MESSAGE"}
        BY <1>0 DEF ChannelTypes
      <4> QED
        BY <2>1, <4>1, RequestLinesType
    <3>2. Messages[message] \in Seq([name : STRING, value : STRING])
      <4> DEFINE Typed == Seq([name : STRING, value : STRING])
      <4>1. Messages \in Seq(Typed)
        BY PolicyChannelAssumption
      <4> HIDE DEF Typed
      <4>2. Messages[message] \in Typed
        BY <2>1, <4>1
      <4> QED
        BY <4>2 DEF Typed
    <3> QED
      BY <3>1, <3>2
  <2>3. (buffer # <<>>) \in BOOLEAN
    OBVIOUS
  <2>4. Cardinality(Blanks(Stream', buffer # <<>>)) <= Cardinality(Blanks(Stream, buffer # <<>>)) + 1
    BY <1>1, <2>1, <2>2, <2>3, BlanksOfRequest
  <2>5. Len(requests') = Len(requests) + 1
    BY <1>0, <2>1, AppendProperties DEF ChannelTypes
  <2>6. Cardinality(Blanks(Stream', buffer # <<>>)) \in Nat
    <3>1. Stream' \in Seq(Atom)
      BY <1>0, ConcatProperties DEF ChannelTypes, Stream
    <3> QED
      BY <3>1, BlanksFinite
  <2>7. VerdictCount' = Cardinality(Verdicted(got \o replies)) + Cardinality(Blanks(Stream', buffer # <<>>))
    BY <2>1 DEF VerdictCount
  <2>8. VerdictCount' <= Len(requests')
    <3>1. VerdictCount = Cardinality(Verdicted(got \o replies)) + Cardinality(Blanks(Stream, buffer # <<>>))
      BY DEF VerdictCount
    <3> QED
      BY <1>0, <1>1, <2>4, <2>5, <2>6, <2>7, <3>1
  <2> QED
    BY <1>0, <2>8 DEF VerdictInv, VerdictCount
<1>7. CASE PostfixTake
  <2>1. /\ got' \o replies' = got \o replies
        /\ UNCHANGED <<wire, ac_in_buffer, buffer, requests>>
    BY <1>0, <1>7, PostfixTakeFacts
  <2>2. Stream' = Stream
    BY <2>1 DEF Stream
  <2> QED
    BY <1>0, <2>1, <2>2 DEF VerdictInv, VerdictCount
<1>8. CASE PostfixReconnect
  <2>1. /\ Stream' = <<>> /\ requests' = <<>> /\ got' = <<>> /\ replies' = <<>>
    BY <1>0, <1>8, PostfixReconnectFacts
  <2>2. got' \o replies' = <<>>
    BY <2>1, EmptySeq, ConcatEmptySeq
  <2>3. Verdicted(<<>>) = {} /\ Blanks(<<>>, buffer' # <<>>) = {}
    BY DEF Verdicted, Blanks
  <2>4. Verdicted(got' \o replies') = {} /\ Blanks(Stream', buffer' # <<>>) = {}
    BY <2>1, <2>2, <2>3
  <2>5. VerdictCount' = 0 /\ Len(requests') = 0
    <3>1. Cardinality({}) = 0
      BY FS_EmptySet
    <3>2. Len(requests') = 0
      BY <2>1
    <3>3. VerdictCount' = Cardinality({}) + Cardinality({})
      BY <2>4 DEF VerdictCount
    <3> QED
      BY <3>1, <3>2, <3>3
  <2> QED
    BY <1>0, <2>5 DEF VerdictInv, VerdictCount
<1>9. CASE UNCHANGED channelVars
  <2>1. UNCHANGED <<got, replies, requests, buffer>> /\ Stream' = Stream
    BY <1>9 DEF channelVars, daemonVars, postfixVars, Stream
  <2> QED
    BY <1>2, <2>1
<1> QED
  BY <1>3, <1>4, <1>5, <1>6, <1>7, <1>8, <1>9 DEF ChannelNext, Loop

LEMMA VerdictInit == ASSUME ChannelInit PROVE VerdictInv
<1>1. ChannelTypes
  BY ChannelTypesInit
<1>2. Stream = <<>> /\ got \o replies = <<>> /\ requests = <<>>
  BY EmptySeq, ConcatEmptySeq DEF ChannelInit, Stream
<1>3. Verdicted(<<>>) = {} /\ Blanks(<<>>, buffer # <<>>) = {}
  BY DEF Verdicted, Blanks
<1>4. Verdicted(got \o replies) = {} /\ Blanks(Stream, buffer # <<>>) = {} /\ Len(requests) = 0
  BY <1>2, <1>3
<1> QED
  <2>1. Cardinality({}) = 0
    BY FS_EmptySet
  <2> DEFINE judged == Cardinality(Verdicted(got \o replies))
             blanks == Cardinality(Blanks(Stream, buffer # <<>>))
  <2>2. judged = 0 /\ blanks = 0
    BY <1>4, <2>1
  <2> HIDE DEF judged, blanks
  <2>3. judged + blanks = 0
    BY <2>2
  <2>4. Cardinality(Verdicted(got \o replies)) + Cardinality(Blanks(Stream, buffer # <<>>)) = 0
    BY <2>3 DEF judged, blanks
  <2> QED
    BY <1>1, <1>4, <2>4 DEF VerdictInv

\* However the stream is cut, the plugins judge a request at most once.
THEOREM OneVerdict == ChannelSpec => []OneVerdictPerRequest
<1>1. ChannelInit => VerdictInv
  BY VerdictInit
<1>2. VerdictInv /\ [ChannelNext]_channelVars => VerdictInv'
  BY VerdictNext
<1>3. VerdictInv => OneVerdictPerRequest
  <2> SUFFICES ASSUME VerdictInv PROVE OneVerdictPerRequest
    OBVIOUS
  <2>1. ChannelTypes /\ ChannelTypeOK
    BY TypesGiveTypeOK DEF VerdictInv
  <2>2. /\ Cardinality(Verdicted(got \o replies)) \in Nat /\ Len(requests) \in Nat
        /\ Cardinality(Blanks(Stream, buffer # <<>>)) \in Nat
    BY <2>1, VerdictCountType
  <2>3. Cardinality(Verdicted(got \o replies)) <= Len(requests)
    BY <2>2 DEF VerdictInv
  <2> QED
    BY <2>1, <2>3 DEF OneVerdictPerRequest, Verdicted
<1> QED
  BY <1>1, <1>2, <1>3, PTL DEF ChannelSpec

-----------------------------------------------------------------------------
(* The reply for the request *)

\* A message is lines; one that is sent is not the only part of its request.
LEMMA MessageType ==
  ASSUME NEW m \in 1..Len(Messages)
  PROVE  Messages[m] \in Seq(Line) /\ Len(Messages[m]) \in Nat
<1> DEFINE Typed == [name : STRING, value : STRING]
<1>1. Messages \in Seq(Seq(Typed))
  BY PolicyChannelAssumption
<1>2. Typed \subseteq Line
  BY DEF Line, Text
<1> HIDE DEF Typed
<1>3. Messages[m] \in Seq(Typed)
  BY <1>1
<1> QED
  BY <1>2, <1>3

\* The lines of a request name different attributes, the same as those of any other.
LEMMA RegularRequest ==
  ASSUME RegularMessages, message \in 1..Len(Messages),
         state \in {"RCPT", "END-OF-MESSAGE"}
  PROVE  /\ \A i, j \in 1..Len(RequestLines) : RequestLines[i].name = RequestLines[j].name => i = j
         /\ \A i \in 1..Len(RequestLines) :
              RequestLines[i].name \in Addresses => RequestLines[i].value \notin Invalid
         /\ NamesOf(RequestLines) \cap Attributes = AllNames
<1> DEFINE M == Messages[message]
           N == Len(M)
<1>1. /\ RequestLines \in Seq(Line) /\ Len(RequestLines) = N + 1 /\ N \in Nat
      /\ RequestLines[1].name = "protocol_state" /\ RequestLines[1].value = state
      /\ \A i \in 1..N : RequestLines[i + 1] = M[i]
  BY RequestLinesType, MessageType
<1>2. /\ \A i, j \in 1..N : M[i].name = M[j].name => i = j
      /\ \A i \in 1..N : M[i].name # "protocol_state"
      /\ \A i \in 1..N : M[i].name \in Addresses => M[i].value \notin Invalid
      /\ NamesOf(M) = NamesOf(Messages[1])
  BY DEF RegularMessages
<1>3. state \notin Invalid
  BY DEF RegularMessages
<1> HIDE DEF M, N
<1>4. ASSUME NEW i \in 1..Len(RequestLines)
      PROVE  \/ i = 1
             \/ i # 1 /\ i - 1 \in 1..N /\ RequestLines[i] = M[i - 1]
  <2>1. CASE i # 1
    <3>1. i - 1 \in 1..N /\ (i - 1) + 1 = i
      BY <1>1, <2>1
    <3> QED
      BY <1>1, <2>1, <3>1
  <2> QED
    BY <2>1
<1>5. ASSUME NEW i \in 1..Len(RequestLines), NEW j \in 1..Len(RequestLines),
             RequestLines[i].name = RequestLines[j].name
      PROVE  i = j
  <2>1. CASE i = 1 \/ j = 1
    <3>1. \A n \in 1..Len(RequestLines) : n # 1 => RequestLines[n].name # "protocol_state"
      <4> SUFFICES ASSUME NEW n \in 1..Len(RequestLines), n # 1
                   PROVE  RequestLines[n].name # "protocol_state"
        OBVIOUS
      <4>1. n - 1 \in 1..N /\ RequestLines[n] = M[n - 1]
        BY <1>4
      <4> QED
        BY <1>2, <4>1
    <3> QED
      BY <1>1, <1>5, <2>1, <3>1
  <2>2. CASE i # 1 /\ j # 1
    <3>1. i - 1 \in 1..N /\ j - 1 \in 1..N /\ M[i - 1].name = M[j - 1].name
      BY <1>4, <1>5, <2>2
    <3>2. i - 1 = j - 1
      BY <1>2, <3>1
    <3> QED
      BY <1>1, <3>2
  <2> QED
    BY <2>1, <2>2
<1>6. ASSUME NEW i \in 1..Len(RequestLines), RequestLines[i].name \in Addresses
      PROVE  RequestLines[i].value \notin Invalid
  BY <1>1, <1>2, <1>3, <1>4, <1>6
<1>7. NamesOf(RequestLines) = {"protocol_state"} \cup NamesOf(M)
  <2>1. ASSUME NEW k \in NamesOf(RequestLines) PROVE k = "protocol_state" \/ k \in NamesOf(M)
    <3>1. PICK i \in 1..Len(RequestLines) : k = RequestLines[i].name
      BY DEF NamesOf
    <3>2. CASE i = 1
      BY <1>1, <3>1, <3>2
    <3>3. CASE i # 1
      <4>1. i - 1 \in 1..N /\ k = M[i - 1].name
        BY <1>4, <3>1, <3>3
      <4> QED
        BY <4>1 DEF NamesOf, N
    <3> QED
      BY <3>2, <3>3
  <2>2. "protocol_state" \in NamesOf(RequestLines)
    <3>1. 1 \in 1..Len(RequestLines)
      BY <1>1
    <3> QED
      BY <1>1, <3>1 DEF NamesOf
  <2>3. ASSUME NEW k \in NamesOf(M) PROVE k \in NamesOf(RequestLines)
    <3>1. PICK i \in 1..N : k = M[i].name
      BY DEF NamesOf, N
    <3>2. i + 1 \in 1..Len(RequestLines) /\ RequestLines[i + 1].name = k
      BY <1>1, <3>1
    <3> QED
      BY <3>2 DEF NamesOf
  <2> QED
    BY <2>1, <2>2, <2>3
<1> QED
  BY <1>2, <1>5, <1>6, <1>7 DEF AllNames

\* Of each attribute of a request what it describes is the value of its line.
LEMMA DescribedValue ==
  ASSUME NEW lines \in Seq(Line), NEW i \in 1..Len(lines), lines[i].name \in Attributes,
         \A a, b \in 1..Len(lines) : lines[a].name = lines[b].name => a = b
  PROVE  Described(lines)[lines[i].name] = lines[i].value
<1> DEFINE k == lines[i].name
           c == CHOOSE n \in 1..Len(lines) : lines[n].name = k
<1>1. c \in 1..Len(lines) /\ lines[c].name = k
  <2>1. \E n \in 1..Len(lines) : lines[n].name = k
    OBVIOUS
  <2> QED
    BY <2>1
<1>2. c = i
  BY <1>1
<1>3. k \in {lines[n].name : n \in 1..Len(lines)} \cap Attributes
  OBVIOUS
<1>4. Described(lines)[k] = lines[c].value
  BY <1>3 DEF Described
<1> QED
  BY <1>2, <1>4

\* A channel that has read every line of the request has the session data it describes.
LEMMA AllLinesRead ==
  ASSUME RegularMessages, ChannelTypes, message \in 1..Len(Messages),
         DOMAIN smtp_session_data \subseteq AllNames, LinesRead(Len(RequestLines))
  PROVE  smtp_session_data = Described(RequestLines)
<1>1. state \in {"RCPT", "END-OF-MESSAGE"} /\ smtp_session_data \in SessionData
  BY DEF ChannelTypes
<1>2. /\ \A i, j \in 1..Len(RequestLines) : RequestLines[i].name = RequestLines[j].name => i = j
      /\ NamesOf(RequestLines) \cap Attributes = AllNames
      /\ RequestLines \in Seq(Line)
  BY <1>1, RegularRequest, RequestLinesType
<1>3. Described(RequestLines) \in SessionData /\ DOMAIN Described(RequestLines) = AllNames
  BY <1>2, DescribedType
<1>4. ASSUME NEW k \in AllNames
      PROVE  k \in DOMAIN smtp_session_data /\ smtp_session_data[k] = Described(RequestLines)[k]
  <2>1. PICK i \in 1..Len(RequestLines) : k = RequestLines[i].name /\ k \in Attributes
    <3>1. k \in NamesOf(RequestLines) /\ k \in Attributes
      BY <1>2, <1>4
    <3> QED
      BY <3>1 DEF NamesOf
  <2>2. Described(RequestLines)[k] = RequestLines[i].value
    BY <1>2, <2>1, DescribedValue
  <2>3. k \in DOMAIN smtp_session_data /\ smtp_session_data[k] = RequestLines[i].value
    BY <2>1 DEF LinesRead
  <2> QED
    BY <2>2, <2>3
<1>5. DOMAIN smtp_session_data = AllNames
  BY <1>4
<1>6. smtp_session_data = [k \in AllNames |-> smtp_session_data[k]]
      /\ Described(RequestLines) = [k \in AllNames |-> Described(RequestLines)[k]]
  BY <1>1, <1>3, <1>5 DEF SessionData
<1> QED
  BY <1>4, <1>6

\* In step the buffer has whole lines only: what the channel receives ends with one.
LEMMA RecvInStep ==
  ASSUME InStepInv, Recv, Whole' PROVE Whole /\ InStep'
<1>0. ChannelTypes
  BY DEF InStepInv
<1>1. /\ Stream' = Stream /\ connected
      /\ UNCHANGED <<buffer, smtp_session_data, connected, replies, message, state, waiting, requests, got>>
  BY <1>0, RecvFacts
<1>2. PICK n \in 1..Len(wire) :
         /\ Len(ac_in_buffer') = n /\ ac_in_buffer'[n] = wire[n]
         /\ splits' = IF IsNewline(wire[n]) THEN splits ELSE splits + 1
  BY <1>0, RecvFacts
<1>3. splits \in Nat
  BY <1>0, PolicyChannelAssumption DEF ChannelTypes
<1>4. Whole /\ IsNewline(ac_in_buffer'[Len(ac_in_buffer')])
  BY <1>2, <1>3 DEF Whole
<1>5. InStep
  BY <1>4 DEF InStepInv
<1>6. RequestLines' = RequestLines
  BY <1>1 DEF RequestLines
<1>7. \A j : LinesRead(j) => LinesRead(j)'
  BY <1>1, <1>6 DEF LinesRead
<1>8. IF waiting' /\ replies' = <<>> THEN \E j \in 0..Len(RequestLines') : LinesRead(j)'
                                   ELSE Stream' = <<>>
  BY <1>1, <1>5, <1>6, <1>7 DEF InStep
<1>9. \A x : Described(x)' = Described(x)
  BY DEF Described
<1> QED
  BY <1>1, <1>4, <1>5, <1>6, <1>8 DEF InStep, AllNames, NamesOf, Described, IsNewline

\* The request is asked of a channel that has nothing left to do.
LEMMA PostfixSendInStep ==
  ASSUME InStepInv, PostfixSend, Whole PROVE InStep'
<1>0. ChannelTypes /\ InStep
  BY DEF InStepInv
<1>1. /\ ~waiting /\ waiting' /\ connected /\ message \in 1..Len(Messages)
      /\ RequestLines \in Seq(Line) /\ RequestLines' = RequestLines
      /\ Stream' = Stream \o Encode(RequestLines)
      /\ requests' = Append(requests, Described(RequestLines)) /\ Described(RequestLines) \in SessionData
      /\ UNCHANGED <<ac_in_buffer, buffer, smtp_session_data, connected, replies, got>>
  BY <1>0, PostfixSendFacts
<1>2. /\ Stream = <<>> /\ replies = <<>> /\ Len(requests) = Len(got) /\ buffer = <<>>
      /\ DOMAIN smtp_session_data \subseteq AllNames
      /\ \A n \in 1..Len(got) : got[n].data = requests[n]
      /\ ac_in_buffer # <<>> => IsNewline(ac_in_buffer[Len(ac_in_buffer)])
  BY <1>0, <1>1 DEF InStep
<1>3. requests \in Seq(SessionData) /\ Len(got) \in Nat
  BY <1>0 DEF ChannelTypes
<1>4. /\ Len(requests') = Len(requests) + 1 /\ requests'[Len(requests')] = Described(RequestLines)
      /\ \A n \in 1..Len(requests) : requests'[n] = requests[n]
  BY <1>1, <1>3, AppendProperties
<1>5. Stream' = Encode(RequestLines) /\ Len(RequestLines) \in Nat
      /\ Len(Encode(RequestLines)) = 3 * Len(RequestLines) + 1
  BY <1>1, <1>2, EncodeType, ConcatEmptySeq
<1>6. LinesRead(0)'
  <2>1. Len(Stream') = 3 * (Len(RequestLines') - 0) + 1
    BY <1>1, <1>5
  <2>2. \A k \in 1..Len(Stream') : 3 * 0 + k = k
    BY <1>1, <1>5
  <2>3. Encode(RequestLines)' = Encode(RequestLines)
    BY <1>1
  <2> QED
    BY <1>1, <1>5, <2>1, <2>2, <2>3 DEF LinesRead
<1>7. Described(RequestLines)' = Described(RequestLines)
  BY <1>1
<1>8. Len(got') <= Len(requests') /\ \A n \in 1..Len(got') : got'[n].data = requests'[n]
  BY <1>1, <1>2, <1>3, <1>4
<1>9. Len(requests') = Len(got') + 1 /\ requests'[Len(requests')] = Described(RequestLines)'
  BY <1>1, <1>2, <1>4, <1>7
<1>10. \E j \in 0..Len(RequestLines') : LinesRead(j)'
  <2>1. 0 \in 0..Len(RequestLines')
    BY <1>1, <1>5
  <2> QED
    BY <1>6, <2>1
<1>11. AllNames' = AllNames
  BY DEF AllNames, NamesOf
<1> QED
  BY <1>1, <1>2, <1>8, <1>9, <1>10, <1>11 DEF InStep

\* The reply Postfix takes is the one to its last request.
LEMMA PostfixTakeInStep ==
  ASSUME InStepInv, PostfixTake, Whole PROVE InStep'
<1>0. ChannelTypes /\ InStep
  BY DEF InStepInv
<1>1. /\ waiting /\ ~waiting' /\ replies # <<>>
      /\ Head(replies) = replies[1] /\ got' = Append(got, Head(replies)) /\ replies' = Tail(replies)
      /\ UNCHANGED <<wire, ac_in_buffer, buffer, smtp_session_data, connected, requests>>
  BY <1>0, PostfixTakeFacts
<1>2. /\ Len(requests) = Len(got) + 1 /\ Len(replies) = 1 /\ replies[1].data = requests[Len(requests)]
      /\ \A n \in 1..Len(got) : got[n].data = requests[n]
      /\ connected => Stream = <<>>
  BY <1>0, <1>1 DEF InStep
<1>3. replies \in Seq(ChannelReply) /\ got \in Seq(ChannelReply) /\ Head(replies) \in ChannelReply
  BY <1>0, <1>1, HeadTailProperties DEF ChannelTypes
<1>4. replies' = <<>>
  <2>1. Tail(replies) \in Seq(ChannelReply) /\ Len(Tail(replies)) = 0
    BY <1>1, <1>2, <1>3, HeadTailProperties
  <2> QED
    BY <1>1, <2>1, EmptySeq
<1>5. /\ Len(got') = Len(got) + 1 /\ got'[Len(got) + 1] = replies[1]
      /\ \A n \in 1..Len(got) : got'[n] = got[n]
  BY <1>1, <1>3, AppendProperties
<1>6. \A n \in 1..Len(got') : got'[n].data = requests[n]
  <2>1. \A n \in 1..Len(got') : n \in 1..Len(got) \/ n = Len(got) + 1
    BY <1>3, <1>5
  <2> QED
    BY <1>2, <1>5, <2>1
<1>7. Stream' = Stream
  BY <1>1 DEF Stream
<1> QED
  BY <1>0, <1>1, <1>2, <1>3, <1>4, <1>5, <1>6, <1>7 DEF InStep, AllNames, NamesOf

LEMMA PostfixReconnectInStep ==
  ASSUME InStepInv, PostfixReconnect, Whole PROVE InStep'
<1>0. ChannelTypes
  BY DEF InStepInv
<1>1. /\ connected' /\ replies' = <<>> /\ ~waiting' /\ ac_in_buffer' = <<>> /\ Stream' = <<>>
      /\ buffer' = <<>> /\ smtp_session_data' = Empty /\ requests' = <<>> /\ got' = <<>>
  BY <1>0, PostfixReconnectFacts
<1>2. DOMAIN Empty = {} /\ Len(<<>>) = 0
  BY EmptyType
<1> QED
  BY <1>1, <1>2 DEF InStep

\* A turn of the loop, in step, reads the next line of the request whole, or handles the
\* request with all that it describes.
LEMMA FoundTerminatorWhole ==
  ASSUME RegularMessages, InStepInv, FoundTerminator, Whole
  PROVE  /\ waiting /\ replies = <<>> /\ connected /\ message \in 1..Len(Messages)
         /\ UNCHANGED <<wire, settings, message, state, waiting, requests, got, splits>>
         /\ buffer' = <<>> /\ (ac_in_buffer' # <<>> => IsNewline(ac_in_buffer'[Len(ac_in_buffer')]))
         /\ \/ \E j \in 0..(Len(RequestLines) - 1), line \in [name : Text, value : Text] :
                 /\ LinesRead(j) /\ ReadLine(line)
                 /\ line.name = RequestLines[j + 1].name /\ line.value = RequestLines[j + 1].value
                 /\ Len(Stream') = 3 * (Len(RequestLines) - (j + 1)) + 1
                 /\ \A k \in 1..Len(Stream') : Stream'[k] = Encode(RequestLines)[3 * (j + 1) + k]
            \/ /\ Stream' = <<>> /\ smtp_session_data = Described(RequestLines)
               /\ \/ smtp_session_data # Empty /\ HandleRequest
                  \/ /\ smtp_session_data = Empty /\ PushAction("DUNNO", Empty)
                     /\ UNCHANGED <<smtp_session_data, connected, smtp_sessions>>
<1>0. ChannelTypes /\ InStep /\ connected
  BY DEF InStepInv, FoundTerminator
<1>1. PICK i \in 1..Len(ac_in_buffer) :
           /\ IsNewline(ac_in_buffer[i]) /\ \A j \in 1..(i - 1) : ~IsNewline(ac_in_buffer[j])
           /\ ac_in_buffer' = SubSeq(ac_in_buffer, i + 1, Len(ac_in_buffer))
           /\ \/ /\ i = 1 /\ buffer = <<>> /\ buffer' = <<>>
                 /\ \/ smtp_session_data # Empty /\ HandleRequest
                    \/ /\ smtp_session_data = Empty /\ PushAction("DUNNO", Empty)
                       /\ UNCHANGED <<smtp_session_data, connected, smtp_sessions>>
              \/ /\ IF i = 1 THEN buffer # <<>> /\ buffer' = Front(buffer)
                             ELSE buffer' = buffer
                 /\ \E line \in Readings(IF i = 1 THEN Last(buffer) ELSE SubSeq(ac_in_buffer, 1, i - 1)) :
                      ReadLine(line)
  BY <1>0, FoundTerminatorFacts
<1>2. UNCHANGED <<wire, settings, message, state, waiting, requests, got, splits>>
  BY DEF FoundTerminator, postfixVars
<1>3. /\ Stream \in Seq(Atom) /\ Stream' \in Seq(Atom) /\ i \in 1..Len(Stream)
      /\ Stream[i] = ac_in_buffer[i] /\ Len(Stream') = Len(Stream) - i
      /\ \A k \in 1..Len(Stream') : Stream'[k] = Stream[i + k]
  BY <1>0, <1>1, <1>2, StreamCut
<1>4. /\ ac_in_buffer \in Seq(Atom) /\ wire \in Seq(Atom) /\ Len(ac_in_buffer) \in Nat
      /\ \A k \in 1..Len(ac_in_buffer) : Stream[k] = ac_in_buffer[k]
  BY <1>0, ConcatProperties DEF ChannelTypes, Stream
<1>5. /\ waiting /\ replies = <<>> /\ buffer = <<>> /\ ac_in_buffer # <<>>
      /\ DOMAIN smtp_session_data \subseteq AllNames
      /\ IsNewline(ac_in_buffer[Len(ac_in_buffer)])
  <2>1. Stream # <<>> /\ ac_in_buffer # <<>>
    BY <1>1, <1>3
  <2> QED
    BY <1>0, <2>1 DEF InStep
<1>6. PICK j \in 0..Len(RequestLines) : LinesRead(j)
  BY <1>0, <1>5 DEF InStep
<1>7. message \in 1..Len(Messages) /\ state \in {"RCPT", "END-OF-MESSAGE"}
  BY <1>0, <1>5, MessagesLen DEF ChannelTypes
<1> DEFINE N == Len(RequestLines)
           E == Encode(RequestLines)
<1>8. /\ RequestLines \in Seq(Line) /\ N \in Nat /\ j \in 0..N
  BY <1>7, RequestLinesType
<1>9. /\ Len(Stream) = 3 * (N - j) + 1
      /\ \A k \in 1..Len(Stream) : Stream[k] = E[3 * j + k]
  BY <1>6 DEF LinesRead
<1>10. /\ buffer' = <<>>
       /\ ac_in_buffer' # <<>> => IsNewline(ac_in_buffer'[Len(ac_in_buffer')])
  <2>1. buffer' = <<>>
    BY <1>1, <1>5
  <2>2. /\ Len(ac_in_buffer') = Len(ac_in_buffer) - i
        /\ \A k \in 1..(Len(ac_in_buffer) - i) : ac_in_buffer'[k] = ac_in_buffer[i + k]
        /\ ac_in_buffer' \in Seq(Atom)
    BY <1>1, <1>4
  <2>3. ASSUME ac_in_buffer' # <<>> PROVE ac_in_buffer'[Len(ac_in_buffer')] = ac_in_buffer[Len(ac_in_buffer)]
    <3>1. Len(ac_in_buffer') \in 1..(Len(ac_in_buffer) - i) /\ i + Len(ac_in_buffer') = Len(ac_in_buffer)
      BY <1>4, <2>2, <2>3, EmptySeq
    <3> QED
      BY <2>2, <3>1
  <2> QED
    BY <1>5, <2>1, <2>3
<1>11. CASE j = N
  <2>1. i = 1 /\ Len(Stream') = 0
    BY <1>3, <1>8, <1>9, <1>11
  <2>2. Stream' = <<>>
    BY <1>3, <2>1, EmptySeq
  <2>3. smtp_session_data = Described(RequestLines)
    BY <1>0, <1>5, <1>6, <1>7, <1>11, AllLinesRead
  <2>4. \/ smtp_session_data # Empty /\ HandleRequest
        \/ /\ smtp_session_data = Empty /\ PushAction("DUNNO", Empty)
           /\ UNCHANGED <<smtp_session_data, connected, smtp_sessions>>
    BY <1>1, <1>5, <2>1
  <2> QED
    BY <1>0, <1>2, <1>5, <1>7, <1>10, <2>2, <2>3, <2>4
<1>12. CASE j # N
  <2>1. j \in 0..(N - 1) /\ j + 1 \in 1..N
    BY <1>8, <1>12
  <2>2. /\ E[3 * j + 1] = [name |-> RequestLines[j + 1].name, value |-> RequestLines[j + 1].value, part |-> "name"]
        /\ E[3 * j + 2] = [name |-> RequestLines[j + 1].name, value |-> RequestLines[j + 1].value, part |-> "value"]
        /\ E[3 * j + 3] = Newline
    BY <1>8, <2>1, EncodeType
  <2> HIDE DEF N, E
  <2>3. Len(Stream) >= 4 /\ Stream[1] = E[3 * j + 1] /\ Stream[2] = E[3 * j + 2] /\ Stream[3] = E[3 * j + 3]
    <3>1. Len(Stream) \in Nat /\ Len(Stream) >= 4
      BY <1>8, <1>9, <2>1
    <3>2. 1 \in 1..Len(Stream) /\ 2 \in 1..Len(Stream) /\ 3 \in 1..Len(Stream)
      BY <3>1
    <3> QED
      BY <1>9, <3>1, <3>2
  <2>4. /\ Stream[1].part = "name" /\ Stream[2].part = "value" /\ IsNewline(Stream[3])
        /\ Stream[1].name = RequestLines[j + 1].name /\ Stream[1].value = RequestLines[j + 1].value
    BY <2>2, <2>3 DEF IsNewline
  <2>5. ~IsNewline(Stream[1]) /\ ~IsNewline(Stream[2])
    <3>1. Newline.part = "newline"
      BY DEF Newline
    <3> QED
      BY <2>4, <3>1 DEF IsNewline
  <2>6. i = 3
    <3>1. i # 1 /\ i # 2
      BY <1>1, <1>3, <2>5
    <3>2. ~(i > 3)
      <4> SUFFICES ASSUME i > 3 PROVE FALSE
        OBVIOUS
      <4>1. 3 \in 1..(i - 1) /\ 3 \in 1..Len(ac_in_buffer)
        BY <1>4
      <4>2. ac_in_buffer[3] = Stream[3]
        BY <1>4, <4>1
      <4> QED
        BY <1>1, <2>4, <4>1, <4>2
    <3> QED
      BY <3>1, <3>2
  <2> DEFINE fragment == SubSeq(ac_in_buffer, 1, 2)
  <2>7. fragment \in Seq(Atom) /\ Len(fragment) = 2 /\ fragment[1] = Stream[1]
    <3>1. 3 \in 1..Len(ac_in_buffer) /\ 1 \in 1..Len(ac_in_buffer)
      BY <1>1, <1>4, <2>6
    <3> QED
      BY <1>4, <3>1
  <2>8. PICK line \in Readings(fragment) : ReadLine(line)
    BY <1>1, <2>6
  <2> HIDE DEF fragment
  <2>9. line.name = RequestLines[j + 1].name /\ line.value = RequestLines[j + 1].value
    BY <2>4, <2>7, ReadingsWhole
  <2>10. line \in [name : Text, value : Text]
    <3>1. line = [name |-> fragment[1].name, value |-> fragment[1].value]
      BY <2>7 DEF Readings
    <3>2. fragment[1] \in Atom
      <4>1. 1 \in 1..Len(fragment)
        BY <2>7
      <4> QED
        BY <2>7, <4>1, ElementOfSeq
    <3>3. fragment[1].name \in Text /\ fragment[1].value \in Text
      BY <3>2 DEF Atom
    <3> QED
      BY <3>1, <3>3
  <2>11. Len(Stream') = 3 * (N - (j + 1)) + 1
    BY <1>3, <1>8, <1>9, <2>6
  <2>12. \A k \in 1..Len(Stream') : Stream'[k] = E[3 * (j + 1) + k]
    <3> SUFFICES ASSUME NEW k \in 1..Len(Stream') PROVE Stream'[k] = E[3 * (j + 1) + k]
      OBVIOUS
    <3>1. 3 + k \in 1..Len(Stream) /\ 3 * j + (3 + k) = 3 * (j + 1) + k
      BY <1>3, <1>8, <1>9, <2>6, <2>11
    <3> QED
      BY <1>3, <1>9, <2>6, <3>1
  <2> QED
    BY <1>0, <1>2, <1>5, <1>6, <1>7, <1>10, <2>1, <2>8, <2>9, <2>10, <2>11, <2>12 DEF N, E
<1> QED
  BY <1>11, <1>12

\* The turns of the loop keep step.
LEMMA FoundTerminatorInStep ==
  ASSUME RegularMessages, InStepInv, FoundTerminator, Whole PROVE InStep'
<1>0. ChannelTypes /\ InStep
  BY DEF InStepInv
<1>1. /\ waiting /\ replies = <<>> /\ connected /\ message \in 1..Len(Messages)
      /\ UNCHANGED <<wire, settings, message, state, waiting, requests, got, splits>>
      /\ buffer' = <<>> /\ (ac_in_buffer' # <<>> => IsNewline(ac_in_buffer'[Len(ac_in_buffer')]))
  BY FoundTerminatorWhole
<1>2. RequestLines' = RequestLines /\ AllNames' = AllNames /\ Described(RequestLines)' = Described(RequestLines)
  BY <1>1 DEF RequestLines, AllNames, NamesOf, Described
<1>3. /\ Len(requests') = Len(got') + 1 /\ requests'[Len(requests')] = Described(RequestLines)'
      /\ Len(got') <= Len(requests') /\ \A n \in 1..Len(got') : got'[n].data = requests'[n]
      /\ DOMAIN smtp_session_data \subseteq AllNames /\ waiting'
      /\ requests[Len(requests)] = Described(RequestLines)
  BY <1>0, <1>1, <1>2 DEF InStep
<1>4. state \in {"RCPT", "END-OF-MESSAGE"} /\ smtp_session_data \in SessionData /\ connected \in BOOLEAN
  BY <1>0 DEF ChannelTypes
<1>5. /\ \A a, b \in 1..Len(RequestLines) : RequestLines[a].name = RequestLines[b].name => a = b
      /\ \A a \in 1..Len(RequestLines) :
           RequestLines[a].name \in Addresses => RequestLines[a].value \notin Invalid
      /\ NamesOf(RequestLines) \cap Attributes = AllNames
      /\ RequestLines \in Seq(Line) /\ Len(RequestLines) \in Nat
  <2>1. RequestLines \in Seq(Line)
    BY <1>1, <1>4, RequestLinesType
  <2> QED
    BY <1>1, <1>4, <2>1, RegularRequest
<1>6. CASE \E j \in 0..(Len(RequestLines) - 1), line \in [name : Text, value : Text] :
              /\ LinesRead(j) /\ ReadLine(line)
              /\ line.name = RequestLines[j + 1].name /\ line.value = RequestLines[j + 1].value
              /\ Len(Stream') = 3 * (Len(RequestLines) - (j + 1)) + 1
              /\ \A k \in 1..Len(Stream') : Stream'[k] = Encode(RequestLines)[3 * (j + 1) + k]
  <2>1. PICK j \in 0..(Len(RequestLines) - 1), line \in [name : Text, value : Text] :
              /\ LinesRead(j) /\ ReadLine(line)
              /\ line.name = RequestLines[j + 1].name /\ line.value = RequestLines[j + 1].value
              /\ Len(Stream') = 3 * (Len(RequestLines) - (j + 1)) + 1
              /\ \A k \in 1..Len(Stream') : Stream'[k] = Encode(RequestLines)[3 * (j + 1) + k]
    BY <1>6
  <2>2. j + 1 \in 1..Len(RequestLines) /\ j + 1 \in 0..Len(RequestLines)
    BY <1>5
  <2>3. ~(line.name \in Addresses /\ line.value \in Invalid)
    BY <1>5, <2>1, <2>2
  <2>4. line.value \in Text
    OBVIOUS
  <2>5. CASE line.value \in Undecodable
    <3>1. connected' = FALSE /\ smtp_session_data' = smtp_session_data /\ replies' = replies
      BY <2>1, <2>5 DEF ReadLine, HandleError
    <3> QED
      BY <1>1, <1>2, <1>3, <3>1 DEF InStep
  <2>6. CASE line.value \notin Undecodable
    <3>1. /\ replies' = <<>> /\ connected' = connected
          /\ smtp_session_data' = IF line.name \in Attributes THEN Store(smtp_session_data, line)
                                                             ELSE smtp_session_data
      BY <1>1, <2>1, <2>3, <2>6 DEF ReadLine
    <3>2. DOMAIN smtp_session_data' \subseteq AllNames
      <4>1. CASE line.name \in Attributes
        <5>1. line.name \in AllNames
          BY <1>5, <2>1, <2>2, <4>1 DEF NamesOf
        <5>2. DOMAIN Store(smtp_session_data, line) = DOMAIN smtp_session_data \cup {line.name}
          BY <1>4, <2>4, <4>1, StoreType
        <5> QED
          BY <1>3, <3>1, <4>1, <5>1, <5>2
      <4>2. CASE line.name \notin Attributes
        BY <1>3, <3>1, <4>2
      <4> QED
        BY <4>1, <4>2
    <3>3. ASSUME NEW a \in 1..(j + 1), RequestLines[a].name \in Attributes
          PROVE  /\ RequestLines[a].name \in DOMAIN smtp_session_data'
                 /\ smtp_session_data'[RequestLines[a].name] = RequestLines[a].value
      <4>1. CASE a = j + 1
        <5>1. line.name \in Attributes
          BY <2>1, <3>3, <4>1
        <5>2. /\ line.name \in DOMAIN Store(smtp_session_data, line)
              /\ Store(smtp_session_data, line)[line.name] = line.value
          BY <1>4, <2>4, <5>1, StoreType
        <5> QED
          BY <2>1, <3>1, <4>1, <5>1, <5>2
      <4>2. CASE a # j + 1
        <5>1. a \in 1..j /\ a \in 1..Len(RequestLines)
          BY <1>5, <4>2
        <5>2. /\ RequestLines[a].name \in DOMAIN smtp_session_data
              /\ smtp_session_data[RequestLines[a].name] = RequestLines[a].value
          BY <2>1, <3>3, <5>1 DEF LinesRead
        <5>3. RequestLines[a].name # line.name
          BY <1>5, <2>1, <2>2, <4>2, <5>1
        <5>4. line.name \in Attributes =>
                /\ DOMAIN Store(smtp_session_data, line) = DOMAIN smtp_session_data \cup {line.name}
                /\ \A k \in DOMAIN smtp_session_data :
                     k # line.name => Store(smtp_session_data, line)[k] = smtp_session_data[k]
          BY <1>4, <2>4, StoreType
        <5> QED
          BY <3>1, <5>2, <5>3, <5>4
      <4> QED
        BY <4>1, <4>2
    <3>4. LinesRead(j + 1)'
      BY <1>2, <2>1, <3>3 DEF LinesRead
    <3>5. \E q \in 0..Len(RequestLines') : LinesRead(q)'
      BY <1>2, <2>2, <3>4
    <3> QED
      BY <1>1, <1>2, <1>3, <3>1, <3>2, <3>5 DEF InStep
  <2> QED
    BY <2>5, <2>6
<1>7. CASE /\ Stream' = <<>> /\ smtp_session_data = Described(RequestLines)
           /\ smtp_session_data # Empty /\ HandleRequest
  <2>1. smtp_session_data' = smtp_session_data
    BY <1>0, <1>7, HandleRequestFacts
  <2>2. CASE connected' = FALSE /\ replies' = replies
    BY <1>1, <1>2, <1>3, <2>1, <2>2 DEF InStep
  <2>3. CASE \E action \in Verdicts : replies' = Append(replies, Reply(action, smtp_session_data))
    <3>1. PICK action \in Verdicts : replies' = Append(replies, Reply(action, smtp_session_data))
      BY <2>3
    <3>2. Reply(action, smtp_session_data) \in ChannelReply /\ Reply(action, smtp_session_data).data = smtp_session_data
      BY <1>4, ReplyType
    <3>3. Len(replies') = 1 /\ replies'[1].data = smtp_session_data /\ replies' # <<>>
      BY <1>1, <3>1, <3>2, EmptySeq, AppendProperties
    <3> QED
      BY <1>1, <1>2, <1>3, <1>7, <2>1, <3>3 DEF InStep
  <2> QED
    BY <1>0, <1>7, <2>2, <2>3, HandleRequestFacts
<1>8. CASE /\ Stream' = <<>> /\ smtp_session_data = Described(RequestLines)
           /\ smtp_session_data = Empty /\ PushAction("DUNNO", Empty)
           /\ UNCHANGED <<smtp_session_data, connected, smtp_sessions>>
  <2>1. replies' = Append(replies, Reply("DUNNO", Empty))
    BY <1>8 DEF PushAction
  <2>2. Reply("DUNNO", Empty) \in ChannelReply /\ Reply("DUNNO", Empty).data = Empty
    BY EmptyType, ReplyType, PolicyChannelAssumption
  <2>3. Len(replies') = 1 /\ replies'[1].data = Empty /\ replies' # <<>>
    BY <1>1, <2>1, <2>2, EmptySeq, AppendProperties
  <2> QED
    BY <1>1, <1>2, <1>3, <1>8, <2>3 DEF InStep
<1> QED
  BY <1>6, <1>7, <1>8, FoundTerminatorWhole

\* Every step keeps step.
LEMMA InStepNext == ASSUME RegularMessages, InStepInv, [ChannelNext]_channelVars PROVE InStepInv'
<1>a. ChannelTypes
  BY DEF InStepInv
<1>b. splits \in 0..MaxSplits
  BY <1>a DEF ChannelTypes
<1>c. MaxSplits \in Nat
  BY PolicyChannelAssumption
<1>d. ChannelTypes'
  BY <1>a, ChannelTypesNext
<1>0. ChannelTypes /\ ChannelTypes' /\ splits \in Nat
  BY <1>a, <1>b, <1>c, <1>d
<1> SUFFICES ASSUME Whole' PROVE InStep'
  BY <1>0 DEF InStepInv
<1>1. CASE Recv
  BY <1>1, RecvInStep
<1>2. CASE CollectRest
  <2>1. /\ connected /\ ac_in_buffer # <<>> /\ splits' = splits
        /\ \A i \in 1..Len(ac_in_buffer) : ~IsNewline(ac_in_buffer[i])
    BY <1>0, <1>2, CollectRestFacts
  <2>2. Len(ac_in_buffer) \in 1..Len(ac_in_buffer)
    BY <1>0, <2>1, EmptySeq DEF ChannelTypes
  <2>3. InStep
    BY <2>1 DEF Whole, InStepInv
  <2>4. FALSE
    BY <2>1, <2>2, <2>3 DEF InStep
  <2> QED
    BY <2>4
<1>3. CASE FoundTerminator
  <2>1. Whole
    BY <1>3 DEF FoundTerminator, Whole
  <2> QED
    BY <1>3, <2>1, FoundTerminatorInStep
<1>4. CASE PostfixSend
  <2>1. Whole
    BY <1>4 DEF PostfixSend, Whole
  <2> QED
    BY <1>4, <2>1, PostfixSendInStep
<1>5. CASE PostfixTake
  <2>1. Whole
    BY <1>5 DEF PostfixTake, Whole
  <2> QED
    BY <1>5, <2>1, PostfixTakeInStep
<1>6. CASE PostfixReconnect
  <2>1. Whole
    BY <1>6 DEF PostfixReconnect, Whole
  <2> QED
    BY <1>6, <2>1, PostfixReconnectInStep
<1>7. CASE UNCHANGED channelVars
  <2>1. UNCHANGED <<wire, ac_in_buffer, buffer, smtp_session_data, connected, replies, message, state,
                    waiting, requests, got, splits>>
    BY <1>7 DEF channelVars, daemonVars, postfixVars
  <2>2. InStep
    BY <2>1 DEF Whole, InStepInv
  <2>3. Stream' = Stream /\ RequestLines' = RequestLines
    BY <2>1 DEF Stream, RequestLines
  <2>4. \A j : LinesRead(j) => LinesRead(j)'
    BY <2>1, <2>3 DEF LinesRead
  <2>5. connected => IF waiting' /\ replies' = <<>>
                       THEN \E j \in 0..Len(RequestLines') : LinesRead(j)'
                       ELSE Stream' = <<>>
    BY <2>1, <2>2, <2>3, <2>4 DEF InStep
  <2> QED
    BY <2>1, <2>2, <2>3, <2>5 DEF InStep, AllNames, NamesOf, Described, IsNewline
<1> QED
  BY <1>1, <1>2, <1>3, <1>4, <1>5, <1>6, <1>7 DEF ChannelNext, Loop

LEMMA InStepInit == ASSUME ChannelInit PROVE InStepInv
<1>1. ChannelTypes
  BY ChannelTypesInit
<1>2. /\ wire = <<>> /\ ac_in_buffer = <<>> /\ buffer = <<>> /\ smtp_session_data = Empty
      /\ connected = TRUE /\ replies = <<>> /\ waiting = FALSE /\ requests = <<>> /\ got = <<>>
  BY DEF ChannelInit
<1>3. Stream = <<>>
  BY <1>2, EmptySeq, ConcatEmptySeq DEF Stream
<1>4. DOMAIN Empty = {} /\ Len(<<>>) = 0
  BY EmptyType
<1> QED
  BY <1>1, <1>2, <1>3, <1>4 DEF InStepInv, InStep

\* The reply Postfix takes for its n-th request was worked out from the attributes of that
\* request, for every number of messages of whatever lines, as long as no line was cut.
THEOREM RepliesInStep ==
  ASSUME RegularMessages PROVE ChannelSpec => []ReplyForRequest
<1>1. ChannelInit => InStepInv
  BY InStepInit
<1>2. InStepInv /\ [ChannelNext]_channelVars => InStepInv'
  BY InStepNext
<1>3. InStepInv => ReplyForRequest
  BY DEF InStepInv, InStep, ReplyForRequest
<1> QED
  BY <1>1, <1>2, <1>3, PTL DEF ChannelSpec

-----------------------------------------------------------------------------
(* One row for each message *)

\* What a channel in step logs: the instance of the message, if anything.
LEMMA RowOfRequest ==
  ASSUME RegularMessages, TellApart, ChannelTypes, message \in 1..Len(Messages),
         smtp_session_data = Described(RequestLines)
  PROVE  /\ Get(smtp_session_data, "instance") = InstanceOf(message)
         /\ "protocol_state" \in DOMAIN smtp_session_data => smtp_session_data["protocol_state"] = state
         /\ log_policy_request_raises <=> ~Loggable
         /\ smtp_session_data # Empty
<1>1. state \in {"RCPT", "END-OF-MESSAGE"}
  BY DEF ChannelTypes
<1>2. /\ RequestLines \in Seq(Line) /\ Len(RequestLines) = Len(Messages[message]) + 1
      /\ RequestLines[1].name = "protocol_state" /\ RequestLines[1].value = state
      /\ \A i \in 1..Len(Messages[message]) : RequestLines[i + 1] = Messages[message][i]
      /\ Messages[message] \in Seq(Line) /\ Len(Messages[message]) \in Nat
  <2>1. /\ RequestLines \in Seq(Line) /\ Len(RequestLines) = Len(Messages[message]) + 1
        /\ RequestLines[1] = [name |-> "protocol_state", value |-> state]
        /\ \A i \in 1..Len(Messages[message]) : RequestLines[i + 1] = Messages[message][i]
    BY <1>1, RequestLinesType
  <2>2. Messages[message] \in Seq(Line) /\ Len(Messages[message]) \in Nat
    BY MessageType
  <2> QED
    BY <2>1, <2>2
<1>3. /\ \A a, b \in 1..Len(RequestLines) : RequestLines[a].name = RequestLines[b].name => a = b
      /\ NamesOf(RequestLines) \cap Attributes = AllNames
  BY <1>1, RegularRequest
<1>4. DOMAIN smtp_session_data = AllNames
  BY <1>2, <1>3, DescribedType
<1>5. PICK i \in 1..Len(Messages[message]) : Messages[message][i].name = "instance"
  BY DEF TellApart, NamesOf
<1>6. InstanceOf(message) = Messages[message][i].value
  <2>1. \A a, b \in 1..Len(Messages[message]) : Messages[message][a].name = Messages[message][b].name => a = b
    BY DEF RegularMessages
  <2>2. "instance" \in Attributes
    BY DEF TellApart
  <2> DEFINE M == Messages[message]
  <2>3. M \in Seq(Line) /\ i \in 1..Len(M) /\ M[i].name = "instance"
        /\ \A a, b \in 1..Len(M) : M[a].name = M[b].name => a = b
    BY <1>2, <1>5, <2>1
  <2> HIDE DEF M
  <2>4. Described(M)[M[i].name] = M[i].value
    BY <2>2, <2>3, DescribedValue
  <2>5. Described(M)["instance"] = M[i].value
    BY <2>3, <2>4
  <2> QED
    BY <2>5 DEF InstanceOf, M
<1>7. smtp_session_data["instance"] = Messages[message][i].value /\ "instance" \in DOMAIN smtp_session_data
  <2>1. i + 1 \in 1..Len(RequestLines) /\ RequestLines[i + 1] = Messages[message][i]
    BY <1>2
  <2>2. "instance" \in Attributes
    BY DEF TellApart
  <2>3. Described(RequestLines)[RequestLines[i + 1].name] = RequestLines[i + 1].value
    <3> DEFINE n == i + 1
    <3>1. n \in 1..Len(RequestLines) /\ RequestLines[n].name \in Attributes
      BY <1>5, <2>1, <2>2
    <3> HIDE DEF n
    <3>2. Described(RequestLines)[RequestLines[n].name] = RequestLines[n].value
      BY <1>2, <1>3, <3>1, DescribedValue
    <3> QED
      BY <3>2 DEF n
  <2>4. "instance" \in NamesOf(RequestLines)
    BY <1>5, <2>1 DEF NamesOf
  <2> QED
    BY <1>3, <1>4, <1>5, <2>1, <2>2, <2>3, <2>4
<1>8. "protocol_state" \in DOMAIN smtp_session_data => smtp_session_data["protocol_state"] = state
  <2> SUFFICES ASSUME "protocol_state" \in DOMAIN smtp_session_data
               PROVE  smtp_session_data["protocol_state"] = state
    OBVIOUS
  <2>1. "protocol_state" \in Attributes /\ 1 \in 1..Len(RequestLines)
    BY <1>2, <1>4 DEF AllNames
  <2>2. Described(RequestLines)[RequestLines[1].name] = RequestLines[1].value
    BY <1>2, <1>3, <2>1, DescribedValue
  <2> QED
    BY <1>2, <2>2
<1>9. smtp_session_data # Empty
  BY <1>7, EmptyType
<1> QED
  BY <1>4, <1>6, <1>7, <1>8, <1>9 DEF Get, log_policy_request_raises, Loggable

\* Nothing is logged of a message that Postfix has not come to.
LEMMA NothingOfTheNext ==
  ASSUME TellApart, ChannelTypes, LogInStep, message + 1 <= Len(Messages)
  PROVE  \A i \in 1..Len(smtp_sessions) : smtp_sessions[i].instance # InstanceOf(message + 1)
<1> SUFFICES ASSUME NEW i \in 1..Len(smtp_sessions), smtp_sessions[i].instance = InstanceOf(message + 1)
             PROVE  FALSE
  OBVIOUS
<1>1. PICK m \in 1..Len(Messages) : m <= message /\ smtp_sessions[i].instance = InstanceOf(m)
  BY DEF LogInStep
<1>2. message + 1 \in 1..Len(Messages) /\ m # message + 1
  <2>1. message \in Nat /\ Len(Messages) \in Nat /\ message >= 1
    BY MessagesLen DEF ChannelTypes
  <2> QED
    BY <1>1, <2>1
<1> QED
  BY <1>1, <1>2 DEF TellApart

\* The turns of the loop log a message once.
LEMMA FoundTerminatorLogs ==
  ASSUME RegularMessages, TellApart, LogInv, FoundTerminator, Whole
  PROVE  LogInStep'
<1>0. InStepInv /\ ChannelTypes /\ LogInStep
  BY DEF LogInv, InStepInv
<1>1. /\ waiting /\ replies = <<>> /\ connected /\ message \in 1..Len(Messages)
      /\ UNCHANGED <<settings, message, state, waiting, requests, got, splits>>
  BY <1>0, FoundTerminatorWhole
<1>2. /\ state \in {"RCPT", "END-OF-MESSAGE"} /\ smtp_session_data \in SessionData
      /\ smtp_sessions \in Seq(LogRow) /\ Len(smtp_sessions) \in Nat
  BY <1>0 DEF ChannelTypes
<1> DEFINE Current(i) == smtp_sessions[i].instance = InstanceOf(message)
<1>3. /\ \A i \in 1..Len(smtp_sessions) : \E m \in 1..Len(Messages) :
           m <= message /\ smtp_sessions[i].instance = InstanceOf(m)
      /\ \A i \in 1..Len(smtp_sessions) : smtp_sessions[i].action = "OK" => ~settings.bypass_whitelist
      /\ \A i, j \in 1..Len(smtp_sessions) :
           i < j /\ smtp_sessions[i].instance = smtp_sessions[j].instance
             => smtp_sessions[i].action = "OK" /\ ~settings.bypass_whitelist
      /\ \A i \in 1..Len(smtp_sessions) :
           Current(i) => state = "END-OF-MESSAGE" /\ smtp_sessions[i].action = "OK"
      /\ ~Loggable => smtp_sessions = <<>>
  BY <1>0, <1>1, <1>2 DEF LogInStep
<1>4. Loggable' = Loggable /\ \A m : InstanceOf(m)' = InstanceOf(m)
  BY DEF Loggable, AllNames, NamesOf, InstanceOf, Described
<1>5. ASSUME smtp_sessions' = smtp_sessions, (connected' \/ replies' = <<>> \/ ~Loggable)
      PROVE  LogInStep'
  <2>1. \A i \in 1..Len(smtp_sessions) : Current(i) =>
           IF state = "RCPT"
             THEN replies' # <<>> /\ smtp_sessions[i].action = replies'[1].action /\ replies'[1].action # "DUNNO"
             ELSE replies' = <<>> => smtp_sessions[i].action = "OK"
    BY <1>3
  <2> QED
    BY <1>1, <1>3, <1>4, <1>5, <2>1 DEF LogInStep
<1>6. CASE \E j \in 0..(Len(RequestLines) - 1), line \in [name : Text, value : Text] :
              /\ LinesRead(j) /\ ReadLine(line)
              /\ line.name = RequestLines[j + 1].name /\ line.value = RequestLines[j + 1].value
              /\ Len(Stream') = 3 * (Len(RequestLines) - (j + 1)) + 1
              /\ \A k \in 1..Len(Stream') : Stream'[k] = Encode(RequestLines)[3 * (j + 1) + k]
  <2>1. PICK j \in 0..(Len(RequestLines) - 1), line \in [name : Text, value : Text] :
          ReadLine(line) /\ line.name = RequestLines[j + 1].name /\ line.value = RequestLines[j + 1].value
    BY <1>6
  <2>2. ~(line.name \in Addresses /\ line.value \in Invalid)
    <3>1. Len(RequestLines) \in Nat
      BY <1>1, <1>2, RequestLinesType
    <3>2. j + 1 \in 1..Len(RequestLines)
      BY <3>1
    <3> QED
      BY <1>1, <1>2, <2>1, <3>2, RegularRequest
  <2>3. replies' = <<>> /\ smtp_sessions' = smtp_sessions
    BY <1>1, <2>1, <2>2 DEF ReadLine, HandleError
  <2> QED
    BY <1>5, <2>3
<1>7. CASE smtp_session_data = Described(RequestLines) /\ smtp_session_data # Empty /\ HandleRequest
  <2>1. /\ Get(smtp_session_data, "instance") = InstanceOf(message)
        /\ "protocol_state" \in DOMAIN smtp_session_data => smtp_session_data["protocol_state"] = state
        /\ log_policy_request_raises <=> ~Loggable
    BY <1>0, <1>1, <1>7, RowOfRequest
  <2>2. CASE connected' = FALSE /\ replies' = replies /\ smtp_sessions' = smtp_sessions
    BY <1>1, <1>5, <2>2
  <2>3. ASSUME NEW action \in Verdicts,
               "protocol_state" \in DOMAIN smtp_session_data,
               replies' = Append(replies, Reply(action, smtp_session_data)),
               IF log_policy_request_raises
                 THEN connected' = FALSE /\ smtp_sessions' = smtp_sessions
                 ELSE /\ connected' = connected
                      /\ \/ smtp_sessions' = smtp_sessions
                         \/ Logged(action) /\ (settings.bypass_whitelist => action # "OK")
                              /\ smtp_sessions' = Append(smtp_sessions,
                                   [instance |-> Get(smtp_session_data, "instance"), action |-> action])
        PROVE  LogInStep'
    <3>1. CASE smtp_sessions' = smtp_sessions
      BY <1>1, <1>5, <2>1, <2>3, <3>1
    <3>2. CASE /\ ~log_policy_request_raises /\ connected' = connected
               /\ Logged(action) /\ (settings.bypass_whitelist => action # "OK")
               /\ smtp_sessions' = Append(smtp_sessions,
                    [instance |-> Get(smtp_session_data, "instance"), action |-> action])
      <4> DEFINE row == [instance |-> Get(smtp_session_data, "instance"), action |-> action]
                 n == Len(smtp_sessions)
      <4>1. row \in LogRow /\ row.instance = InstanceOf(message) /\ row.action = action
        BY <1>2, <2>1, GetType DEF LogRow
      <4>2. smtp_sessions' = Append(smtp_sessions, row)
        BY <3>2
      <4> HIDE DEF row
      <4>3. /\ Len(smtp_sessions') = n + 1 /\ smtp_sessions'[n + 1] = row /\ n \in Nat
            /\ \A i \in 1..n : smtp_sessions'[i] = smtp_sessions[i]
        BY <1>2, <4>1, <4>2, AppendProperties
      <4>4. Reply(action, smtp_session_data) \in ChannelReply /\ Reply(action, smtp_session_data).action = action
        BY <1>2, ReplyType
      <4>5. replies' # <<>> /\ replies'[1].action = action
        BY <1>1, <2>3, <4>4, EmptySeq, AppendProperties
      <4>6. state = "END-OF-MESSAGE" \/ (state = "RCPT" /\ action # "DUNNO")
        BY <2>1, <2>3, <3>2 DEF Logged
      <4>7. Loggable
        BY <2>1, <3>2
      <4> HIDE DEF n
      <4>8. \A i \in 1..(n + 1) : i \in 1..n \/ i = n + 1
        BY <4>3
      <4>9. \A i \in 1..(n + 1) : \E m \in 1..Len(Messages) :
               m <= message /\ smtp_sessions'[i].instance = InstanceOf(m)
        <5>1. message <= message
          BY <1>1, MessagesLen
        <5> QED
          BY <1>1, <1>3, <4>1, <4>3, <4>8, <5>1 DEF n
      <4>10. \A i \in 1..(n + 1) : smtp_sessions'[i].action = "OK" => ~settings.bypass_whitelist
        BY <1>3, <3>2, <4>1, <4>3, <4>8 DEF n
      <4>11. ASSUME NEW i \in 1..(n + 1), NEW j \in 1..(n + 1),
                    i < j, smtp_sessions'[i].instance = smtp_sessions'[j].instance
             PROVE  smtp_sessions'[i].action = "OK" /\ ~settings.bypass_whitelist
        <5>1. i \in 1..n
          BY <4>3, <4>11
        <5>2. CASE j \in 1..n
          BY <1>3, <4>3, <4>11, <5>1, <5>2 DEF n
        <5>3. CASE j = n + 1
          <6>1. Current(i)
            BY <4>1, <4>3, <4>11, <5>1, <5>3
          <6> QED
            BY <1>3, <4>3, <5>1, <6>1 DEF n
        <5> QED
          BY <4>8, <5>2, <5>3
      <4>12. ASSUME NEW i \in 1..(n + 1), smtp_sessions'[i].instance = InstanceOf(message)
             PROVE  IF state = "RCPT"
                      THEN replies' # <<>> /\ smtp_sessions'[i].action = replies'[1].action
                             /\ replies'[1].action # "DUNNO"
                      ELSE replies' = <<>> => smtp_sessions'[i].action = "OK"
        <5>1. CASE i = n + 1
          BY <4>1, <4>3, <4>5, <4>6, <5>1
        <5>2. CASE i \in 1..n
          <6>1. Current(i)
            BY <4>3, <4>12, <5>2
          <6> QED
            BY <1>3, <4>5, <5>2, <6>1 DEF n
        <5> QED
          BY <4>8, <5>1, <5>2
      <4>13. /\ message' = message /\ state' = state /\ settings' = settings /\ connected'
             /\ Loggable' /\ message <= Len(Messages)
        BY <1>1, <1>4, <3>2, <4>7, MessagesLen
      <4>14. 1..Len(smtp_sessions') = 1..(n + 1)
        BY <4>3
      <4> QED
        BY <1>4, <4>9, <4>10, <4>11, <4>12, <4>13, <4>14 DEF LogInStep
    <3> QED
      BY <2>3, <3>1, <3>2
  <2> QED
    BY <1>0, <1>7, <2>2, <2>3, HandleRequestFacts
<1>8. CASE smtp_session_data = Described(RequestLines) /\ smtp_session_data = Empty
  BY <1>0, <1>1, <1>8, RowOfRequest
<1> QED
  BY <1>0, <1>6, <1>7, <1>8, FoundTerminatorWhole

\* Every step logs a message once.
LEMMA LogNext ==
  ASSUME RegularMessages, TellApart, LogInv, [ChannelNext]_channelVars PROVE LogInv'
<1>a. InStepInv /\ InStepInv'
  BY InStepNext DEF LogInv
<1>b. ChannelTypes
  BY <1>a DEF InStepInv
<1>c. splits \in 0..MaxSplits
  BY <1>b DEF ChannelTypes
<1>d. MaxSplits \in Nat
  BY PolicyChannelAssumption
<1>0. InStepInv /\ InStepInv' /\ ChannelTypes /\ splits \in Nat
  BY <1>a, <1>b, <1>c, <1>d
<1> SUFFICES ASSUME Whole' PROVE LogInStep'
  BY <1>0 DEF LogInv
<1>1. Loggable' = Loggable /\ \A m : InstanceOf(m)' = InstanceOf(m)
  BY DEF Loggable, AllNames, NamesOf, InstanceOf, Described
<1>2. ASSUME Whole, UNCHANGED <<smtp_sessions, settings, message, state, replies, connected>>,
             connected \/ waiting' = waiting
      PROVE  LogInStep'
  <2>1. LogInStep
    BY <1>2 DEF LogInv
  <2> QED
    BY <1>1, <1>2, <2>1 DEF LogInStep
<1>3. CASE Recv
  <2>1. Whole
    BY <1>0, <1>3, RecvInStep
  <2>2. UNCHANGED <<smtp_sessions, settings, message, state, replies, connected, waiting>>
    BY <1>0, <1>3, RecvFacts
  <2> QED
    BY <1>2, <2>1, <2>2
<1>4. CASE CollectRest
  <2>1. UNCHANGED <<smtp_sessions, settings, message, state, replies, connected, waiting, splits>>
    BY <1>0, <1>4, CollectRestFacts
  <2> QED
    BY <1>2, <2>1 DEF Whole
<1>5. CASE FoundTerminator
  <2>1. Whole
    BY <1>5 DEF FoundTerminator, Whole
  <2> QED
    BY <1>5, <2>1, FoundTerminatorLogs
<1>6. CASE PostfixSend
  <2>1. connected /\ UNCHANGED <<smtp_sessions, settings, message, state, replies, connected, splits>>
    BY <1>0, <1>6, PostfixSendFacts
  <2> QED
    BY <1>2, <2>1 DEF Whole
<1>7. CASE PostfixTake
  <2>1. /\ waiting /\ ~waiting' /\ replies # <<>> /\ Head(replies) = replies[1] /\ replies' = Tail(replies)
        /\ UNCHANGED <<settings, connected, smtp_sessions, splits>>
        /\ IF state = "RCPT" /\ Head(replies).action \in {"DUNNO", "OK"}
             THEN state' = "END-OF-MESSAGE" /\ message' = message
             ELSE state' = "RCPT" /\ message' = message + 1
    BY <1>0, <1>7, PostfixTakeFacts
  <2>2. LogInStep /\ InStep
    BY <1>0, <2>1 DEF LogInv, InStepInv, Whole
  <2>3. message \in Nat /\ message <= Len(Messages) /\ Len(Messages) \in Nat
    BY <1>0, <2>1, MessagesLen DEF ChannelTypes
  <2>4. replies' = <<>>
    <3>1. replies \in Seq(ChannelReply) /\ Len(replies) = 1
      BY <1>0, <2>1, <2>2 DEF ChannelTypes, InStep
    <3>2. Tail(replies) \in Seq(ChannelReply) /\ Len(Tail(replies)) = 0
      BY <2>1, <3>1, HeadTailProperties
    <3> QED
      BY <2>1, <3>2, EmptySeq
  <2>5. \A i \in 1..Len(smtp_sessions) : \E m \in 1..Len(Messages) :
           m <= message' /\ smtp_sessions[i].instance = InstanceOf(m)
    <3> SUFFICES ASSUME NEW i \in 1..Len(smtp_sessions)
                 PROVE  \E m \in 1..Len(Messages) : m <= message' /\ smtp_sessions[i].instance = InstanceOf(m)
      OBVIOUS
    <3>1. PICK m \in 1..Len(Messages) : m <= message /\ smtp_sessions[i].instance = InstanceOf(m)
      BY <2>2 DEF LogInStep
    <3>2. m <= message'
      BY <2>1, <2>3, <3>1
    <3> QED
      BY <3>1, <3>2
  <2>6. message' <= Len(Messages) => \A i \in 1..Len(smtp_sessions) :
          smtp_sessions[i].instance = InstanceOf(message') =>
            state' = "END-OF-MESSAGE" /\ smtp_sessions[i].action = "OK"
    <3>1. CASE state' = "END-OF-MESSAGE" /\ message' = message /\ state = "RCPT"
               /\ replies[1].action \in {"DUNNO", "OK"}
      BY <2>2, <2>3, <3>1 DEF LogInStep
    <3>2. CASE message' = message + 1
      BY <1>0, <2>2, <3>2, NothingOfTheNext
    <3> QED
      BY <2>1, <3>1, <3>2
  <2>7. state' = "END-OF-MESSAGE" => message' <= Len(Messages)
    BY <2>1, <2>3
  <2>8. ~connected' => ~Loggable
    BY <2>1, <2>2 DEF LogInStep
  <2>9. state' \in {"RCPT", "END-OF-MESSAGE"}
    BY <2>1
  <2> QED
    BY <1>1, <2>1, <2>2, <2>4, <2>5, <2>6, <2>7, <2>8, <2>9 DEF LogInStep
<1>8. CASE PostfixReconnect
  <2>1. /\ ~connected /\ connected' /\ replies = <<>> /\ replies' = <<>> /\ state' = "RCPT"
        /\ message' = IF waiting THEN message + 1 ELSE message
        /\ UNCHANGED <<smtp_sessions, settings, splits>>
    BY <1>0, <1>8, PostfixReconnectFacts
  <2>2. LogInStep
    BY <1>0, <2>1 DEF LogInv, Whole
  <2>3. message \in Nat /\ Len(Messages) \in Nat
    BY <1>0, MessagesLen DEF ChannelTypes
  <2>4. message' <= Len(Messages) => \A i \in 1..Len(smtp_sessions) :
          smtp_sessions[i].instance # InstanceOf(message')
    <3>1. CASE waiting
      BY <1>0, <2>1, <2>2, <3>1, NothingOfTheNext
    <3>2. CASE ~waiting
      <4>1. smtp_sessions = <<>>
        BY <2>1, <2>2, <3>2 DEF LogInStep
      <4> QED
        BY <4>1
    <3> QED
      BY <3>1, <3>2
  <2>5. \A i \in 1..Len(smtp_sessions) : \E m \in 1..Len(Messages) :
           m <= message' /\ smtp_sessions[i].instance = InstanceOf(m)
    <3> SUFFICES ASSUME NEW i \in 1..Len(smtp_sessions)
                 PROVE  \E m \in 1..Len(Messages) : m <= message' /\ smtp_sessions[i].instance = InstanceOf(m)
      OBVIOUS
    <3>1. PICK m \in 1..Len(Messages) : m <= message /\ smtp_sessions[i].instance = InstanceOf(m)
      BY <2>2 DEF LogInStep
    <3>2. m <= message'
      BY <2>1, <2>3, <3>1
    <3> QED
      BY <3>1, <3>2
  <2> QED
    BY <1>1, <2>1, <2>2, <2>4, <2>5 DEF LogInStep
<1>9. CASE UNCHANGED channelVars
  <2>1. UNCHANGED <<smtp_sessions, settings, message, state, replies, connected, waiting, splits>>
    BY <1>9 DEF channelVars, daemonVars, postfixVars
  <2> QED
    BY <1>2, <2>1 DEF Whole
<1> QED
  BY <1>3, <1>4, <1>5, <1>6, <1>7, <1>8, <1>9 DEF ChannelNext, Loop

LEMMA LogInit == ASSUME ChannelInit PROVE LogInv
<1>1. smtp_sessions = <<>> /\ connected = TRUE /\ state = "RCPT"
  BY DEF ChannelInit
<1>2. InStepInv
  BY InStepInit
<1> QED
  BY <1>1, <1>2 DEF LogInv, LogInStep

\* A message is logged once, at RCPT or at END-OF-MESSAGE, unless a whitelist accepted it at
\* RCPT, for every number of messages that their instances tell apart.
THEOREM MessagesLoggedOnce ==
  ASSUME RegularMessages, TellApart PROVE ChannelSpec => []LoggedOnce
<1>1. ChannelInit => LogInv
  BY LogInit
<1>2. LogInv /\ [ChannelNext]_channelVars => LogInv'
  BY LogNext
<1>3. LogInv => LoggedOnce
  BY DEF LogInv, LogInStep, LoggedOnce
<1> QED
  BY <1>1, <1>2, <1>3, PTL DEF ChannelSpec
=============================================================================
