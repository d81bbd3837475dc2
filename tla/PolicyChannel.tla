--------------------------- MODULE PolicyChannel ---------------------------
(***************************************************************************)
(* One connection of the policy service (libs/channel.py, class Policy on  *)
(* asynchat.async_chat): how the byte stream Postfix writes becomes lines, *)
(* lines become session data, a blank line becomes a verdict, and verdicts *)
(* become replies that Postfix matches to its requests by order alone.     *)
(*                                                                         *)
(* A line `name=value` is two atoms, so that a segment boundary can fall   *)
(* inside it.  One action is one recv(), one turn of the loop in           *)
(* handle_read, or one step of Postfix, which sends a request and waits    *)
(* for its reply: RCPT first, END-OF-MESSAGE when RCPT was not rejected.   *)
(***************************************************************************)
EXTENDS Naturals, Sequences, FiniteSets, SequencesExt

CONSTANTS
  Attributes,   \* SMTP_SESSION_ATTRIBUTES
  Addresses,    \* sender, recipient, sasl_username
  SuffixOf,     \* pairs of a name and an attribute that a proper suffix of it spells
  Messages,     \* what Postfix sends: a sequence of lines for each message
  Invalid,      \* values utils.is_email refuses
  Truncated,    \* what is left of a value cut by a segment boundary
  Undecodable,  \* values that are not UTF-8
  Verdicts,     \* actions the plugins may return: "DUNNO", "OK" of a whitelist,
                \* "GREYLIST" of greylisting (451 4.7.1), and rejections
  LogSettings,  \* {[on, bypass_greylisting, bypass_whitelist]}: LOG_SMTP_SESSIONS*
  MaxSplits     \* bound on the segments that end inside a line

ASSUME PolicyChannelAssumption ==
  /\ Addresses \subseteq Attributes
  /\ Messages \in Seq(Seq([name : STRING, value : STRING]))
  /\ "DUNNO" \in Verdicts
  /\ MaxSplits \in Nat

VARIABLES
  wire,               \* atoms Postfix wrote and the daemon has not received
  ac_in_buffer,       \* asynchat: received, not yet consumed
  buffer,             \* list of fragments collected
  smtp_session_data,  \* attributes of the session
  connected,
  settings,           \* one of LogSettings
  replies,            \* producer_fifo and the socket: replies on their way
  smtp_sessions,      \* rows logged to SQL: instance and action
  message, state,     \* Postfix: message and protocol state of the request
  waiting,            \* Postfix: a request is outstanding
  requests, got,      \* history, per connection: requests sent, replies taken
  splits              \* history: segments that ended inside a line

daemonVars  == <<ac_in_buffer, buffer, smtp_session_data, connected, smtp_sessions, settings>>
postfixVars == <<message, state, waiting, requests, got>>
channelVars == <<wire, replies, daemonVars, postfixVars, splits>>

-----------------------------------------------------------------------------
(* Lines, fragments and session data *)

Newline == [name |-> "", value |-> "", part |-> "newline"]
IsNewline(atom) == atom = Newline
Atoms(line) == << [name |-> line.name, value |-> line.value, part |-> "name"],
                  [name |-> line.name, value |-> line.value, part |-> "value"], Newline >>
\* The lines one after the other, three atoms each, and a blank line.
Encode(lines) ==
  [k \in 1..(3 * Len(lines) + 1) |->
     IF k = 3 * Len(lines) + 1 THEN Newline
     ELSE Atoms(lines[(k + 2) \div 3])[((k + 2) % 3) + 1]]

NoName == "none"   \* of text that names no attribute

\* What `line.split('=', 1)` may find in a fragment: the whole line, the end
\* of a line whose beginning came in an earlier segment, or such a beginning.
Readings(fragment) ==
  LET name == fragment[1].name  value == fragment[1].value
  IN  IF Len(fragment) = 2 THEN {[name |-> name, value |-> value]}
      ELSE IF fragment[1].part = "value"
        THEN {[name |-> s, value |-> value] :
                s \in {NoName} \cup {a \in Attributes : <<name, a>> \in SuffixOf}}
      ELSE {[name |-> NoName, value |-> ""], [name |-> name, value |-> Truncated]}

Empty == [k \in {} |-> ""]
StoreNonEmpty(data, line) ==     \* seeded fault: an empty value is not stored
  IF line.value = "" THEN data
  ELSE [k \in DOMAIN data \cup {line.name} |-> IF k = line.name THEN line.value ELSE data[k]]

Store(data, line) ==
  [k \in DOMAIN data \cup {line.name} |-> IF k = line.name THEN line.value ELSE data[k]]

\* smtp_session_data.get(k, '')
Get(data, k) == IF k \in DOMAIN data THEN data[k] ELSE ""

Reply(action, data) == [action |-> action, data |-> data]

-----------------------------------------------------------------------------
(* The daemon *)

PushAction(action, data) == replies' = Append(replies, Reply(action, data))

\* An exception that escapes found_terminator: handle_error closes the channel.
HandleError ==
  /\ connected' = FALSE
  /\ UNCHANGED <<smtp_session_data, smtp_sessions>>

LoggedTwice(action) == TRUE      \* seeded fault: at RCPT too, whatever the action

Logged(action) ==
  \/ smtp_session_data["protocol_state"] = "END-OF-MESSAGE"
  \/ smtp_session_data["protocol_state"] = "RCPT" /\ action # "DUNNO"

HandleRequestSilent ==           \* seeded fault: nothing is sent for DUNNO
  \E action \in Verdicts :
    /\ IF action = "DUNNO" THEN UNCHANGED replies ELSE PushAction(action, smtp_session_data)
    /\ UNCHANGED <<connected, smtp_session_data, smtp_sessions>>

\* log_policy_request looks two attributes up without a default: a KeyError.
log_policy_request_raises ==
  ~({"client_address", "protocol_state"} \subseteq DOMAIN smtp_session_data)

\* log_smtp_session: nothing where the settings say so, or a row, whose INSERT may
\* fail: the failure is logged and forgotten.
log_smtp_session(action) ==
  \/ UNCHANGED smtp_sessions
  \/ /\ settings.on
     /\ settings.bypass_greylisting => action # "GREYLIST"
     /\ settings.bypass_whitelist => action # "OK"
     /\ smtp_sessions' = Append(smtp_sessions,
          [instance |-> Get(smtp_session_data, "instance"), action |-> action])

\* found_terminator at the end of a request: the modeler is called, its
\* verdict sent, the session logged; the session data stays.
HandleRequest ==
  IF "protocol_state" \notin DOMAIN smtp_session_data
    THEN HandleError /\ UNCHANGED replies            \* KeyError
  ELSE \E action \in Verdicts :
         /\ PushAction(action, smtp_session_data)
         /\ IF log_policy_request_raises THEN HandleError
              ELSE /\ IF Logged(action) THEN log_smtp_session(action)
                                       ELSE UNCHANGED smtp_sessions
                   /\ UNCHANGED <<connected, smtp_session_data>>

ReadLineEnds(line) ==            \* seeded fault: text without a name ends the request
  IF line.name = NoName /\ smtp_session_data # Empty THEN HandleRequest
  ELSE /\ smtp_session_data' = IF line.name \in Attributes
                                 THEN Store(smtp_session_data, line) ELSE smtp_session_data
       /\ UNCHANGED <<connected, smtp_sessions, replies>>

\* found_terminator with a fragment in the buffer.
ReadLine(line) ==
  IF line.value \in Undecodable THEN HandleError /\ UNCHANGED replies
  ELSE IF line.name \notin Attributes
    THEN UNCHANGED <<smtp_session_data, connected, smtp_sessions, replies>>
  ELSE /\ smtp_session_data' = Store(smtp_session_data, line)
       /\ IF line.name \in Addresses /\ line.value \in Invalid
            THEN PushAction("DUNNO", Empty) ELSE UNCHANGED replies
       /\ UNCHANGED <<connected, smtp_sessions>>

\* handle_read: recv() returns what has arrived, some prefix of the stream.
Recv ==
  /\ connected
  /\ ac_in_buffer = <<>>
  /\ \E n \in 1..Len(wire) :
       /\ splits' = IF IsNewline(wire[n]) THEN splits ELSE splits + 1
       /\ splits' <= MaxSplits
       /\ ac_in_buffer' = SubSeq(wire, 1, n)
       /\ wire' = SubSeq(wire, n + 1, Len(wire))
  /\ UNCHANGED <<buffer, smtp_session_data, connected, settings, replies, smtp_sessions, postfixVars>>

\* No terminator left: collect_incoming_data with the rest.
CollectRest ==
  /\ connected
  /\ ac_in_buffer # <<>>
  /\ ~\E i \in 1..Len(ac_in_buffer) : IsNewline(ac_in_buffer[i])
  /\ buffer' = Append(buffer, ac_in_buffer)
  /\ ac_in_buffer' = <<>>
  /\ UNCHANGED <<wire, smtp_session_data, connected, settings, replies, smtp_sessions,
                 postfixVars, splits>>

\* Collect up to the terminator, then found_terminator pops one fragment, the
\* last, or handles the request when the buffer is empty.
FoundTerminator ==
  /\ connected
  /\ \E i \in 1..Len(ac_in_buffer) :
       /\ IsNewline(ac_in_buffer[i])
       /\ \A j \in 1..(i - 1) : ~IsNewline(ac_in_buffer[j])
       /\ ac_in_buffer' = SubSeq(ac_in_buffer, i + 1, Len(ac_in_buffer))
       /\ LET fragments == IF i = 1 THEN buffer
                           ELSE Append(buffer, SubSeq(ac_in_buffer, 1, i - 1))
          IN  IF fragments # <<>>
                THEN /\ \E line \in Readings(Last(fragments)) : ReadLine(line)
                     /\ buffer' = Front(fragments)
              ELSE /\ buffer' = fragments
                   /\ IF smtp_session_data # Empty THEN HandleRequest
                      ELSE /\ PushAction("DUNNO", Empty)
                           /\ UNCHANGED <<smtp_session_data, connected, smtp_sessions>>
  /\ UNCHANGED <<wire, settings, postfixVars, splits>>

-----------------------------------------------------------------------------
(* Postfix *)

RequestLines == << [name |-> "protocol_state", value |-> state] >> \o Messages[message]

\* The session data a request describes.
Described(lines) ==
  [k \in {lines[i].name : i \in 1..Len(lines)} \cap Attributes |->
     (lines[CHOOSE i \in 1..Len(lines) : lines[i].name = k]).value]

PostfixSend ==
  /\ ~waiting /\ connected
  /\ message <= Len(Messages)
  /\ waiting' = TRUE
  /\ wire' = wire \o Encode(RequestLines)
  /\ requests' = Append(requests, Described(RequestLines))
  /\ UNCHANGED <<replies, daemonVars, message, state, got, splits>>

PostfixTake ==
  /\ waiting /\ replies # <<>>
  /\ replies' = Tail(replies)
  /\ got' = Append(got, Head(replies))
  /\ waiting' = FALSE
  /\ IF state = "RCPT" /\ Head(replies).action \in {"DUNNO", "OK"}
       THEN state' = "END-OF-MESSAGE" /\ UNCHANGED message
       ELSE state' = "RCPT" /\ message' = message + 1
  /\ UNCHANGED <<wire, daemonVars, requests, splits>>

\* The connection was closed: the message is deferred, and the next request
\* opens a new connection, hence a new channel object.
PostfixReconnect ==
  /\ ~connected /\ replies = <<>>
  /\ connected' = TRUE
  /\ wire' = <<>> /\ ac_in_buffer' = <<>> /\ buffer' = <<>>
  /\ smtp_session_data' = Empty
  /\ requests' = <<>> /\ got' = <<>>
  /\ waiting' = FALSE
  /\ state' = "RCPT"
  /\ message' = IF waiting THEN message + 1 ELSE message
  /\ UNCHANGED <<replies, smtp_sessions, settings, splits>>

ChannelInit ==
  /\ wire = <<>> /\ ac_in_buffer = <<>> /\ buffer = <<>>
  /\ smtp_session_data = Empty /\ connected = TRUE
  /\ replies = <<>> /\ smtp_sessions = <<>>
  /\ message = 1 /\ state = "RCPT" /\ waiting = FALSE
  /\ requests = <<>> /\ got = <<>> /\ splits = 0
  /\ settings \in LogSettings

Loop == CollectRest \/ FoundTerminator

ChannelNext == Recv \/ Loop \/ PostfixSend \/ PostfixTake \/ PostfixReconnect

ChannelSpec == ChannelInit /\ [][ChannelNext]_channelVars

\* The event loop serves a readable socket, a loop in progress runs on, and
\* Postfix reads what it waits for.  That Postfix asks again is not assumed.
ChannelFairness ==
  /\ WF_channelVars(Recv) /\ WF_channelVars(Loop)
  /\ WF_channelVars(PostfixTake) /\ WF_channelVars(PostfixReconnect)

FairChannelSpec == ChannelSpec /\ ChannelFairness

-----------------------------------------------------------------------------
(* Properties *)

\* Types of the state; lines in memory are fragments of what Postfix sent.
ChannelTypeOK ==
  /\ \A a \in Range(wire \o ac_in_buffer) : a.part \in {"name", "value", "newline"}
  /\ \A f \in Range(buffer) : f # <<>> /\ ~\E i \in 1..Len(f) : IsNewline(f[i])
  /\ DOMAIN smtp_session_data \subseteq Attributes
  /\ connected \in BOOLEAN /\ waiting \in BOOLEAN
  /\ \A r \in Range(replies) : r.action \in Verdicts
  /\ settings \in LogSettings
  /\ state \in {"RCPT", "END-OF-MESSAGE"}
  /\ message \in 1..(Len(Messages) + 1)
  /\ splits \in 0..MaxSplits

\* No segment has ended inside a line.
Whole == splits = 0

\* The reply Postfix takes for its n-th request was worked out from the
\* attributes of that request: none of them lost, none left over from an
\* earlier request of the connection, as long as no line was cut
\* (channel.py:83-84, 101-186).
ReplyForRequest ==
  Whole => Len(got) <= Len(requests) /\ \A n \in 1..Len(got) : got[n].data = requests[n]

\* However the stream is cut, the plugins judge a request at most once
\* (asynchat handle_read with channel.py:98-137).  Variables always have their types.
OneVerdictPerRequest ==
  /\ ChannelTypeOK
  /\ Cardinality({n \in 1..Len(got \o replies) : (got \o replies)[n].data # Empty}) <= Len(requests)

\* A message is logged once, at RCPT or at END-OF-MESSAGE (channel.py:169-178), unless a
\* whitelist accepted it at RCPT: that answer is not a DUNNO and does not end the message.
LoggedOnce ==
  Whole => \A i, j \in 1..Len(smtp_sessions) :
    i < j /\ smtp_sessions[i].instance = smtp_sessions[j].instance
      => smtp_sessions[i].action = "OK" /\ ~settings.bypass_whitelist

\* Postfix does not wait for ever, as long as no line is cut.
ServedWhole == waiting ~> ~waiting \/ ~Whole

\* Postfix does not wait for ever.
Served == waiting ~> ~waiting
=============================================================================
