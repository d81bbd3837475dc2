------------------------- MODULE Greylisting_proofs -------------------------
(***************************************************************************)
(* Proofs about module Greylisting: its types, that nobody passes without  *)
(* waiting, that a retry in time is let in, that a client that passed      *)
(* keeps only its row, and that it is known as long as it was promised.    *)
(***************************************************************************)
EXTENDS Greylisting, TLAPS

-----------------------------------------------------------------------------
(* Facts about rows and requests *)

\* The client and the triplet of the request being served (greylisting.py:339-352).
LEMMA RequestFacts ==
  ASSUME TypeOK
  PROVE  req.client \in Client /\ TheTriplet \in Triplet /\ ClientOf(TheTriplet) = req.client
BY ConstantsAssumption DEF TypeOK, RequestType, TheTriplet, Triplet, ClientOf

\* Each statement that writes a row leaves a row (greylisting.py:235-304).
LEMMA RowFacts ==
  ASSUME TypeOK, NEW row \in Row
  PROVE  /\ row.triplet \in Triplet /\ ClientOf(row.triplet) \in Client
         /\ row.id \in Nat /\ row.block_expired \in Nat /\ row.record_expired \in Nat
         /\ row.passed \in BOOLEAN
         /\ FirstSeen(row) \in Row /\ Counted(row) \in Row
         /\ Renewed(row) \in Row /\ Promoted(row) \in Row
<1>1. /\ row.triplet \in Triplet /\ row.id \in Nat /\ row.block_expired \in Nat
      /\ row.record_expired \in Nat /\ row.passed \in BOOLEAN
  BY DEF Row
<1>2. ClientOf(row.triplet) \in Client
  BY <1>1 DEF Triplet, ClientOf
<1>3. /\ now \in Nat /\ now + BlockExpire \in Nat
      /\ now + UnauthExpire \in Nat /\ now + AuthExpire \in Nat
  BY ConstantsAssumption DEF TypeOK
<1>4. FirstSeen(row) \in Row
  BY <1>3 DEF FirstSeen, Row
<1>5. Counted(row) \in Row
  BY DEF Counted, Row
<1>6. Renewed(row) \in Row
  BY <1>3 DEF Renewed, Row
<1>7. Promoted(row) \in Row
  BY <1>3 DEF Promoted, Row
<1> QED
  BY <1>1, <1>2, <1>4, <1>5, <1>6, <1>7

\* What the statements write and what they leave of a row (greylisting.py:235-304).
LEMMA RowEffects ==
  ASSUME NEW row \in Row
  PROVE  /\ FirstSeen(row).triplet = row.triplet /\ FirstSeen(row).passed = row.passed
         /\ FirstSeen(row).block_expired = now + BlockExpire
         /\ FirstSeen(row).record_expired = now + UnauthExpire
         /\ Counted(row).triplet = row.triplet /\ Counted(row).passed = row.passed
         /\ Counted(row).block_expired = row.block_expired
         /\ Counted(row).record_expired = row.record_expired
         /\ Renewed(row).triplet = row.triplet /\ Renewed(row).passed = row.passed
         /\ Renewed(row).block_expired = row.block_expired
         /\ Renewed(row).record_expired = now + AuthExpire
         /\ Promoted(row).triplet = row.triplet /\ Promoted(row).passed
         /\ Promoted(row).block_expired = row.block_expired
         /\ Promoted(row).record_expired = now + AuthExpire
<1>1. /\ FirstSeen(row).triplet = row.triplet /\ FirstSeen(row).passed = row.passed
      /\ FirstSeen(row).block_expired = now + BlockExpire
      /\ FirstSeen(row).record_expired = now + UnauthExpire
  BY DEF FirstSeen, Row
<1>2. /\ Counted(row).triplet = row.triplet /\ Counted(row).passed = row.passed
      /\ Counted(row).block_expired = row.block_expired
      /\ Counted(row).record_expired = row.record_expired
  BY DEF Counted, Row
<1>3. /\ Renewed(row).triplet = row.triplet /\ Renewed(row).passed = row.passed
      /\ Renewed(row).block_expired = row.block_expired
      /\ Renewed(row).record_expired = now + AuthExpire
  BY DEF Renewed, Row
<1>4. /\ Promoted(row).triplet = row.triplet /\ Promoted(row).passed
      /\ Promoted(row).block_expired = row.block_expired
      /\ Promoted(row).record_expired = now + AuthExpire
  BY DEF Promoted, Row
<1> QED
  BY <1>1, <1>2, <1>3, <1>4

-----------------------------------------------------------------------------
(* Type correctness *)

\* The initial state is of the types.
LEMMA TypeInit == Init => TypeOK
BY ConstantsAssumption DEF Init, TypeOK

\* Every statement of the daemon keeps the types (greylisting.py:193-414).
LEMMA TypeDaemon == TypeOK /\ (Receive \/ Daemon) => TypeOK'
<1> SUFFICES ASSUME TypeOK, Receive \/ Daemon PROVE TypeOK'
  OBVIOUS
<1> USE ConstantsAssumption DEF TypeOK, tableVars, cleanerVars, Succeed, Fail
<1>1. CASE Receive
  BY <1>1 DEF Receive, Return
<1>2. CASE Settle
  BY <1>2 DEF Settle, Return
<1>3. CASE QueryPassed
  BY <1>3 DEF QueryPassed
<1>4. CASE RefreshPassed
  <2>1. tracking' \subseteq Row
    BY <1>4, RowFacts DEF RefreshPassed
  <2>2. promise' \in [Client -> Nat]
    BY <1>4, RequestFacts DEF RefreshPassed
  <2> QED
    BY <1>4, <2>1, <2>2 DEF RefreshPassed, Return
<1>5. CASE Raise
  BY <1>5 DEF Raise, Return
<1>6. CASE SelectTriplet
  BY <1>6 DEF SelectTriplet
<1>7. CASE SelectFails
  BY <1>7 DEF SelectFails
<1>8. CASE InsertTriplet
  <2>1. NewRow \in Row
    BY RequestFacts DEF NewRow, Row
  <2>2. tracking' \subseteq Row /\ serial' \in Nat /\ since' \in [Triplet -> Nat]
    BY <1>8, <2>1 DEF InsertTriplet
  <2>3. pc' = "idle" /\ answer' \in {"none", "DUNNO", "greylist"} /\ failures' \in Nat
    BY <1>8 DEF InsertTriplet, Defer, Return
  <2> QED
    BY <1>8, <2>2, <2>3 DEF InsertTriplet
<1>9. CASE ResetTriplet
  <2>1. tracking' \subseteq Row
    BY <1>9, RowFacts DEF ResetTriplet
  <2>2. since' \in [Triplet -> Nat]
    BY <1>9 DEF ResetTriplet
  <2> QED
    BY <1>9, <2>1, <2>2 DEF ResetTriplet, Defer, Return
<1>10. CASE CountTriplet
  <2>1. tracking' \subseteq Row
    BY <1>10, RowFacts DEF CountTriplet
  <2> QED
    BY <1>10, <2>1 DEF CountTriplet, Defer, Return
<1>11. CASE MarkPassed
  <2>1. tracking' \subseteq Row
    BY <1>11, RowFacts DEF MarkPassed
  <2>2. promise' \in [Client -> Nat]
    BY <1>11, RequestFacts DEF MarkPassed
  <2> QED
    BY <1>11, <2>1, <2>2 DEF MarkPassed
<1>12. CASE DeleteOthers
  BY <1>12 DEF DeleteOthers, Return
<1>13. CASE Accept
  BY <1>13 DEF Accept, Return
<1> QED
  BY <1>1, <1>2, <1>3, <1>4, <1>5, <1>6, <1>7, <1>8, <1>9, <1>10, <1>11, <1>12, <1>13
  DEF Daemon

\* So do the cleanup job and the clock (tools/__init__.py:86-123).
LEMMA TypeCleanup == TypeOK /\ (StartCleanup \/ Cleanup \/ Tick) => TypeOK'
<1> SUFFICES ASSUME TypeOK, StartCleanup \/ Cleanup \/ Tick PROVE TypeOK'
  OBVIOUS
<1> USE DEF TypeOK, tableVars, cleanerVars
<1>1. CASE StartCleanup
  BY <1>1 DEF StartCleanup
<1>2. CASE CleanupSelect
  <2>1. remove_values' \subseteq Nat
    <3>1. {row.id : row \in {w \in tracking : CleanupMatch(w)}} \subseteq Nat
      BY RowFacts
    <3> QED
      BY <1>2, <3>1 DEF CleanupSelect
  <2> QED
    BY <1>2, <2>1 DEF CleanupSelect
<1>3. CASE CleanupDelete
  <2>1. raced' \subseteq Client
    BY <1>3, RowFacts DEF CleanupDelete
  <2> QED
    BY <1>3, <2>1 DEF CleanupDelete
<1>4. CASE Tick
  BY <1>4 DEF Tick
<1> QED
  BY <1>1, <1>2, <1>3, <1>4 DEF Cleanup

\* Every variable always has the type the schema and the code give it.
THEOREM TypeCorrect == Spec => []TypeOK
<1>1. TypeOK /\ [Next]_vars => TypeOK'
  <2>1. CASE UNCHANGED vars
    BY <2>1 DEF TypeOK, vars, tableVars, cleanerVars
  <2> QED
    BY <2>1, TypeDaemon, TypeCleanup DEF Next
<1> QED
  BY TypeInit, <1>1, PTL DEF Spec

-----------------------------------------------------------------------------
(* Nobody passes without waiting *)

\* The time a request works with is not ahead of the clock (greylisting.py:200).
NowInv ==
  /\ clock >= 1
  /\ now <= clock
  /\ pc \in {"refresh", "select", "insert", "reset", "count", "pass", "accept"} => now >= 1

\* A row blocks its triplet for the whole of BLOCK_EXPIRE from first contact.
RowsBlock ==
  \A row \in tracking : /\ since[row.triplet] >= 1
                        /\ since[row.triplet] + BlockExpire <= row.block_expired

\* A triplet has waited before its row is marked as passed.
PassedWaited ==
  \A row \in tracking : row.passed => since[row.triplet] + BlockExpire <= clock

\* Triplets are only looked up, taken as first seen or reset for clients that
\* have not passed: no row that has passed starts to wait again.
ClientUnknown == pc \in {"select", "insert", "reset"} => PassedRows(req.client) = {}

\* A request about to be let in by its own row has waited.
TripletWaited ==
  pc \in {"pass", "delete", "accept"} =>
    since[TheTriplet] >= 1 /\ since[TheTriplet] + BlockExpire <= clock

\* One about to be let in by another row of its client has, too.
ClientWaited == pc = "refresh" => Earned(req.client)

EarnedInv ==
  /\ TypeOK /\ NowInv /\ RowsBlock /\ PassedWaited
  /\ ClientUnknown /\ TripletWaited /\ ClientWaited

\* The initial state.
LEMMA EarnedInit == Init => EarnedInv
BY TypeInit DEF Init, EarnedInv, NowInv, RowsBlock, PassedWaited, ClientUnknown, TripletWaited,
                ClientWaited, PassedRows

\* The rows stay, or some are deleted, and the request moves on.
LEMMA EarnedKept ==
  ASSUME EarnedInv, TypeOK', tracking' \subseteq tracking, since' = since,
         clock' >= clock
  PROVE  RowsBlock' /\ PassedWaited'
<1> USE DEF EarnedInv, RowsBlock, PassedWaited
<1>1. \A row \in tracking : since[row.triplet] \in Nat
  BY RowFacts DEF TypeOK
<1> QED
  BY <1>1, ConstantsAssumption DEF TypeOK

\* The cleanup job and the clock.
LEMMA EarnedElsewhere ==
  ASSUME EarnedInv, StartCleanup \/ Cleanup \/ Tick
  PROVE  EarnedInv'
<1>1. TypeOK'
  BY TypeCleanup DEF EarnedInv
<1>2. /\ tracking' \subseteq tracking /\ clock' \in {clock, clock + 1}
      /\ UNCHANGED <<pc, req, now, since>>
  BY DEF StartCleanup, Cleanup, CleanupSelect, CleanupDelete, Tick, tableVars
<1>3. clock \in Nat /\ clock' \in Nat /\ clock' >= clock
  BY <1>1, <1>2 DEF EarnedInv, TypeOK
<1>4. RowsBlock' /\ PassedWaited'
  BY <1>1, <1>2, <1>3, EarnedKept
<1>5. NowInv'
  BY <1>2, <1>3 DEF EarnedInv, NowInv, TypeOK
<1>6. ClientUnknown'
  BY <1>2 DEF EarnedInv, ClientUnknown, PassedRows
<1>7. TripletWaited'
  BY <1>2, <1>3, ConstantsAssumption, RequestFacts DEF EarnedInv, TripletWaited, TheTriplet, TypeOK
<1>8. ClientWaited'
  BY <1>2, <1>3, ConstantsAssumption DEF EarnedInv, ClientWaited, Earned, TypeOK
<1> QED
  BY <1>1, <1>4, <1>5, <1>6, <1>7, <1>8 DEF EarnedInv

\* Every statement of the daemon.
LEMMA EarnedDaemon ==
  ASSUME EarnedInv, Receive \/ Daemon
  PROVE  EarnedInv'
<1> USE DEF EarnedInv
<1>1. TypeOK' /\ TypeOK
  BY TypeDaemon
<1>2. clock' = clock
  BY DEF Receive, Daemon, Settle, QueryPassed, RefreshPassed, Raise, SelectTriplet, SelectFails,
         InsertTriplet, ResetTriplet, CountTriplet, MarkPassed, DeleteOthers, Accept
<1>3. NowInv'
  BY <1>1, <1>2 DEF NowInv, TypeOK, Receive, Daemon, Settle, QueryPassed, RefreshPassed, Raise,
         SelectTriplet, SelectFails, InsertTriplet, ResetTriplet, CountTriplet, MarkPassed,
         DeleteOthers, Accept, Return, Defer
<1>4. CASE pc' = "idle" /\ tracking' \subseteq tracking /\ since' = since
  BY <1>1, <1>2, <1>3, <1>4, EarnedKept DEF ClientUnknown, TripletWaited, ClientWaited, TypeOK
<1>5. CASE Receive
  BY <1>1, <1>2, <1>3, <1>5, EarnedKept
  DEF Receive, tableVars, Return, ClientUnknown, TripletWaited, ClientWaited, TypeOK
<1>6. CASE Settle
  BY <1>1, <1>2, <1>3, <1>6, EarnedKept
  DEF Settle, tableVars, Return, ClientUnknown, TripletWaited, ClientWaited, TypeOK
<1>7. CASE QueryPassed
  <2>1. UNCHANGED <<tracking, since, req>> /\ pc' \in {"refresh", "select"}
    BY <1>7 DEF QueryPassed, tableVars
  <2>2. RowsBlock' /\ PassedWaited'
    BY <1>1, <1>2, <2>1, EarnedKept DEF TypeOK
  <2>3. ClientUnknown'
    BY <1>7, <2>1 DEF QueryPassed, ClientUnknown, PassedRows
  <2>4. ClientWaited'
    <3> SUFFICES ASSUME PassedRows(req.client) # {} PROVE Earned(req.client)
      BY <1>2, <1>7, <2>1 DEF QueryPassed, ClientWaited, Earned
    <3>1. PICK row \in tracking : ClientOf(row.triplet) = req.client /\ row.passed
      BY DEF PassedRows
    <3>2. /\ row.triplet \in Triplet
          /\ since[row.triplet] >= 1 /\ since[row.triplet] + BlockExpire <= clock
      BY <1>1, <3>1, RowFacts DEF RowsBlock, PassedWaited, TypeOK
    <3> QED
      BY <1>1, <3>1, <3>2 DEF Earned, TypeOK
  <2> QED
    BY <1>1, <1>3, <2>1, <2>2, <2>3, <2>4 DEF TripletWaited
<1>8. CASE RefreshPassed
  <2>1. since' = since /\ pc' = "idle"
    BY <1>8 DEF RefreshPassed, Return
  <2>2. \A row \in Row : /\ Renewed(row).triplet = row.triplet
                         /\ Renewed(row).block_expired = row.block_expired
                         /\ Renewed(row).passed = row.passed
    BY DEF Renewed, Row
  <2>3. \A new \in tracking' : \E row \in tracking :
          /\ new.triplet = row.triplet
          /\ new.block_expired = row.block_expired
          /\ new.passed = row.passed
    BY <1>1, <1>8, <2>2 DEF RefreshPassed, TypeOK
  <2>4. RowsBlock' /\ PassedWaited'
    BY <1>2, <2>1, <2>3 DEF RowsBlock, PassedWaited
  <2> QED
    BY <1>1, <1>3, <2>1, <2>4 DEF ClientUnknown, TripletWaited, ClientWaited
<1>9. CASE Raise
  BY <1>4, <1>9 DEF Raise, Return, tableVars
<1>10. CASE SelectTriplet
  <2>1. UNCHANGED <<tracking, since, req, now>> /\ pc = "select"
        /\ pc' \in {"insert", "reset", "count", "accept", "pass"}
    BY <1>10 DEF SelectTriplet, tableVars
  <2>2. RowsBlock' /\ PassedWaited'
    BY <1>1, <1>2, <2>1, EarnedKept DEF TypeOK
  <2>3. ClientUnknown'
    BY <2>1 DEF ClientUnknown, PassedRows
  <2>4. TripletWaited'
    <3> SUFFICES ASSUME pc' \in {"pass", "accept"}
                 PROVE  since[TheTriplet] >= 1 /\ since[TheTriplet] + BlockExpire <= clock
      BY <1>2, <2>1 DEF TripletWaited, TheTriplet
    <3>1. PICK row \in tracking : row.triplet = TheTriplet /\ ~(now < row.block_expired)
      BY <1>10 DEF SelectTriplet, RowsOf
    <3>2. /\ since[TheTriplet] >= 1 /\ since[TheTriplet] + BlockExpire <= row.block_expired
          /\ row.block_expired \in Nat /\ since[TheTriplet] \in Nat
      BY <1>1, <3>1, RowFacts, RequestFacts DEF RowsBlock, TypeOK
    <3> QED
      BY <1>1, <3>1, <3>2, ConstantsAssumption DEF NowInv, TypeOK
  <2> QED
    BY <1>1, <1>3, <2>1, <2>2, <2>3, <2>4 DEF ClientWaited
<1>11. CASE SelectFails
  <2>1. UNCHANGED <<tracking, since, req>> /\ pc = "select" /\ pc' = "insert"
    BY <1>11 DEF SelectFails, tableVars
  <2>2. RowsBlock' /\ PassedWaited'
    BY <1>1, <1>2, <2>1, EarnedKept DEF TypeOK
  <2> QED
    BY <1>1, <1>3, <2>1, <2>2 DEF ClientUnknown, TripletWaited, ClientWaited, PassedRows
<1>12. CASE InsertTriplet
  <2>1. pc' = "idle" /\ pc = "insert"
    BY <1>12 DEF InsertTriplet, Defer, Return
  <2>2. CASE UNCHANGED <<tracking, since>>
    BY <1>4, <2>1, <2>2
  <2>3. CASE /\ RowsOf(TheTriplet) = {}
             /\ tracking' = tracking \cup {NewRow}
             /\ since' = [since EXCEPT ![TheTriplet] = now]
    <3>1. /\ NewRow.triplet = TheTriplet /\ NewRow.block_expired = now + BlockExpire
          /\ ~NewRow.passed
      BY DEF NewRow
    <3>2. since'[TheTriplet] = now /\ now >= 1
      BY <1>1, <2>1, <2>3, RequestFacts DEF NowInv, TypeOK
    <3>3. \A row \in tracking : since'[row.triplet] = since[row.triplet]
      BY <1>1, <2>3 DEF RowsOf, TypeOK
    <3>4. RowsBlock'
      BY <1>1, <2>3, <3>1, <3>2, <3>3, ConstantsAssumption DEF RowsBlock, TypeOK
    <3>5. PassedWaited'
      BY <1>2, <2>3, <3>1, <3>3 DEF PassedWaited
    <3> QED
      BY <1>1, <1>3, <2>1, <3>4, <3>5 DEF ClientUnknown, TripletWaited, ClientWaited
  <2> QED
    BY <1>12, <2>2, <2>3 DEF InsertTriplet, tableVars
<1>13. CASE ResetTriplet
  <2>1. pc' = "idle" /\ pc = "reset" /\ since' = [since EXCEPT ![TheTriplet] = now]
    BY <1>13 DEF ResetTriplet, Defer, Return
  <2>2. since'[TheTriplet] = now /\ now >= 1
    BY <1>1, <2>1, RequestFacts DEF NowInv, TypeOK
  <2>3. \A row \in tracking : row.triplet = TheTriplet => ~row.passed
    BY <1>1, <2>1, RequestFacts DEF ClientUnknown, PassedRows
  <2>4. \A row \in Row : /\ FirstSeen(row).triplet = row.triplet
                         /\ FirstSeen(row).block_expired = now + BlockExpire
                         /\ FirstSeen(row).passed = row.passed
    BY DEF FirstSeen, Row
  <2>5. \A row \in tracking : row.triplet # TheTriplet => since'[row.triplet] = since[row.triplet]
    BY <1>1, <2>1, RowFacts DEF TypeOK
  <2>6. \A new \in tracking' :
          \/ new \in tracking /\ new.triplet # TheTriplet
          \/ new.triplet = TheTriplet /\ new.block_expired = now + BlockExpire /\ ~new.passed
    BY <1>1, <1>13, <2>3, <2>4 DEF ResetTriplet, TypeOK
  <2>7. RowsBlock'
    BY <1>1, <2>2, <2>5, <2>6, ConstantsAssumption DEF RowsBlock, TypeOK
  <2>8. PassedWaited'
    BY <1>2, <2>5, <2>6 DEF PassedWaited
  <2> QED
    BY <1>1, <1>3, <2>1, <2>7, <2>8 DEF ClientUnknown, TripletWaited, ClientWaited
<1>14. CASE CountTriplet
  <2>1. since' = since /\ pc' = "idle"
    BY <1>14 DEF CountTriplet, Defer, Return
  <2>2. \A row \in Row : /\ Counted(row).triplet = row.triplet
                         /\ Counted(row).block_expired = row.block_expired
                         /\ Counted(row).passed = row.passed
    BY DEF Counted, Row
  <2>3. \A new \in tracking' : \E row \in tracking :
          /\ new.triplet = row.triplet
          /\ new.block_expired = row.block_expired
          /\ new.passed = row.passed
    BY <1>1, <1>14, <2>2 DEF CountTriplet, TypeOK
  <2>4. RowsBlock' /\ PassedWaited'
    BY <1>2, <2>1, <2>3 DEF RowsBlock, PassedWaited
  <2> QED
    BY <1>1, <1>3, <2>1, <2>4 DEF ClientUnknown, TripletWaited, ClientWaited
<1>15. CASE MarkPassed
  <2>1. UNCHANGED <<since, req>> /\ pc = "pass" /\ pc' = "delete"
    BY <1>15 DEF MarkPassed
  <2>2. TripletWaited'
    BY <1>2, <2>1 DEF TripletWaited, TheTriplet
  <2>3. \A row \in Row : /\ Promoted(row).triplet = row.triplet
                         /\ Promoted(row).block_expired = row.block_expired
    BY DEF Promoted, Row
  <2>4. \A new \in tracking' : \E row \in tracking :
          /\ new.triplet = row.triplet
          /\ new.block_expired = row.block_expired
          /\ new.passed = row.passed \/ new.triplet = TheTriplet
    <3>1. CASE tracking' = tracking
      BY <3>1
    <3>2. CASE tracking' = {IF row.triplet = TheTriplet THEN Promoted(row) ELSE row : row \in tracking}
      BY <1>1, <2>3, <3>2 DEF TypeOK
    <3> QED
      BY <1>15, <3>1, <3>2 DEF MarkPassed
  <2>5. RowsBlock'
    BY <2>1, <2>4 DEF RowsBlock
  <2>6. PassedWaited'
    BY <1>2, <2>1, <2>4 DEF PassedWaited, TripletWaited
  <2> QED
    BY <1>1, <1>3, <2>1, <2>2, <2>5, <2>6 DEF ClientUnknown, ClientWaited
<1>16. CASE DeleteOthers
  BY <1>4, <1>16 DEF DeleteOthers, Return
<1>17. CASE Accept
  BY <1>4, <1>17 DEF Accept, Return, tableVars
<1> QED
  BY <1>5, <1>6, <1>7, <1>8, <1>9, <1>10, <1>11, <1>12, <1>13, <1>14, <1>15, <1>16, <1>17
  DEF Daemon

\* So it holds in every state.
LEMMA EarnedInvariant == Spec => []EarnedInv
<1>1. EarnedInv /\ [Next]_vars => EarnedInv'
  <2> SUFFICES ASSUME EarnedInv, [Next]_vars PROVE EarnedInv'
    OBVIOUS
  <2>1. CASE UNCHANGED vars
    BY <2>1 DEF vars, tableVars, cleanerVars, EarnedInv, TypeOK, NowInv, RowsBlock, PassedWaited,
                ClientUnknown, PassedRows, TripletWaited, TheTriplet, ClientWaited, Earned
  <2> QED
    BY <2>1, EarnedDaemon, EarnedElsewhere DEF Next
<1> QED
  BY EarnedInit, <1>1, PTL DEF Spec

\* Nobody is let in by the tracking without having waited BLOCK_EXPIRE since
\* the triplet was taken as first seen, whatever fails and whatever the cleanup
\* job deletes (greylisting.py:193-325, 377-391).
THEOREM PassIsEarned == Spec => []EarnedPass
<1>1. EarnedInv => EarnedPass
  <2> SUFFICES ASSUME EarnedInv, pc \in {"pass", "delete", "accept"} PROVE Earned(req.client)
    BY DEF EarnedPass, EarnedInv, ClientWaited
  <2> QED
    BY RequestFacts DEF EarnedInv, TripletWaited, Earned, TypeOK
<1> QED
  BY EarnedInvariant, <1>1, PTL

-----------------------------------------------------------------------------
(* One row for a client that passed *)

\* As long as no statement has failed, a client with a row that has passed has no row that
\* has not, but those that the request at its DELETE is about to remove.
Alone ==
  failures = 0 =>
    \A row, old \in tracking :
      /\ ClientOf(row.triplet) = ClientOf(old.triplet)
      /\ old.passed /\ ~row.passed
      => pc = "delete" /\ ClientOf(row.triplet) = req.client

\* No row comes or is changed, and the request is not at its DELETE.
LEMMA AloneKept ==
  ASSUME Alone, TypeOK, TypeOK', failures' >= failures,
         \A new \in tracking' : \E row \in tracking :
            new.triplet = row.triplet /\ new.passed = row.passed,
         pc = "delete" => pc' = "delete" /\ req' = req
  PROVE  Alone'
<1>1. failures' = 0 => failures = 0
  BY DEF TypeOK
<1> QED
  BY <1>1 DEF Alone

\* Every step keeps the row of a client that passed alone: the only one that makes it pass
\* goes on to delete the others, and the only one that adds a row found none.
LEMMA AloneStep == EarnedInv /\ TypeOK' /\ Alone /\ [Next]_vars => Alone'
<1> SUFFICES ASSUME EarnedInv, TypeOK', Alone, [Next]_vars PROVE Alone'
  OBVIOUS
<1>1. TypeOK /\ failures \in Nat /\ tracking \subseteq Row
  BY DEF EarnedInv, TypeOK
<1>2. CASE tracking' \subseteq tracking /\ pc # "delete" /\ failures' \in {failures, failures + 1}
  BY <1>1, <1>2, AloneKept
<1>3. CASE Receive
  BY <1>2, <1>3 DEF Receive, tableVars
<1>4. CASE Settle \/ QueryPassed \/ Raise \/ SelectTriplet \/ SelectFails \/ Accept
  BY <1>2, <1>4 DEF Settle, QueryPassed, Raise, SelectTriplet, SelectFails, Accept,
                    Succeed, Fail, tableVars
<1>5. CASE RefreshPassed
  <2>1. pc # "delete" /\ failures' = failures
    BY <1>5 DEF RefreshPassed, Succeed
  <2>2. \A new \in tracking' : \E row \in tracking :
           new.triplet = row.triplet /\ new.passed = row.passed
    BY <1>1, <1>5, RowEffects DEF RefreshPassed
  <2> QED
    BY <1>1, <2>1, <2>2, AloneKept
<1>6. CASE InsertTriplet
  <2>1. pc = "insert"
    BY <1>6 DEF InsertTriplet
  <2>2. CASE UNCHANGED tableVars
    BY <1>2, <1>6, <2>1, <2>2 DEF InsertTriplet, Succeed, Fail, tableVars
  <2>3. CASE tracking' = tracking \cup {NewRow} /\ Succeed
    <3>1. ClientOf(NewRow.triplet) = req.client /\ ~NewRow.passed
      BY <1>1, RequestFacts DEF NewRow
    <3>2. \A old \in tracking : old.passed => ClientOf(old.triplet) # req.client
      BY <2>1 DEF EarnedInv, ClientUnknown, PassedRows
    <3> QED
      BY <2>1, <2>3, <3>1, <3>2 DEF Alone, Succeed
  <2> QED
    BY <1>6, <2>2, <2>3 DEF InsertTriplet
<1>7. CASE ResetTriplet
  <2>1. pc # "delete" /\ failures' = failures
    BY <1>7 DEF ResetTriplet, Succeed
  <2>2. \A new \in tracking' : \E row \in tracking :
           new.triplet = row.triplet /\ new.passed = row.passed
    BY <1>1, <1>7, RowEffects DEF ResetTriplet
  <2> QED
    BY <1>1, <2>1, <2>2, AloneKept
<1>8. CASE CountTriplet
  <2>1. pc # "delete" /\ failures' >= failures
    BY <1>1, <1>8 DEF CountTriplet, Succeed, Fail
  <2>2. \A new \in tracking' : \E row \in tracking :
           new.triplet = row.triplet /\ new.passed = row.passed
    BY <1>1, <1>8, RowEffects DEF CountTriplet
  <2> QED
    BY <1>1, <2>1, <2>2, AloneKept
<1>9. CASE MarkPassed
  <2>1. pc = "pass" /\ pc' = "delete" /\ req' = req
    BY <1>9 DEF MarkPassed
  <2>2. CASE Fail /\ UNCHANGED tracking
    BY <1>1, <2>1, <2>2, <1>2 DEF Fail
  <2>3. CASE /\ tracking' = {IF row.triplet = TheTriplet THEN Promoted(row) ELSE row : row \in tracking}
             /\ Succeed
    <3>1. \A new \in tracking' : \E row \in tracking :
             /\ new.triplet = row.triplet
             /\ new.passed = row.passed \/ ClientOf(row.triplet) = req.client
      BY <1>1, <2>3, RowEffects, RequestFacts
    <3> QED
      BY <2>1, <2>3, <3>1 DEF Alone, Succeed
  <2> QED
    BY <1>9, <2>2, <2>3 DEF MarkPassed
<1>10. CASE DeleteOthers
  <2>1. CASE Fail /\ UNCHANGED tracking
    BY <1>1, <2>1 DEF Alone, Fail
  <2>2. CASE /\ tracking' = {row \in tracking : ~(ClientOf(row.triplet) = req.client /\ ~row.passed)}
             /\ Succeed
    BY <2>2 DEF Alone, Succeed
  <2> QED
    BY <1>10, <2>1, <2>2 DEF DeleteOthers
<1>11. CASE StartCleanup \/ Cleanup \/ Tick
  <2>1. tracking' \subseteq tracking /\ UNCHANGED <<pc, req, failures>>
    BY <1>11 DEF StartCleanup, Cleanup, CleanupSelect, CleanupDelete, Tick, tableVars
  <2> QED
    BY <1>1, <2>1, AloneKept
<1>12. CASE UNCHANGED vars
  BY <1>12 DEF vars, tableVars, Alone
<1> QED
  BY <1>3, <1>4, <1>5, <1>6, <1>7, <1>8, <1>9, <1>10, <1>11, <1>12 DEF Next, Daemon

\* A client that has passed keeps only rows it passed with: the DELETE that follows its
\* UPDATE and the SELECT that finds it leave it no other, unless a statement fails
\* (greylisting.py:193-229, 311-323).
THEOREM OneRowPerClient == Spec => []PassedAlone
<1>1. Init => Alone
  BY DEF Init, Alone
<1>2. TypeOK /\ Alone => PassedAlone
  BY DEF Alone, PassedAlone, PassedRows, TypeOK
<1>3. EarnedInv => TypeOK
  BY DEF EarnedInv
<1> QED
  BY <1>1, <1>2, <1>3, AloneStep, EarnedInvariant, PTL DEF Spec

-----------------------------------------------------------------------------
(* A retry in time is let in *)

\* The dates of a row are those of the first contact it records; record_expired, until the
\* row is marked as passed.
RowDates ==
  \A row \in tracking :
    /\ row.block_expired = since[row.triplet] + BlockExpire
    /\ ~row.passed => row.record_expired = since[row.triplet] + UnauthExpire

\* Nothing has failed and the cleanup job has not run.
Clean == failures = 0 /\ cleanups = 0

\* Then a triplet seen before has a row, unless its client has passed.
SeenKnown ==
  Clean => \A t \in Triplet : since[t] # 0 => RowsOf(t) # {} \/ PassedRows(ClientOf(t)) # {}

\* And a row the daemon has read is there when it writes it.
RowStays ==
  Clean => /\ cleaner = "stopped"
           /\ pc \in {"reset", "pass"} => RowsOf(TheTriplet) # {}
           /\ pc = "delete" => PassedRows(req.client) # {}

\* So the daemon does what the dates of the triplet say.
DatesHeeded ==
  /\ Clean /\ pc = "insert" => since[TheTriplet] = 0
  /\ pc = "count" => now < since[TheTriplet] + BlockExpire
  /\ pc = "reset" => now > since[TheTriplet] + UnauthExpire

RetryInv == EarnedInv /\ RowDates /\ SeenKnown /\ RowStays /\ DatesHeeded

\* Each row is one that was there, with what has passed still passed, and the triplets
\* are as they were.
RowsKeep ==
  /\ since' = since
  /\ \A new \in tracking' : \E row \in tracking :
       /\ new.triplet = row.triplet /\ new.block_expired = row.block_expired
       /\ new.passed \/ (~row.passed /\ new.record_expired = row.record_expired)

\* Each row that was there is still there.
RowsStay ==
  \A row \in tracking : \E new \in tracking' :
    new.triplet = row.triplet /\ (row.passed => new.passed)

\* Which statements keep the rows and which let them stay (greylisting.py:193-414).
LEMMA StatementsKeep ==
  ASSUME EarnedInv, [Next]_vars
  PROVE  /\ RowsKeep \/ InsertTriplet \/ ResetTriplet
         /\ RowsStay \/ DeleteOthers \/ CleanupDelete
<1>1. TypeOK /\ tracking \subseteq Row
  BY DEF EarnedInv, TypeOK
<1>2. CASE UNCHANGED <<tracking, since>>
  BY <1>1, <1>2 DEF RowsKeep, RowsStay, Row
<1>3. CASE Receive \/ Settle \/ QueryPassed \/ Raise \/ SelectTriplet \/ SelectFails \/ Accept
  BY <1>2, <1>3 DEF Receive, Settle, QueryPassed, Raise, SelectTriplet, SelectFails, Accept, tableVars
<1>4. CASE RefreshPassed
  <2>1. /\ tracking' = {IF row \in PassedRows(req.client) THEN Renewed(row) ELSE row : row \in tracking}
        /\ since' = since
    BY <1>4 DEF RefreshPassed
  <2>2. RowsKeep
    BY <1>1, <2>1, RowEffects DEF RowsKeep, PassedRows
  <2>3. RowsStay
    BY <1>1, <2>1, RowEffects DEF RowsStay
  <2> QED
    BY <2>2, <2>3
<1>5. CASE InsertTriplet
  <2>1. tracking \subseteq tracking'
    BY <1>5 DEF InsertTriplet, tableVars
  <2> QED
    BY <1>5, <2>1 DEF RowsStay
<1>6. CASE ResetTriplet
  <2>1. tracking' = {IF row.triplet = TheTriplet THEN FirstSeen(row) ELSE row : row \in tracking}
    BY <1>6 DEF ResetTriplet
  <2>2. RowsStay
    BY <1>1, <2>1, RowEffects DEF RowsStay
  <2> QED
    BY <1>6, <2>2
<1>7. CASE CountTriplet
  <2>1. /\ tracking' = {IF row.triplet = TheTriplet THEN Counted(row) ELSE row : row \in tracking}
        /\ since' = since
    BY <1>7 DEF CountTriplet
  <2>2. RowsKeep
    BY <1>1, <2>1, RowEffects DEF RowsKeep, Row
  <2>3. RowsStay
    BY <1>1, <2>1, RowEffects DEF RowsStay
  <2> QED
    BY <2>2, <2>3
<1>8. CASE MarkPassed
  <2>1. CASE UNCHANGED tracking
    BY <1>2, <1>8, <2>1 DEF MarkPassed
  <2>2. CASE tracking' = {IF row.triplet = TheTriplet THEN Promoted(row) ELSE row : row \in tracking}
    <3>1. RowsKeep
      BY <1>1, <1>8, <2>2, RowEffects DEF MarkPassed, RowsKeep
    <3>2. RowsStay
      BY <1>1, <2>2, RowEffects DEF RowsStay
    <3> QED
      BY <3>1, <3>2
  <2> QED
    BY <1>8, <2>1, <2>2 DEF MarkPassed
<1>9. CASE DeleteOthers \/ CleanupDelete
  <2>1. tracking' \subseteq tracking /\ since' = since
    BY <1>9 DEF DeleteOthers, CleanupDelete
  <2> QED
    BY <1>1, <1>9, <2>1 DEF RowsKeep, Row
<1>10. CASE StartCleanup \/ CleanupSelect \/ Tick \/ UNCHANGED vars
  BY <1>2, <1>10 DEF StartCleanup, CleanupSelect, Tick, vars, tableVars
<1> QED
  BY <1>3, <1>4, <1>5, <1>6, <1>7, <1>8, <1>9, <1>10 DEF Next, Daemon, Cleanup

\* Every statement that dates a row dates it from the first contact it records.
LEMMA RowDatesStep == EarnedInv /\ TypeOK' /\ RowDates /\ [Next]_vars => RowDates'
<1> SUFFICES ASSUME EarnedInv, TypeOK', RowDates, [Next]_vars PROVE RowDates'
  OBVIOUS
<1>1. TypeOK /\ tracking \subseteq Row /\ since \in [Triplet -> Nat] /\ TheTriplet \in Triplet
  BY RequestFacts DEF EarnedInv, TypeOK
<1>2. CASE RowsKeep
  BY <1>2 DEF RowsKeep, RowDates
<1>3. CASE InsertTriplet
  <2>1. CASE UNCHANGED <<tableVars, since>>
    BY <2>1 DEF tableVars, RowDates
  <2>2. CASE /\ RowsOf(TheTriplet) = {} /\ tracking' = tracking \cup {NewRow}
             /\ since' = [since EXCEPT ![TheTriplet] = now]
    <3>1. /\ NewRow.triplet = TheTriplet /\ NewRow.block_expired = now + BlockExpire
          /\ NewRow.record_expired = now + UnauthExpire
      BY DEF NewRow
    <3>2. since'[TheTriplet] = now
      BY <1>1, <2>2
    <3>3. \A row \in tracking : since'[row.triplet] = since[row.triplet]
      BY <1>1, <2>2 DEF RowsOf
    <3> QED
      BY <2>2, <3>1, <3>2, <3>3 DEF RowDates
  <2> QED
    BY <1>3, <2>1, <2>2 DEF InsertTriplet
<1>4. CASE ResetTriplet
  <2>1. /\ since' = [since EXCEPT ![TheTriplet] = now]
        /\ tracking' = {IF row.triplet = TheTriplet THEN FirstSeen(row) ELSE row : row \in tracking}
    BY <1>4 DEF ResetTriplet
  <2>2. since'[TheTriplet] = now
    BY <1>1, <2>1
  <2>3. \A row \in tracking : row.triplet # TheTriplet => since'[row.triplet] = since[row.triplet]
    BY <1>1, <2>1, RowFacts
  <2>4. \A new \in tracking' :
          \/ new \in tracking /\ new.triplet # TheTriplet
          \/ /\ new.triplet = TheTriplet /\ new.block_expired = now + BlockExpire
             /\ new.record_expired = now + UnauthExpire
    BY <1>1, <2>1, RowEffects
  <2> QED
    BY <2>2, <2>3, <2>4 DEF RowDates
<1> QED
  BY <1>2, <1>3, <1>4, StatementsKeep

\* Nothing that has failed or run is undone.
LEMMA CleanBefore == ASSUME TypeOK, [Next]_vars, Clean' PROVE Clean /\ ~StartCleanup /\ UNCHANGED failures
<1>1. failures \in Nat /\ cleanups \in Nat
  BY DEF TypeOK
<1>2. failures' \in {failures, failures + 1}
  BY DEF Next, Receive, Daemon, Settle, QueryPassed, RefreshPassed, Raise, SelectTriplet, SelectFails,
         InsertTriplet, ResetTriplet, CountTriplet, MarkPassed, DeleteOthers, Accept, Succeed, Fail,
         StartCleanup, Cleanup, CleanupSelect, CleanupDelete, Tick, vars
<1>3. cleanups' = cleanups \/ StartCleanup
  BY DEF Next, Receive, Daemon, Settle, QueryPassed, RefreshPassed, Raise, SelectTriplet, SelectFails,
         InsertTriplet, ResetTriplet, CountTriplet, MarkPassed, DeleteOthers, Accept, cleanerVars,
         Cleanup, CleanupSelect, CleanupDelete, Tick, vars
<1>4. StartCleanup => cleanups' = cleanups + 1
  BY DEF StartCleanup
<1> QED
  BY <1>1, <1>2, <1>3, <1>4 DEF Clean

\* A triplet seen stays known: it is inserted or reset with its row, and its rows go only
\* when its client has one that has passed.
LEMMA SeenKnownStep == RetryInv /\ TypeOK' /\ [Next]_vars => SeenKnown'
<1> SUFFICES ASSUME RetryInv, TypeOK', [Next]_vars, Clean',
                    NEW t \in Triplet, since'[t] # 0
             PROVE  RowsOf(t)' # {} \/ PassedRows(ClientOf(t))' # {}
  BY DEF SeenKnown
<1>1. EarnedInv /\ TypeOK /\ since \in [Triplet -> Nat]
  BY DEF RetryInv, EarnedInv, TypeOK
<1>2. Clean /\ ~StartCleanup /\ UNCHANGED failures
  BY <1>1, CleanBefore
<1>3. ~CleanupDelete
  BY <1>2 DEF RetryInv, RowStays, CleanupDelete
<1>4. CASE DeleteOthers
  <2>1. /\ tracking' = {row \in tracking : ~(ClientOf(row.triplet) = req.client /\ ~row.passed)}
        /\ since' = since
    BY <1>1, <1>2, <1>4 DEF DeleteOthers, Fail, TypeOK
  <2>2. CASE ClientOf(t) = req.client
    <3>1. PassedRows(req.client) # {}
      BY <1>2, <1>4 DEF DeleteOthers, RetryInv, RowStays
    <3> QED
      BY <2>1, <2>2, <3>1 DEF PassedRows
  <2>3. CASE ClientOf(t) # req.client
    BY <1>2, <2>1, <2>3 DEF RetryInv, SeenKnown, RowsOf, PassedRows
  <2> QED
    BY <2>2, <2>3
<1>5. CASE ~DeleteOthers
  <2>1. RowsStay
    BY <1>1, <1>3, <1>5, StatementsKeep
  <2>2. CASE RowsOf(t) # {} \/ PassedRows(ClientOf(t)) # {}
    BY <2>1, <2>2 DEF RowsStay, RowsOf, PassedRows
  <2>3. CASE since[t] = 0
    <3>1. since' # since
      BY <2>3
    <3>2. InsertTriplet \/ ResetTriplet
      BY <1>1, <3>1, StatementsKeep DEF RowsKeep
    <3>3. since' = [since EXCEPT ![TheTriplet] = now]
      BY <3>1, <3>2 DEF InsertTriplet, ResetTriplet
    <3>4. t = TheTriplet
      BY <1>1, <2>3, <3>3
    <3>5. CASE InsertTriplet
      <4>1. NewRow \in tracking' /\ NewRow.triplet = TheTriplet
        BY <3>1, <3>5 DEF InsertTriplet, NewRow
      <4> QED
        BY <3>4, <4>1 DEF RowsOf
    <3>6. CASE ResetTriplet
      <4>1. RowsOf(TheTriplet) # {}
        BY <1>2, <3>6 DEF ResetTriplet, RetryInv, RowStays
      <4> QED
        BY <2>1, <3>4, <4>1 DEF RowsStay, RowsOf
    <3> QED
      BY <3>2, <3>5, <3>6
  <2> QED
    BY <1>2, <2>2, <2>3 DEF RetryInv, SeenKnown
<1> QED
  BY <1>4, <1>5

\* A row that the daemon has read stays until it writes it: only the cleanup job could
\* delete it in between.
LEMMA RowStaysStep == RetryInv /\ TypeOK' /\ [Next]_vars => RowStays'
<1> SUFFICES ASSUME RetryInv, TypeOK', [Next]_vars, Clean'
             PROVE  /\ cleaner' = "stopped"
                    /\ pc' \in {"reset", "pass"} => RowsOf(TheTriplet)' # {}
                    /\ pc' = "delete" => PassedRows(req.client)' # {}
  BY DEF RowStays
<1>1. EarnedInv /\ TypeOK /\ tracking \subseteq Row /\ failures \in Nat
  BY DEF RetryInv, EarnedInv, TypeOK
<1>2. Clean /\ ~StartCleanup /\ UNCHANGED failures
  BY <1>1, CleanBefore
<1>3. cleaner = "stopped" /\ ~Cleanup
  BY <1>2 DEF RetryInv, RowStays, Cleanup, CleanupSelect, CleanupDelete
<1>4. CASE Tick \/ UNCHANGED vars
  <2>1. UNCHANGED <<tracking, pc, req, cleaner>>
    BY <1>4 DEF Tick, vars, tableVars, cleanerVars
  <2> QED
    BY <1>2, <2>1 DEF RetryInv, RowStays, RowsOf, PassedRows, TheTriplet
<1>5. CASE Receive \/ Daemon
  <2>1. cleaner' = cleaner
    BY <1>5 DEF cleanerVars, Receive, Daemon, Settle, QueryPassed, RefreshPassed, Raise,
                SelectTriplet, SelectFails, InsertTriplet, ResetTriplet, CountTriplet, MarkPassed,
                DeleteOthers, Accept
  <2>2. CASE SelectTriplet
    <3>1. UNCHANGED <<tracking, req>> /\ pc' # "delete"
      BY <2>2 DEF SelectTriplet, tableVars
    <3>2. pc' # "insert" => RowsOf(TheTriplet) # {}
      BY <2>2 DEF SelectTriplet
    <3> QED
      BY <1>3, <2>1, <3>1, <3>2 DEF RowsOf, TheTriplet
  <2>3. CASE MarkPassed
    <3>1. pc = "pass" /\ pc' = "delete" /\ UNCHANGED req
      BY <2>3 DEF MarkPassed
    <3>2. tracking' = {IF row.triplet = TheTriplet THEN Promoted(row) ELSE row : row \in tracking}
      BY <1>1, <1>2, <2>3 DEF MarkPassed, Fail
    <3>3. PICK row \in tracking : row.triplet = TheTriplet
      BY <1>2, <3>1 DEF RetryInv, RowStays, RowsOf
    <3>4. /\ Promoted(row) \in tracking' /\ Promoted(row).passed
          /\ ClientOf(Promoted(row).triplet) = req.client
      BY <1>1, <3>2, <3>3, RowEffects, RequestFacts
    <3> QED
      BY <1>3, <2>1, <3>1, <3>4 DEF PassedRows
  <2>4. CASE ~SelectTriplet /\ ~MarkPassed
    <3>1. pc' \notin {"reset", "pass", "delete"}
      BY <1>5, <2>4 DEF Receive, Daemon, Settle, QueryPassed, RefreshPassed, Raise, SelectFails,
                        InsertTriplet, ResetTriplet, CountTriplet, DeleteOthers, Accept, Return, Defer
    <3> QED
      BY <1>3, <2>1, <3>1
  <2> QED
    BY <2>2, <2>3, <2>4
<1> QED
  BY <1>2, <1>3, <1>4, <1>5 DEF Next

\* The daemon turns away for what the dates say: the SELECT finds the dates of the first
\* contact, and nobody changes them before the statement that follows.
LEMMA DatesHeededStep == RetryInv /\ TypeOK' /\ [Next]_vars => DatesHeeded'
<1> SUFFICES ASSUME RetryInv, TypeOK', [Next]_vars PROVE DatesHeeded'
  OBVIOUS
<1>1. /\ EarnedInv /\ TypeOK /\ tracking \subseteq Row
      /\ now \in Nat /\ since \in [Triplet -> Nat] /\ TheTriplet \in Triplet
  BY RequestFacts DEF RetryInv, EarnedInv, TypeOK
<1>2. Clean' => Clean /\ UNCHANGED failures
  BY <1>1, CleanBefore
<1>3. CASE UNCHANGED <<pc, req, now, since>>
  BY <1>2, <1>3 DEF RetryInv, DatesHeeded, TheTriplet
<1>4. CASE StartCleanup \/ Cleanup \/ Tick \/ UNCHANGED vars
  BY <1>3, <1>4 DEF StartCleanup, Cleanup, CleanupSelect, CleanupDelete, Tick, vars
<1>5. CASE SelectTriplet
  <2>1. UNCHANGED <<req, now, since>> /\ pc = "select"
    BY <1>5 DEF SelectTriplet
  <2>2. PassedRows(req.client) = {}
    BY <2>1 DEF RetryInv, EarnedInv, ClientUnknown
  <2>3. CASE RowsOf(TheTriplet) = {} /\ pc' = "insert"
    <3>1. Clean => since[TheTriplet] = 0
      BY <1>1, <2>2, <2>3, RequestFacts DEF RetryInv, SeenKnown
    <3> QED
      BY <1>2, <2>1, <2>3, <3>1 DEF DatesHeeded, TheTriplet
  <2>4. ASSUME NEW row \in RowsOf(TheTriplet),
               pc' = IF now > row.record_expired THEN "reset"
                     ELSE IF now < row.block_expired THEN "count"
                     ELSE IF row.record_expired > now + AuthExpire THEN "accept" ELSE "pass"
        PROVE  DatesHeeded'
    <3>1. row \in tracking /\ row.triplet = TheTriplet /\ ~row.passed
      BY <1>1, <2>2, RequestFacts DEF RowsOf, PassedRows
    <3>2. /\ row.block_expired = since[TheTriplet] + BlockExpire
          /\ row.record_expired = since[TheTriplet] + UnauthExpire
      BY <3>1 DEF RetryInv, RowDates
    <3>3. pc' = "reset" => now > since[TheTriplet] + UnauthExpire
      BY <2>4, <3>2
    <3>4. pc' = "count" => now < since[TheTriplet] + BlockExpire
      BY <2>4, <3>2
    <3>5. pc' # "insert"
      BY <2>4
    <3> QED
      BY <2>1, <3>3, <3>4, <3>5 DEF DatesHeeded, TheTriplet
  <2> QED
    BY <1>5, <2>3, <2>4 DEF SelectTriplet
<1>6. CASE SelectFails
  <2>1. pc' = "insert" /\ failures' = failures + 1 /\ failures \in Nat
    BY <1>1, <1>6 DEF SelectFails, Fail, TypeOK
  <2> QED
    BY <2>1 DEF DatesHeeded, Clean
<1>7. CASE pc' \notin {"insert", "count", "reset"}
  BY <1>7 DEF DatesHeeded
<1>8. CASE (Receive \/ Daemon) /\ ~SelectTriplet /\ ~SelectFails
  BY <1>7, <1>8 DEF Receive, Daemon, Settle, QueryPassed, RefreshPassed, Raise, InsertTriplet,
                    ResetTriplet, CountTriplet, MarkPassed, DeleteOthers, Accept, Return, Defer
<1> QED
  BY <1>4, <1>5, <1>6, <1>8 DEF Next

\* The dates, the triplets and the rows agree in every state.
LEMMA RetryInvariant == Spec => []RetryInv
<1>1. Init => RowDates /\ SeenKnown /\ RowStays /\ DatesHeeded
  BY DEF Init, RowDates, SeenKnown, RowStays, DatesHeeded
<1>2. RetryInv /\ EarnedInv' /\ [Next]_vars => RetryInv'
  <2>1. EarnedInv' => TypeOK'
    BY DEF EarnedInv
  <2>2. RetryInv => EarnedInv /\ RowDates
    BY DEF RetryInv
  <2> QED
    BY <2>1, <2>2, RowDatesStep, SeenKnownStep, RowStaysStep, DatesHeededStep DEF RetryInv
<1> QED
  BY <1>1, <1>2, EarnedInvariant, PTL DEF Spec, RetryInv

\* A request is turned away only on the first contact of its triplet, before BLOCK_EXPIRE
\* or after UNAUTH_TRIPLET_EXPIRE, as long as no statement failed and no cleanup ran: a
\* client that comes back in its time is let in (greylisting.py:231-292).
THEOREM RetryIsHeeded == Spec => RetryHeeded
<1> DEFINE Due == TurnedOff => \/ since[TheTriplet] = 0
                              \/ now < since[TheTriplet] + BlockExpire
                              \/ now > since[TheTriplet] + UnauthExpire
                              \/ failures > 0 \/ cleanups > 0
<1>1. RetryInv => Due
  <2> SUFFICES ASSUME RetryInv, pc \in {"insert", "reset", "count"},
                      ~(failures > 0 \/ cleanups > 0)
               PROVE  \/ since[TheTriplet] = 0
                      \/ now < since[TheTriplet] + BlockExpire
                      \/ now > since[TheTriplet] + UnauthExpire
    BY DEF TurnedOff
  <2>1. Clean
    BY DEF Clean, RetryInv, EarnedInv, TypeOK
  <2> QED
    BY <2>1 DEF RetryInv, DatesHeeded
<1>2. RetryInv /\ [Next]_vars => [Due]_vars
  BY <1>1
<1> QED
  BY <1>2, RetryInvariant, PTL DEF Spec, RetryHeeded

-----------------------------------------------------------------------------
(* Promises *)

\* A promise that lasts is kept by a row that has passed, unless the cleanup job deleted
\* the row after its renewal.
Kept(c) ==
  \/ promise[c] < clock \/ c \in raced
  \/ \E row \in PassedRows(c) : row.record_expired >= promise[c]

\* The client of a request that may be turned away was promised nothing that lasts.
NoPromise ==
  pc \in {"select", "insert", "reset", "count"} =>
    promise[req.client] < now \/ req.client \in raced

PromiseInv == EarnedInv /\ cleanup_now <= clock /\ (\A c \in Client : Kept(c)) /\ NoPromise

\* The rows that have passed keep their date, or are changed only to keep the client known.
LEMMA KeptStays ==
  ASSUME NEW c \in Client, Kept(c), TypeOK, TypeOK', clock' >= clock, raced \subseteq raced',
         promise'[c] = promise[c],
         \A row \in PassedRows(c) :
           \E new \in tracking' : /\ new.triplet = row.triplet /\ new.passed
                                 /\ new.record_expired = row.record_expired
  PROVE  Kept(c)'
<1>1. promise[c] \in Nat /\ clock \in Nat /\ clock' \in Nat
  BY DEF TypeOK
<1>2. CASE promise[c] < clock
  BY <1>1, <1>2 DEF Kept
<1>3. CASE c \in raced
  BY <1>3 DEF Kept
<1>4. CASE \E row \in PassedRows(c) : row.record_expired >= promise[c]
  BY <1>4 DEF Kept, PassedRows
<1> QED
  BY <1>2, <1>3, <1>4 DEF Kept

\* The daemon renews every row of a client it makes a promise to, and changes no other row
\* that has passed; the cleanup job deletes a row either after its date or in a race.
LEMMA KeptStep ==
  ASSUME EarnedInv, cleanup_now <= clock, TypeOK', [Next]_vars, NEW c \in Client, Kept(c)
  PROVE  Kept(c)'
<1>1. /\ TypeOK /\ tracking \subseteq Row /\ clock \in Nat /\ now \in Nat
      /\ promise \in [Client -> Nat] /\ req.client \in Client
  BY RequestFacts DEF EarnedInv, TypeOK
<1>2. ASSUME UNCHANGED <<tracking, promise, raced>>, clock' \in {clock, clock + 1} PROVE Kept(c)'
  BY <1>1, <1>2, KeptStays DEF PassedRows
<1>3. CASE Receive \/ Settle \/ QueryPassed \/ Raise \/ SelectTriplet \/ SelectFails \/ Accept
  BY <1>2, <1>3 DEF Receive, Settle, QueryPassed, Raise, SelectTriplet, SelectFails, Accept,
                    tableVars, cleanerVars
<1>4. CASE StartCleanup \/ CleanupSelect \/ Tick \/ UNCHANGED vars
  BY <1>2, <1>4 DEF StartCleanup, CleanupSelect, Tick, vars, tableVars, cleanerVars
<1>5. CASE RefreshPassed
  <2>1. /\ tracking' = {IF row \in PassedRows(req.client) THEN Renewed(row) ELSE row : row \in tracking}
        /\ promise' = IF PassedRows(req.client) # {}
                        THEN [promise EXCEPT ![req.client] = now + AuthExpire] ELSE promise
        /\ UNCHANGED <<clock, raced>>
    BY <1>5 DEF RefreshPassed, cleanerVars
  <2>2. CASE c = req.client /\ PassedRows(c) # {}
    <3>1. PICK row \in tracking : row \in PassedRows(c)
      BY <2>2 DEF PassedRows
    <3>2. Renewed(row) \in tracking'
      BY <2>1, <2>2, <3>1
    <3>3. /\ Renewed(row).passed /\ ClientOf(Renewed(row).triplet) = c
          /\ Renewed(row).record_expired = now + AuthExpire
      BY <1>1, <3>1, RowEffects DEF PassedRows
    <3>4. promise'[c] = now + AuthExpire /\ now + AuthExpire >= now + AuthExpire
      BY <1>1, <2>1, <2>2, ConstantsAssumption
    <3> QED
      BY <3>2, <3>3, <3>4 DEF Kept, PassedRows
  <2>3. CASE ~(c = req.client /\ PassedRows(c) # {})
    <3>1. promise'[c] = promise[c]
      BY <1>1, <2>1, <2>3
    <3>2. \A row \in PassedRows(c) : row \in tracking /\ row \in tracking' /\ row.passed
      BY <2>1, <2>3 DEF PassedRows
    <3> QED
      BY <1>1, <2>1, <3>1, <3>2, KeptStays
  <2> QED
    BY <2>2, <2>3
<1>6. CASE InsertTriplet
  <2>1. tracking \subseteq tracking' /\ UNCHANGED <<promise, raced, clock>>
    BY <1>6 DEF InsertTriplet, tableVars, cleanerVars
  <2> QED
    BY <1>1, <2>1, KeptStays DEF PassedRows
<1>7. CASE ResetTriplet
  <2>1. /\ tracking' = {IF row.triplet = TheTriplet THEN FirstSeen(row) ELSE row : row \in tracking}
        /\ UNCHANGED <<promise, raced, clock>> /\ pc = "reset"
    BY <1>7 DEF ResetTriplet, cleanerVars
  <2>2. \A row \in tracking : row.passed => row.triplet # TheTriplet
    BY <1>1, <2>1, RequestFacts DEF EarnedInv, ClientUnknown, PassedRows
  <2>3. \A row \in PassedRows(c) : row \in tracking' /\ row.passed
    BY <2>1, <2>2 DEF PassedRows
  <2> QED
    BY <1>1, <2>1, <2>3, KeptStays
<1>8. CASE CountTriplet
  <2>1. /\ tracking' = {IF row.triplet = TheTriplet THEN Counted(row) ELSE row : row \in tracking}
        /\ UNCHANGED <<promise, raced, clock>>
    BY <1>8 DEF CountTriplet, cleanerVars
  <2>2. \A row \in PassedRows(c) :
          \E new \in tracking' : /\ new.triplet = row.triplet /\ new.passed
                                /\ new.record_expired = row.record_expired
    BY <1>1, <2>1, RowEffects DEF PassedRows
  <2> QED
    BY <1>1, <2>1, <2>2, KeptStays
<1>9. CASE MarkPassed
  <2>1. UNCHANGED <<clock, raced>>
    BY <1>9 DEF MarkPassed, cleanerVars
  <2>2. CASE UNCHANGED <<tracking, promise>>
    BY <1>2, <2>1, <2>2
  <2>3. CASE /\ tracking' = {IF row.triplet = TheTriplet THEN Promoted(row) ELSE row : row \in tracking}
             /\ promise' = IF RowsOf(TheTriplet) # {}
                             THEN [promise EXCEPT ![req.client] = now + AuthExpire] ELSE promise
    <3>1. CASE c = req.client /\ RowsOf(TheTriplet) # {}
      <4>1. PICK row \in tracking : row.triplet = TheTriplet
        BY <3>1 DEF RowsOf
      <4>2. /\ Promoted(row) \in tracking' /\ Promoted(row).passed
            /\ ClientOf(Promoted(row).triplet) = c /\ Promoted(row).record_expired = now + AuthExpire
        BY <1>1, <2>3, <3>1, <4>1, RowEffects, RequestFacts
      <4>3. promise'[c] = now + AuthExpire /\ now + AuthExpire >= now + AuthExpire
        BY <1>1, <2>3, <3>1, ConstantsAssumption
      <4> QED
        BY <4>2, <4>3 DEF Kept, PassedRows
    <3>2. CASE ~(c = req.client /\ RowsOf(TheTriplet) # {})
      <4>1. promise'[c] = promise[c]
        BY <1>1, <2>3, <3>2
      <4>2. \A row \in PassedRows(c) : row \in tracking' /\ row.passed
        BY <1>1, <2>3, <3>2, RequestFacts DEF PassedRows, RowsOf
      <4> QED
        BY <1>1, <2>1, <4>1, <4>2, KeptStays
    <3> QED
      BY <3>1, <3>2
  <2> QED
    BY <1>9, <2>2, <2>3 DEF MarkPassed
<1>10. CASE DeleteOthers
  <2>1. UNCHANGED <<promise, raced, clock>> /\ \A row \in tracking : row.passed => row \in tracking'
    BY <1>10 DEF DeleteOthers, cleanerVars
  <2> QED
    BY <1>1, <2>1, KeptStays DEF PassedRows
<1>11. CASE CleanupDelete
  <2> DEFINE gone == {row \in tracking : row.id \in remove_values}
  <2>1. /\ UNCHANGED <<promise, clock>> /\ tracking' = tracking \ gone
        /\ raced' = raced \cup {ClientOf(row.triplet) : row \in {w \in gone : ~CleanupMatch(w)}}
    BY <1>11 DEF CleanupDelete
  <2>2. CASE \E row \in PassedRows(c) : row.record_expired >= promise[c] /\ row \in gone
    <3>1. PICK row \in PassedRows(c) : row.record_expired >= promise[c] /\ row \in gone
      BY <2>2
    <3>2. CASE CleanupMatch(row)
      <4>1. row.record_expired < cleanup_now /\ row.record_expired \in Nat
        BY <1>1, <3>1, <3>2, RowFacts DEF CleanupMatch, PassedRows
      <4>2. promise[c] \in Nat /\ cleanup_now \in Nat
        BY <1>1 DEF TypeOK
      <4>3. promise[c] < clock
        BY <1>1, <3>1, <4>1, <4>2
      <4> QED
        BY <2>1, <4>3 DEF Kept
    <3>3. CASE ~CleanupMatch(row)
      <4>1. c \in raced'
        BY <2>1, <3>1, <3>3 DEF PassedRows
      <4> QED
        BY <4>1 DEF Kept
    <3> QED
      BY <3>2, <3>3
  <2>3. CASE ~ \E row \in PassedRows(c) : row.record_expired >= promise[c] /\ row \in gone
    BY <2>1, <2>3 DEF Kept, PassedRows
  <2> QED
    BY <2>2, <2>3
<1> QED
  BY <1>3, <1>4, <1>5, <1>6, <1>7, <1>8, <1>9, <1>10, <1>11 DEF Next, Daemon, Cleanup

\* A request goes on to its triplet only when no row keeps a promise to its client, and
\* nothing is promised to a client that waits.
LEMMA NoPromiseStep == PromiseInv /\ TypeOK' /\ [Next]_vars => NoPromise'
<1> SUFFICES ASSUME PromiseInv, TypeOK', [Next]_vars,
                    pc' \in {"select", "insert", "reset", "count"}
             PROVE  promise'[req'.client] < now' \/ req'.client \in raced'
  BY DEF NoPromise
<1>1. CASE QueryPassed
  <2>1. PassedRows(req.client) = {} /\ now' = clock /\ UNCHANGED <<promise, req, raced>>
    BY <1>1 DEF QueryPassed, cleanerVars
  <2>2. Kept(req.client)
    BY RequestFacts DEF PromiseInv, EarnedInv
  <2> QED
    BY <2>1, <2>2 DEF Kept
<1>2. CASE SelectTriplet \/ SelectFails
  <2>1. pc = "select" /\ UNCHANGED <<promise, req, raced, now>>
    BY <1>2 DEF SelectTriplet, SelectFails, cleanerVars
  <2> QED
    BY <2>1 DEF PromiseInv, NoPromise
<1>3. CASE StartCleanup \/ Cleanup \/ Tick \/ UNCHANGED vars
  <2>1. UNCHANGED <<pc, promise, req, now>> /\ raced \subseteq raced'
    BY <1>3 DEF StartCleanup, Cleanup, CleanupSelect, CleanupDelete, Tick, vars, cleanerVars
  <2> QED
    BY <2>1 DEF PromiseInv, NoPromise
<1>4. CASE (Receive \/ Daemon) /\ ~QueryPassed /\ ~SelectTriplet /\ ~SelectFails
  BY <1>4 DEF Receive, Daemon, Settle, RefreshPassed, Raise, InsertTriplet, ResetTriplet,
              CountTriplet, MarkPassed, DeleteOthers, Accept, Return, Defer
<1> QED
  BY <1>1, <1>2, <1>3, <1>4 DEF Next

\* Promises and rows agree in every state.
LEMMA PromiseInvariant == Spec => []PromiseInv
<1>1. Init => PromiseInv
  <2> SUFFICES ASSUME Init PROVE PromiseInv
    OBVIOUS
  <2>1. cleanup_now <= clock /\ NoPromise
    BY DEF Init, NoPromise
  <2>2. \A c \in Client : Kept(c)
    BY DEF Init, Kept
  <2> QED
    BY <2>1, <2>2, EarnedInit DEF PromiseInv
<1>2. PromiseInv /\ TypeOK' /\ [Next]_vars => cleanup_now' <= clock'
  <2> SUFFICES ASSUME PromiseInv, TypeOK', [Next]_vars PROVE cleanup_now' <= clock'
    OBVIOUS
  <2>1. cleanup_now <= clock /\ clock \in Nat /\ cleanup_now \in Nat
    BY DEF PromiseInv, EarnedInv, TypeOK
  <2>2. clock' \in {clock, clock + 1} /\ cleanup_now' \in {cleanup_now, clock}
    BY DEF Next, Receive, Daemon, Settle, QueryPassed, RefreshPassed, Raise, SelectTriplet,
           SelectFails, InsertTriplet, ResetTriplet, CountTriplet, MarkPassed, DeleteOthers, Accept,
           cleanerVars, StartCleanup, Cleanup, CleanupSelect, CleanupDelete, Tick, vars
  <2> QED
    BY <2>1, <2>2
<1>3. PromiseInv /\ EarnedInv' /\ [Next]_vars => PromiseInv'
  <2>1. EarnedInv' => TypeOK'
    BY DEF EarnedInv
  <2>2. PromiseInv /\ TypeOK' /\ [Next]_vars => \A c \in Client : Kept(c)'
    BY KeptStep DEF PromiseInv
  <2> QED
    BY <1>2, <2>1, <2>2, NoPromiseStep DEF PromiseInv
<1> QED
  BY <1>1, <1>3, EarnedInvariant, PTL DEF Spec

\* No client is turned away while it is promised to be known: the promise is in a row that
\* the daemon finds, unless the cleanup job, which had found it expired, deleted it after
\* its renewal (greylisting.py:200-229, 296-309, cleanup_db.py:36-39).
THEOREM PromiseIsKept == Spec => PassRemembered
<1> DEFINE Due == TurnedOff => promise[req.client] < now \/ req.client \in raced
<1>1. PromiseInv => Due
  BY DEF PromiseInv, NoPromise, TurnedOff
<1>2. PromiseInv /\ [Next]_vars => [Due]_vars
  BY <1>1
<1> QED
  BY <1>2, PromiseInvariant, PTL DEF Spec, PassRemembered
=============================================================================
