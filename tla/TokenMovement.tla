---------------------------- MODULE TokenMovement ----------------------------
(***************************************************************************)
(* The watch over token movements: after each block that the node makes,   *)
(* CheckTokenMovementLimits looks at the transfers of the last day and     *)
(* mails the operator, at most once a day for each event.                  *)
(***************************************************************************)
EXTENDS Integers, FiniteSets, FiniteSetsExt

CONSTANTS
  DayLimit,      \* networkPerDayLimit
  PairLimit,     \* FromToPerDayLimit
  BlockLimit,    \* TokenMovementQtyPerBlockLimit
  Hours,         \* a day
  Payers, Amounts, MaxHour, MaxTransfers

VARIABLES
  clock, transfers,   \* rows of 1_history: [n, from, to, amount, time, block]
  made,               \* the block that is made
  lastLimitEvents,    \* when an event was last found
  mailed,             \* history: when its mail was last handed over; an error is not looked at
  checked             \* the last block that was checked

moveVars == <<clock, transfers, made, lastLimitEvents, mailed, checked>>

Events == {"network", "pair"}
\* An event that was not found, or long enough ago.
Never == 0 - Hours

Init ==
  /\ clock = 0 /\ transfers = {} /\ made = 1 /\ checked = 0
  /\ lastLimitEvents = [e \in Events |-> Never] /\ mailed = [e \in Events \cup {"block"} |-> Never]

Recent == {t \in transfers : t.time > clock - Hours}
Sum(S) == MapThenSumSet(LAMBDA t : t.amount, S)

\* GetExcessCommonTokenMovementPerDay, GetExcessFromToTokenMovementPerDay and
\* GetExcessTokenMovementQtyPerBlock
Excess(e) ==
  CASE e = "network" -> Sum(Recent) >= DayLimit
    [] e = "pair" -> \E w, v \in Payers : Sum({t \in Recent : t.from = w /\ t.to = v}) > PairLimit
    [] e = "block" -> \E w \in Payers : Cardinality({t \in transfers : t.from = w /\ t.block = made}) > BlockLimit

needCheck(e) == clock - lastLimitEvents[e] >= Hours

Transfer(w, v, a) ==
  /\ checked < made /\ Cardinality(transfers) < MaxTransfers
  /\ transfers' = transfers \cup {[n |-> Cardinality(transfers), from |-> w, to |-> v, amount |-> a, time |-> clock, block |-> made]}
  /\ UNCHANGED <<clock, made, lastLimitEvents, mailed, checked>>

\* A slip: the time is set whether there was an excess or not.
CheckAndMark ==
  LET found == {e \in Events : needCheck(e) /\ Excess(e)} IN
  /\ checked < made /\ checked' = made
  /\ lastLimitEvents' = [e \in Events |-> IF needCheck(e) THEN clock ELSE lastLimitEvents[e]]
  /\ mailed' = [e \in DOMAIN mailed |-> IF e \in found \/ (e = "block" /\ Excess(e)) THEN clock ELSE mailed[e]]
  /\ UNCHANGED <<clock, transfers, made>>

CheckTokenMovementLimits ==
  LET found == {e \in Events : needCheck(e) /\ Excess(e)} IN
  /\ checked < made /\ checked' = made
  /\ lastLimitEvents' = [e \in Events |-> IF e \in found THEN clock ELSE lastLimitEvents[e]]
  /\ mailed' = [e \in DOMAIN mailed |-> IF e \in found \/ (e = "block" /\ Excess(e)) THEN clock ELSE mailed[e]]
  /\ UNCHANGED <<clock, transfers, made>>

\* The next block is made, at a later time.
NextBlock ==
  /\ checked = made /\ clock < MaxHour
  /\ clock' = clock + 1 /\ made' = made + 1
  /\ UNCHANGED <<transfers, lastLimitEvents, mailed, checked>>

\* A restart forgets the times.
Restart ==
  /\ checked = made /\ \E e \in Events : lastLimitEvents[e] # Never
  /\ lastLimitEvents' = [e \in Events |-> Never]
  /\ UNCHANGED <<clock, transfers, made, mailed, checked>>

Next ==
  \/ \E w, v \in Payers, a \in Amounts : w # v /\ Transfer(w, v, a)
  \/ CheckTokenMovementLimits \/ NextBlock \/ Restart

-----------------------------------------------------------------------------
\* When a block has been checked, each excess of that day has been mailed
\* within the last day, although every event is mailed once a day at most
\* (needCheck, CheckTokenMovementLimits).
ExcessIsMailed ==
  checked = made =>
    /\ \A e \in Events : Excess(e) => clock - mailed[e] < Hours
    /\ Excess("block") => mailed["block"] = clock
=============================================================================
