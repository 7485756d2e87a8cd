----------------------------- MODULE SessionLedger -----------------------------
(***************************************************************************)
(* What the activity history promises of one row id: it is opened once by  *)
(* a clock-in, closed once at a later or equal time, and may then or       *)
(* before be removed by a deletion.  When LateWrites holds, a clock-out    *)
(* that read the clock or the row earlier may still write: it may close a  *)
(* row with a time before its clock-in, replace the time of a closed row,  *)
(* and bring a removed row back as a closed one.  In neither case is a     *)
(* closed or a removed row ever open again.                                *)
(***************************************************************************)
EXTENDS Naturals

CONSTANTS Ids, Times, LateWrites

VARIABLE ledger

Unused         == [state |-> "unused", in |-> 0, out |-> 0]
Removed        == [state |-> "removed", in |-> 0, out |-> 0]
Opened(t)      == [state |-> "open", in |-> t, out |-> 0]
Closed(t, out) == [state |-> "closed", in |-> t, out |-> out]

Init == ledger = [i \in Ids |-> Unused]

ClockIn(i, t) ==
  /\ ledger[i] = Unused
  /\ ledger' = [ledger EXCEPT ![i] = Opened(t)]

\* The id went to a row of another table.
Skip(i) ==
  /\ ledger[i] = Unused
  /\ ledger' = [ledger EXCEPT ![i] = Removed]

\* A clock-out closes one row, the go-live job all those of an event.
Close(S, t) ==
  /\ \A i \in S : /\ ledger[i].state = "open"
                  /\ LateWrites \/ ledger[i].in <= t
  /\ ledger' = [i \in Ids |-> IF i \in S THEN Closed(ledger[i].in, t) ELSE ledger[i]]

Remove(S) ==
  /\ \A i \in S : ledger[i] # Unused
  /\ ledger' = [i \in Ids |-> IF i \in S THEN Removed ELSE ledger[i]]

LateClose(i, t, out) ==
  /\ LateWrites
  /\ ledger[i] = Removed \/ (ledger[i].state = "closed" /\ ledger[i].in = t)
  /\ ledger' = [ledger EXCEPT ![i] = Closed(t, out)]

Next ==
  \/ \E i \in Ids : Skip(i)
  \/ \E i \in Ids, t \in Times : ClockIn(i, t)
  \/ \E S \in SUBSET Ids : Remove(S)
  \/ \E S \in SUBSET Ids, t \in Times : Close(S, t)
  \/ \E i \in Ids, t, out \in Times : LateClose(i, t, out)

Spec == Init /\ [][Next]_ledger
=============================================================================
