----------------------------- MODULE FailureLog -----------------------------
(***************************************************************************)
(* The list of failed tests: tst_test_recordfailure appends a combination  *)
(* of test, communicator, type and number of values unless it is listed.   *)
(* There is no lock, and the threads of a threaded test call it at the     *)
(* same time, all with the combination the test loop is executing.  The    *)
(* loads and stores of tst_tests_failed_num are steps of their own, and    *)
(* so is the write of each field of an entry.  Entries beyond the array    *)
(* are kept in the model to tell that they were written.                   *)
(***************************************************************************)
EXTENDS Naturals, FiniteSets

CONSTANTS Teams,       \* sets of threads that may execute the tests
          Rounds,      \* the combinations main executes, 1..Rounds
          Fields,      \* the fields of an entry, 1..Fields
          MaxFailed,   \* TST_TESTS_NUM_FAILED_MAX
          Calls        \* bound on the failures a thread finds in a combination

ASSUME FailureAssumption ==
  /\ IsFiniteSet(UNION Teams)
  /\ Rounds \in Nat \ {0} /\ Fields \in Nat \ {0} /\ MaxFailed \in Nat \ {0} /\ Calls \in Nat

Thread == UNION Teams
Combination == 1..Rounds
Unwritten == 0        \* what the suite has not written, and names no combination
Field == 1..Fields
EntryOf(c) == [f \in Field |-> c]
Place == 0..(MaxFailed - 1)                      \* of the array
Index == 0..(MaxFailed + Cardinality(Thread))    \* bound on the entries kept in the model

VARIABLES
  team,        \* the threads that execute the tests
  failed,      \* tst_tests_failed
  failed_num,  \* tst_tests_failed_num
  round,       \* the combination main executes
  pc,
  i,           \* loop index of the scan
  field,       \* the field of the new entry that is written next
  reg,         \* the loaded value of failed_num in failed_num++
  calls,       \* failures found in this combination
  exited,      \* the process has been ended by ERROR
  reported     \* history: the combinations whose recording has returned

vars == <<team, failed, failed_num, round, pc, i, field, reg, calls, exited, reported>>

(* Every variable has its type; the main loop ends after the last          *)
(* combination.                                                            *)
TypeOK ==
  /\ team \in Teams
  /\ failed \in [Index -> [Field -> Combination \cup {Unwritten}]]
  /\ failed_num \in Nat
  /\ round \in 1..(Rounds + 1)
  /\ pc \in [Thread -> {"test", "scan", "compare", "append", "load", "store", "limit", "end"}]
  /\ i \in [Thread -> Nat]
  /\ field \in [Thread -> Field]
  /\ reg \in [Thread -> Nat]
  /\ calls \in [Thread -> 0..Calls]
  /\ exited \in BOOLEAN
  /\ reported \in SUBSET Combination

(* The array comes from malloc: an entry that nobody has written yet may   *)
(* name a combination by accident.                                         *)
Init ==
  /\ team \in Teams
  /\ \E left \in [Place -> Combination \cup {Unwritten}] :
       failed = [k \in Index |-> EntryOf(IF k \in Place THEN left[k] ELSE Unwritten)]
  /\ failed_num = 0
  /\ round = 1
  /\ pc = [t \in Thread |-> "test"]
  /\ i = [t \in Thread |-> 0]
  /\ field = [t \in Thread |-> 1]
  /\ reg = [t \in Thread |-> 0]
  /\ calls = [t \in Thread |-> 0]
  /\ exited = FALSE
  /\ reported = {}

Goto(t, l) == pc' = [pc EXCEPT ![t] = l]

-----------------------------------------------------------------------------

(* The test function finds an error and calls recordfailure.               *)
Fail(t) ==
  /\ pc[t] = "test"
  /\ calls[t] < Calls
  /\ calls' = [calls EXCEPT ![t] = @ + 1]
  /\ i' = [i EXCEPT ![t] = 0]
  /\ Goto(t, "scan")
  /\ UNCHANGED <<team, failed, failed_num, round, reg, field, exited, reported>>

(* One iteration of the search, and the decision behind the loop: i equals *)
(* failed_num only if nothing was found, and failed_num is read again.     *)

Scan(t) ==
  /\ pc[t] = "scan"
  /\ IF i[t] < failed_num
     THEN IF failed[i[t]] = EntryOf(round)
          THEN Goto(t, "compare") /\ UNCHANGED i
          ELSE i' = [i EXCEPT ![t] = @ + 1] /\ UNCHANGED pc
     ELSE Goto(t, "compare") /\ UNCHANGED i
  /\ UNCHANGED <<team, failed, failed_num, round, field, reg, calls, exited, reported>>

Return(t) == reported' = reported \cup {round} /\ Goto(t, "test")

Compare(t) ==
  /\ pc[t] = "compare"
  /\ IF i[t] = failed_num
     THEN Goto(t, "append") /\ UNCHANGED reported
     ELSE Return(t)
  /\ UNCHANGED <<team, failed, failed_num, round, i, field, reg, calls, exited>>

AppendBehind(t) ==
  /\ pc[t] = "append"
  /\ failed_num \in Index
  /\ failed' = [failed EXCEPT ![failed_num + 1][field[t]] = round]
  /\ IF field[t] < Fields
     THEN field' = [field EXCEPT ![t] = @ + 1] /\ UNCHANGED pc
     ELSE field' = [field EXCEPT ![t] = 1] /\ Goto(t, "load")
  /\ UNCHANGED <<team, failed_num, round, i, reg, calls, exited, reported>>

(* The index is read again for every field.                                *)
Append(t) ==
  /\ pc[t] = "append"
  /\ failed_num \in Index
  /\ failed' = [failed EXCEPT ![failed_num][field[t]] = round]
  /\ IF field[t] < Fields
     THEN field' = [field EXCEPT ![t] = @ + 1] /\ UNCHANGED pc
     ELSE field' = [field EXCEPT ![t] = 1] /\ Goto(t, "load")
  /\ UNCHANGED <<team, failed_num, round, i, reg, calls, exited, reported>>

Load(t) ==
  /\ pc[t] = "load"
  /\ reg' = [reg EXCEPT ![t] = failed_num]
  /\ Goto(t, "store")
  /\ UNCHANGED <<team, failed, failed_num, round, i, field, calls, exited, reported>>

Store(t) ==
  /\ pc[t] = "store"
  /\ failed_num' = reg[t] + 1
  /\ Goto(t, "limit")
  /\ UNCHANGED <<team, failed, round, i, field, reg, calls, exited, reported>>

(* ERROR(EINVAL, "Maximum Error limit reached").                           *)
LimitReachedLate(t) == failed_num > MaxFailed
LimitReached(t) == failed_num = MaxFailed

Limit(t) ==
  /\ pc[t] = "limit"
  /\ IF LimitReached(t)
     THEN exited' = TRUE /\ UNCHANGED <<pc, reported>>
     ELSE Return(t) /\ UNCHANGED exited
  /\ UNCHANGED <<team, failed, failed_num, round, i, field, reg, calls>>

(* The test function returns; when it has in all threads, main goes on.    *)
EndTest(t) ==
  /\ pc[t] = "test"
  /\ round <= Rounds
  /\ Goto(t, "end")
  /\ UNCHANGED <<team, failed, failed_num, round, i, field, reg, calls, exited, reported>>

NextRoundPastEnd ==
  /\ \A t \in team : pc[t] = "end"
  /\ round' = round + 1
  /\ calls' = [t \in Thread |-> 0]
  /\ pc' = [t \in Thread |-> IF round' > Rounds THEN "end" ELSE "test"]
  /\ UNCHANGED <<team, failed, failed_num, i, field, reg, exited, reported>>

NextRound ==
  /\ round <= Rounds
  /\ \A t \in team : pc[t] = "end"
  /\ round' = round + 1
  /\ calls' = [t \in Thread |-> 0]
  /\ pc' = [t \in Thread |-> IF round' > Rounds THEN "end" ELSE "test"]
  /\ UNCHANGED <<team, failed, failed_num, i, field, reg, exited, reported>>

Record(t) ==
  \/ Fail(t) \/ Scan(t) \/ Compare(t) \/ Append(t) \/ Load(t) \/ Store(t) \/ Limit(t)

Over == (exited \/ round > Rounds) /\ UNCHANGED vars

Next ==
  \/ ~exited /\ (NextRound \/ \E t \in team : Record(t) \/ EndTest(t))
  \/ Over

Spec == Init /\ [][Next]_vars

-----------------------------------------------------------------------------

Listed == {failed[k] : k \in 0..(failed_num - 1)}

(* Every combination whose failure was recorded is in the summary that     *)
(* print_failed prints, and main's exit status tells that tests failed.    *)
EveryFailureListed == {EntryOf(c) : c \in reported} \subseteq Listed

(* The summary names only combinations that failed.                        *)
SummaryTruthful ==
  (\A t \in team : pc[t] \in {"test", "end"}) =>
    Listed \subseteq {EntryOf(c) : c \in reported}

(* "First make sure, that this combination is not already in the           *)
(* failed-list": none is listed twice.                                     *)
NoDuplicates ==
  \A k, l \in 0..(failed_num - 1) :
    k # l => failed[k] # failed[l]

(* The process ends before the list outgrows its array.                    *)
WithinArray == \A k \in Index : k >= MaxFailed => failed[k] = EntryOf(Unwritten)

(* As long as only the master thread finds failures, the list is exact.    *)
ExactIfAlone ==
  Cardinality(team) = 1 => SummaryTruthful /\ NoDuplicates /\ WithinArray
=============================================================================
