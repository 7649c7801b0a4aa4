-------------------------- MODULE FailureLogProofs --------------------------
(***************************************************************************)
(* For all teams of threads, numbers of combinations and lengths of the    *)
(* array: the list keeps its types, and no failure is lost, although the   *)
(* threads record without a lock; if one thread alone finds failures, the  *)
(* list is exact.                                                          *)
(***************************************************************************)
EXTENDS FailureLog, FiniteSetTheorems, TLAPS

Recorders == {"test", "scan", "compare", "append", "load", "store", "limit", "end"}
Idle == {"test", "end"}

(* Entries are told apart by the combination they name.                    *)
LEMMA EntryFacts ==
  /\ \A c \in Combination \cup {Unwritten} :
       EntryOf(c) \in [Field -> Combination \cup {Unwritten}]
  /\ \A c, d \in Combination \cup {Unwritten} : EntryOf(c) = EntryOf(d) => c = d
  /\ 1 \in Field
<1>1. 1 \in Field
  BY FailureAssumption DEF Field
<1>2. \A c \in Combination \cup {Unwritten} :
        EntryOf(c) \in [Field -> Combination \cup {Unwritten}] /\ EntryOf(c)[1] = c
  BY <1>1 DEF EntryOf
<1>3. QED
  BY <1>1, <1>2

(* The entries that the model keeps are numbered from 0 on.                *)
LEMMA IndexFacts ==
  /\ Cardinality(Thread) \in Nat
  /\ \A k \in Index : k \in Nat /\ 0..k \subseteq Index
<1>1. Cardinality(Thread) \in Nat
  BY FS_CardinalityType, FailureAssumption DEF Thread
<1>2. QED
  BY <1>1, FailureAssumption DEF Index

(* Who is recording executes a combination, and writes the fields of an    *)
(* entry in their order.                                                   *)
PlaceInv ==
  /\ team \subseteq Thread
  /\ \A t \in Thread : pc[t] # "end" => round <= Rounds
  /\ \A t \in Thread \ team : pc[t] \in Idle
  /\ \A t \in Thread : pc[t] # "append" => field[t] = 1

(* b is the number of entries when the combination began.  The entries     *)
(* below b are kept, and name all that failed before.  As soon as the      *)
(* number has grown, the entry at b names this combination, and the number *)
(* never gets back to b, however many increments are lost: a thread that   *)
(* stores has loaded b or more.                                            *)
BaseInv(b) ==
  /\ failed_num >= b
  /\ failed_num > b => failed[b] = EntryOf(round)
  /\ \A c \in reported :
       \/ c = round /\ failed_num > b
       \/ \E k \in 0..(b - 1) : failed[k] = EntryOf(c)
  /\ \A t \in Thread :
       /\ pc[t] = "scan" /\ failed_num = b => i[t] <= b
       /\ pc[t] = "compare" /\ failed_num = b =>
            i[t] = b \/ (i[t] < b /\ failed[i[t]] = EntryOf(round))
       /\ pc[t] = "append" /\ failed_num = b => \A f \in 1..(field[t] - 1) : failed[b][f] = round
       /\ pc[t] \in {"load", "store", "limit"} => failed[b] = EntryOf(round)
       /\ pc[t] = "store" => reg[t] >= b
       /\ pc[t] = "limit" => failed_num > b

IInv == TypeOK /\ PlaceInv /\ \E b \in Nat : BaseInv(b)

(* A search begins at the first entry.                                     *)
LEMMA FailInv ==
  ASSUME IInv, NEW t \in team, Fail(t)
  PROVE  IInv'
<1> t \in Thread
  BY DEF IInv, PlaceInv
<1>1. TypeOK'
  BY EntryFacts, FailureAssumption DEF IInv, TypeOK, PlaceInv, Fail, Goto
<1>2. PlaceInv'
  BY EntryFacts DEF IInv, TypeOK, PlaceInv, Idle, Fail, Goto
<1>3. \E b \in Nat : BaseInv(b)'
  <2> PICK b \in Nat : BaseInv(b)
    BY DEF IInv
  <2>1. BaseInv(b)'
    BY DEF IInv, TypeOK, PlaceInv, BaseInv, Fail, Goto
  <2>2. QED
    BY <2>1
<1>4. QED
  BY <1>1, <1>2, <1>3 DEF IInv

(* A search goes on as long as there are entries; when it ends at the      *)
(* number of entries and this is b, nothing has been appended.             *)
LEMMA ScanInv ==
  ASSUME IInv, NEW t \in team, Scan(t)
  PROVE  IInv'
<1> t \in Thread
  BY DEF IInv, PlaceInv
<1>1. TypeOK'
  BY EntryFacts, FailureAssumption DEF IInv, TypeOK, PlaceInv, Scan, Goto
<1>2. PlaceInv'
  BY EntryFacts DEF IInv, TypeOK, PlaceInv, Idle, Scan, Goto
<1>3. \E b \in Nat : BaseInv(b)'
  <2> PICK b \in Nat : BaseInv(b)
    BY DEF IInv
  <2>1. BaseInv(b)'
    BY DEF IInv, TypeOK, PlaceInv, BaseInv, Scan, Goto
  <2>2. QED
    BY <2>1
<1>4. QED
  BY <1>1, <1>2, <1>3 DEF IInv

(* A thread that returns here has found its combination, or another thread *)
(* has appended it.                                                        *)
LEMMA CompareInv ==
  ASSUME IInv, NEW t \in team, Compare(t)
  PROVE  IInv'
<1> t \in Thread
  BY DEF IInv, PlaceInv
<1>1. TypeOK'
  <2>1. round \in Combination
    BY DEF IInv, TypeOK, PlaceInv, Compare, Combination
  <2>2. reported' \in SUBSET Combination /\ exited' \in BOOLEAN
    BY <2>1 DEF IInv, TypeOK, Compare, Return
  <2>3. pc' \in [Thread -> Recorders]
    BY DEF IInv, TypeOK, Compare, Return, Goto, Recorders
  <2>4. QED
    BY <2>2, <2>3 DEF IInv, TypeOK, Compare, Recorders
<1>2. PlaceInv'
  BY EntryFacts DEF IInv, TypeOK, PlaceInv, Idle, Compare, Goto, Return
<1>3. \E b \in Nat : BaseInv(b)'
  <2> PICK b \in Nat : BaseInv(b)
    BY DEF IInv
  <2>1. BaseInv(b)'
    BY DEF IInv, TypeOK, PlaceInv, BaseInv, Compare, Goto, Return
  <2>2. QED
    BY <2>1
<1>4. QED
  BY <1>1, <1>2, <1>3 DEF IInv

(* The write of a field either completes the entry at b or is behind it.   *)
LEMMA AppendInv ==
  ASSUME IInv, NEW t \in team, Append(t)
  PROVE  IInv'
<1> t \in Thread
  BY DEF IInv, PlaceInv
<1>1. TypeOK'
  <2>1. round \in Combination
    BY DEF IInv, TypeOK, PlaceInv, Append, Combination
  <2>2. failed' \in [Index -> [Field -> Combination \cup {Unwritten}]]
    BY <2>1 DEF IInv, TypeOK, Append
  <2>3. pc' \in [Thread -> Recorders]
    BY DEF IInv, TypeOK, Append, Goto, Recorders
  <2>4. field' \in [Thread -> Field]
    <3>1. Fields \in Nat /\ field[t] \in Field
      BY FailureAssumption DEF IInv, TypeOK
    <3>2. CASE field' = [field EXCEPT ![t] = @ + 1] /\ field[t] < Fields
      BY <3>1, <3>2 DEF IInv, TypeOK, Field
    <3>3. CASE field' = [field EXCEPT ![t] = 1]
      BY <3>3, EntryFacts DEF IInv, TypeOK
    <3>4. QED
      BY <3>2, <3>3 DEF Append
  <2>5. QED
    BY <2>2, <2>3, <2>4 DEF IInv, TypeOK, Append, Recorders
<1>2. PlaceInv'
  BY EntryFacts DEF IInv, TypeOK, PlaceInv, Idle, Append, Goto
<1>3. \E b \in Nat : BaseInv(b)'
  <2> PICK b \in Nat : BaseInv(b)
    BY DEF IInv
  <2>1. BaseInv(b)'
    <3>1. /\ round \in Combination /\ b \in Nat /\ failed_num \in Nat /\ failed_num >= b
          /\ failed_num \in Index /\ b \in Index /\ Fields \in Nat
          /\ failed \in [Index -> [Field -> Combination \cup {Unwritten}]]
          /\ failed' = [failed EXCEPT ![failed_num] = [@ EXCEPT ![field[t]] = round]]
          /\ UNCHANGED <<team, failed_num, round, i, reg, calls, exited, reported>>
      BY IndexFacts, FailureAssumption DEF IInv, TypeOK, PlaceInv, BaseInv, Append, Combination
    <3>2. \A k \in 0..(b - 1) : failed'[k] = failed[k]
      BY <3>1 DEF Index
    <3>3. failed[b] = EntryOf(round) => failed'[b] = EntryOf(round)
      BY <3>1 DEF EntryOf
    <3>4. ASSUME failed_num = b, NEW f \in Field, failed[b][f] = round \/ f = field[t]
          PROVE  failed'[b][f] = round
      BY <3>1, <3>4 DEF EntryOf
    <3>5. ASSUME pc'[t] = "load" PROVE failed'[b] = EntryOf(round)
      <4>1. CASE failed_num > b
        BY <4>1, <3>3 DEF BaseInv
      <4>2. CASE failed_num = b
        <5>1. field[t] = Fields
          <6>1. ~(field[t] < Fields)
            BY <3>5 DEF IInv, TypeOK, Append
          <6>2. QED
            BY <6>1, <3>1 DEF IInv, TypeOK, Field
        <5>2. \A f \in Field : failed'[b][f] = round
          BY <4>2, <5>1, <3>1, <3>4 DEF BaseInv, Field, Append
        <5>3. failed'[b] \in [Field -> Combination \cup {Unwritten}]
          BY <3>1, <1>1 DEF TypeOK
        <5>4. QED
          BY <5>2, <5>3 DEF EntryOf
      <4>3. QED
        BY <3>1, <4>1, <4>2
    <3>6. ASSUME NEW u \in Thread, pc'[u] = "append", failed_num = b,
                 NEW f \in 1..(field'[u] - 1)
          PROVE  failed'[b][f] = round
      <4>1. pc[u] = "append" /\ field[u] \in Field /\ field'[u] \in Field
        BY <3>6, <1>1 DEF IInv, TypeOK, Append, Goto
      <4>2. f \in Field /\ (f \in 1..(field[u] - 1) \/ (u = t /\ f = field[t]))
        <5>1. field'[u] \in {field[u], 1} \/ (u = t /\ field'[u] = field[u] + 1)
          BY DEF IInv, TypeOK, Append
        <5>2. CASE field'[u] = field[u]
          BY <3>6, <4>1, <3>1, <5>2 DEF Field
        <5>3. CASE field'[u] = 1
          BY <3>6, <5>3
        <5>4. CASE u = t /\ field'[u] = field[u] + 1
          <6>1. f \in 1..field[u]
            BY <3>6, <4>1, <5>4 DEF Field
          <6>2. QED
            BY <4>1, <5>4, <6>1, <3>1 DEF Field
        <5>5. QED
          BY <5>1, <5>2, <5>3, <5>4
      <4>3. QED
        BY <3>4, <3>6, <4>1, <4>2 DEF BaseInv
    <3>7. \A u \in Thread : /\ pc'[u] \in {"scan", "compare", "store", "limit"} => pc'[u] = pc[u]
                            /\ pc'[u] = "load" => pc[u] = "load" \/ u = t
      BY DEF IInv, TypeOK, Append, Goto
    <3>8. \A c \in reported' : \/ c = round' /\ failed_num' > b
                              \/ \E k \in 0..(b - 1) : failed'[k] = EntryOf(c)
      BY <3>1, <3>2 DEF BaseInv
    <3>9. ASSUME NEW u \in Thread
          PROVE  /\ pc'[u] = "scan" /\ failed_num = b => i[u] <= b
                 /\ pc'[u] = "compare" /\ failed_num = b =>
                      i[u] = b \/ (i[u] < b /\ failed'[i[u]] = EntryOf(round))
      <4>1. i[u] \in Nat
        BY DEF IInv, TypeOK
      <4>2. /\ pc[u] = "scan" /\ failed_num = b => i[u] <= b
            /\ pc[u] = "compare" /\ failed_num = b =>
                 i[u] = b \/ (i[u] < b /\ failed[i[u]] = EntryOf(round))
        BY DEF BaseInv
      <4>3. i[u] < b => failed'[i[u]] = failed[i[u]]
        BY <3>1, <3>2, <4>1
      <4>4. pc'[u] = "scan" /\ failed_num = b => i[u] <= b
        BY <3>7, <4>2
      <4>5. pc'[u] = "compare" /\ failed_num = b =>
              i[u] = b \/ (i[u] < b /\ failed'[i[u]] = EntryOf(round))
        BY <3>7, <4>2, <4>3
      <4>6. QED
        BY <4>4, <4>5
    <3>10. ASSUME NEW u \in Thread
           PROVE  /\ pc'[u] \in {"load", "store", "limit"} => failed'[b] = EntryOf(round)
                  /\ pc'[u] = "store" => reg[u] >= b
                  /\ pc'[u] = "limit" => failed_num > b
      <4>1. /\ pc[u] \in {"load", "store", "limit"} => failed[b] = EntryOf(round)
            /\ pc[u] = "store" => reg[u] >= b
            /\ pc[u] = "limit" => failed_num > b
        BY DEF BaseInv
      <4>2. pc'[u] \in {"load", "store", "limit"} => failed'[b] = EntryOf(round)
        BY <3>3, <3>5, <3>7, <4>1
      <4>3. pc'[u] = "store" => reg[u] >= b
        BY <3>7, <4>1
      <4>4. pc'[u] = "limit" => failed_num > b
        BY <3>7, <4>1
      <4>5. QED
        BY <4>2, <4>3, <4>4
    <3>11. QED
      BY <3>1, <3>3, <3>6, <3>8, <3>9, <3>10 DEF BaseInv
  <2>2. QED
    BY <2>1
<1>4. QED
  BY <1>1, <1>2, <1>3 DEF IInv

(* What is loaded is b or more.                                            *)
LEMMA LoadInv ==
  ASSUME IInv, NEW t \in team, Load(t)
  PROVE  IInv'
<1> t \in Thread
  BY DEF IInv, PlaceInv
<1>1. TypeOK'
  BY EntryFacts, FailureAssumption DEF IInv, TypeOK, PlaceInv, Load, Goto
<1>2. PlaceInv'
  BY EntryFacts DEF IInv, TypeOK, PlaceInv, Idle, Load, Goto
<1>3. \E b \in Nat : BaseInv(b)'
  <2> PICK b \in Nat : BaseInv(b)
    BY DEF IInv
  <2>1. BaseInv(b)'
    BY DEF IInv, TypeOK, PlaceInv, BaseInv, Load, Goto
  <2>2. QED
    BY <2>1
<1>4. QED
  BY <1>1, <1>2, <1>3 DEF IInv

(* What is stored is more than b, and the entry at b is complete.          *)
LEMMA StoreInv ==
  ASSUME IInv, NEW t \in team, Store(t)
  PROVE  IInv'
<1> t \in Thread
  BY DEF IInv, PlaceInv
<1>1. TypeOK'
  BY EntryFacts, FailureAssumption DEF IInv, TypeOK, PlaceInv, Store, Goto
<1>2. PlaceInv'
  BY EntryFacts DEF IInv, TypeOK, PlaceInv, Idle, Store, Goto
<1>3. \E b \in Nat : BaseInv(b)'
  <2> PICK b \in Nat : BaseInv(b)
    BY DEF IInv
  <2>1. BaseInv(b)'
    BY DEF IInv, TypeOK, PlaceInv, BaseInv, Store, Goto
  <2>2. QED
    BY <2>1
<1>4. QED
  BY <1>1, <1>2, <1>3 DEF IInv

(* A thread that returns here leaves its combination listed at b.          *)
LEMMA LimitInv ==
  ASSUME IInv, NEW t \in team, Limit(t)
  PROVE  IInv'
<1> t \in Thread
  BY DEF IInv, PlaceInv
<1>1. TypeOK'
  <2>1. round \in Combination
    BY DEF IInv, TypeOK, PlaceInv, Limit, Combination
  <2>2. reported' \in SUBSET Combination /\ exited' \in BOOLEAN
    BY <2>1 DEF IInv, TypeOK, Limit, Return
  <2>3. pc' \in [Thread -> Recorders]
    BY DEF IInv, TypeOK, Limit, Return, Goto, Recorders
  <2>4. QED
    BY <2>2, <2>3 DEF IInv, TypeOK, Limit, Recorders
<1>2. PlaceInv'
  BY EntryFacts DEF IInv, TypeOK, PlaceInv, Idle, Limit, Goto, Return
<1>3. \E b \in Nat : BaseInv(b)'
  <2> PICK b \in Nat : BaseInv(b)
    BY DEF IInv
  <2>1. BaseInv(b)'
    BY DEF IInv, TypeOK, PlaceInv, BaseInv, Limit, Goto, Return
  <2>2. QED
    BY <2>1
<1>4. QED
  BY <1>1, <1>2, <1>3 DEF IInv

(* A test function that returns changes nothing in the list.               *)
LEMMA EndTestInv ==
  ASSUME IInv, NEW t \in team, EndTest(t)
  PROVE  IInv'
<1> t \in Thread
  BY DEF IInv, PlaceInv
<1>1. TypeOK'
  BY EntryFacts, FailureAssumption DEF IInv, TypeOK, PlaceInv, EndTest, Goto
<1>2. PlaceInv'
  BY EntryFacts DEF IInv, TypeOK, PlaceInv, Idle, EndTest, Goto
<1>3. \E b \in Nat : BaseInv(b)'
  <2> PICK b \in Nat : BaseInv(b)
    BY DEF IInv
  <2>1. BaseInv(b)'
    BY DEF IInv, TypeOK, PlaceInv, BaseInv, EndTest, Goto
  <2>2. QED
    BY <2>1
<1>4. QED
  BY <1>1, <1>2, <1>3 DEF IInv

(* When the next combination begins, b is the number of entries: all that  *)
(* failed, the last combination among them, is below it.                   *)
LEMMA NextRoundInv ==
  ASSUME IInv, NextRound
  PROVE  IInv'
<1>1. TypeOK'
  BY FailureAssumption DEF IInv, TypeOK, NextRound
<1>2. PlaceInv'
  BY FailureAssumption DEF IInv, TypeOK, PlaceInv, Idle, NextRound
<1>3. BaseInv(failed_num)'
  <2> PICK b \in Nat : BaseInv(b)
    BY DEF IInv
  <2>1. failed_num \in Nat /\ failed_num' = failed_num /\ failed' = failed /\ reported' = reported
    BY DEF IInv, TypeOK, NextRound
  <2>2. \A c \in reported : \E k \in 0..(failed_num - 1) : failed[k] = EntryOf(c)
    BY <2>1 DEF BaseInv
  <2>3. \A t \in Thread : pc'[t] \in Idle
    BY DEF IInv, TypeOK, NextRound, Idle
  <2>4. QED
    BY <2>1, <2>2, <2>3 DEF BaseInv, Idle
<1>4. QED
  BY <1>1, <1>2, <1>3 DEF IInv, TypeOK

(* At the start nothing has been reported, and b is 0.                     *)
LEMMA InitInv == Init => IInv
<1> SUFFICES ASSUME Init PROVE IInv
  OBVIOUS
<1>1. TypeOK
  <2>1. failed \in [Index -> [Field -> Combination \cup {Unwritten}]]
    BY EntryFacts DEF Init
  <2>2. round \in 1..(Rounds + 1) /\ calls \in [Thread -> 0..Calls]
    BY FailureAssumption DEF Init
  <2>3. i \in [Thread -> Nat] /\ reg \in [Thread -> Nat] /\ failed_num \in Nat
    BY DEF Init
  <2>4. QED
    BY <2>1, <2>2, <2>3, EntryFacts DEF Init, TypeOK
<1>2. PlaceInv
  BY FailureAssumption DEF Init, PlaceInv, Idle, Thread
<1>3. BaseInv(0)
  BY DEF Init, BaseInv
<1>4. QED
  BY <1>1, <1>2, <1>3 DEF IInv

(* The invariant holds in all states of the list.                          *)
THEOREM Invariance == Spec => []IInv
<1>1. Init => IInv
  BY InitInv
<1>2. IInv /\ [Next]_vars => IInv'
  <2> SUFFICES ASSUME IInv, [Next]_vars PROVE IInv'
    OBVIOUS
  <2>1. ASSUME NEW t \in team, Record(t) \/ EndTest(t) PROVE IInv'
    BY <2>1, FailInv, ScanInv, CompareInv, AppendInv, LoadInv, StoreInv, LimitInv, EndTestInv
    DEF Record
  <2>2. CASE UNCHANGED vars
    <3>1. TypeOK' /\ PlaceInv'
      BY <2>2 DEF IInv, TypeOK, PlaceInv, vars
    <3>2. \A b \in Nat : BaseInv(b) => BaseInv(b)'
      BY <2>2 DEF BaseInv, vars
    <3>3. QED
      BY <3>1, <3>2 DEF IInv
  <2>3. QED
    BY <2>1, <2>2, NextRoundInv DEF Next, Over
<1>3. QED
  BY <1>1, <1>2, PTL DEF Spec

(* The variables of the list keep their types.                             *)
THEOREM LogTypes == Spec => []TypeOK
<1>1. IInv => TypeOK
  BY DEF IInv
<1>2. QED
  BY <1>1, Invariance, PTL

(* No failure that was recorded is missing in the summary, whatever number *)
(* of threads records it at the same time.                                 *)
THEOREM NoFailureLost == Spec => []EveryFailureListed
<1>1. ASSUME IInv PROVE EveryFailureListed
  <2> PICK b \in Nat : BaseInv(b)
    BY <1>1 DEF IInv
  <2>1. failed_num \in Nat
    BY <1>1 DEF IInv, TypeOK
  <2>2. \A c \in reported : \E k \in 0..(failed_num - 1) : failed[k] = EntryOf(c)
    BY <2>1 DEF BaseInv
  <2>3. QED
    BY <2>2 DEF EveryFailureListed, Listed
<1>2. QED
  BY <1>1, Invariance, PTL

-----------------------------------------------------------------------------

Searching(t) == pc[t] \in {"scan", "compare"}
Appending(t) == pc[t] \in {"append", "load", "store"}

(* The combinations that are listed: those whose recording has returned,   *)
(* and the one that is being recorded when only the limit is to be tested. *)
Recorded(t) == reported \cup {c \in {round} : pc[t] = "limit"}

(* What a single thread makes of the list: the first entries are different *)
(* combinations that failed, nothing behind the array has been written,    *)
(* and the thread ends the process with the last place of the array.       *)
AloneInv(t) ==
  /\ failed_num <= MaxFailed
  /\ failed_num = MaxFailed => pc[t] = "limit"
  /\ WithinArray
  /\ \A k \in 0..(failed_num - 1) : \E c \in Recorded(t) : failed[k] = EntryOf(c)
  /\ \A k, l \in 0..(failed_num - 1) : k # l => failed[k] # failed[l]
  /\ Searching(t) => i[t] <= failed_num /\ \A k \in 0..(i[t] - 1) : failed[k] # EntryOf(round)
  /\ Appending(t) => \A k \in 0..(failed_num - 1) : failed[k] # EntryOf(round)
  /\ pc[t] = "append" => \A f \in 1..(field[t] - 1) : failed[failed_num][f] = round
  /\ pc[t] \in {"load", "store"} => failed[failed_num] = EntryOf(round)
  /\ pc[t] = "store" => reg[t] = failed_num

(* The values a single thread works with.                                  *)
LEMMA AloneFacts ==
  ASSUME IInv, NEW t, team = {t}, AloneInv(t)
  PROVE  /\ t \in Thread /\ pc[t] \in Recorders
         /\ failed_num \in Nat /\ failed_num \in Index /\ i[t] \in Nat
         /\ MaxFailed \in Nat /\ field[t] \in Nat /\ Fields \in Nat /\ field[t] \in 1..Fields
         /\ pc[t] # "end" => round \in Combination
         /\ \A k \in 0..(failed_num - 1) : k \in Index
         /\ failed \in [Index -> [Field -> Combination \cup {Unwritten}]]
<1>1. t \in Thread
  BY DEF IInv, PlaceInv
<1>2. failed_num \in Nat /\ failed_num <= MaxFailed
  BY DEF IInv, TypeOK, AloneInv
<1>3. failed_num \in Index
  BY <1>2, IndexFacts, FailureAssumption DEF Index
<1>4. \A k \in 0..(failed_num - 1) : k \in Index
  BY <1>2, <1>3, IndexFacts
<1>5. pc[t] # "end" => round \in Combination
  BY <1>1 DEF IInv, TypeOK, PlaceInv, Combination
<1>6. pc[t] \in Recorders /\ i[t] \in Nat /\ field[t] \in 1..Fields
  BY <1>1 DEF IInv, TypeOK, Recorders, Field
<1>7. QED
  BY <1>1, <1>2, <1>3, <1>4, <1>5, <1>6, FailureAssumption DEF IInv, TypeOK

(* A new search has looked at nothing.                                     *)
LEMMA FailAlone ==
  ASSUME IInv, NEW t, team = {t}, AloneInv(t), Fail(t)
  PROVE  AloneInv(t)'
<1>1. /\ pc[t] = "test" /\ pc'[t] = "scan" /\ i'[t] = 0
      /\ UNCHANGED <<failed, failed_num, round, field, reg, reported>>
  BY AloneFacts DEF IInv, TypeOK, Fail, Goto
<1>2. QED
  BY <1>1, AloneFacts DEF AloneInv, WithinArray, Searching, Appending, Recorded

(* A function that returns leaves the list alone.                          *)
LEMMA EndTestAlone ==
  ASSUME IInv, NEW t, team = {t}, AloneInv(t), EndTest(t)
  PROVE  AloneInv(t)'
<1>1. /\ pc[t] = "test" /\ pc'[t] = "end"
      /\ UNCHANGED <<failed, failed_num, round, i, field, reg, reported>>
  BY AloneFacts DEF IInv, TypeOK, EndTest, Goto
<1>2. QED
  BY <1>1, AloneFacts DEF AloneInv, WithinArray, Searching, Appending, Recorded

(* A search goes past entries of other combinations only.                  *)
LEMMA ScanAlone ==
  ASSUME IInv, NEW t, team = {t}, AloneInv(t), Scan(t)
  PROVE  AloneInv(t)'
<1>1. pc[t] = "scan" /\ UNCHANGED <<failed, failed_num, round, field, reg, reported>>
  BY DEF Scan
<1>2. CASE pc'[t] = "compare" /\ UNCHANGED i
  BY <1>1, <1>2, AloneFacts DEF AloneInv, WithinArray, Searching, Appending, Recorded
<1>3. CASE /\ i[t] < failed_num /\ failed[i[t]] # EntryOf(round)
           /\ i'[t] = i[t] + 1 /\ pc'[t] = "scan"
  <2>1. i'[t] <= failed_num /\ \A k \in 0..(i'[t] - 1) : failed[k] # EntryOf(round)
    BY <1>1, <1>3, AloneFacts DEF AloneInv, WithinArray, Searching
  <2>2. QED
    BY <1>1, <1>3, <2>1, AloneFacts DEF AloneInv, WithinArray, Searching, Appending, Recorded
<1>4. QED
  BY <1>2, <1>3, AloneFacts DEF IInv, TypeOK, Scan, Goto

(* The thread appends only if it has looked at all entries.                *)
LEMMA CompareAlone ==
  ASSUME IInv, NEW t, team = {t}, AloneInv(t), Compare(t)
  PROVE  AloneInv(t)'
<1>1. pc[t] = "compare" /\ UNCHANGED <<failed, failed_num, round, i, field, reg>>
  BY DEF Compare
<1>2. field[t] = 1
  BY <1>1, AloneFacts DEF IInv, PlaceInv
<1>3. CASE i[t] = failed_num /\ pc'[t] = "append" /\ UNCHANGED reported
  BY <1>1, <1>2, <1>3, AloneFacts DEF AloneInv, WithinArray, Searching, Appending, Recorded
<1>4. CASE pc'[t] = "test" /\ reported' = reported \cup {round}
  BY <1>1, <1>4, AloneFacts DEF AloneInv, WithinArray, Searching, Appending, Recorded
<1>5. QED
  BY <1>3, <1>4, AloneFacts DEF IInv, TypeOK, Compare, Goto, Return

(* The fields of one entry are written one after the other, all of them at *)
(* the first free place.                                                   *)
LEMMA AppendAlone ==
  ASSUME IInv, NEW t, team = {t}, AloneInv(t), Append(t)
  PROVE  AloneInv(t)'
<1>1. /\ pc[t] = "append" /\ failed' = [failed EXCEPT ![failed_num] = [@ EXCEPT ![field[t]] = round]]
      /\ UNCHANGED <<failed_num, round, i, reg, reported>>
  BY DEF Append
<1>2. \A k \in Index : k # failed_num => failed'[k] = failed[k]
  BY <1>1, AloneFacts
<1>3. \A f \in 1..field[t] : failed'[failed_num][f] = round
  BY <1>1, AloneFacts DEF AloneInv, Field
<1>4. /\ \A k \in 0..(failed_num - 1) : failed'[k] = failed[k]
      /\ WithinArray'
  <2>1. failed_num \in Nat /\ MaxFailed \in Nat
    BY AloneFacts
  <2>2. failed_num < MaxFailed
    BY <1>1, <2>1 DEF AloneInv
  <2>3. \A k \in Index : k >= MaxFailed => k # failed_num
    BY <2>1, <2>2, IndexFacts
  <2>4. WithinArray'
    BY <1>2, <2>3 DEF AloneInv, WithinArray
  <2>5. QED
    BY <1>2, <2>1, <2>4, AloneFacts
<1>5. failed_num <= MaxFailed /\ (failed_num = MaxFailed => pc'[t] = "limit")
  BY <1>1, AloneFacts DEF AloneInv
<1>6. CASE field'[t] = field[t] + 1 /\ pc'[t] = "append"
  BY <1>1, <1>3, <1>4, <1>5, <1>6, AloneFacts DEF AloneInv, WithinArray, Searching, Appending, Recorded
<1>7. CASE field[t] = Fields /\ pc'[t] = "load"
  <2>1. failed'[failed_num] = EntryOf(round)
    <3>1. failed'[failed_num] \in [Field -> Combination \cup {Unwritten}]
      BY <1>1, AloneFacts
    <3>2. QED
      BY <1>3, <1>7, <3>1 DEF EntryOf, Field
  <2>2. QED
    BY <1>1, <1>4, <1>5, <1>7, <2>1, AloneFacts DEF AloneInv, WithinArray, Searching, Appending, Recorded
<1>8. QED
  <2>1. CASE field[t] < Fields
    BY <1>6, <2>1, AloneFacts DEF IInv, TypeOK, Append
  <2>2. CASE ~(field[t] < Fields)
    <3>1. field[t] = Fields
      BY <2>2, AloneFacts
    <3>2. pc'[t] = "load"
      BY <2>2, AloneFacts DEF IInv, TypeOK, Append, Goto
    <3>3. QED
      BY <1>7, <3>1, <3>2
  <2>3. QED
    BY <2>1, <2>2

(* The number that is loaded is the number of entries.                     *)
LEMMA LoadAlone ==
  ASSUME IInv, NEW t, team = {t}, AloneInv(t), Load(t)
  PROVE  AloneInv(t)'
<1>1. /\ pc[t] = "load" /\ pc'[t] = "store" /\ reg'[t] = failed_num
      /\ UNCHANGED <<failed, failed_num, round, i, field, reported>>
  BY AloneFacts DEF IInv, TypeOK, Load, Goto
<1>2. QED
  BY <1>1, AloneFacts DEF AloneInv, WithinArray, Searching, Appending, Recorded

(* The entry that is counted names a combination no other entry names.     *)
LEMMA StoreAlone ==
  ASSUME IInv, NEW t, team = {t}, AloneInv(t), Store(t)
  PROVE  AloneInv(t)'
<1>1. /\ pc[t] = "store" /\ pc'[t] = "limit" /\ failed_num' = failed_num + 1
      /\ UNCHANGED <<failed, round, i, field, reg, reported>>
  BY AloneFacts DEF IInv, TypeOK, AloneInv, Store, Goto
<1>2. failed_num < MaxFailed /\ failed[failed_num] = EntryOf(round)
  BY <1>1, AloneFacts DEF AloneInv
<1>3. \A k \in 0..failed_num : k \in 0..(failed_num - 1) \/ k = failed_num
  BY AloneFacts
<1>4. \A k, l \in 0..failed_num : k # l => failed[k] # failed[l]
  BY <1>1, <1>2, <1>3 DEF AloneInv, Appending
<1>5. \A k \in 0..failed_num : \E c \in Recorded(t)' : failed[k] = EntryOf(c)
  BY <1>1, <1>2, <1>3 DEF AloneInv, Recorded
<1>6. WithinArray
  BY DEF AloneInv
<1>7. 0..(failed_num' - 1) = 0..failed_num /\ failed_num' <= MaxFailed
  BY <1>1, <1>2, AloneFacts
<1>8. WithinArray'
  BY <1>1, <1>6 DEF WithinArray
<1>9. QED
  BY <1>1, <1>4, <1>5, <1>7, <1>8 DEF AloneInv, WithinArray, Searching, Appending

(* The thread goes on only if there is a place left.                       *)
LEMMA LimitAlone ==
  ASSUME IInv, NEW t, team = {t}, AloneInv(t), Limit(t)
  PROVE  AloneInv(t)'
<1>1. pc[t] = "limit" /\ UNCHANGED <<failed, failed_num, round, i, field, reg>>
  BY DEF Limit
<1>2. CASE failed_num = MaxFailed /\ UNCHANGED <<pc, reported>>
  BY <1>1, <1>2, AloneFacts DEF AloneInv, WithinArray, Searching, Appending, Recorded
<1>3. CASE failed_num # MaxFailed /\ pc'[t] = "test" /\ reported' = reported \cup {round}
  BY <1>1, <1>3, AloneFacts DEF AloneInv, WithinArray, Searching, Appending, Recorded
<1>4. QED
  BY <1>2, <1>3, AloneFacts DEF IInv, TypeOK, Limit, LimitReached, Goto, Return

(* The next combination finds the list as the last one has left it.        *)
LEMMA NextRoundAlone ==
  ASSUME IInv, NEW t, team = {t}, AloneInv(t), NextRound
  PROVE  AloneInv(t)'
<1>1. /\ pc[t] = "end" /\ pc'[t] \in Idle
      /\ UNCHANGED <<failed, failed_num, i, field, reg, reported>>
  BY AloneFacts DEF NextRound, Idle
<1>2. QED
  BY <1>1, AloneFacts DEF AloneInv, WithinArray, Searching, Appending, Recorded, Idle

(* In a state with the invariant of a single thread the list is exact.     *)
LEMMA AloneIsExact ==
  ASSUME IInv, NEW t, team = {t}, AloneInv(t)
  PROVE  SummaryTruthful /\ NoDuplicates /\ WithinArray
<1>1. SummaryTruthful
  BY DEF SummaryTruthful, Listed, AloneInv, Recorded
<1>2. NoDuplicates
  BY DEF NoDuplicates, AloneInv
<1>3. WithinArray
  BY DEF AloneInv
<1>4. QED
  BY <1>1, <1>2, <1>3

AlwaysAlone == \A t : team = {t} => AloneInv(t)

(* A single thread keeps the list exact: every combination that failed and *)
(* was reported once, none that did not, and nothing behind the array.     *)
THEOREM ExactForOneThread == Spec => []ExactIfAlone
<1>1. Init => AlwaysAlone
  <2> SUFFICES ASSUME Init, NEW t, team = {t}
               PROVE  AloneInv(t)
    BY DEF AlwaysAlone
  <2>1. WithinArray
    <3>1. \A k \in Index : k >= MaxFailed => k \notin Place
      BY FailureAssumption, IndexFacts DEF Place
    <3>2. QED
      BY <3>1 DEF Init, WithinArray
  <2>2. t \in Thread /\ pc[t] = "test" /\ failed_num = 0
    BY FailureAssumption DEF Init, Thread
  <2>3. 0..(failed_num - 1) = {} /\ failed_num <= MaxFailed /\ failed_num # MaxFailed
    BY <2>2, FailureAssumption
  <2>4. ~Searching(t) /\ ~Appending(t)
    BY <2>2 DEF Searching, Appending
  <2>5. QED
    BY <2>1, <2>2, <2>3, <2>4 DEF AloneInv
<1>2. IInv /\ AlwaysAlone /\ [Next]_vars => AlwaysAlone'
  <2> SUFFICES ASSUME IInv, AlwaysAlone, [Next]_vars, NEW t, team' = {t}
               PROVE  AloneInv(t)'
    BY DEF AlwaysAlone
  <2>1. team = {t}
    BY DEF Next, Record, Fail, Scan, Compare, Append, Load, Store, Limit, EndTest, NextRound,
           Over, vars
  <2>2. AloneInv(t)
    BY <2>1 DEF AlwaysAlone
  <2>3. CASE Record(t) \/ EndTest(t)
    BY <2>1, <2>2, <2>3, FailAlone, ScanAlone, CompareAlone, AppendAlone, LoadAlone, StoreAlone,
       LimitAlone, EndTestAlone DEF Record
  <2>4. CASE UNCHANGED vars
    BY <2>2, <2>4 DEF vars, AloneInv, WithinArray, Searching, Appending, Recorded
  <2>5. QED
    BY <2>1, <2>2, <2>3, <2>4, NextRoundAlone DEF Next, Over
<1>3. IInv /\ AlwaysAlone => ExactIfAlone
  <2> SUFFICES ASSUME IInv, AlwaysAlone, Cardinality(team) = 1
               PROVE  SummaryTruthful /\ NoDuplicates /\ WithinArray
    BY DEF ExactIfAlone
  <2>1. IsFiniteSet(team)
    BY FS_Subset, FailureAssumption DEF IInv, PlaceInv, Thread
  <2>2. PICK t : team = {t}
    BY <2>1, FS_Singleton
  <2>3. QED
    BY <2>2, AloneIsExact DEF AlwaysAlone
<1>4. QED
  BY <1>1, <1>2, <1>3, Invariance, PTL DEF Spec
=============================================================================
