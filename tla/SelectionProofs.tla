-------------------------- MODULE SelectionProofs --------------------------
(***************************************************************************)
(* For all numbers of entries, classes and tokens: the list keeps its      *)
(* types; and for all orderly uses of an option, its number of entries     *)
(* never gets negative, tst_array_compress leaves each entry once, and     *)
(* what is executed is what the tokens, applied to a set, select.          *)
(***************************************************************************)
EXTENDS Selection, FiniteSetTheorems, WellFoundedInduction, TLAPS

(* An entry is a number, which -1 is not.                                  *)
LEMMA EntryFacts == \A e \in Entry : e \in Nat /\ e < ListMax /\ e # None
BY SelectionAssumption DEF Entry, None

(* A non-empty set of entries has a least member, so a search that finds   *)
(* something returns it.                                                   *)
LEMMA MinIsMember ==
  ASSUME NEW S \in SUBSET Entry, S # {}
  PROVE  Min(S) \in S
<1> DEFINE Less == {ss \in Nat \X Nat : ss[1] < ss[2]}
<1>1. S \subseteq Nat
  BY SelectionAssumption DEF Entry
<1>2. IsWellFoundedOn(Less, Nat)
  BY NatLessThanWellFounded DEF OpToRel
<1>3. PICK m \in S : \A e \in S : ~(<<e, m>> \in Less)
  <2> HIDE DEF Less
  <2> QED  BY <1>1, <1>2, WFMin
<1>4. ASSUME NEW e \in S  PROVE m <= e
  <2>1. CASE e < m
    <3>1. <<e, m>> \in Less
      BY <1>1, <2>1
    <3>2. QED
      BY <3>1, <1>3
  <2>2. QED
    BY <1>1, <2>1
<1>5. QED
  BY <1>1, <1>4 DEF Min

(* What the search returns, and when it returns -1.                        *)
LEMMA SearchFacts ==
  ASSUME NEW e, NEW b \in Int
  PROVE  /\ Search(e, b) = None <=> \A k \in Entry : k < b => list[k] # e
         /\ Search(e, b) # None =>
              Search(e, b) \in Entry /\ Search(e, b) < b /\ list[Search(e, b)] = e
<1>1. Found(e, b) \in SUBSET Entry
  BY DEF Found
<1>2. None \notin Entry
  BY SelectionAssumption DEF None, Entry
<1>3. CASE Found(e, b) = {}
  BY <1>3 DEF Found, Search
<1>4. CASE Found(e, b) # {}
  <2>1. Search(e, b) \in Found(e, b)
    BY <1>1, <1>4, MinIsMember DEF Search
  <2>2. QED
    BY <1>2, <1>4, <2>1 DEF Found
<1>5. QED
  BY <1>3, <1>4

-----------------------------------------------------------------------------
(* The types.                                                              *)

Building == {"parsing", "selecting"} \cup Excluding

(* A token adds at most the length of the array to the number of entries.  *)
CountInv ==
  /\ status \in Building => num <= ListMax * tokens
  /\ status \in {"selecting"} \cup Excluding => tokens > 0
  /\ status # "negative" => num >= 0
  /\ pos <= scanned

TypeInv == TypeOK /\ CountInv

(* The bound on the number of entries grows with the tokens.               *)
LEMMA Products ==
  /\ \A m, n \in Nat : ListMax * m \in Nat /\ ListMax * (m + 1) = ListMax * m + ListMax
  /\ \A m, n \in Nat : m <= n => ListMax * m <= ListMax * n
  /\ \A m \in Nat : m > 0 => ListMax <= ListMax * m
<1>1. ListMax \in Nat
  BY SelectionAssumption
<1>2. QED
  BY <1>1, SMTT(30)

(* What all actions that read a token have in common.                      *)
LEMMA TokenTypes ==
  ASSUME TypeInv, NEW form, NEW W \in SUBSET Entry,
         Token(form, W) \/ Exclusion(form, W)
  PROVE  /\ status = "parsing" /\ num \in Nat
         /\ usage' \in Usages
         /\ num + ListMax <= ListMax * tokens'
         /\ ListMax * tokens' <= ListMax * (MaxTokens + 1)
         /\ scanned' \in 0..ListMax /\ pos' \in 0..ListMax /\ pos' <= scanned'
         /\ tokens' \in 1..MaxTokens /\ excluded' \in 0..MaxTokens
         /\ wanted' \in SUBSET Entry
<1>1. tokens \in Nat /\ tokens' = tokens + 1 /\ tokens' \in 1..MaxTokens
  BY SelectionAssumption DEF TypeInv, TypeOK, Token, Exclusion
<1>2. status = "parsing" /\ num \in Nat /\ num <= ListMax * tokens
  BY SelectionAssumption DEF TypeInv, TypeOK, CountInv, Building, Token, Exclusion
<1>3. usage.excluded \in 0..MaxTokens
  BY SelectionAssumption DEF TypeInv, TypeOK, Usage
<1>4. excluded' \in 0..MaxTokens
  BY <1>3, SelectionAssumption DEF TypeInv, TypeOK, Token, Exclusion
<1>5. ListMax * tokens' = ListMax * tokens + ListMax /\ ListMax * tokens' <= ListMax * (MaxTokens + 1)
  BY <1>1, Products, SelectionAssumption
<1>6. ListMax * tokens \in Nat /\ ListMax \in Nat
  BY <1>1, Products, SelectionAssumption
<1>7. num + ListMax <= ListMax * tokens'
  BY <1>2, <1>5, <1>6
<1>8. /\ scanned' \in 0..ListMax /\ pos' \in 0..ListMax /\ pos' <= scanned'
      /\ wanted' \in SUBSET Entry /\ usage' \in Usages
  BY DEF TypeInv, TypeOK, CountInv, Token, Exclusion
<1>9. QED
  BY <1>1, <1>2, <1>4, <1>5, <1>7, <1>8

(* The initial state has its types.                                        *)
LEMMA InitTypes == Init => TypeInv
<1>1. ListMax * 0 = 0 /\ ListMax * (MaxTokens + 1) \in Nat
  BY Products, SelectionAssumption, SMT
<1>2. QED
  BY <1>1, SelectionAssumption
  DEF Init, TypeInv, TypeOK, CountInv, Status, Building, Excluding

(* So has every later one.                                                 *)
LEMMA NextTypes == TypeInv /\ [Next]_vars => TypeInv'
<1> SUFFICES ASSUME TypeInv, [Next]_vars  PROVE TypeInv'
  OBVIOUS
<1>0. /\ ListMax \in Nat \ {0} /\ MaxTokens \in Nat
      /\ Entry \subseteq Nat /\ \A n \in Nat : n < ListMax => n \in Entry
  BY SelectionAssumption DEF Entry
<1>a. /\ ListMax * tokens \in Nat /\ ListMax * (MaxTokens + 1) \in Nat
      /\ ListMax <= ListMax * (MaxTokens + 1)
      /\ tokens > 0 => ListMax <= ListMax * tokens
      /\ ListMax * tokens <= ListMax * (MaxTokens + 1)
  BY Products, <1>0 DEF TypeInv, TypeOK
<1>1. CASE All
  <2>1. Token("all", Entry) /\ num' = num + ListMax /\ status' = status /\ todo' = todo
    BY <1>1 DEF All
  <2>2. list' \in [Entry -> Entry \cup {None}]
    BY <1>1 DEF All
  <2>3. QED
    BY <2>1, <2>2, TokenTypes, <1>0, <1>a DEF TypeInv, TypeOK, CountInv
<1>2. CASE Unknown
  BY <1>2, TokenTypes, <1>0, <1>a DEF Unknown, TypeInv, TypeOK, CountInv, Status, Building, Excluding, Error
<1>3. ASSUME NEW n \in 0..ListMax, Number(n)  PROVE TypeInv'
  <2>1. Token("number", wanted \cup ({n} \cap Entry))
    BY <1>3 DEF Number
  <2>2. wanted \cup ({n} \cap Entry) \in SUBSET Entry
    BY DEF TypeInv, TypeOK
  <2>3. list' \in [Entry -> Entry \cup {None}]
    BY <1>3, <1>0 DEF Number, TypeInv, TypeOK
  <2>4. QED
    BY <1>3, <2>1, <2>2, <2>3, TokenTypes, <1>0, <1>a
    DEF Number, TypeInv, TypeOK, CountInv, Status, Building, Excluding, Error
<1>4. ASSUME NEW c \in Class, SelectClass(c) \/ ExcludeClass(c)  PROVE TypeInv'
  <2>1. Member[c] \in SUBSET Entry
    BY SelectionAssumption
  <2>2. wanted \cup Member[c] \in SUBSET Entry /\ wanted \ Member[c] \in SUBSET Entry
    BY <2>1 DEF TypeInv, TypeOK
  <2>3. QED
    BY <1>4, <2>1, <2>2, TokenTypes, <1>0, <1>a
    DEF SelectClass, ExcludeClass, Enter, TypeInv, TypeOK, CountInv, Status, Building, Excluding, Error
<1>5. ASSUME NEW e \in Entry, SelectOne(e) \/ ExcludeOne(e)  PROVE TypeInv'
  <2>1. wanted \cup {e} \in SUBSET Entry /\ wanted \ {e} \in SUBSET Entry
    BY DEF TypeInv, TypeOK
  <2>2. QED
    BY <1>5, <2>1, TokenTypes, <1>0, <1>a
    DEF SelectOne, ExcludeOne, Enter, TypeInv, TypeOK, CountInv, Status, Building, Excluding, Error
<1>6. CASE SelectNext
  <2>1. Min(todo) \in Entry
    BY <1>6, MinIsMember DEF SelectNext, TypeInv, TypeOK
  <2>2. list' \in [Entry -> Entry \cup {None}]
    BY <1>6, <2>1 DEF SelectNext, TypeInv, TypeOK
  <2>3. status' \in {"selecting", "overrun", "toomany"}
    BY <1>6 DEF SelectNext
  <2>4. num' = num \/ (num < ListMax /\ num' = num + 1)
    BY <1>6 DEF SelectNext
  <2>5. tokens > 0 /\ num \in Nat /\ num <= ListMax * tokens
    BY <1>6 DEF SelectNext, TypeInv, TypeOK, CountInv, Building
  <2>6. num' \in Nat /\ num' <= ListMax * tokens
    BY <2>4, <2>5, <1>0, <1>a
  <2>7. todo' \in SUBSET Entry /\ UNCHANGED <<usage, scanned, pos, tokens, excluded, wanted>>
    BY <1>6 DEF SelectNext, TypeInv, TypeOK
  <2>8. QED
    BY <2>2, <2>3, <2>5, <2>6, <2>7, <1>0, <1>a
    DEF TypeInv, TypeOK, CountInv, Status, Building, Excluding, Error
<1>7. CASE DeselectNext
  <2>1. list' \in [Entry -> Entry \cup {None}]
    BY <1>7 DEF DeselectNext, TypeInv, TypeOK
  <2>2. QED
    BY <1>7, <2>1, <1>0, <1>a
    DEF DeselectNext, TypeInv, TypeOK, CountInv, Status, Building, Excluding, Error
<1>8. CASE EndToken
  BY <1>8, <1>0, <1>a
  DEF EndToken, TypeInv, TypeOK, CountInv, Status, Building, Excluding, Error
<1>9. CASE Compress
  BY <1>9, <1>0, <1>a
  DEF Compress, TypeInv, TypeOK, CountInv, Status, Building, Excluding, Error
<1>10. CASE CompressNext
  <2>1. list' \in [Entry -> Entry \cup {None}]
    <3>1. scanned \in Entry
      BY <1>10, <1>0 DEF CompressNext, ScanAll, TypeInv, TypeOK
    <3>2. list[scanned] \in Entry \cup {None}
      BY <3>1 DEF TypeInv, TypeOK
    <3>3. QED
      BY <1>10, <3>2 DEF CompressNext, TypeInv, TypeOK
  <2>2. QED
    BY <1>10, <2>1, <1>0, <1>a
    DEF CompressNext, ScanAll, TypeInv, TypeOK, CountInv, Status, Building, Excluding, Error
<1>11. CASE CompressEnd \/ CommsInit
  <2>1. num' \in {pos, ListMax, num} /\ status' \in {"compressed", "ready"}
    BY <1>11 DEF CompressEnd, CommsInit
  <2>2. num \in Nat
    BY <1>11 DEF CompressEnd, CommsInit, TypeInv, TypeOK, CountInv
  <2>3. num' \in 0..(ListMax * (MaxTokens + 1))
    BY <2>1, <2>2, <1>0, <1>a DEF TypeInv, TypeOK
  <2>4. /\ status' \notin Building /\ status' \in Status
        /\ status' \notin {"selecting", "negative"} \cup Excluding
    BY <2>1 DEF Status, Building, Excluding, Error
  <2>5. UNCHANGED <<usage, list, todo, scanned, pos, tokens, excluded, wanted>>
    BY <1>11 DEF CompressEnd, CommsInit
  <2>6. QED
    BY <2>3, <2>4, <2>5, <1>0, <1>a DEF TypeInv, TypeOK, CountInv
<1>12. CASE Over \/ UNCHANGED vars
  BY <1>12 DEF Over, vars, TypeInv, TypeOK, CountInv
<1>13. QED
  BY <1>1, <1>2, <1>3, <1>4, <1>5, <1>6, <1>7, <1>8, <1>9, <1>10, <1>11, <1>12 DEF Next

(* The list, and the number of its entries, keep their types in all uses   *)
(* of an option, the careless ones included.                               *)
THEOREM TypeCorrect == Spec => []TypeOK
<1>1. TypeInv => TypeOK
  BY DEF TypeInv
<1>2. QED
  BY <1>1, InitTypes, NextTypes, PTL DEF Spec

-----------------------------------------------------------------------------
(* The list while tokens are read, for an orderly use.                     *)

Occupied == {k \in Entry : list[k] # None}
Occurs(e) == \E k \in Entry : list[k] = e

(* The exclusions come last, and a loop that excludes a single entry has   *)
(* one iteration.                                                          *)
UseInv ==
  /\ usage \in OrderlyUsage
  /\ excluded <= usage.excluded
  /\ status = "selecting" => excluded = 0
  /\ status \in Excluding => excluded > 0
  /\ status = "excludingClass" => kind = "test"
  /\ status = "excludingOne" => \A d, e \in todo : d = e

(* Until the first exclusion has removed something, the first num places   *)
(* of the list are the occupied ones.                                      *)
Untouched ==
  \/ status \in {"parsing", "selecting"} /\ excluded = 0
  \/ status = "excludingOne" /\ todo # {}

FilledInv == Untouched => \A k \in Entry : list[k] # None <=> k < num

(* Later, there are at least as many entries as occupied places.           *)
CardInv == status \in Building => Cardinality(Occupied) <= num

(* Without numbers, no entry is listed twice.                              *)
DistinctInv ==
  status \in Building /\ "number" \notin usage.forms =>
    \A k, l \in Occupied : list[k] = list[l] => k = l

(* The list is what the tokens ask for, up to what the loop of the last    *)
(* token has yet to do.                                                    *)
AgreeInv ==
  \A e \in Entry :
    /\ status = "parsing" => (e \in wanted <=> Occurs(e))
    /\ status = "selecting" => (e \in wanted <=> Occurs(e) \/ e \in todo)
    /\ status \in Excluding => (e \in wanted <=> Occurs(e) /\ e \notin todo)

BuildInv == UseInv /\ FilledInv /\ CardInv /\ DistinctInv /\ AgreeInv

(* The occupied places are finitely many, at most the length of the list.  *)
LEMMA OccupiedFinite ==
  ASSUME NEW S \in SUBSET Entry
  PROVE  IsFiniteSet(S) /\ Cardinality(S) \in Nat /\ Cardinality(S) <= ListMax
<1>1. IsFiniteSet(Entry) /\ Cardinality(Entry) = ListMax
  BY FS_Interval, SelectionAssumption DEF Entry
<1>2. QED
  BY <1>1, FS_Subset, FS_CardinalityType

(* Appending an entry occupies one more place.                             *)
LEMMA OccupiedGrows ==
  ASSUME TypeOK, num \in Entry, list[num] = None, NEW e \in Entry,
         list' = [list EXCEPT ![num] = e]
  PROVE  Occupied' = Occupied \cup {num} /\ Cardinality(Occupied') = Cardinality(Occupied) + 1
<1>1. e # None
  BY SelectionAssumption DEF Entry, None
<1>2. Occupied' = Occupied \cup {num}
  BY <1>1 DEF Occupied, TypeOK
<1>3. num \notin Occupied /\ IsFiniteSet(Occupied)
  BY OccupiedFinite DEF Occupied
<1>4. QED
  BY <1>2, <1>3, FS_AddElement

(* Removing one frees a place.                                             *)
LEMMA OccupiedShrinks ==
  ASSUME TypeOK, NEW p \in Occupied,
         list' = [k \in Entry |-> IF k = p THEN None ELSE list[k]]
  PROVE  /\ Occupied' = Occupied \ {p}
         /\ Cardinality(Occupied') = Cardinality(Occupied) - 1
         /\ Cardinality(Occupied) > 0
<1>1. Occupied' = Occupied \ {p}
  BY DEF Occupied, TypeOK
<1>2. IsFiniteSet(Occupied) /\ Cardinality(Occupied) \in Nat
  BY OccupiedFinite DEF Occupied
<1>3. Cardinality(Occupied \ {p}) = Cardinality(Occupied) - 1
  BY <1>2, FS_RemoveElement
<1>4. Cardinality(Occupied \ {p}) \in Nat
  BY OccupiedFinite DEF Occupied
<1>5. QED
  BY <1>1, <1>2, <1>3, <1>4

(* An orderly use stays one.                                               *)
LEMMA UseStep == TypeOK /\ UseInv /\ [Next]_vars => UseInv'
<1> SUFFICES ASSUME TypeOK, UseInv, [Next]_vars  PROVE UseInv'
  OBVIOUS
<1> USE DEF UseInv, OrderlyUsage, Usage, Excluding, kind
<1>0. usage \in Usage /\ usage.excluded \in Nat /\ excluded \in Nat
  BY SelectionAssumption DEF TypeOK
<1>1. CASE All \/ Unknown
  BY <1>1, <1>0 DEF All, Unknown, Token
<1>2. ASSUME NEW n \in 0..ListMax, Number(n)  PROVE UseInv'
  BY <1>2, <1>0 DEF Number, Token
<1>3. ASSUME NEW c \in Class, SelectClass(c) \/ ExcludeClass(c)  PROVE UseInv'
  <2>1. CASE SelectClass(c)
    BY <2>1, <1>0 DEF SelectClass, Token, Enter
  <2>2. CASE ExcludeClass(c)
    BY <2>2, <1>0 DEF ExcludeClass, Exclusion, Enter
  <2>3. QED
    BY <1>3, <2>1, <2>2
<1>4. ASSUME NEW e \in Entry, SelectOne(e) \/ ExcludeOne(e)  PROVE UseInv'
  <2>1. CASE SelectOne(e)
    BY <2>1, <1>0 DEF SelectOne, Token, Enter
  <2>2. CASE ExcludeOne(e)
    BY <2>2, <1>0 DEF ExcludeOne, Exclusion, Enter
  <2>3. QED
    BY <1>4, <2>1, <2>2
<1>5. CASE SelectNext
  BY <1>5, <1>0 DEF SelectNext
<1>6. CASE DeselectNext
  <2>1. status' \in {status, "negative", "overrun"} /\ status \in Excluding
    BY <1>6 DEF DeselectNext
  <2>2. todo' \subseteq todo /\ UNCHANGED <<usage, excluded>>
    BY <1>6 DEF DeselectNext
  <2>3. QED
    BY <2>1, <2>2, <1>0
<1>7. CASE EndToken \/ Compress \/ CompressNext \/ CompressEnd \/ CommsInit
  BY <1>7, <1>0 DEF EndToken, Compress, CompressNext, CompressEnd, CommsInit
<1>8. CASE Over \/ UNCHANGED vars
  BY <1>8 DEF Over, vars
<1>9. QED
  BY <1>1, <1>2, <1>3, <1>4, <1>5, <1>6, <1>7, <1>8 DEF Next

(* "all" occupies the whole list, in order.                                *)
LEMMA AllBuilds ==
  ASSUME TypeInv, BuildInv, All
  PROVE  (FilledInv /\ CardInv /\ DistinctInv /\ AgreeInv)'
<1>1. /\ Token("all", Entry) /\ list' = [k \in Entry |-> k] /\ num' = num + ListMax
      /\ status' = "parsing" /\ status = "parsing" /\ wanted' = Entry
  BY DEF All, Token
<1>2. num \in Nat
  BY <1>1 DEF TypeInv, TypeOK, CountInv
<1>3. \A k \in Entry : list'[k] # None /\ k < num' /\ k \in Nat
  BY <1>1, <1>2, SelectionAssumption DEF Entry, None
<1>4. FilledInv'
  BY <1>3 DEF FilledInv
<1>5. CardInv'
  <2>1. Occupied' \in SUBSET Entry
    BY DEF Occupied
  <2>2. Cardinality(Occupied') \in Nat /\ Cardinality(Occupied') <= ListMax
    BY <2>1, OccupiedFinite
  <2>3. QED
    BY <1>1, <1>2, <2>2, SelectionAssumption DEF CardInv
<1>6. DistinctInv'
  BY <1>1 DEF DistinctInv, Occupied
<1>7. AgreeInv'
  BY <1>1 DEF AgreeInv, Occurs, Excluding
<1>8. QED
  BY <1>4, <1>5, <1>6, <1>7

(* A number is appended without a search, but then nothing is excluded.    *)
LEMMA NumberBuilds ==
  ASSUME TypeInv, BuildInv, NEW n \in 0..ListMax, Number(n)
  PROVE  (FilledInv /\ CardInv /\ DistinctInv /\ AgreeInv)'
<1>1. /\ status = "parsing" /\ "number" \in usage.forms /\ excluded = 0
      /\ UNCHANGED <<usage, excluded, todo>>
  BY DEF Number, Token, BuildInv, UseInv, OrderlyUsage
<1>2. CASE status' \in {"rejected", "overrun"}
  BY <1>2 DEF FilledInv, Untouched, CardInv, DistinctInv, AgreeInv, Building, Excluding
<1>3. CASE n \in Entry /\ num < ListMax /\ status' = "parsing"
  <2>1. list' = [list EXCEPT ![num] = n] /\ num' = num + 1 /\ wanted' = wanted \cup {n}
    BY <1>3 DEF Number, Token
  <2>2. num \in Entry /\ num \in Nat
    BY <1>1, <1>3, SelectionAssumption DEF TypeInv, TypeOK, CountInv, Entry
  <2>3. \A k \in Entry : list[k] # None <=> k < num
    BY <1>1 DEF BuildInv, FilledInv, Untouched
  <2>4. list[num] = None
    BY <2>2, <2>3
  <2>5. Cardinality(Occupied') = Cardinality(Occupied) + 1
    BY <1>3, <2>1, <2>2, <2>4, OccupiedGrows DEF TypeInv
  <2>6. n # None
    BY SelectionAssumption DEF None
  <2>7. \A k \in Entry : list'[k] = IF k = num THEN n ELSE list[k]
    BY <2>1 DEF TypeInv, TypeOK
  <2>8. FilledInv'
    <3>1. \A k \in Entry : k < num + 1 <=> k < num \/ k = num
      BY <2>2, SelectionAssumption DEF Entry
    <3>2. QED
      BY <2>1, <2>3, <2>6, <2>7, <3>1 DEF FilledInv
  <2>9. CardInv'
    <3>1. Cardinality(Occupied) \in Nat /\ Cardinality(Occupied) <= num
      BY <1>1, OccupiedFinite DEF BuildInv, CardInv, Building, Occupied
    <3>2. QED
      BY <2>1, <2>2, <2>5, <3>1 DEF CardInv
  <2>10. DistinctInv'
    BY <1>1 DEF DistinctInv
  <2>11. AgreeInv'
    <3>1. \A e \in Entry : Occurs(e)' <=> Occurs(e) \/ e = n
      <4>1. \A e \in Entry : list[num] # e
        BY <2>4, SelectionAssumption DEF None, Entry
      <4>2. QED
        BY <2>2, <2>7, <4>1 DEF Occurs
    <3>2. QED
      BY <1>1, <1>3, <2>1, <3>1 DEF BuildInv, AgreeInv, Excluding
  <2>12. QED
    BY <2>8, <2>9, <2>10, <2>11
<1>4. QED
  BY <1>1, <1>2, <1>3 DEF Number

(* Entering a loop changes nothing in the list.                            *)
LEMMA EnterBuilds ==
  ASSUME TypeInv, BuildInv, NEW S \in SUBSET Entry,
         \/ status' = "selecting" /\ wanted' = wanted \cup S /\ excluded = 0
         \/ status' \in Excluding /\ wanted' = wanted \ S /\
              (status' = "excludingOne" => excluded = 0),
         status = "parsing", todo' = S, UNCHANGED <<usage, list, num>>
  PROVE  (FilledInv /\ CardInv /\ DistinctInv /\ AgreeInv)'
<1>1. FilledInv'
  BY DEF BuildInv, FilledInv, Untouched, Excluding
<1>2. CardInv' /\ DistinctInv'
  BY DEF BuildInv, CardInv, DistinctInv, Building, Excluding, Occupied
<1>3. AgreeInv'
  BY DEF BuildInv, AgreeInv, Occurs, Excluding
<1>4. QED
  BY <1>1, <1>2, <1>3

(* The loop of select appends what is not listed, and nothing else.        *)
LEMMA SelectNextBuilds ==
  ASSUME TypeInv, BuildInv, SelectNext
  PROVE  (FilledInv /\ CardInv /\ DistinctInv /\ AgreeInv)'
<1> DEFINE e == Min(todo)
<1>1. /\ status = "selecting" /\ excluded = 0 /\ todo' = todo \ {e}
      /\ UNCHANGED <<usage, excluded, wanted>>
  BY DEF SelectNext, BuildInv, UseInv
<1>2. e \in todo /\ e \in Entry /\ e # None
  <2>1. todo \in SUBSET Entry /\ todo # {}
    BY DEF SelectNext, TypeInv, TypeOK
  <2>2. e \in todo
    BY <2>1, MinIsMember
  <2>3. QED
    BY <2>1, <2>2, EntryFacts
<1>3. num \in Nat
  BY <1>1 DEF TypeInv, TypeOK, CountInv
<1>4. \A k \in Entry : list[k] # None <=> k < num
  BY <1>1 DEF BuildInv, FilledInv, Untouched
<1>5. Listed(e) <=> Occurs(e)
  <2>1. ~Listed(e) <=> \A k \in Entry : k < num => list[k] # e
    BY <1>3, SearchFacts DEF Listed
  <2>2. QED
    BY <1>2, <1>4, <2>1 DEF Occurs
<1>6. CASE status' \in {"overrun", "toomany"}
  BY <1>6 DEF FilledInv, Untouched, CardInv, DistinctInv, AgreeInv, Building, Excluding
<1>7. CASE Listed(e) /\ UNCHANGED <<list, num, status>>
  <2>1. FilledInv' /\ CardInv' /\ DistinctInv'
    BY <1>1, <1>7 DEF BuildInv, FilledInv, Untouched, CardInv, DistinctInv, Building, Occupied
  <2>2. AgreeInv'
    BY <1>1, <1>5, <1>7 DEF BuildInv, AgreeInv, Occurs, Excluding
  <2>3. QED
    BY <2>1, <2>2
<1>8. CASE /\ ~Listed(e) /\ num < ListMax /\ status' = "selecting"
           /\ list' = [list EXCEPT ![num] = e] /\ num' = num + 1
  <2>1. num \in Entry
    BY <1>3, <1>8, SelectionAssumption DEF Entry
  <2>2. list[num] = None
    BY <1>3, <1>4, <2>1
  <2>3. Occupied' = Occupied \cup {num} /\ Cardinality(Occupied') = Cardinality(Occupied) + 1
    BY <1>2, <1>8, <2>1, <2>2, OccupiedGrows DEF TypeInv
  <2>4. \A k \in Entry : list'[k] = IF k = num THEN e ELSE list[k]
    BY <1>8 DEF TypeInv, TypeOK
  <2>5. FilledInv'
    <3>1. \A k \in Entry : k < num + 1 <=> k < num \/ k = num
      BY <2>1, SelectionAssumption DEF Entry
    <3>2. QED
      BY <1>2, <1>4, <1>8, <2>4, <3>1 DEF FilledInv
  <2>6. CardInv'
    <3>1. Cardinality(Occupied) \in Nat /\ Cardinality(Occupied) <= num
      BY <1>1, OccupiedFinite DEF BuildInv, CardInv, Building, Occupied
    <3>2. QED
      BY <1>3, <1>8, <2>3, <3>1 DEF CardInv
  <2>7. DistinctInv'
    <3>1. \A k \in Occupied : k \in Entry /\ list[k] # e
      BY <1>5, <1>8 DEF Occupied, Occurs
    <3>2. num \notin Occupied
      BY <2>2 DEF Occupied
    <3>3. QED
      BY <1>1, <2>1, <2>3, <2>4, <3>1, <3>2 DEF BuildInv, DistinctInv, Building
  <2>8. AgreeInv'
    <3>1. \A d \in Entry : Occurs(d)' <=> Occurs(d) \/ d = e
      <4>1. \A d \in Entry : list[num] # d
        BY <2>2, SelectionAssumption DEF None, Entry
      <4>2. QED
        BY <2>1, <2>4, <4>1 DEF Occurs
    <3>2. QED
      BY <1>1, <1>2, <1>8, <3>1 DEF BuildInv, AgreeInv, Excluding
  <2>9. QED
    BY <2>5, <2>6, <2>7, <2>8
<1>9. QED
  BY <1>1, <1>6, <1>7, <1>8 DEF SelectNext

(* The loop of deselect, with the place that the search returns.           *)
LEMMA WhereFacts ==
  ASSUME TypeInv, BuildInv, DeselectNext
  PROVE  /\ Missed = None
         /\ Min(todo) \in todo /\ Min(todo) \in Entry
         /\ Where = None => ~Occurs(Min(todo))
         /\ Where # None => Where \in Occupied /\ list[Where] = Min(todo) /\ num > 0
<1> DEFINE e == Min(todo)
<1>1. e \in todo /\ e \in Entry /\ e # None
  <2>1. todo \in SUBSET Entry /\ todo # {}
    BY DEF DeselectNext, TypeInv, TypeOK
  <2>2. e \in todo
    BY <2>1, MinIsMember
  <2>3. QED
    BY <2>1, <2>2, EntryFacts
<1>2. status \in Excluding /\ todo # {}
  BY DEF DeselectNext
<1>3. Missed = None
  BY DEF Missed, BuildInv, UseInv
<1>4. num \in Nat
  BY <1>2 DEF TypeInv, TypeOK, CountInv, Excluding
<1>5. Bound \in Int
  BY <1>4, SelectionAssumption DEF Bound
<1>6. /\ Where = None => \A k \in Entry : k < Bound => list[k] # e
      /\ Where # None => Where \in Entry /\ Where < Bound /\ list[Where] = e
  BY <1>5, SearchFacts DEF Where
<1>7. Where # None => Where \in Occupied
  BY <1>1, <1>6 DEF Occupied
<1>8. CASE status = "excludingClass"
  <2>1. Bound = ListMax
    BY <1>8 DEF Bound, BuildInv, UseInv
  <2>2. Where = None => ~Occurs(e)
    BY <1>6, <2>1, SelectionAssumption DEF Occurs, Entry
  <2>3. ASSUME Where # None  PROVE num > 0
    <3>1. Cardinality(Occupied) > 0
      <4>1. IsFiniteSet(Occupied) /\ Cardinality(Occupied) \in Nat
        BY OccupiedFinite DEF Occupied
      <4>2. QED
        BY <1>7, <2>3, <4>1, FS_EmptySet
    <3>2. Cardinality(Occupied) <= num /\ Cardinality(Occupied) \in Nat
      BY <1>2, OccupiedFinite DEF BuildInv, CardInv, Building, Occupied
    <3>3. QED
      BY <1>4, <3>1, <3>2
  <2>4. QED
    BY <1>1, <1>3, <1>6, <1>7, <2>2, <2>3
<1>9. CASE status = "excludingOne"
  <2>1. Bound = num
    BY <1>9 DEF Bound
  <2>2. \A k \in Entry : list[k] # None <=> k < num
    BY <1>2, <1>9 DEF BuildInv, FilledInv, Untouched
  <2>3. Where = None => ~Occurs(e)
    BY <1>1, <1>6, <2>1, <2>2 DEF Occurs
  <2>4. Where # None => num > 0
    BY <1>4, <1>6, <2>1, SelectionAssumption DEF Entry
  <2>5. QED
    BY <1>1, <1>3, <1>6, <1>7, <2>3, <2>4
<1>10. QED
  BY <1>2, <1>8, <1>9 DEF Excluding

(* The loop of deselect removes the entry it visits, and nothing else.     *)
LEMMA DeselectNextBuilds ==
  ASSUME TypeInv, BuildInv, DeselectNext
  PROVE  (FilledInv /\ CardInv /\ DistinctInv /\ AgreeInv)' /\ status' # "negative"
<1> DEFINE e == Min(todo)
<1>1. /\ status \in Excluding /\ excluded > 0 /\ todo' = todo \ {e}
      /\ UNCHANGED <<usage, excluded, wanted>>
  BY DEF DeselectNext, BuildInv, UseInv
<1>2. "number" \notin usage.forms
  BY <1>1, SelectionAssumption DEF BuildInv, UseInv, OrderlyUsage, Usage, TypeInv, TypeOK
<1>3. status' = "excludingOne" => status = "excludingOne"
  BY DEF DeselectNext
<1>4. FilledInv'
  <2>1. ASSUME Untouched'  PROVE FALSE
    <3>1. status' \notin {"parsing", "selecting"}
      BY <1>1 DEF DeselectNext, Excluding
    <3>2. status = "excludingOne" /\ todo \ {e} # {}
      BY <1>1, <1>3, <2>1, <3>1 DEF Untouched
    <3>3. QED
      BY <3>2, WhereFacts DEF BuildInv, UseInv
  <2>2. QED
    BY <2>1 DEF FilledInv
<1>5. CASE status' = "overrun" /\ UNCHANGED <<list, num>>
  BY <1>4, <1>5 DEF CardInv, DistinctInv, AgreeInv, Building, Excluding
<1>6. CASE Where = None /\ UNCHANGED <<list, num, status>>
  <2>1. ~Occurs(e)
    BY <1>6, WhereFacts
  <2>2. CardInv' /\ DistinctInv'
    BY <1>1, <1>6 DEF BuildInv, CardInv, DistinctInv, Building, Occupied
  <2>3. AgreeInv'
    BY <1>1, <1>6, <2>1 DEF BuildInv, AgreeInv, Occurs, Excluding
  <2>4. QED
    BY <1>1, <1>4, <1>6, <2>2, <2>3 DEF Excluding
<1>7. CASE /\ Where # None
           /\ list' = [k \in Entry |-> IF k = Where THEN None ELSE list[k]]
           /\ num' = num - 1
           /\ status' = status
  <2>1. Where \in Occupied /\ Where \in Entry /\ list[Where] = e
    BY <1>7, WhereFacts DEF Occupied
  <2>2. /\ Occupied' = Occupied \ {Where}
        /\ Cardinality(Occupied') = Cardinality(Occupied) - 1
    BY <1>7, <2>1, OccupiedShrinks DEF TypeInv
  <2>3. CardInv'
    <3>1. Cardinality(Occupied) \in Nat /\ Cardinality(Occupied) <= num /\ num \in Nat
      BY <1>1, OccupiedFinite DEF BuildInv, CardInv, Building, Occupied, TypeInv, TypeOK, CountInv, Excluding
    <3>2. QED
      BY <1>7, <2>2, <3>1 DEF CardInv
  <2>4. \A k, l \in Occupied : list[k] = list[l] => k = l
    BY <1>1, <1>2 DEF BuildInv, DistinctInv, Building
  <2>5. DistinctInv'
    BY <1>7, <2>2, <2>4 DEF DistinctInv, Occupied
  <2>6. \A d \in Entry : Occurs(d)' <=> Occurs(d) /\ d # e
    <3>1. \A d \in Entry : d # None
      BY SelectionAssumption DEF None, Entry
    <3>2. \A k \in Entry : list[k] = e => k = Where
      BY <2>1, <2>4, <3>1, WhereFacts DEF Occupied
    <3>3. QED
      BY <1>7, <2>1, <3>1, <3>2 DEF Occurs
  <2>7. AgreeInv'
    <3>1. \A d \in Entry : d \in wanted <=> Occurs(d) /\ d \notin todo
      BY <1>1 DEF BuildInv, AgreeInv
    <3>2. \A d \in Entry : d \notin todo' <=> d \notin todo \/ d = e
      BY <1>1
    <3>3. e \in todo
      BY WhereFacts
    <3>4. \A d \in Entry : d \in wanted' <=> Occurs(d)' /\ d \notin todo'
      BY <1>1, <2>6, <3>1, <3>2, <3>3
    <3>5. status' \notin {"parsing", "selecting"}
      BY <1>1, <1>7 DEF Excluding
    <3>6. QED
      BY <3>4, <3>5 DEF AgreeInv
  <2>8. QED
    BY <1>1, <1>4, <1>7, <2>3, <2>5, <2>7 DEF Excluding
<1>8. QED
  <2>1. Where # None => num # 0
    BY WhereFacts DEF TypeInv, TypeOK
  <2>2. Missed = None
    BY WhereFacts
  <2>3. QED
    BY <1>4, <1>5, <1>6, <1>7, <2>1, <2>2 DEF DeselectNext

(* Whatever the step, the list is what the tokens ask for, as long as      *)
(* tokens are read; and the number of entries does not get negative.       *)
LEMMA BuildStep ==
  TypeInv /\ BuildInv /\ status # "negative" /\ [Next]_vars => BuildInv' /\ status' # "negative"
<1> SUFFICES ASSUME TypeInv, BuildInv, status # "negative", [Next]_vars
             PROVE  (FilledInv /\ CardInv /\ DistinctInv /\ AgreeInv)' /\ status' # "negative"
  BY UseStep DEF BuildInv, TypeInv
<1>1. CASE All
  BY <1>1, AllBuilds DEF All
<1>2. CASE Unknown
  BY <1>2 DEF Unknown, FilledInv, Untouched, CardInv, DistinctInv, AgreeInv, Building, Excluding
<1>3. ASSUME NEW n \in 0..ListMax, Number(n)
      PROVE  (FilledInv /\ CardInv /\ DistinctInv /\ AgreeInv)' /\ status' # "negative"
  <2>1. status' # "negative"
    BY <1>3 DEF Number
  <2>2. QED
    BY <1>3, <2>1, NumberBuilds
<1>4. ASSUME NEW c \in Class, SelectClass(c) \/ ExcludeClass(c)
      PROVE  (FilledInv /\ CardInv /\ DistinctInv /\ AgreeInv)' /\ status' # "negative"
  <2>1. Member[c] \in SUBSET Entry
    BY SelectionAssumption
  <2>2. /\ \/ status' = "selecting" /\ wanted' = wanted \cup Member[c] /\ excluded = 0
           \/ status' = "excludingClass" /\ wanted' = wanted \ Member[c]
        /\ status = "parsing" /\ todo' = Member[c] /\ UNCHANGED <<usage, list, num>>
    BY <1>4 DEF SelectClass, ExcludeClass, Token, Exclusion, Enter, BuildInv, UseInv, OrderlyUsage
  <2>3. QED
    BY <2>1, <2>2, EnterBuilds DEF Excluding
<1>5. ASSUME NEW e \in Entry, SelectOne(e) \/ ExcludeOne(e)
      PROVE  (FilledInv /\ CardInv /\ DistinctInv /\ AgreeInv)' /\ status' # "negative"
  <2>1. {e} \in SUBSET Entry
    OBVIOUS
  <2>2. /\ \/ status' = "selecting" /\ wanted' = wanted \cup {e} /\ excluded = 0
           \/ status' = "excludingOne" /\ wanted' = wanted \ {e} /\ excluded = 0
        /\ status = "parsing" /\ todo' = {e} /\ UNCHANGED <<usage, list, num>>
    <3>1. usage \in Usage /\ usage.excluded \in Nat /\ excluded \in Nat
      BY SelectionAssumption DEF TypeInv, TypeOK, Usage
    <3>2. CASE SelectOne(e)
      BY <3>2 DEF SelectOne, Token, Enter, BuildInv, UseInv, OrderlyUsage
    <3>3. CASE ExcludeOne(e)
      BY <3>1, <3>3 DEF ExcludeOne, Exclusion, Enter, BuildInv, UseInv, OrderlyUsage
    <3>4. QED
      BY <1>5, <3>2, <3>3
  <2>3. QED
    BY <2>1, <2>2, EnterBuilds DEF Excluding
<1>6. CASE SelectNext
  BY <1>6, SelectNextBuilds DEF SelectNext
<1>7. CASE DeselectNext
  BY <1>7, DeselectNextBuilds
<1>8. CASE EndToken
  <2>1. status \in {"selecting"} \cup Excluding /\ todo = {} /\ status' = "parsing"
    BY <1>8 DEF EndToken
  <2>2. UNCHANGED <<usage, list, num, todo, excluded, wanted>>
    BY <1>8 DEF EndToken
  <2>3. FilledInv'
    BY <2>1, <2>2 DEF BuildInv, UseInv, FilledInv, Untouched, Excluding
  <2>4. CardInv' /\ DistinctInv'
    BY <2>1, <2>2 DEF BuildInv, CardInv, DistinctInv, Building, Occupied
  <2>5. AgreeInv'
    BY <2>1, <2>2 DEF BuildInv, AgreeInv, Occurs, Excluding
  <2>6. QED
    BY <2>1, <2>3, <2>4, <2>5
<1>9. CASE Compress \/ CompressNext \/ CompressEnd \/ CommsInit
  <2>1. status' \in {"compressing", "compressed", "ready"}
    BY <1>9 DEF Compress, CompressNext, CompressEnd, CommsInit
  <2>2. QED
    BY <2>1 DEF FilledInv, Untouched, CardInv, DistinctInv, AgreeInv, Building, Excluding
<1>10. CASE Over \/ UNCHANGED vars
  BY <1>10 DEF Over, vars, BuildInv, FilledInv, Untouched, CardInv, DistinctInv, AgreeInv, Occurs, Occupied
<1>11. QED
  BY <1>1, <1>2, <1>3, <1>4, <1>5, <1>6, <1>7, <1>8, <1>9, <1>10 DEF Next

-----------------------------------------------------------------------------
(* The compression of the list.                                            *)

(* The places that hold entries to keep: those already filled again, and   *)
(* those not scanned yet.                                                  *)
Live == {k \in Entry : k < pos \/ k >= scanned}

CompressInv ==
  status = "compressing" =>
    /\ \A k \in Entry : k < pos => list[k] # None
    /\ \A k \in Entry : list[k] # None => list[k] \in wanted
    /\ \A e \in wanted : \E k \in Live : list[k] = e
    /\ "number" \notin usage.forms =>
         \A k, l \in Live : list[k] = list[l] /\ list[k] # None => k = l

(* The first num places of the compressed list hold what was asked for,    *)
(* and the places behind them nothing else.                                *)
CompressedInv ==
  status = "compressed" =>
    /\ \A k \in Entry : k < num => list[k] # None
    /\ \A k \in Entry : list[k] # None => list[k] \in wanted
    /\ \A e \in wanted : \E k \in Entry : k < num /\ list[k] = e
    /\ "number" \notin usage.forms =>
         \A k, l \in Entry : k < num /\ l < num /\ list[k] = list[l] => k = l

(* The compression starts with a list that is what was asked for.          *)
LEMMA CompressStarts ==
  ASSUME TypeInv, BuildInv, Compress
  PROVE  CompressInv'
<1>1. /\ status = "parsing" /\ scanned' = 0 /\ pos' = 0
      /\ UNCHANGED <<usage, list, wanted>>
  BY DEF Compress
<1>2. \A k \in Entry : k \in Live' /\ ~(k < pos')
  BY <1>1, EntryFacts DEF Live
<1>3. \A e \in Entry : e \in wanted <=> \E k \in Entry : list[k] = e
  BY <1>1 DEF BuildInv, AgreeInv, Occurs
<1>4. \A k \in Entry : list[k] # None => list[k] \in wanted
  BY <1>3 DEF TypeInv, TypeOK
<1>5. \A e \in wanted : \E k \in Entry : list[k] = e
  BY <1>3 DEF TypeInv, TypeOK
<1>6. "number" \notin usage.forms =>
        \A k, l \in Entry : list[k] = list[l] /\ list[k] # None => k = l
  BY <1>1 DEF BuildInv, DistinctInv, Building, Occupied
<1>7. Live' \subseteq Entry
  BY DEF Live
<1>8. QED
  BY <1>1, <1>2, <1>4, <1>5, <1>6, <1>7 DEF CompressInv

(* Each iteration keeps the entry it scans, before it is written over.     *)
LEMMA CompressStep ==
  ASSUME TypeInv, CompressInv, CompressNext
  PROVE  CompressInv'
<1>1. /\ status = "compressing" /\ scanned < ListMax /\ scanned' = scanned + 1
      /\ UNCHANGED <<usage, wanted>>
  BY DEF CompressNext, ScanAll
<1>2. pos \in Nat /\ scanned \in Nat /\ pos <= scanned /\ ListMax \in Nat
  BY SelectionAssumption DEF TypeInv, TypeOK, CountInv
<1>3. pos \in Entry /\ scanned \in Entry
  BY <1>1, <1>2 DEF Entry
<1>4. /\ \A k \in Entry : k < pos => list[k] # None
      /\ \A k \in Entry : list[k] # None => list[k] \in wanted
      /\ \A e \in wanted : \E k \in Live : list[k] = e
      /\ "number" \notin usage.forms =>
           \A k, l \in Live : list[k] = list[l] /\ list[k] # None => k = l
  BY <1>1 DEF CompressInv
<1>5. \A e \in wanted : e # None
  BY EntryFacts DEF TypeInv, TypeOK
<1>6. CASE list[scanned] = None /\ UNCHANGED <<list, pos>>
  <2>1. Live' = Live \ {scanned}
    BY <1>1, <1>2, <1>6, EntryFacts DEF Live
  <2>2. QED
    BY <1>1, <1>4, <1>5, <1>6, <2>1 DEF CompressInv
<1>7. CASE /\ list[scanned] # None
           /\ list' = [list EXCEPT ![pos] = list[scanned]]
           /\ pos' = pos + 1
  <2>1. \A k \in Entry : list'[k] = IF k = pos THEN list[scanned] ELSE list[k]
    BY <1>7 DEF TypeInv, TypeOK
  <2>2. Live' = (Live \ {scanned}) \cup {pos}
    BY <1>1, <1>2, <1>3, <1>7, EntryFacts DEF Live
  <2>3. scanned \in Live /\ (pos \in Live => pos = scanned)
    BY <1>2, <1>3 DEF Live
  <2>4. \A k \in Entry : k < pos' => k < pos \/ k = pos
    BY <1>2, <1>7, EntryFacts
  <2>5. \A k \in Entry : k < pos' => list'[k] # None
    BY <1>4, <1>7, <2>1, <2>4
  <2>6. \A k \in Entry : list'[k] # None => list'[k] \in wanted
    BY <1>3, <1>4, <2>1
  <2>7. ASSUME NEW e \in wanted  PROVE \E k \in Live' : list'[k] = e
    <3>1. PICK k \in Live : list[k] = e
      BY <1>4
    <3>2. k \in Entry
      BY DEF Live
    <3>3. CASE k = scanned
      BY <1>3, <2>1, <2>2, <3>1, <3>3
    <3>4. CASE k # scanned
      BY <2>1, <2>2, <2>3, <3>1, <3>2, <3>4
    <3>5. QED
      BY <3>3, <3>4
  <2>8. ASSUME "number" \notin usage.forms, NEW k \in Live', NEW l \in Live',
               list'[k] = list'[l], list'[k] # None
        PROVE  k = l
    <3>1. k \in Entry /\ l \in Entry
      BY DEF Live
    <3>2. \A j, m \in Live : list[j] = list[m] /\ list[j] # None => j = m
      BY <1>4, <2>8
    <3>3. CASE k # pos /\ l # pos
      BY <2>1, <2>2, <2>8, <3>1, <3>2, <3>3
    <3>4. CASE k = pos /\ l # pos
      <4>1. l \in Live /\ l # scanned
        BY <2>2, <3>4
      <4>2. list[scanned] = list[l]
        BY <2>1, <2>8, <3>1, <3>4
      <4>3. QED
        BY <1>7, <2>3, <3>2, <4>1, <4>2
    <3>5. CASE k # pos /\ l = pos
      <4>1. k \in Live /\ k # scanned
        BY <2>2, <3>5
      <4>2. list[scanned] = list[k]
        BY <2>1, <2>8, <3>1, <3>5
      <4>3. QED
        BY <1>7, <2>3, <3>2, <4>1, <4>2
    <3>6. QED
      BY <3>3, <3>4, <3>5
  <2>9. QED
    BY <1>1, <2>5, <2>6, <2>7, <2>8 DEF CompressInv
<1>8. QED
  BY <1>6, <1>7 DEF CompressNext

(* At its end, what is kept is in the first places.                        *)
LEMMA CompressEnds ==
  ASSUME TypeInv, CompressInv, CompressEnd
  PROVE  CompressedInv'
<1>1. /\ status = "compressing" /\ scanned >= ListMax /\ num' = pos
      /\ UNCHANGED <<usage, list, wanted>>
  BY DEF CompressEnd, ScanAll
<1>2. scanned \in Nat /\ ListMax \in Nat
  BY SelectionAssumption DEF TypeInv, TypeOK
<1>3. \A k \in Entry : k \in Live <=> k < pos
  BY <1>1, <1>2, EntryFacts DEF Live
<1>4. Live \subseteq Entry
  BY DEF Live
<1>5. QED
  BY <1>1, <1>3, <1>4 DEF CompressInv, CompressedInv

(* tst_comms_init lets the loop over the communicators see the places      *)
(* behind the first ones too; they hold nothing else.                      *)
LEMMA ReadyAgrees ==
  ASSUME TypeInv, CompressedInv, CommsInit
  PROVE  SelectedAsAsked'
<1>1. /\ status = "compressed" /\ num' \in {ListMax, num}
      /\ UNCHANGED <<list, wanted>>
  BY DEF CommsInit
<1>2. /\ \A k \in Entry : list[k] # None => list[k] \in wanted
      /\ \A e \in wanted : \E k \in Entry : k < num /\ list[k] = e
  BY <1>1 DEF CompressedInv
<1>3. \A e \in wanted : e # None
  BY EntryFacts DEF TypeInv, TypeOK
<1>4. \A e \in wanted : \E k \in Entry : k < num' /\ list[k] = e
  BY <1>1, <1>2, EntryFacts
<1>5. Executed' = {list[k] : k \in {l \in Entry : l < num'}} \ {None}
  BY <1>1 DEF Executed
<1>6. Executed' = wanted
  BY <1>2, <1>3, <1>4, <1>5
<1>7. QED
  BY <1>1, <1>6 DEF SelectedAsAsked

-----------------------------------------------------------------------------
(* The theorems about orderly uses.                                        *)

ListInv ==
  /\ TypeInv
  /\ BuildInv
  /\ CompressInv
  /\ CompressedInv
  /\ status # "negative"
  /\ SelectedAsAsked

(* The empty list is what no token asks for.                               *)
LEMMA InitList == Usages \subseteq OrderlyUsage /\ Init => ListInv
<1> SUFFICES ASSUME Usages \subseteq OrderlyUsage, Init  PROVE ListInv
  OBVIOUS
<1>1. TypeInv
  BY InitTypes
<1>2. UseInv
  BY SelectionAssumption DEF Init, UseInv, Usage, Excluding
<1>3. \A k \in Entry : list[k] = None /\ ~(k < num)
  BY EntryFacts DEF Init
<1>4. Occupied = {} /\ \A e \in Entry : ~Occurs(e)
  BY <1>3, EntryFacts DEF Occupied, Occurs
<1>5. BuildInv
  BY <1>2, <1>3, <1>4, FS_EmptySet
  DEF Init, BuildInv, FilledInv, CardInv, DistinctInv, AgreeInv, Excluding
<1>6. QED
  BY <1>1, <1>5 DEF Init, ListInv, CompressInv, CompressedInv, SelectedAsAsked

(* Every step keeps it.                                                    *)
LEMMA NextList == ListInv /\ [Next]_vars => ListInv'
<1> SUFFICES ASSUME ListInv, [Next]_vars
             PROVE  (CompressInv /\ CompressedInv /\ SelectedAsAsked)'
  BY NextTypes, BuildStep DEF ListInv
<1> USE DEF ListInv
<1>1. CASE All \/ (\E n \in 0..ListMax : Number(n)) \/ Unknown
  BY <1>1 DEF All, Number, Unknown, Token, CompressInv, CompressedInv, SelectedAsAsked
<1>2. CASE \E c \in Class : SelectClass(c) \/ ExcludeClass(c)
  BY <1>2 DEF SelectClass, ExcludeClass, Enter, CompressInv, CompressedInv, SelectedAsAsked
<1>3. CASE \E e \in Entry : SelectOne(e) \/ ExcludeOne(e)
  BY <1>3 DEF SelectOne, ExcludeOne, Enter, CompressInv, CompressedInv, SelectedAsAsked
<1>4. CASE SelectNext \/ EndToken
  BY <1>4 DEF SelectNext, EndToken, CompressInv, CompressedInv, SelectedAsAsked
<1>5. CASE DeselectNext
  <2>1. status' \notin {"compressing", "compressed", "ready"}
    BY <1>5 DEF DeselectNext, Excluding
  <2>2. QED
    BY <2>1 DEF CompressInv, CompressedInv, SelectedAsAsked
<1>6. CASE Compress
  <2>1. status' = "compressing"
    BY <1>6 DEF Compress
  <2>2. QED
    BY <1>6, <2>1, CompressStarts DEF CompressedInv, SelectedAsAsked
<1>7. CASE CompressNext
  <2>1. status' = "compressing"
    BY <1>7 DEF CompressNext
  <2>2. QED
    BY <1>7, <2>1, CompressStep DEF CompressedInv, SelectedAsAsked
<1>8. CASE CompressEnd
  <2>1. status' = "compressed"
    BY <1>8 DEF CompressEnd
  <2>2. QED
    BY <1>8, <2>1, CompressEnds DEF CompressInv, SelectedAsAsked
<1>9. CASE CommsInit
  <2>1. status' = "ready"
    BY <1>9 DEF CommsInit
  <2>2. QED
    BY <1>9, <2>1, ReadyAgrees DEF CompressInv, CompressedInv
<1>10. CASE Over \/ UNCHANGED vars
  BY <1>10 DEF Over, vars, CompressInv, CompressedInv, Live, SelectedAsAsked, Executed
<1>11. QED
  BY <1>1, <1>2, <1>3, <1>4, <1>5, <1>6, <1>7, <1>8, <1>9, <1>10 DEF Next

(* So it holds always.                                                     *)
LEMMA ListInvariance == Usages \subseteq OrderlyUsage => (Spec => []ListInv)
<1>1. Usages \subseteq OrderlyUsage /\ Init => ListInv
  BY InitList
<1>2. ListInv /\ [Next]_vars => ListInv'
  BY NextList
<1>3. QED
  BY <1>1, <1>2, PTL DEF Spec

(* When the exclusions come last, and are those that deselect can handle,  *)
(* the tests, communicators and datatypes executed are those asked for.    *)
THEOREM OrderlySelection ==
  ASSUME Usages \subseteq OrderlyUsage
  PROVE  Spec => []SelectedAsAsked
<1>1. ListInv => SelectedAsAsked
  BY DEF ListInv
<1>2. QED
  BY <1>1, ListInvariance, PTL

(* In these uses, tst_array_compress leaves no entry twice.                *)
THEOREM CompressedOnce ==
  ASSUME Usages \subseteq OrderlyUsage
  PROVE  Spec => []ListedOnce
<1>1. ListInv => ListedOnce
  BY DEF ListInv, CompressedInv, ListedOnce
<1>2. QED
  BY <1>1, ListInvariance, PTL

(* "This should not happen" does not happen in these uses.                 *)
THEOREM CountNonNegative ==
  ASSUME Usages \subseteq OrderlyUsage
  PROVE  Spec => []NeverNegative
<1>1. ListInv => NeverNegative
  BY DEF ListInv, NeverNegative
<1>2. QED
  BY <1>1, ListInvariance, PTL

=============================================================================
