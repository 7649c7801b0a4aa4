----------------------------- MODULE Selection -----------------------------
(***************************************************************************)
(* The lists of tests, communicators and datatypes that main builds from   *)
(* the options -t, -c and -d: one token after the other is applied to an   *)
(* array of fixed length and the number of entries in it (select and       *)
(* deselect of tst_tests.c, tst_comm.c and tst_types.c), then the array is *)
(* compressed and its first entries are executed.  A step is the start of  *)
(* a token, or an iteration of the loop over the entries it names, or of   *)
(* the loop of tst_array_compress.                                         *)
(*                                                                         *)
(* A token is a class, an entry (by name or by number), its exclusion, or  *)
(* "all".  The array is a function; an access outside of it ends the       *)
(* behaviour with status "overrun", a call of ERROR with "toomany",        *)
(* "negative" or "rejected".                                               *)
(***************************************************************************)
EXTENDS Integers, FiniteSets, FiniteSetsExt

CONSTANTS ListMax,             \* the number of registered entries
          Class,           \* the classes
          Member,          \* [Class -> SUBSET entries]
          Usages,          \* the ways the options are used, see below
          MaxTokens        \* bound on the number of tokens of an option

Kind == {"test", "comm", "type"}
Form == {"all", "class", "one", "number", "notclass", "notone", "unknown"}
Entry == 0..(ListMax - 1)
None == -1

(* An option is used with tokens of some forms, at most so many of them    *)
(* with a '^', after which other tokens follow or do not.                  *)
Usage == [kind : Kind, forms : SUBSET Form, excluded : 0..MaxTokens, again : BOOLEAN]

ASSUME SelectionAssumption ==
  /\ ListMax \in Nat \ {0} /\ MaxTokens \in Nat
  /\ Member \in [Class -> SUBSET Entry]
  /\ Usages \subseteq Usage

VARIABLES
  usage,     \* which of the three options is parsed, and how it is used
  list, num, \* tst_test_array, tst_comm_array or tst_type_array, and num_*
  status,
  todo,      \* the entries that the loop of the token has yet to visit
  scanned, pos,      \* i and current_pos of tst_array_compress
  tokens, excluded,  \* how many tokens, and tokens with '^', were applied
  wanted     \* history: the entries the tokens, applied in order, ask for

vars == <<usage, list, num, status, todo, scanned, pos, tokens, excluded, wanted>>

Error == {"toomany", "negative", "rejected", "overrun"}
Excluding == {"excludingClass", "excludingOne"}
Status == {"parsing", "selecting", "compressing", "compressed", "ready"}
            \cup Excluding \cup Error

(* Every variable has its type: all entries of the list are registered     *)
(* ones or -1.                                                             *)
TypeOK ==
  /\ usage \in Usages
  /\ list \in [Entry -> Entry \cup {None}]
  /\ num \in -1..(ListMax * (MaxTokens + 1))
  /\ status \in Status
  /\ todo \in SUBSET Entry
  /\ scanned \in 0..ListMax
  /\ pos \in 0..ListMax
  /\ tokens \in 0..MaxTokens
  /\ excluded \in 0..MaxTokens
  /\ wanted \in SUBSET Entry

Init ==
  /\ usage \in Usages
  /\ list = [k \in Entry |-> None]
  /\ num = 0
  /\ status = "parsing"
  /\ todo = {}
  /\ scanned = 0 /\ pos = 0
  /\ tokens = 0
  /\ excluded = 0
  /\ wanted = {}

-----------------------------------------------------------------------------
(* The search in the list, and the loops of select and deselect over the   *)
(* entries of a class; a single entry is a loop of one iteration.          *)

kind == usage.kind

(* tst_test_search, tst_comm_search, tst_type_search                       *)
Found(e, bound) == {k \in Entry : k < bound /\ list[k] = e}
Search(e, bound) == IF Found(e, bound) = {} THEN None ELSE Min(Found(e, bound))

(* The definitions named after a fault, like the next one, are what a      *)
(* later definition must not be: the runs notice the exchange.             *)
NeverListed(e) == FALSE

Listed(e) == Search(e, num) # None

(* ERROR is called when the number of entries becomes n.                   *)
TooMany(n) == IF kind = "test" THEN n >= ListMax ELSE n = ListMax

SelectNext ==
  /\ status = "selecting" /\ todo # {}
  /\ todo' = todo \ {Min(todo)}
  /\ \/ /\ Listed(Min(todo))
        /\ UNCHANGED <<list, num, status>>
     \/ /\ ~Listed(Min(todo)) /\ num >= ListMax
        /\ status' = "overrun"
        /\ UNCHANGED <<list, num>>
     \/ /\ ~Listed(Min(todo)) /\ num < ListMax
        /\ list' = [list EXCEPT ![num] = Min(todo)]
        /\ num' = num + 1
        /\ status' = IF TooMany(num + 1) THEN "toomany" ELSE "selecting"
  /\ UNCHANGED <<usage, scanned, pos, tokens, excluded, wanted>>

(* The classes of tests are searched in the whole array, all else in the   *)
(* first num entries.                                                      *)
Bound == IF status = "excludingClass" /\ kind = "test" THEN ListMax ELSE num

(* The result of the search that is taken to say that an entry is not      *)
(* listed: the classes of communicators compare with 1.                    *)
MissesAreOne == 1

Missed == IF status = "excludingClass" /\ kind = "comm" THEN 1 ELSE None

Where == Search(Min(todo), Bound)
Beyond == Where = None /\ Bound > ListMax

DeselectNext ==
  /\ status \in Excluding /\ todo # {}
  /\ todo' = todo \ {Min(todo)}
  /\ \/ /\ Beyond
        /\ status' = "overrun"
        /\ UNCHANGED <<list, num>>
     \/ /\ Where = Missed /\ ~Beyond
        /\ UNCHANGED <<list, num, status>>
     \/ /\ Where # Missed /\ ~Beyond
        /\ list' = [k \in Entry |-> IF k = Where THEN None ELSE list[k]]
        /\ num' = num - 1
        /\ status' = CASE num = 0 -> "negative"
                       [] num # 0 /\ Where = None -> "overrun"
                       [] OTHER -> status
  /\ UNCHANGED <<usage, scanned, pos, tokens, excluded, wanted>>

(* The return from select or deselect to the loop over the tokens.         *)
EndToken ==
  /\ status \in {"selecting"} \cup Excluding /\ todo = {}
  /\ status' = "parsing"
  /\ UNCHANGED <<usage, list, num, todo, scanned, pos, tokens, excluded, wanted>>

-----------------------------------------------------------------------------
(* The loops of main over the tokens of an option.                         *)

(* A token is read; it asks for the entries W.                             *)
Token(form, W) ==
  /\ status = "parsing"
  /\ form \in usage.forms
  /\ usage.again \/ excluded = 0
  /\ tokens < MaxTokens
  /\ tokens' = tokens + 1
  /\ wanted' = W
  /\ UNCHANGED <<usage, scanned, pos, excluded>>

Exclusion(form, W) ==
  /\ status = "parsing"
  /\ form \in usage.forms
  /\ tokens < MaxTokens /\ excluded < usage.excluded
  /\ tokens' = tokens + 1 /\ excluded' = excluded + 1
  /\ wanted' = W
  /\ UNCHANGED <<usage, scanned, pos>>

AllShifted ==
  /\ Token("all", Entry)
  /\ list' = [k \in Entry |-> k + 1]
  /\ num' = num + ListMax
  /\ UNCHANGED <<status, todo>>

All ==
  /\ Token("all", Entry)
  /\ list' = [k \in Entry |-> k]
  /\ num' = num + ListMax
  /\ UNCHANGED <<status, todo>>

Number(n) ==
  /\ Token("number", wanted \cup ({n} \cap Entry))
  /\ \/ /\ n \notin Entry
        /\ status' = "rejected"
        /\ UNCHANGED <<list, num>>
     \/ /\ n \in Entry /\ num >= ListMax
        /\ status' = "overrun"
        /\ UNCHANGED <<list, num>>
     \/ /\ n \in Entry /\ num < ListMax
        /\ list' = [list EXCEPT ![num] = n]
        /\ num' = num + 1
        /\ UNCHANGED status
  /\ UNCHANGED todo

(* A name that is neither that of a class nor that of an entry.            *)
Unknown ==
  /\ Token("unknown", wanted)
  /\ status' = "rejected"
  /\ UNCHANGED <<list, num, todo>>

(* The loop of select or deselect is entered, to visit the entries S.      *)
Enter(loop, S) == status' = loop /\ todo' = S /\ UNCHANGED <<list, num>>

SelectClass(c) == Token("class", wanted \cup Member[c]) /\ Enter("selecting", Member[c])
SelectOne(e) == Token("one", wanted \cup {e}) /\ Enter("selecting", {e})
ExcludeClass(c) ==
  Exclusion("notclass", wanted \ Member[c]) /\ Enter("excludingClass", Member[c])
ExcludeOne(e) == Exclusion("notone", wanted \ {e}) /\ Enter("excludingOne", {e})

-----------------------------------------------------------------------------
(* tst_array_compress, and what main does with its result.                 *)

(* list_max, the length of the array and not the number of its entries     *)
ScanButLast == ListMax - 1
ScanAll == ListMax

Compress ==
  /\ status = "parsing"
  /\ status' = "compressing"
  /\ scanned' = 0 /\ pos' = 0
  /\ UNCHANGED <<usage, list, num, todo, tokens, excluded, wanted>>

CompressNext ==
  /\ status = "compressing" /\ scanned < ScanAll
  /\ scanned' = scanned + 1
  /\ \/ list[scanned] = None /\ UNCHANGED <<list, pos>>
     \/ /\ list[scanned] # None
        /\ list' = [list EXCEPT ![pos] = list[scanned]]
        /\ pos' = pos + 1
  /\ UNCHANGED <<usage, num, status, todo, tokens, excluded, wanted>>

CompressEnd ==
  /\ status = "compressing" /\ scanned >= ScanAll
  /\ num' = pos
  /\ status' = "compressed"
  /\ UNCHANGED <<usage, list, todo, scanned, pos, tokens, excluded, wanted>>

(* num_comms = tst_comms_init(), before the loop over the lists.           *)
CommsInit ==
  /\ status = "compressed"
  /\ num' = IF kind = "comm" THEN ListMax ELSE num
  /\ status' = "ready"
  /\ UNCHANGED <<usage, list, todo, scanned, pos, tokens, excluded, wanted>>

Over == status \in Error \cup {"ready"} /\ UNCHANGED vars

Next ==
  \/ All \/ Unknown
  \/ \E n \in 0..ListMax : Number(n)
  \/ \E c \in Class : SelectClass(c) \/ ExcludeClass(c)
  \/ \E e \in Entry : SelectOne(e) \/ ExcludeOne(e)
  \/ SelectNext \/ DeselectNext \/ EndToken
  \/ Compress \/ CompressNext \/ CompressEnd \/ CommsInit \/ Over

Spec == Init /\ [][Next]_vars

-----------------------------------------------------------------------------
(* The uses of an option for which the list is what was asked for: the     *)
(* exclusions come last; nothing that was given by number is excluded; a   *)
(* single entry is excluded by the only exclusion; and of the classes only *)
(* those of tests are excluded.                                            *)
OrderlyUsage ==
  {u \in Usage :
     /\ ~u.again
     /\ u.excluded > 0 => "number" \notin u.forms
     /\ u.excluded > 1 => "notone" \notin u.forms
     /\ u.excluded > 0 /\ "notclass" \in u.forms => u.kind = "test"}

(* What the loop of main executes; check_run skips an entry of -1.         *)
Executed == {list[k] : k \in {l \in Entry : l < num}} \ {None}

(* "The selection will happen in order": what is executed is what the      *)
(* tokens, applied one after the other to a set, select.                   *)
SelectedAsAsked == status = "ready" => Executed = wanted

(* tst_array_compress leaves every entry at most once among the first num  *)
(* ones, unless entries were given by number: "-t 0,0" runs a test twice.  *)
ListedOnce ==
  status = "compressed" /\ "number" \notin usage.forms =>
    \A k, l \in Entry : k < num /\ l < num /\ list[k] = list[l] => k = l

(* "This should not happen": the number of entries never gets negative.    *)
NeverNegative == status # "negative"
=============================================================================
