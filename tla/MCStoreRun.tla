----------------------------- MODULE MCStoreRun -----------------------------
(* Selections for the loop of main with the tests that move data by        *)
(* collective operations, windows and files.                               *)
EXTENDS StoreExecution

(* Elements 2 and 3 are the first that have the rank in them.              *)
Sound(tests, comm) ==
  [tests |-> tests, comms |-> <<comm>>, types |-> <<"int">>, values |-> << <<2, 3>> >>,
   library |-> "sound"]
Each(tests, comms) == {Sound(<<t>>, c) : t \in tests, c \in comms}
Faulty(selections) == {[sel EXCEPT !.library = "faulty"] : sel \in selections}
Twice(sel) == [sel EXCEPT !.values = << <<2, 3>>, <<2>> >>]
With(sel, type, at) == [sel EXCEPT !.types = <<type>>, !.values = << at >>]

Doubles == {t \in DOMAIN CollTable \cup DOMAIN OneSidedTable : Needs(t).types = "double"}

(* Every test, on groups of one and two processes and on one of three.     *)
EachSelections ==
  Each(DOMAIN CollTable \ Doubles, {"halved", "reversed", "self"})
    \cup Each(DOMAIN OneSidedTable \ Doubles, {"halved", "reversed"})
    \cup Each(DOMAIN FileTable \ {"asyncio_atomic"}, {"halved"})
    \cup Each({"read_at", "read_shared", "write_shared", "read_ordered", "io_sync", "append_mode",
               "io_commself"}, {"reversed"})
    \cup {With(sel, "double", <<0, 1, 2>>) :
            sel \in Each(Doubles \cup {"Scan sum", "Ring with Get", "Alltoall"}, {"halved"})}

(* Limits and values beyond them: 126 + rank does not fit into a char.     *)
LimitSelections ==
  {With(sel, type, <<0, 1, 126>>) :
     sel \in Each({"Gather", "Alltoall", "get_lock", "read_at", "io_with_arrange"}, {"halved"}),
     type \in {"char", "unsignedchar", "shortint", "floatint", "intconti", "mix"}}
    \cup {With(sel, "shorts", <<1, 32766>>) :
            sel \in Each({"Scan sum", "Reduce Max", "Allreduce Min"}, {"world"})}
    \cup {With(sel, "unsignedchar", <<1, 126, 128>>) :
            sel \in Each({"Scan sum", "Reduce Max", "Allreduce Min"}, {"halved"})}

(* Tests one after the other, most of them without a barrier in between.   *)
MixedSelections ==
  {Sound(<<"Gather", "Bcast", "Scatterv", "Alltoall">>, "world"),
   Sound(<<"Allreduce Min", "Scatter", "Reduce Max">>, "dup"),
   Sound(<<"Ring with Get", "Ring with Put", "Scatter">>, "world"),
   Sound(<<"put_lock", "accumulate_lock", "get_lock">>, "halved")}
    \cup {Twice(sel) : sel \in
            {Sound(<<"Bcast", "Allgather">>, "halved"), Sound(<<"get_post", "put_post">>, "halved"),
             Sound(<<"append_mode", "io_commself">>, "halved"),
             Sound(<<"write_shared", "read_at">>, "halved"), Sound(<<"io_sync">>, "halved")}}

(* The tests that do find out: not those that ignore the result of the     *)
(* comparison (allgather, the sums, all tests that write a file), compare  *)
(* a wrong buffer (alltoall), have the data before they come (bcast,       *)
(* scatterv), or combine them with data that hide them (the extremes).     *)
Readers ==
  {"read_at", "read_at_all", "iread_at", "read_at_all_begin", "read", "read_all", "iread",
   "read_all_begin", "read_shared", "iread_shared", "read_ordered", "read_ordered_begin",
   "read_darray", "read_subarray", "read_convert", "io_with_hole", "io_with_arrange", "io_atomic",
   "io_sync"}
Movers ==
  {"Gather", "Scatter", "Scan sum", "get_fence", "get_post", "get_lock", "put_fence", "put_post",
   "put_lock", "Ring with Get", "Ring with Get using Post", "Ring with Put"}
FaultySelections ==
  Faulty(Each(Movers, {"world"}) \cup Each(Readers, {"halved"})
           \cup Each({"read_shared", "read_ordered"}, {"reversed"})
           \cup {Sound(<<"Gather", "Ring with Get">>, "world")})

StoreSelections == EachSelections \cup LimitSelections \cup MixedSelections \cup FaultySelections

(* The programs that the theorems about StoreRun are about: those of       *)
(* all tests but one, in which a process opens a file that is named after  *)
(* another one without that one.                                           *)
OrderlySelections == {sel \in StoreSelections : "io_commself" \notin ToSet(sel.tests)}
Programs(selections) == {ProgramOf(sel) : sel \in selections}

ASSUME CallsAssumption ==
  \A pr \in Programs(OrderlySelections) : Orderly(pr) /\ Tidy(pr) /\ Collected(pr)

(* They have the outlines of their executions.                             *)
ASSUME OutlineAssumption == \A pr \in Programs(OrderlySelections) : Outlined(pr, OutlineOf(pr))
=============================================================================
