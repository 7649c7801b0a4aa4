----------------------------- MODULE MCSuiteRun -----------------------------
(* Selections for the loop of main: tests on communicators, with two       *)
(* numbers of values, so that every test runs twice in a row.              *)
EXTENDS SuiteRun

Twice(tests, comms) ==
  [tests |-> tests, comms |-> comms, types |-> <<0>>, values |-> <<1, 2>>, threads |-> 0]
Once(tests, comms) == [Twice(tests, comms) EXCEPT !.values = <<1>>]

Each(tests, comms) == {Twice(<<t>>, <<c>>) : t \in tests, c \in comms}

Names(class) == {Table[n].name : n \in {k \in DOMAIN Table : class \in Table[k].comms}}

(* The tests that receive or probe with MPI_ANY_SOURCE.                     *)
Wild == {"Many-to-one", "Many-to-one Probe", "Many-to-one Iprobe", "Alltoall Probe"}
Threaded == {"Threaded ring"}
Dynamic == {"establish_communication_alltoall"}
Rings == Names("self") \ Threaded
Alltoalls == Names("intra") \ (Wild \cup Rings \cup Threaded \cup Dynamic \cup {"Many-to-one Cancellation"})

RingSelections == Each(Rings, {"self", "reversed", "halved", "oddeven"})
AlltoallSelections ==
  Each(Alltoalls, {"halved"}) \cup {Once(<<"Alltoall Issend">>, <<"reversed">>)}
AnysourceSelections ==
  Each({"Many-to-one Probe", "Many-to-one Iprobe", "Alltoall Probe"}, {"world"})
CancelSelections == {Once(<<"Many-to-one Cancellation">>, <<"world">>)}
InterSelections ==
  Each(Names("inter") \ {"Many-to-one"}, {"inter"}) \cup {Once(<<"Many-to-one">>, <<"inter">>)}
TopologySelections == Each({"Ring cart", "Alltoall topo"}, {"cart2", "cart3", "graph"})
MixedSelections ==
  {Once(<<"Many-to-one", "Ring Sendrecv", "Alltoall Probe", "Ring Bsend">>, <<"dup", "merged">>),
   Once(<<"Ring Ssend", "Alltoall Irsend", "Many-to-one Iprobe", "Alltoall Issend">>, <<"world">>)}
DynamicSelections == Each(Dynamic, {"halved"}) \cup {Once(<<d>>, <<"reversed">>) : d \in Dynamic}
WithThreads(sel) == [sel EXCEPT !.threads = 1]
ThreadSelections ==
  {WithThreads(sel) : sel \in {Once(<<"Threaded ring">>, <<"world">>),
                               Twice(<<"Ring Bsend">>, <<"halved">>),
                               Once(<<"Threaded ring", "Ring Bsend">>, <<"halved">>)}}
UsualSelections ==
  RingSelections \cup AlltoallSelections \cup AnysourceSelections \cup CancelSelections
    \cup InterSelections \cup TopologySelections \cup MixedSelections \cup ThreadSelections
    \cup DynamicSelections
UnsynchronisedSelections ==
  {WithThreads(Once(<<"Many-to-one Iprobe", "Ring Sendrecv">>, <<"world">>))}
ManyToOneSelections == {Twice(<<"Many-to-one">>, <<"world">>)}

(* The programs that the theorems of SuiteRunProofs are about: those of    *)
(* every test that names the source of its receives, and, but for the ones *)
(* with buffered sends and ports, with nothing left, and, but for those    *)
(* with ready sends, without a fault.                                      *)
Sole(sels, without) == {sel \in sels : Len(sel.tests) = 1 /\ sel.tests[1] \notin without}
DirectSelections == Sole(UsualSelections, Wild \cup {"Many-to-one Cancellation"})
ExchangeSelections == Sole(DirectSelections, {"Ring Ibsend", "Ring Bsend"} \cup Dynamic)
PlainSelections == Sole(ExchangeSelections, {"Ring Irsend", "Ring Rsend", "Alltoall Irsend"})

ASSUME PairingAssumption ==
  /\ \A pr \in {ProgramOf(sel) : sel \in DirectSelections} : Direct(pr) /\ Paired(pr)
  /\ \A pr \in {ProgramOf(sel) : sel \in ExchangeSelections} : Exchanges(pr) /\ Waited(pr)
  /\ \A pr \in {ProgramOf(sel) : sel \in PlainSelections} : Plain(pr)
=============================================================================
