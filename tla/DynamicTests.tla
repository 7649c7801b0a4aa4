---------------------------- MODULE DynamicTests ----------------------------
(***************************************************************************)
(* dynamic/tst_establish_communication.c: each process in turn opens a     *)
(* port and publishes its name; all others look it up and connect to it    *)
(* together.  Then each sends to all others over these connections.        *)
(*                                                                         *)
(* MPI_Comm_create, which makes the groups of clients, does not have to    *)
(* wait for anybody, and is no step.  Nobody uses the result of the        *)
(* comparison that ends the test; the receives notice if data of another   *)
(* run come, as in all tests.                                              *)
(***************************************************************************)
EXTENDS P2PTests

(* The connection to the server of rank i: the clients are the others, in  *)
(* the order of their ranks (MPI_Group_excl).                              *)
PortOf(x, i) == <<"port", x.peers[i + 1], x.run>>
ToServer(x, i) == [x EXCEPT !.peers = <<x.peers[i + 1]>>, !.ctx = PortOf(x, i)]
FromClients(x) ==
  [x EXCEPT !.peers = SelectSeq(x.peers, LAMBDA q : q # x.peers[x.rank + 1]),
            !.ctx = PortOf(x, x.rank)]

(* MPI_Comm_accept of the server meets MPI_Comm_connect of the clients; so *)
(* do the calls of MPI_Comm_disconnect.                                    *)
Together(x, call, i) == << [op |-> "barrier", name |-> <<call, PortOf(x, i)>>, group |-> x.group] >>

OpenPort(x) == << [op |-> "publish"] >>
LookupPort(x, i) == << [op |-> "lookup", of |-> x.peers[i + 1]] >>
ClosePort(x) == << [op |-> "unpublish"] >>

(* MPI_Allgather of the names to publish: who has all of them has waited   *)
(* for everybody.                                                          *)
NamesOfAll(x) == << [op |-> "barrier", name |-> <<"allgather", x.ctx>>, group |-> x.group] >>

ConnectUnordered(x, i) ==
  (IF i = x.rank THEN Barrier(x) \o OpenPort(x) ELSE Barrier(x) \o LookupPort(x, i))
  \o Together(x, "connect", i)
Connect(x, i) ==
  (IF i = x.rank THEN OpenPort(x) \o Barrier(x) ELSE Barrier(x) \o LookupPort(x, i))
  \o Together(x, "connect", i)

(* The j-th client has the j-th rank but the server's own, and this rank   *)
(* is the tag of its message.                                              *)
Receive(x) ==
  LET ranks == SelectSeq([k \in 1..x.size |-> k - 1], LAMBDA k : k # x.rank)
  IN  FlattenSeq([j \in DOMAIN ranks |-> Recv(FromClients(x), j - 1, ranks[j])])

Exchange(x, i) ==
  IF i = x.rank THEN Receive(x) ELSE Send(ToServer(x, i), "standard", 0, x.rank)

Disconnect(x, i) ==
  Together(x, "disconnect", i) \o (IF i = x.rank THEN ClosePort(x) ELSE << >>)

EstablishCommunication(x) ==
  Test(NamesOfAll(x) \o EachPeer(x, LAMBDA i : Connect(x, i)),
       EachPeer(x, LAMBDA i : Exchange(x, i)),
       EachPeer(x, LAMBDA i : Disconnect(x, i)))
=============================================================================
