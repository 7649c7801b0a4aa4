--------------------------- MODULE MCThreadSignal ---------------------------
(* The scripts of the threads: those of the tests that use signals, and    *)
(* those that use the interface in ways its comments allow.                *)
EXTENDS ThreadSignal

wait(g) == [op |-> "wait", tag |-> g]
send(g) == [op |-> "send", tag |-> g]

(* tst_threaded_ring_isend.c: thread 0 starts the requests, thread 1 waits *)
(* for them; a bystander does neither.                                     *)
RingIsend == [t \in Thread |-> CASE t = 0 -> <<send(0), wait(1)>>
                                 [] t = 1 -> <<wait(0), send(1)>>
                                 [] OTHER -> << >>]

(* As many sends of one tag as threads that wait for it.                   *)
OneTag == [t \in Thread |-> IF t < 2 THEN <<send(0)>> ELSE <<wait(0)>>]

(* tst_threaded_ring_partitioned_many_to_one_isend.c with four workers:    *)
(* worker 0 releases the three that share its partition.                   *)
ManyToOne == [t \in Thread |-> IF t = 0 THEN <<send(1), send(2), send(3)>>
                               ELSE <<wait(t)>>]

(* A tag that signal_init did not create.                                  *)
BadTag == [t \in Thread |-> CASE t = 0 -> <<send(0), send(NumSignals)>>
                              [] t = 1 -> <<wait(0), send(1)>>
                              [] OTHER -> <<wait(1)>>]

Usual == {RingIsend, OneTag, ManyToOne, BadTag}
Ring == {RingIsend}
=============================================================================
