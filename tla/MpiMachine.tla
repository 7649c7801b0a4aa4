----------------------------- MODULE MpiMachine -----------------------------
(***************************************************************************)
(* Point-to-point communication as MPI defines it, which is what the test  *)
(* programs of the suite run against.  An actor is a thread of a process;  *)
(* it executes a program, a sequence of operations.  The messages from one *)
(* process to another wait in a channel until a receive takes them: which  *)
(* of several senders a wildcard receive or a probe meets, and when, is    *)
(* free, but two messages of one channel that match the same receive are   *)
(* taken in the order they were sent.                                      *)
(*                                                                         *)
(* Every operation carries the run (the combination of test, communicator, *)
(* type and number of values) it belongs to.  The check of the received    *)
(* data in a test fails exactly if the message belongs to another run.     *)
(***************************************************************************)
EXTENDS Integers, SequencesExt, FiniteSetsExt

CONSTANTS Proc,       \* the processes
          Thread,     \* the threads of a process
          Programs    \* the programs, one of which every actor executes:
                      \* a set of functions [Proc \X Thread -> Seq(operation)]

Actor == Proc \X Thread
ProcOf(a) == a[1]
Wildcard == -2             \* MPI_ANY_SOURCE, MPI_ANY_TAG

VARIABLES
  program,    \* what the actors execute
  names,      \* the published names of ports: the processes that have one
  ip,         \* the next operation of an actor
  channel,    \* messages sent and not received, per pair of processes
  posted,     \* receives posted and not matched, per process, oldest first
  pending,    \* the operations whose requests an actor has not completed
  probed,     \* the message a probe has found
  count,      \* probed messages an actor has received in this run
  room,       \* messages that the attached buffer of a process holds
  cancelled,  \* the <<actor, run>> whose send was cancelled
  faults      \* what a test program has done or found wrong

vars == <<program, names, ip, channel, posted, pending, probed, count, room, cancelled, faults>>

Fault == {"foreign",    \* the data received are those of another run
          "notready",   \* a ready send without a receive posted for it
          "overflow",   \* a buffered send without space in the buffer
          "name"}       \* a name published twice, or used without being published

NoMessage == [src |-> Wildcard, tag |-> Wildcard]

(* Every variable has its type; a posted receive and its request belong to *)
(* the same thread, and a request to a call the thread has made.           *)
TypeOK ==
  /\ program \in Programs
  /\ \A a \in Actor : /\ ip[a] \in 1..(Len(program[a]) + 1)
                      /\ \A i \in pending[a] : i < ip[a] /\ program[a][i].op \in {"isend", "irecv"}
  /\ \A p \in Proc : \A r \in ToSet(posted[p]) : ProcOf(r.by) = p /\ r.at \in pending[r.by]
  /\ \A p, q \in Proc : \A m \in ToSet(channel[p][q]) : ProcOf(m.by) = p
  /\ names \subseteq Proc
  /\ count \in [Actor -> Nat]
  /\ room \in [Proc -> Nat]
  /\ faults \subseteq Fault

Init ==
  /\ program \in Programs
  /\ names = {}
  /\ ip = [a \in Actor |-> 1]
  /\ channel = [p \in Proc |-> [q \in Proc |-> << >>]]
  /\ posted = [p \in Proc |-> << >>]
  /\ pending = [a \in Actor |-> {}]
  /\ probed = [a \in Actor |-> NoMessage]
  /\ count = [a \in Actor |-> 0]
  /\ room = [p \in Proc |-> 0]
  /\ cancelled = {}
  /\ faults = {}

Ended(a) == ip[a] > Len(program[a])
Op(a) == program[a][ip[a]]
Executes(a, op) == ~Ended(a) /\ Op(a).op = op
GoOn(a) == ip' = [ip EXCEPT ![a] = @ + 1]

Blame(fault, condition) == faults' = IF condition THEN faults \cup {fault} ELSE faults

-----------------------------------------------------------------------------
(* Matching.                                                               *)

Matches(r, src, m) == r.ctx = m.ctx /\ r.src \in {src, Wildcard} /\ r.tag \in {m.tag, Wildcard}

(* The message of the channel from src to q that r would receive, and the  *)
(* receive of q that would take m: positions, 0 if there is none.          *)
FirstIn(src, q, r) == SelectInSeq(channel[src][q], LAMBDA m : Matches(r, src, m))
FirstFor(q, src, m) == SelectInSeq(posted[q], LAMBDA r : Matches(r, src, m))

(* More receives are posted for m than messages of its channel can take.   *)
ReceivePosted(src, q, m) ==
  LET For == {r \in ToSet(posted[q]) : Matches(r, src, m)}
  IN  Cardinality(For) > Cardinality({i \in DOMAIN channel[src][q] :
                           \E r \in For : Matches(r, src, channel[src][q][i])})

Buffered(p) ==
  MapThenSumSet(LAMBDA q : Len(SelectSeq(channel[p][q], LAMBDA m : m.mode = "buffered")), Proc)

(* Whether a send may complete before it is matched.                       *)
MayBeEager(mode) == CASE mode = "sync" -> {FALSE}
                      [] mode = "standard" -> BOOLEAN
                      [] mode \in {"buffered", "ready"} -> {TRUE}

(* The requests in R, pairs of an actor and an operation, complete.        *)
Complete(R) == pending' = [a \in Actor |-> {i \in pending[a] : <<a, i>> \notin R}]

(* A message of the channel meets the receive it belongs to: of those that *)
(* match each other, both are the oldest.                                  *)
Match(src, q) ==
  \E i \in DOMAIN channel[src][q] :
    LET m == channel[src][q][i]
        k == FirstFor(q, src, m)
        r == posted[q][k]
    IN  /\ k # 0
        /\ FirstIn(src, q, r) = i
        /\ Complete({<<m.by, m.at>>, <<r.by, r.at>>})
        /\ Blame("foreign", m.run # r.run)
        /\ channel' = [channel EXCEPT ![src][q] = RemoveAt(@, i)]
        /\ posted' = [posted EXCEPT ![q] = RemoveAt(@, k)]
        /\ UNCHANGED <<program, names, ip, probed, count, room, cancelled>>

-----------------------------------------------------------------------------
(* Operations of one actor.                                                *)

Isend(a) ==
  LET o == Op(a)
      p == ProcOf(a)
      m == [by |-> a, at |-> ip[a], ctx |-> o.ctx, tag |-> o.tag, mode |-> o.mode, run |-> o.run]
  IN  /\ Executes(a, "isend")
      /\ channel' = [channel EXCEPT ![p][o.to] = Append(@, m)]
      /\ \E eager \in MayBeEager(o.mode) :
           pending' = IF eager THEN pending ELSE [pending EXCEPT ![a] = @ \cup {ip[a]}]
      /\ CASE o.mode = "ready" -> Blame("notready", ~ReceivePosted(p, o.to, m))
           [] o.mode = "buffered" -> Blame("overflow", Buffered(p) >= room[p])
           [] OTHER -> UNCHANGED faults
      /\ GoOn(a)
      /\ UNCHANGED <<program, names, posted, probed, count, room, cancelled>>

IrecvWithoutRequest(a) ==
  LET o == Op(a)
      r == [by |-> a, at |-> ip[a], src |-> o.src, ctx |-> o.ctx, tag |-> o.tag, run |-> o.run]
  IN  /\ Executes(a, "irecv")
      /\ posted' = [posted EXCEPT ![ProcOf(a)] = Append(@, r)]
      /\ GoOn(a)
      /\ UNCHANGED <<program, names, channel, pending, probed, count, room, cancelled, faults>>

Irecv(a) ==
  LET o == Op(a)
      r == [by |-> a, at |-> ip[a], src |-> o.src, ctx |-> o.ctx, tag |-> o.tag, run |-> o.run]
  IN  /\ Executes(a, "irecv")
      /\ posted' = [posted EXCEPT ![ProcOf(a)] = Append(@, r)]
      /\ pending' = [pending EXCEPT ![a] = @ \cup {ip[a]}]
      /\ GoOn(a)
      /\ UNCHANGED <<program, names, channel, probed, count, room, cancelled, faults>>

(* Wait, Waitall, or the return of a blocking call, for the requests of    *)
(* some kinds in a context.                                                *)
Wait(a) ==
  /\ Executes(a, "wait")
  /\ \A i \in pending[a] :
       program[a][i].op \notin Op(a).kinds \/ program[a][i].ctx # Op(a).ctx
  /\ GoOn(a)
  /\ UNCHANGED <<program, names, channel, posted, pending, probed, count, room, cancelled, faults>>

(* All members of a group leave a barrier when all have entered it.        *)
Barrier(a) ==
  /\ Executes(a, "barrier")
  /\ \A b \in Op(a).group : Executes(b, "barrier") /\ Op(b) = Op(a)
  /\ ip' = [b \in Actor |-> IF b \in Op(a).group THEN ip[b] + 1 ELSE ip[b]]
  /\ UNCHANGED <<program, names, channel, posted, pending, probed, count, room, cancelled, faults>>

(* A probe of any source and tag reports a message.                        *)
ProbeFinds(a) ==
  \E src \in Proc :
    LET i == FirstIn(src, ProcOf(a), [src |-> Wildcard, ctx |-> Op(a).ctx, tag |-> Wildcard])
    IN  /\ i # 0
        /\ probed' = [probed EXCEPT ![a] = [src |-> src, tag |-> channel[src][ProcOf(a)][i].tag]]
        /\ GoOn(a)
        /\ UNCHANGED <<program, names, channel, posted, pending, count, room, cancelled, faults>>

(* MPI_Iprobe: the receive that follows is skipped if flag is 0.           *)
Iprobe(a) ==
  /\ Executes(a, "iprobe")
  /\ \/ ProbeFinds(a)
     \/ /\ ip' = [ip EXCEPT ![a] = @ + 2]
        /\ UNCHANGED <<program, names, channel, posted, pending, probed, count, room, cancelled, faults>>

(* MPI_Probe at the head of a loop that ends with o.times messages.        *)
Probe(a) ==
  /\ Executes(a, "probe")
  /\ IF count[a] < Op(a).times
     THEN ProbeFinds(a)
     ELSE /\ count' = [count EXCEPT ![a] = 0]
          /\ ip' = [ip EXCEPT ![a] = @ + 2]
          /\ UNCHANGED <<program, names, channel, posted, pending, probed, room, cancelled, faults>>

(* MPI_Recv with the source and the tag of the status of the probe.        *)
RecvProbed(a) ==
  LET q == ProcOf(a)
      src == probed[a].src
      i == FirstIn(src, q, [src |-> src, ctx |-> Op(a).ctx, tag |-> probed[a].tag])
      m == channel[src][q][i]
  IN  /\ Executes(a, "recvprobed")
      /\ i # 0
      /\ channel' = [channel EXCEPT ![src][q] = RemoveAt(@, i)]
      /\ Complete({<<m.by, m.at>>})
      /\ Blame("foreign", m.run # Op(a).run)
      /\ count' = [count EXCEPT ![a] = @ + 1]
      /\ probed' = [probed EXCEPT ![a] = NoMessage]
      /\ ip' = [ip EXCEPT ![a] = @ + Op(a).step]
      /\ UNCHANGED <<program, names, posted, room, cancelled>>

(* MPI_Cancel of the send before it: it succeeds only if the message has   *)
(* not been received.                                                      *)
CancelSend(a) ==
  LET p == ProcOf(a)
      o == program[a][ip[a] - 1]
      i == SelectInSeq(channel[p][o.to], LAMBDA m : m.by = a /\ m.at = ip[a] - 1)
  IN  /\ Executes(a, "cancelsend")
      /\ \/ /\ i # 0
            /\ channel' = [channel EXCEPT ![p][o.to] = RemoveAt(@, i)]
            /\ Complete({<<a, ip[a] - 1>>})
            /\ cancelled' = cancelled \cup {<<p, o.run>>}
         \/ UNCHANGED <<channel, pending, cancelled>>
      /\ GoOn(a)
      /\ UNCHANGED <<program, names, posted, probed, count, room, faults>>

(* MPI_Cancel of the receives from processes whose send was cancelled.     *)
CancelRecvs(a) ==
  LET p == ProcOf(a)
      Void(r) == r.by = a /\ <<r.src, r.run>> \in cancelled
  IN  /\ Executes(a, "cancelrecvs")
      /\ posted' = [posted EXCEPT ![p] = SelectSeq(@, LAMBDA r : ~Void(r))]
      /\ Complete({<<a, r.at>> : r \in {s \in ToSet(posted[p]) : Void(s)}})
      /\ GoOn(a)
      /\ UNCHANGED <<program, names, channel, probed, count, room, cancelled, faults>>

(* MPI_Buffer_attach of a buffer for o.messages messages, and              *)
(* MPI_Buffer_detach, which waits until it is empty.                       *)
Attach(a) ==
  /\ Executes(a, "attach")
  /\ room' = [room EXCEPT ![ProcOf(a)] = Op(a).messages]
  /\ GoOn(a)
  /\ UNCHANGED <<program, names, channel, posted, pending, probed, count, cancelled, faults>>

Detach(a) ==
  /\ Executes(a, "detach")
  /\ Buffered(ProcOf(a)) = 0
  /\ room' = [room EXCEPT ![ProcOf(a)] = 0]
  /\ GoOn(a)
  /\ UNCHANGED <<program, names, channel, posted, pending, probed, count, cancelled, faults>>

(* MPI_Publish_name, _Unpublish_name and _Lookup_name: the name of a port   *)
(* is made of the rank of the process that has opened it.                  *)
Publish(a) ==
  /\ Executes(a, "publish")
  /\ Blame("name", ProcOf(a) \in names)
  /\ names' = names \cup {ProcOf(a)}
  /\ GoOn(a)
  /\ UNCHANGED <<program, channel, posted, pending, probed, count, room, cancelled>>

Unpublish(a) ==
  /\ Executes(a, "unpublish")
  /\ Blame("name", ProcOf(a) \notin names)
  /\ names' = names \ {ProcOf(a)}
  /\ GoOn(a)
  /\ UNCHANGED <<program, channel, posted, pending, probed, count, room, cancelled>>

Lookup(a) ==
  /\ Executes(a, "lookup")
  /\ Blame("name", Op(a).of \notin names)
  /\ GoOn(a)
  /\ UNCHANGED <<program, names, channel, posted, pending, probed, count, room, cancelled>>

Step(a) ==
  \/ Isend(a) \/ Irecv(a) \/ Wait(a) \/ Barrier(a) \/ Iprobe(a) \/ Probe(a)
  \/ RecvProbed(a) \/ CancelSend(a) \/ CancelRecvs(a) \/ Attach(a) \/ Detach(a)
  \/ Publish(a) \/ Unpublish(a) \/ Lookup(a)

Finished == \A a \in Actor : Ended(a)

Over == Finished /\ UNCHANGED vars

Next ==
  \/ \E a \in Actor : Step(a)
  \/ \E src, q \in Proc : Match(src, q)
  \/ Over

Spec == Init /\ [][Next]_vars

(* Something happens as long as something can; no actor is promised more,  *)
(* for none can go on for ever while another one waits for its turn.       *)
FairSpec == Spec /\ WF_vars(Next)
=============================================================================
