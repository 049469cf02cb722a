----------------------------- MODULE FeedbackQueue -----------------------------
(***************************************************************************)
(* The way of a ping result from the ping thread to a browser.  Feedback   *)
(* (ui/ui.c) links a FEEDBACK record into feedback_list under fblock; the  *)
(* server thread, about every two seconds, lets mongoose call              *)
(* iterate_callback for each active connection, which looks at the list    *)
(* without the lock and, if it is not empty, drains it under the lock and  *)
(* writes the batch to that connection.                                    *)
(*                                                                         *)
(* The pointers are modelled (ListEntry), and the writes of InsertTailList *)
(* are separate steps, because the unlocked IsListEmpty can see the list   *)
(* between them.  A word of memory is read and written atomically and in   *)
(* program order, which the -O0 build on the project's target guarantees.  *)
(***************************************************************************)
EXTENDS ListEntry

CONSTANTS
  Nodes,       (* addresses malloc can return for a FEEDBACK                *)
  ListHead,    (* the address of feedback_list                              *)
  Conns,       (* connections that clients may open                         *)
  WebSockets,  (* those of them that are websockets                         *)
  NoNode,      (* no FEEDBACK in hand                                       *)
  MaxCalls     (* bound of the model on the calls of Feedback               *)

ASSUME QueueAssumption ==
  /\ ListHead \notin Nodes /\ NoNode \notin Nodes
  /\ WebSockets \subseteq Conns
  /\ MaxCalls \in Nat

VARIABLES
  m,         (* Flink and Blink of the head and of the nodes                *)
  data,      (* the seq and the kind of each FEEDBACK                       *)
  free,      (* nodes that are not allocated                                *)
  fblock,    (* who holds the write lock: "none", "ping" or "server"        *)
  ppc,       (* where the ping thread is in Feedback                        *)
  node,      (* the FEEDBACK that Feedback is about to queue                *)
  calls,     (* how many calls of Feedback were made                        *)
  cpc,       (* where the server thread is in its loop                      *)
  conns,     (* mongoose's active_connections, front first                  *)
  gone,      (* connections whose client has left without a word            *)
  todo,      (* connections the iteration has still to visit                *)
  batch,     (* the JSON array iterate_callback is building                 *)
  elapsed,   (* current_timer - last_timer, up to 2                         *)
  chain,     (* the nodes that are linked in, in order (history)            *)
  fed,       (* every result linked in so far (history)                     *)
  sent       (* every result written so far, and where to (history)         *)

ping == <<ppc, node, calls>>
loop == <<cpc, conns, gone, todo, elapsed>>
vars == <<m, data, free, fblock, ppc, node, calls, cpc, conns, gone, todo,
          batch, elapsed, chain, fed, sent>>

Addr == Nodes \cup {ListHead}
(* A result carries a round trip time or the text of an ICMP error.        *)
Kinds == {"triptime", "error"}
Results == [seq : 0 .. MaxCalls, kind : Kinds]

(* What iterate_callback puts into "content": triptime is an array inside  *)
(* FEEDBACK, so it is never NULL and always chosen; it is empty for an     *)
(* error.                                                                  *)
Content(r) == IF r.kind = "triptime" THEN "triptime" ELSE "empty"
Wire(r) == [seq |-> r.seq, content |-> Content(r)]
Wires == [seq : 0 .. MaxCalls, content : {"triptime", "empty"}]
--------------------------------------------------------------------------------
Init ==
  /\ m = InitializeListHead([Flink |-> [a \in Addr |-> a],
                             Blink |-> [a \in Addr |-> a]], ListHead)
  /\ data = [n \in Nodes |-> [seq |-> 0, kind |-> "error"]]
  /\ free = Nodes
  /\ fblock = "none"
  /\ ppc = "idle" /\ node = NoNode /\ calls = 0
  /\ cpc = "poll" /\ conns = <<>> /\ gone = {} /\ todo = <<>>
  /\ batch = <<>> /\ elapsed = 0
  /\ chain = <<>> /\ fed = <<>> /\ sent = <<>>
--------------------------------------------------------------------------------
(***************************************************************************)
(* Feedback, in the ping thread.                                           *)
(***************************************************************************)

(* The call with something to report: allocate and fill a FEEDBACK.        *)
Feedback(kind) ==
  /\ ppc = "idle" /\ calls < MaxCalls
  /\ \E n \in free :
       /\ free' = free \ {n}
       /\ data' = [data EXCEPT ![n] = [seq |-> calls + 1, kind |-> kind]]
       /\ node' = n
  /\ ppc' = "lock"
  /\ calls' = calls + 1
  /\ UNCHANGED <<m, fblock, batch, chain, fed, sent>> /\ UNCHANGED loop

(* The call with triptime 0 and no error text: logged, and returned from   *)
(* with the FEEDBACK neither queued nor freed.                             *)
Feedback_nothing ==
  /\ ppc = "idle" /\ calls < MaxCalls
  /\ \E n \in free : free' = free \ {n}
  /\ calls' = calls + 1
  /\ UNCHANGED <<m, data, fblock, ppc, node, batch, chain, fed, sent>>
  /\ UNCHANGED loop

(* Mutant: the list is changed without the lock.                           *)
Feedback_lock_none ==
  /\ ppc = "lock"
  /\ ppc' = "entry"
  /\ UNCHANGED <<m, data, free, fblock, node, calls, batch, chain, fed, sent>>
  /\ UNCHANGED loop

(* pthread_rwlock_wrlock(&fblock) *)
Feedback_lock ==
  /\ ppc = "lock" /\ fblock = "none"
  /\ fblock' = "ping"
  /\ ppc' = "entry"
  /\ UNCHANGED <<m, data, free, node, calls, batch, chain, fed, sent>>
  /\ UNCHANGED loop

(* InsertTailList: the fields of the new entry, which nobody sees yet.     *)
InsertTail_entry ==
  /\ ppc = "entry"
  /\ m' = LinkEntry(m, ListHead, node)
  /\ ppc' = "prev"
  /\ UNCHANGED <<data, free, fblock, node, calls, batch, chain, fed, sent>>
  /\ UNCHANGED loop

(* InsertTailList: Blink->Flink = Entry.  From here on a walk from the     *)
(* head, and the unlocked IsListEmpty, find the entry.                     *)
InsertTail_prev ==
  /\ ppc = "prev"
  /\ m' = SetFlink(m, m.Blink[ListHead], node)
  /\ chain' = Append(chain, node)
  /\ fed' = Append(fed, data[node])
  /\ ppc' = "head"
  /\ UNCHANGED <<data, free, fblock, node, calls, batch, sent>> /\ UNCHANGED loop

(* InsertTailList: ListHead->Blink = Entry.                                *)
InsertTail_head ==
  /\ ppc = "head"
  /\ m' = SetBlink(m, ListHead, node)
  /\ ppc' = "unlock"
  /\ UNCHANGED <<data, free, fblock, node, calls, batch, chain, fed, sent>>
  /\ UNCHANGED loop

Feedback_unlock ==
  /\ ppc = "unlock"
  /\ fblock' = "none"
  /\ ppc' = "idle" /\ node' = NoNode
  /\ UNCHANGED <<m, data, free, calls, batch, chain, fed, sent>>
  /\ UNCHANGED loop

PingStep ==
  \/ Feedback_lock \/ InsertTail_entry \/ InsertTail_prev \/ InsertTail_head
  \/ Feedback_unlock
--------------------------------------------------------------------------------
(***************************************************************************)
(* The server thread: run_server, mg_poll_server and iterate_callback.     *)
(***************************************************************************)
queue == <<m, data, free, fblock, batch, chain, fed, sent>>

(* A client connects and, on a connection of WebSockets, shakes hands;     *)
(* mongoose puts the connection in front.                                  *)
accept(c) ==
  /\ cpc = "poll"
  /\ c \notin gone /\ \A i \in DOMAIN conns : conns[i] # c
  /\ conns' = <<c>> \o conns
  /\ UNCHANGED <<cpc, gone, todo, elapsed>> /\ UNCHANGED ping /\ UNCHANGED queue

(* A client leaves, and the server does not know it yet; or it asks to be  *)
(* disconnected, or has been idle for too long.                            *)
leave(c) ==
  /\ c \notin gone /\ \E i \in DOMAIN conns : conns[i] = c
  /\ gone' = gone \cup {c}
  /\ UNCHANGED <<cpc, conns, todo, elapsed>> /\ UNCHANGED ping /\ UNCHANGED queue

(* mg_poll_server reads the end of the stream, or finds the connection     *)
(* marked or expired, and closes it.                                       *)
close_conn(c) ==
  /\ cpc = "poll" /\ c \in gone /\ \E i \in DOMAIN conns : conns[i] = c
  /\ conns' = SelectSeq(conns, LAMBDA d : d # c)
  /\ UNCHANGED <<cpc, gone, todo, elapsed>> /\ UNCHANGED ping /\ UNCHANGED queue

(* A second passes.                                                        *)
tick ==
  /\ elapsed < 2
  /\ elapsed' = elapsed + 1
  /\ UNCHANGED <<cpc, conns, gone, todo>> /\ UNCHANGED ping /\ UNCHANGED queue

(* run_server: current_timer - last_timer > 1, so the closure is sent to   *)
(* the control socket; the next poll finds it readable and runs it first.  *)
timer ==
  /\ cpc = "poll" /\ elapsed > 1
  /\ elapsed' = 0
  /\ cpc' = "check"
  /\ todo' = conns
  /\ UNCHANGED <<conns, gone>> /\ UNCHANGED ping /\ UNCHANGED queue

(* Mutant: the iteration ends with the first connection that takes nothing.*)
iterate_skip_break ==
  /\ cpc = "check" /\ todo # <<>>
  /\ Head(todo) \notin WebSockets \/ IsListEmpty(m, ListHead)
  /\ todo' = <<>>
  /\ UNCHANGED <<cpc, conns, gone, elapsed>> /\ UNCHANGED ping /\ UNCHANGED queue

(* iterate_callback returns at once: not a websocket, or IsListEmpty,      *)
(* which is read without the lock.                                         *)
iterate_skip ==
  /\ cpc = "check" /\ todo # <<>>
  /\ Head(todo) \notin WebSockets \/ IsListEmpty(m, ListHead)
  /\ todo' = Tail(todo)
  /\ UNCHANGED <<cpc, conns, gone, elapsed>> /\ UNCHANGED ping /\ UNCHANGED queue

iterate_enter ==
  /\ cpc = "check" /\ todo # <<>>
  /\ Head(todo) \in WebSockets /\ ~IsListEmpty(m, ListHead)
  /\ cpc' = "lock"
  /\ UNCHANGED <<conns, gone, todo, elapsed>> /\ UNCHANGED ping /\ UNCHANGED queue

(* execute_iteration has visited every connection.                         *)
iterate_done ==
  /\ cpc = "check" /\ todo = <<>>
  /\ cpc' = "poll"
  /\ UNCHANGED <<conns, gone, todo, elapsed>> /\ UNCHANGED ping /\ UNCHANGED queue

iterate_lock ==
  /\ cpc = "lock" /\ fblock = "none"
  /\ fblock' = "server"
  /\ cpc' = "drain"
  /\ UNCHANGED <<m, data, free, batch, chain, fed, sent>>
  /\ UNCHANGED <<conns, gone, todo, elapsed>> /\ UNCHANGED ping

(* Mutant: the first entry is reported and freed, and left in the list.    *)
iterate_drain_peek ==
  /\ cpc = "drain" /\ ~IsListEmpty(m, ListHead)
  /\ batch' = Append(batch, Wire(data[m.Flink[ListHead]]))
  /\ free' = free \cup {m.Flink[ListHead]}
  /\ UNCHANGED <<m, data, fblock, chain, fed, sent>> /\ UNCHANGED loop
  /\ UNCHANGED ping

(* One turn of the drain loop: RemoveHeadList, a JSON object, free.        *)
iterate_drain ==
  /\ cpc = "drain" /\ ~IsListEmpty(m, ListHead)
  /\ m' = RemoveHeadList(m, ListHead)
  /\ batch' = Append(batch, Wire(data[m.Flink[ListHead]]))
  /\ free' = free \cup {m.Flink[ListHead]}
  /\ chain' = Tail(chain)
  /\ UNCHANGED <<data, fblock, fed, sent>> /\ UNCHANGED loop /\ UNCHANGED ping

iterate_unlock ==
  /\ cpc = "drain" /\ IsListEmpty(m, ListHead)
  /\ fblock' = "none"
  /\ cpc' = "write"
  /\ UNCHANGED <<m, data, free, batch, chain, fed, sent>>
  /\ UNCHANGED <<conns, gone, todo, elapsed>> /\ UNCHANGED ping

(* Mutant: the result array is reused and not cleared.                     *)
iterate_write_keep ==
  /\ cpc = "write"
  /\ sent' = sent \o [i \in DOMAIN batch |-> [conn |-> Head(todo), msg |-> batch[i]]]
  /\ todo' = Tail(todo)
  /\ cpc' = "check"
  /\ UNCHANGED <<m, data, free, fblock, batch, chain, fed, conns, gone, elapsed>>
  /\ UNCHANGED ping

(* mg_websocket_write of the whole array to this connection, whether or    *)
(* not its client is still there.                                          *)
iterate_write ==
  /\ cpc = "write"
  /\ sent' = sent \o [i \in DOMAIN batch |-> [conn |-> Head(todo), msg |-> batch[i]]]
  /\ batch' = <<>>
  /\ todo' = Tail(todo)
  /\ cpc' = "check"
  /\ UNCHANGED <<m, data, free, fblock, chain, fed, conns, gone, elapsed>>
  /\ UNCHANGED ping

IterateStep ==
  \/ iterate_skip \/ iterate_enter \/ iterate_done \/ iterate_lock
  \/ iterate_drain \/ iterate_unlock \/ iterate_write
--------------------------------------------------------------------------------
Next ==
  \/ \E kind \in Kinds : Feedback(kind)
  \/ Feedback_nothing
  \/ PingStep
  \/ \E c \in Conns : accept(c) \/ leave(c) \/ close_conn(c)
  \/ tick \/ timer \/ IterateStep

Spec == Init /\ [][Next]_vars

(* Both threads are scheduled, time passes, and a thread that waits for    *)
(* fblock gets it: the other one gives it back, and glibc lets a blocked   *)
(* writer through.                                                         *)
Fairness ==
  /\ WF_vars(PingStep) /\ SF_vars(Feedback_lock)
  /\ WF_vars(tick) /\ WF_vars(timer)
  /\ WF_vars(IterateStep) /\ SF_vars(iterate_lock)

FairSpec == Spec /\ Fairness
--------------------------------------------------------------------------------
(***************************************************************************)
(* Properties.                                                             *)
(***************************************************************************)
(* Whenever no insertion is under way the Flink and Blink fields spell out *)
(* exactly the queued results, in both directions, although the list is    *)
(* looked at without the lock and its nodes are freed and allocated again; *)
(* a node that is linked in or about to be is not free: iterate_callback   *)
(* frees nothing that is still reachable.                                  *)
QueueSound ==
  /\ ppc \notin {"prev", "head"} => IsChain(m, ListHead, chain)
  /\ \A i \in DOMAIN chain : chain[i] \notin free
  /\ node \notin free

(* The results that were fed are those written, those drained and those    *)
(* still queued, in this order: none is lost in the server, written twice  *)
(* or overtaken.                                                           *)
Conservation ==
  [i \in DOMAIN fed |-> Wire(fed[i])]
    = [i \in DOMAIN sent |-> sent[i].msg] \o batch
        \o [i \in DOMAIN chain |-> Wire(data[chain[i]])]

Channel == INSTANCE FeedbackChannel WITH
  Messages <- Wires,
  in <- [i \in DOMAIN fed |-> Wire(fed[i])],
  out <- [i \in DOMAIN sent |-> sent[i].msg]

(* Seen from outside, the list is a first-in first-out channel that        *)
(* delivers every result once.                                             *)
ImplementsChannel == Channel!Spec

(* A result that was fed is written to some websocket, unless there is     *)
(* none at some moment: wherever the websocket stands among the            *)
(* connections, an iteration gets to it.                                   *)
FedIsWritten ==
  \A k \in 1 .. MaxCalls :
    Len(fed) >= k ~>
      \/ Len(sent) >= k
      \/ \A i \in DOMAIN conns : conns[i] \notin WebSockets

================================================================================
