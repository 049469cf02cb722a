------------------------------- MODULE LibnetCq -------------------------------
(***************************************************************************)
(* libnet's queue of contexts (libnet_cq.c) and its lists of ports         *)
(* (libnet_port_list.c).  The queue is global: its nodes, the newest       *)
(* first, the number of nodes it believes to have, the write lock the      *)
(* iterator takes and never gives back, and the iterator's position (0:    *)
(* none).  Contexts are named by their number.                             *)
(***************************************************************************)
EXTENDS Integers, Sequences, SequencesExt

EmptyCq == [nodes |-> <<>>, node |-> 0, locked |-> FALSE, current |-> 0]

libnet_cq_dup_check(q, l, label) ==
    \E i \in DOMAIN q.nodes : q.nodes[i].l = l \/ q.nodes[i].label = label

\* The node count of an empty queue is set to 1, otherwise counted up.
libnet_cq_add(q, l, label) ==
    IF q.locked \/ libnet_cq_dup_check(q, l, label) THEN [q |-> q, r |-> -1]
    ELSE [q |-> [q EXCEPT !.nodes = <<[l |-> l, label |-> label]>> \o @,
                          !.node = IF q.nodes = <<>> THEN 1 ELSE @ + 1], r |-> 1]

\* The iterator: the context of its position, 0 behind the end.
libnet_cq_head(q) ==
    IF q.nodes = <<>> \/ q.locked THEN [q |-> q, r |-> 0]
    ELSE [q |-> [q EXCEPT !.locked = TRUE, !.current = 1], r |-> q.nodes[1].l]
libnet_cq_last(q) == q.current # 0

libnet_cq_next(q) ==
    IF q.current = 0 THEN [q |-> q, r |-> 0]
    ELSE IF q.current = Len(q.nodes) THEN [q |-> [q EXCEPT !.current = 0], r |-> 0]
    ELSE [q |-> [q EXCEPT !.current = @ + 1], r |-> q.nodes[q.current + 1].l]

\* A fault: the loop ends before the last node.
libnet_cq_destroy_short(q) == [i \in 1 .. Len(q.nodes) - 1 |-> q.nodes[i].l]

\* The contexts that libnet_cq_destroy destroys; queue and lock stay as they are.
libnet_cq_destroy(q) == [i \in DOMAIN q.nodes |-> q.nodes[i].l]

(***************************************************************************)
(* Ports.  A token is <<b>> (one port), <<b, e>> (b-e) or <<b, OpenEnd>>   *)
(* (b-, up to the last port); max is 65535.                                *)
(***************************************************************************)
OpenEnd == -1

\* A fault: the bounds of a pair are not exchanged.
PortPair_asgiven(token, max) ==
    <<token[1], IF Len(token) = 1 THEN token[1] ELSE IF token[2] = OpenEnd THEN max ELSE token[2]>>

PortPair(token, max) ==
    LET b == token[1]
        e == IF Len(token) = 1 THEN b ELSE IF token[2] = OpenEnd THEN max ELSE token[2]
    IN  IF b > e THEN <<e, b>> ELSE <<b, e>>

libnet_plist_chain_new(tokens, max) == [i \in DOMAIN tokens |-> PortPair(tokens[i], max)]

\* The ports of a pair in the order of the samples' loop: bport is 16 bits wide
\* and comes to 0 behind the last port, which ends the loop.
PortsOf(pair, max) ==
    LET next[p \in 0 .. max] == IF p = 0 \/ p > pair[2] THEN <<>>
                                ELSE <<p>> \o next[(p + 1) % (max + 1)]
    IN  next[pair[1]]

\* libnet_plist_chain_next_pair until it returns 0.
Ports(chain, max) == FlattenSeq([i \in DOMAIN chain |-> PortsOf(chain[i], max)])
=============================================================================
