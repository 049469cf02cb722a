----------------------------- MODULE CaptureRing -----------------------------
(***************************************************************************)
(* Reading captured packets on Linux (libpcap, pcap-linux.c): the ring     *)
(* that the kernel and the reader share (TPACKET_V1, V2: a packet a slot,  *)
(* TPACKET_V3: a block of packets a slot) or, without a ring, the queue of *)
(* the socket; changing the filter while packets are already waiting; the  *)
(* loop around the reads and its interruption.                             *)
(***************************************************************************)
EXTENDS Integers, Sequences, FiniteSets

CONSTANTS
  Modes,               \* ways of reading: [version ("V1", "V2", "V3", "socket"),
                       \* cooked, timeout that the handle was opened with]
  cc,                  \* slots of the ring
  BlockRoom,           \* packets that a block of a V3 ring holds
  QueueRoom,           \* packets that the queue of the socket holds
  snapshot,            \* the snapshot length
  Kinds,               \* kinds of packets: [tag, out, lo, len, vlan, bad]; bad: "no", or what is wrong
                       \* with its frame ("corrupt": its place; "room": none for a cooked header)
  Filters,             \* filters: [tags, reads, ret, long]
  Counts,              \* the counts that the application asks for
  MaxPackets, MaxSettings, MaxBreaks     \* bounds of the exploration

FilterType == [tags : SUBSET {k.tag : k \in Kinds}, reads : SUBSET Int, ret : Nat, long : BOOLEAN]

ASSUME RingAssumption ==
  /\ cc \in Nat \ {0} /\ BlockRoom \in Nat \ {0} /\ QueueRoom \in Nat \ {0}
  /\ MaxPackets \in Nat /\ MaxSettings \in Nat /\ MaxBreaks \in Nat
  /\ Modes \subseteq [version : {"V1", "V2", "V3", "socket"}, cooked : BOOLEAN, timeout : Int]
  /\ \A k \in Kinds : k.len \in Nat
  /\ Filters \subseteq FilterType
  /\ Counts \subseteq Int

\* pcap_compile ends a filter with a return of the snapshot length; neither
\* that nor a tagged packet ends before the place of the tag, and a packet is
\* not longer than what the kernel's filter can return.
ASSUME LengthAssumption ==
  /\ snapshot \in Nat
  /\ \A k \in Kinds : k.len <= 65535 /\ (k.vlan => k.len >= 14)
  /\ \A f \in Filters : f.ret >= snapshot /\ f.ret >= 14

VARIABLES
  how,     \* how the handle reads: version, cooked mode, offset of a VLAN tag
  ring,    \* the slots: who owns it, the packets in it
  kern,    \* the kernel: filter on the socket, slot it fills, queue of the
           \* socket, next packet
  h,       \* the handle
  call,    \* the call that the application's thread is in
  fate,    \* history: what became of each packet that arrived
  last     \* history: the packet that this step handed to the callback

capture == <<how, ring, kern, h, call, fate, last>>

Lesser(a, b) == IF a < b THEN a ELSE b
NoFilter == [tags |-> {k.tag : k \in Kinds}, reads |-> {}, ret |-> 65535, long |-> FALSE]
TotalFilter == [NoFilter EXCEPT !.tags = {}, !.ret = 0]
Passes(f, kind) == kind.tag \in f.tags
SLL_HDR_LEN == 16
VLAN_TAG_LEN == 4
InRing == how.version # "socket"
Nothing == [id |-> 0]
Idle == [op |-> "idle"]
Slot(user, pkts) == [user |-> user, pkts |-> pkts]
NextSlot(s) == (s + 1) % cc
PrevSlot(s) == IF s = 0 THEN cc - 1 ELSE s - 1

(***************************************************************************)
(* A packet that waits: its kind and the lengths that the kernel gives     *)
(* with it.  A filter that is on the socket cuts the packet to what it     *)
(* returns; the ring tells the length before the cut, the queue does not.  *)
(***************************************************************************)
Stored(id, kind, f) ==
  [id |-> id, kind |-> kind, snap |-> Lesser(kind.len, f.ret),
   len |-> IF InRing THEN kind.len ELSE Lesser(kind.len, f.ret)]

CaptureInit ==
  \E m \in Modes :
    /\ how = [version |-> m.version, cooked |-> m.cooked, vlan_offset |-> IF m.cooked THEN 14 ELSE 12]
    /\ ring = [s \in 0 .. cc - 1 |-> Slot(FALSE, <<>>)]
    /\ kern = [filter |-> NoFilter, head |-> 0, queue |-> <<>>, next |-> 1]
    /\ h = [offset |-> 0, filtering_in_kernel |-> 0, fcode |-> NoFilter, direction |-> "inout",
            break_loop |-> FALSE, timeout |-> m.timeout, nonblock |-> FALSE, current |-> 0, left |-> 0,
            settings |-> 0, breaks |-> 0, applied |-> TRUE, since |-> 1, drained |-> TRUE,
            stuck |-> FALSE]
    /\ call = Idle
    /\ fate = [i \in 1 .. MaxPackets |-> "none"]
    /\ last = Nothing

(***************************************************************************)
(* The kernel.                                                             *)
(***************************************************************************)
Full == IF InRing THEN ring[kern.head].user ELSE Len(kern.queue) = QueueRoom

\* A packet arrives: refused by the filter, dropped, or stored.
Arrive ==
  /\ kern.next <= MaxPackets
  /\ \E kind \in Kinds :
     LET id == kern.next
         p == Stored(id, kind, kern.filter)
         pkts == Append(ring[kern.head].pkts, p)
         whole == how.version # "V3" \/ Len(pkts) = BlockRoom
     IN IF ~Passes(kern.filter, kind) \/ Full
        THEN /\ kern' = [kern EXCEPT !.next = id + 1]
             /\ fate' = [fate EXCEPT ![id] = "lost"]
             /\ UNCHANGED ring
        ELSE /\ fate' = [fate EXCEPT ![id] = "stored"]
             /\ IF InRing
                THEN /\ ring' = [ring EXCEPT ![kern.head] = Slot(whole, pkts)]
                     /\ kern' = [kern EXCEPT !.next = id + 1,
                                             !.head = IF whole THEN NextSlot(@) ELSE @]
                ELSE /\ kern' = [kern EXCEPT !.next = id + 1, !.queue = Append(@, p)]
                     /\ UNCHANGED ring
  /\ UNCHANGED <<how, h, call>> /\ last' = Nothing

\* A block of a V3 ring is handed over before it is full, by the kernel's timer.
Retire ==
  /\ how.version = "V3" /\ ~ring[kern.head].user /\ ring[kern.head].pkts # <<>>
  /\ ring' = [ring EXCEPT ![kern.head].user = TRUE]
  /\ kern' = [kern EXCEPT !.head = NextSlot(@)]
  /\ UNCHANGED <<how, h, call, fate>> /\ last' = Nothing

(***************************************************************************)
(* One packet.                                                             *)
(***************************************************************************)
\* An outgoing packet of the loopback device comes in as well and is seen then.
linux_check_direction(kind, direction) ==
  IF kind.out THEN ~kind.lo /\ direction # "in" ELSE direction # "out"

pcap_get_ring_frame(s, user) == ring[s].user = user

\* The filter is run on every packet, or, when it is in the kernel, on as
\* many as were counted when it was set.
\* Mutant: one packet too few.
run_bpf_late(counter) == counter = 0 \/ counter > 2
run_bpf(counter) == counter = 0 \/ counter > 1
Counted(counter) == IF counter > 1 THEN counter - 1 ELSE counter

\* A ring in cooked mode runs the filter on bytes before which the header that
\* the filter was compiled for is not built yet: its verdict can be any.
bpf_filter(kind) == IF how.cooked /\ InRing THEN BOOLEAN ELSE {Passes(h.fcode, kind)}

\* A V1 ring does not tell the tag; a packet cut before the place of the tag
\* does not get it.
CookedHeader == IF how.cooked THEN SLL_HDR_LEN ELSE 0
Tagged(p) == /\ p.kind.vlan /\ how.version # "V1"
             /\ (IF InRing THEN p.snap ELSE p.len + CookedHeader) >= how.vlan_offset
Added(p) == CookedHeader + (IF Tagged(p) THEN VLAN_TAG_LEN ELSE 0)

Header(p) ==
  [id |-> p.id, kind |-> p.kind, fcode |-> h.fcode, direction |-> h.direction,
   len |-> p.len + Added(p),
   caplen |-> Lesser((IF InRing THEN p.snap ELSE p.len) + Added(p), snapshot)]

pcap_handle_packet_mmap(p, verdict) ==
  IF p.kind.bad = "corrupt" THEN -1
  ELSE IF run_bpf(h.filtering_in_kernel) /\ ~verdict THEN 0
  ELSE IF ~linux_check_direction(p.kind, h.direction) THEN 0
  ELSE IF p.kind.bad = "room" /\ how.cooked THEN -1 ELSE 1

\* A corrupt frame is refused before it is counted.
CountedFor(p) == IF p.kind.bad = "corrupt" THEN h.filtering_in_kernel ELSE Counted(h.filtering_in_kernel)

\* The histories after a packet was looked at with result ret: it waits on in
\* a ring when that failed, and is gone from the queue of a socket.
Settled(p, ret) ==
  [fate EXCEPT ![p.id] = IF @ \notin {"stored", "back"} THEN "again"
                         ELSE IF ret >= 0 THEN "seen"
                         ELSE IF InRing THEN @ ELSE "unstamped"]
Told(p, ret) == IF ret = 1 THEN Header(p) ELSE Nothing
Settle(p, ret) == fate' = Settled(p, ret) /\ last' = Told(p, ret)

(***************************************************************************)
(* pcap_dispatch and pcap_loop.                                            *)
(***************************************************************************)
Reading(loop, cnt) == [op |-> "read", loop |-> loop, cnt |-> cnt, pkts |-> 0, pc |-> "start", todo |-> 0]

Dispatch == /\ call.op = "idle"
            /\ \E loop \in BOOLEAN, cnt \in Counts : call' = Reading(loop, cnt)
            /\ UNCHANGED <<how, ring, kern, h, fate>> /\ last' = Nothing

\* read_op returned n: pcap_dispatch returns it, pcap_loop goes on or ends.
Ended(c, n) ==
  IF c.loop /\ n >= 0 /\ (c.cnt <= 0 \/ n < c.cnt)
  THEN Reading(TRUE, IF c.cnt <= 0 THEN c.cnt ELSE c.cnt - n)
  ELSE Idle

At(pc) == call.op = "read" /\ call.pc = pc
More(c) == c.pkts < c.cnt \/ c.cnt <= 0
To(pc) == call' = [call EXCEPT !.pc = pc]
Returns(n) == call' = Ended(call, n)
Broken == Returns(-2) /\ h' = [h EXCEPT !.break_loop = FALSE]

\* pcap_wait_for_frames_mmap; V3 does not wait in the middle of a block.
Start ==
  /\ At("start") /\ InRing
  /\ IF h.current # 0 \/ pcap_get_ring_frame(h.offset, TRUE) THEN To("frames") ELSE To("poll")
  /\ UNCHANGED <<how, ring, kern, h, fate>> /\ last' = Nothing

\* Mutant: break_loop is not looked at.
Polled_unchecked ==
  /\ At("poll")
  /\ pcap_get_ring_frame(h.offset, TRUE) \/ h.timeout # 0
  /\ To("frames") /\ UNCHANGED <<how, ring, kern, h, fate>> /\ last' = Nothing
\* poll ends: a frame is there, the time is over, or the call is interrupted.
Polled ==
  /\ At("poll")
  /\ pcap_get_ring_frame(h.offset, TRUE) \/ h.timeout # 0
  /\ IF h.break_loop THEN Broken ELSE To("frames") /\ UNCHANGED h
  /\ UNCHANGED <<how, ring, kern, fate>> /\ last' = Nothing
Interrupted ==
  /\ At("signal")
  /\ IF h.break_loop THEN Broken ELSE To(IF InRing THEN "poll" ELSE "start") /\ UNCHANGED h
  /\ UNCHANGED <<how, ring, kern, fate>> /\ last' = Nothing
\* The socket hangs up, or the interface went down.
PollError ==
  /\ At("poll")
  /\ Returns(-1)
  /\ UNCHANGED <<how, ring, kern, h, fate>> /\ last' = Nothing

Released == [ring EXCEPT ![h.offset] = Slot(FALSE, <<>>)]

\* pcap_read_linux_mmap_v1, pcap_read_linux_mmap_v2: the loop over the frames.
pcap_read_linux_mmap ==
  /\ At("frames") /\ how.version \in {"V1", "V2"}
  /\ IF ~More(call) \/ ~pcap_get_ring_frame(h.offset, TRUE)
     THEN Returns(call.pkts) /\ UNCHANGED <<ring, h, fate>> /\ last' = Nothing
     ELSE LET p == Head(ring[h.offset].pkts)
          IN \E verdict \in bpf_filter(p.kind) : \E ret \in {pcap_handle_packet_mmap(p, verdict)} :
             /\ Settle(p, ret)
             /\ IF ret < 0
                THEN /\ Returns(ret)
                     /\ h' = [h EXCEPT !.filtering_in_kernel = CountedFor(p)]
                     /\ UNCHANGED ring
                ELSE /\ ring' = Released
                     /\ h' = [h EXCEPT !.offset = NextSlot(@), !.filtering_in_kernel = CountedFor(p),
                                       !.break_loop = FALSE]
                     /\ call' = IF h.break_loop THEN Ended(call, -2) ELSE [call EXCEPT !.pkts = @ + ret]
  /\ UNCHANGED <<how, kern>>

\* pcap_read_linux_mmap_v3: the next block, or what is left of the block.
NextBlock ==
  /\ At("frames") /\ how.version = "V3"
  /\ IF ~pcap_get_ring_frame(h.offset, TRUE) \/ ~More(call)
     THEN Returns(call.pkts) /\ UNCHANGED h
     ELSE LET new == h.current = 0
              left == IF new THEN Len(ring[h.offset].pkts) ELSE h.left
          IN /\ h' = [h EXCEPT !.current = IF new THEN 1 ELSE @, !.left = left]
             /\ call' = [call EXCEPT !.pc = "block",
                                     !.todo = IF call.cnt >= 0 /\ left > call.cnt THEN call.cnt ELSE left]
  /\ UNCHANGED <<how, ring, kern, fate>> /\ last' = Nothing
\* A packet of the block; after a failure the block is read from its start again.
ReadInBlock == {ring[h.offset].pkts[k].id : k \in 1 .. h.current - 1}
InBlock ==
  /\ At("block") /\ call.todo > 0
  /\ LET p == ring[h.offset].pkts[h.current]
     IN \E verdict \in bpf_filter(p.kind) : \E ret \in {pcap_handle_packet_mmap(p, verdict)} :
        IF ret < 0
        THEN /\ fate' = [i \in DOMAIN fate |-> IF i \in ReadInBlock THEN "back" ELSE Settled(p, ret)[i]]
             /\ last' = Nothing
             /\ h' = [h EXCEPT !.filtering_in_kernel = CountedFor(p), !.current = 0]
             /\ Returns(ret)
        ELSE /\ Settle(p, ret)
             /\ h' = [h EXCEPT !.filtering_in_kernel = CountedFor(p), !.current = @ + 1, !.left = @ - 1]
             /\ call' = [call EXCEPT !.pkts = @ + ret, !.todo = @ - 1]
  /\ UNCHANGED <<how, ring, kern>>
EndOfBlock ==
  /\ At("block") /\ call.todo = 0
  /\ LET done == h.left <= 0
     IN /\ ring' = IF done THEN Released ELSE ring
        /\ h' = [h EXCEPT !.offset = IF done THEN NextSlot(@) ELSE @,
                          !.current = IF done THEN 0 ELSE @, !.break_loop = FALSE]
        /\ call' = IF h.break_loop THEN Ended(call, -2) ELSE [call EXCEPT !.pc = "frames"]
  /\ UNCHANGED <<how, kern, fate>> /\ last' = Nothing

\* pcap_read_packet, without a ring: one packet a call.
Receive ==
  /\ At("start") /\ ~InRing
  /\ IF h.break_loop THEN Broken ELSE To("recv") /\ UNCHANGED h
  /\ UNCHANGED <<how, ring, kern, fate>> /\ last' = Nothing
pcap_read_packet ==
  /\ At("recv")
  /\ \/ /\ kern.queue = <<>> /\ h.nonblock
        /\ Returns(0) /\ UNCHANGED <<kern, fate>> /\ last' = Nothing
     \/ /\ Returns(-1)                                   \* the interface went down
        /\ UNCHANGED <<kern, fate>> /\ last' = Nothing
     \/ /\ kern.queue # <<>>
        /\ LET p == Head(kern.queue)
               taken == linux_check_direction(p.kind, h.direction)
                        /\ (h.filtering_in_kernel # 0 \/ Passes(h.fcode, p.kind))
           IN \E ret \in IF taken THEN {1, -1} ELSE {0} :    \* -1: no time stamp for it
                Settle(p, ret) /\ Returns(ret)
        /\ kern' = [kern EXCEPT !.queue = Tail(@)]
  /\ UNCHANGED <<how, ring, h>>

\* A signal handler calls pcap_breakloop; a call that blocks is interrupted.
pcap_breakloop ==
  /\ h.breaks < MaxBreaks
  /\ h' = [h EXCEPT !.break_loop = TRUE, !.breaks = @ + 1]
  /\ call' = IF At("poll") \/ At("recv") THEN [call EXCEPT !.pc = "signal"] ELSE call
  /\ UNCHANGED <<how, ring, kern, fate>> /\ last' = Nothing

\* Any other signal interrupts it too.
Signal ==
  /\ At("poll") \/ At("recv")
  /\ To("signal")
  /\ UNCHANGED <<how, ring, kern, h, fate>> /\ last' = Nothing

(***************************************************************************)
(* pcap_setfilter: the handle's copy, then the kernel's.                   *)
(***************************************************************************)
Setting(f, pc) == [op |-> "filter", f |-> f, pc |-> pc, total |-> FALSE, err |-> 0, n |-> 0, slot |-> 0]
Step(pc) == call.op = "filter" /\ call.pc = pc

\* In cooked mode the kernel has no link-layer header: what lies behind it is
\* moved, its type and its protocol have places of their own, the rest is not there.
NoOffset == -65536
SKF_AD_PKTTYPE == -4092
SKF_AD_PROTOCOL == -4096
fix_offset(k) == CASE k >= SLL_HDR_LEN -> k - SLL_HDR_LEN
                   [] k = 0 -> SKF_AD_PKTTYPE
                   [] k = 14 -> SKF_AD_PROTOCOL
                   [] k < 0 -> k
                   [] OTHER -> NoOffset

\* Mutant: the lengths that it returns are kept.
fix_program_cut(f) == [ok |-> ~how.cooked \/ \A k \in f.reads : fix_offset(k) # NoOffset, prog |-> f]
\* The program for the kernel.  Without a ring it returns 65535 where it
\* returned a length, so that the packet is not cut before it is measured.
fix_program(f) ==
  [ok |-> ~how.cooked \/ \A k \in f.reads : fix_offset(k) # NoOffset,
   prog |-> [f EXCEPT !.ret = IF InRing \/ @ = 0 THEN @ ELSE 65535]]

\* pcap_setfilter_linux_common.  Without memory for the handle's copy the old
\* program is gone and no new one is there; without memory for the kernel's copy
\* the kernel keeps the old one.
pcap_setfilter ==
  /\ call.op = "idle" /\ h.settings < MaxSettings
  /\ \E f \in Filters \ {h.fcode} :
     \/ /\ h' = [h EXCEPT !.fcode = NoFilter, !.settings = @ + 1, !.applied = FALSE]
        /\ UNCHANGED call
     \/ /\ h' = [h EXCEPT !.fcode = f, !.filtering_in_kernel = 0, !.settings = @ + 1, !.applied = FALSE,
                         !.drained = FALSE]
        /\ \/ call' = Setting(f, IF ~f.long /\ fix_program(f).ok THEN "total" ELSE "reset")
           \/ ~f.long /\ UNCHANGED call
  /\ UNCHANGED <<how, ring, kern, fate>> /\ last' = Nothing

\* SO_DETACH_FILTER: the filter comes off the socket, or it stays and nobody looks.
Detach == \E f \in {NoFilter, kern.filter} : kern' = [kern EXCEPT !.filter = f]

\* set_kernel_filter: a filter that refuses everything, then the queue is read
\* empty, unless the mode of the socket cannot be set.
AttachTotal ==
  /\ Step("total")
  /\ \/ /\ kern' = [kern EXCEPT !.filter = TotalFilter]
        /\ \E pc \in {"drain", "attach"} : call' = [call EXCEPT !.pc = pc, !.total = TRUE]
     \/ call' = [call EXCEPT !.pc = "attach"] /\ UNCHANGED kern
  /\ UNCHANGED <<how, ring, h, fate>> /\ last' = Nothing
Drain ==
  /\ Step("drain")
  /\ \/ /\ kern.queue # <<>>
        /\ kern' = [kern EXCEPT !.queue = Tail(@)]
        /\ fate' = [fate EXCEPT ![Head(kern.queue).id] = "seen"]
        /\ UNCHANGED <<h, call>>
     \/ /\ kern.queue = <<>>               \* EAGAIN
        /\ call' = [call EXCEPT !.pc = "attach"]
        /\ h' = [h EXCEPT !.drained = TRUE]
        /\ UNCHANGED <<kern, fate>>
     \/ /\ Detach                                        \* the interface went down
        /\ call' = [call EXCEPT !.pc = "reset", !.err = -2]
        /\ UNCHANGED <<h, fate>>
  /\ UNCHANGED <<how, ring>> /\ last' = Nothing
Attach ==
  /\ Step("attach")
  /\ \/ /\ kern' = [kern EXCEPT !.filter = fix_program(call.f).prog]
        /\ h' = [h EXCEPT !.filtering_in_kernel = 1, !.applied = ~InRing, !.since = kern.next,
                          !.stuck = FALSE]
        /\ call' = IF InRing THEN [call EXCEPT !.pc = "count", !.n = 0, !.slot = PrevSlot(h.offset)] ELSE Idle
     \/ /\ IF call.total THEN Detach ELSE UNCHANGED kern
        /\ call' = [call EXCEPT !.pc = "reset", !.err = -1]
        /\ UNCHANGED h
  /\ UNCHANGED <<how, ring, fate>> /\ last' = Nothing

\* Without a filter in the kernel the one that was there before is taken off.
reset_kernel_filter ==
  /\ Step("reset")
  /\ Detach
  /\ h' = [h EXCEPT !.applied = call.err # -2, !.stuck = kern'.filter # NoFilter]
  /\ call' = Idle
  /\ UNCHANGED <<how, ring, fate>> /\ last' = Nothing

\* pcap_setfilter_linux_mmap: the slots that wait are counted, backward from
\* the one before the current one, to the first that the kernel does not own.
pcap_setfilter_linux_mmap ==
  /\ Step("count")
  /\ LET slot == PrevSlot(call.slot)
     IN IF call.n < cc /\ pcap_get_ring_frame(slot, FALSE)
        THEN call' = [call EXCEPT !.n = @ + 1, !.slot = slot] /\ UNCHANGED h
        ELSE /\ h' = [h EXCEPT !.filtering_in_kernel = 1 + (cc - call.n), !.applied = TRUE]
             /\ call' = Idle
  /\ UNCHANGED <<how, ring, kern, fate>> /\ last' = Nothing

(***************************************************************************)
(* The other settings of an open handle.                                   *)
(***************************************************************************)
pcap_setdirection ==
  /\ call.op = "idle" /\ h.settings < MaxSettings
  /\ \E d \in {"in", "out"} : h' = [h EXCEPT !.direction = d, !.settings = @ + 1]
  /\ UNCHANGED <<how, ring, kern, call, fate>> /\ last' = Nothing

\* The ring keeps the timeout as its complement, the socket sets a flag.
pcap_setnonblock ==
  /\ call.op = "idle" /\ h.settings < MaxSettings
  /\ \E nonblock \in BOOLEAN :
       h' = IF InRing THEN [h EXCEPT !.timeout = IF nonblock = (@ < 0) THEN @ ELSE -@ - 1, !.settings = @ + 1]
                      ELSE [h EXCEPT !.nonblock = nonblock, !.settings = @ + 1]
  /\ UNCHANGED <<how, ring, kern, call, fate>> /\ last' = Nothing

Reader == \/ Start \/ Polled \/ Interrupted \/ PollError \/ pcap_read_linux_mmap
          \/ NextBlock \/ InBlock \/ EndOfBlock \/ Receive \/ pcap_read_packet
SetFilter == \/ pcap_setfilter \/ AttachTotal \/ Drain \/ Attach
             \/ reset_kernel_filter \/ pcap_setfilter_linux_mmap
CaptureNext == \/ Arrive \/ Retire \/ Dispatch \/ Reader \/ pcap_breakloop \/ Signal \/ SetFilter
               \/ pcap_setdirection \/ pcap_setnonblock

(***************************************************************************)
(* Properties.                                                             *)
(***************************************************************************)
\* pcap_handle_packet_mmap, pcap_read_packet, pcap_setfilter_linux_common: a
\* packet handed to the application passes the filter and the direction that
\* are set on the handle, also one that was waiting when the filter was set
\* (not in a V3 ring, where blocks are counted for packets, nor when the
\* socket could not be drained; nor in a cooked ring); and a filter that was
\* set with success leaves nothing on the socket that hides a packet it accepts,
\* unless it is run in userland and what was on the socket did not come off.
FilterObeyed ==
  /\ last.id # 0 =>
       /\ linux_check_direction(last.kind, last.direction)
       /\ \/ Passes(last.fcode, last.kind)
          \/ how.cooked /\ InRing
          \/ last.id < h.since /\ (how.version = "V3" \/ (~InRing /\ ~h.drained))
  /\ h.applied => \/ \A kind \in Kinds : Passes(h.fcode, kind) => Passes(kern.filter, kind)
                  \/ h.stuck /\ h.filtering_in_kernel = 0

\* What is not looked at yet in a ring r that is read at packet c of slot o.
Unread(r, o, c) ==
  UNION {{r[s].pkts[i].id : i \in (IF s = o /\ c # 0 THEN c ELSE 1) .. Len(r[s].pkts)} : s \in DOMAIN r}
Waiting == IF InRing THEN Unread(ring, h.offset, h.current)
                     ELSE {kern.queue[i].id : i \in DOMAIN kern.queue}
OnTheWire(kind) == kind.len + CookedHeader
                   + (IF kind.vlan /\ how.version # "V1" THEN VLAN_TAG_LEN ELSE 0)

\* A packet that is read in a V3 block before one whose frame is bad.
BeforeBad(i) ==
  /\ how.version = "V3"
  /\ \E b \in DOMAIN ring[h.offset].pkts : \E a \in 1 .. b - 1 :
       ring[h.offset].pkts[a].id = i /\ ring[h.offset].pkts[b].kind.bad # "no"

\* pcap_read_linux_mmap_v1/_v2/_v3, pcap_read_packet: a packet that the kernel
\* stored waits in the ring or queue until it is looked at, in the order of
\* arrival, and once: only the packets before a bad frame of a V3 block are
\* looked at again, because the read that fails there goes back to the start of
\* the block.  What is looked at and accepted reaches the callback (without a
\* ring: if it has a time stamp) with its length on the wire and as much of it
\* as the snapshot length lets through.
HandedAsArrived ==
  /\ \A i \in 1 .. MaxPackets :
       /\ fate[i] # "again"
       /\ fate[i] \in {"stored", "back"} <=> i \in Waiting
       /\ fate[i] = "back" => BeforeBad(i)
       /\ fate[i] = "unstamped" => ~InRing
       /\ fate[i] \in {"seen", "unstamped"} =>
            \A j \in 1 .. i - 1 : fate[j] \notin {"stored", "back"}
  /\ last.id # 0 => /\ last.len = OnTheWire(last.kind)
                    /\ last.caplen = Lesser(snapshot, last.len)

\* pcap_wait_for_frames_mmap, pcap_loop: a read from a ring with a timeout, or
\* without blocking, ends once pcap_breakloop was called, whenever that was.
BreakEndsLoop == (call.op = "read" /\ h.break_loop /\ InRing /\ h.timeout # 0) ~> (call.op # "read")
==============================================================================
