--------------------------- MODULE CaptureRingProofs ---------------------------
(***************************************************************************)
(* The filter of a capture handle is obeyed, and packets are handed over   *)
(* in the order of their arrival and with their lengths: for rings of any  *)
(* size, any kinds of packets and filters, and any number of packets,      *)
(* settings, breaks and calls that fail.                                   *)
(***************************************************************************)
EXTENDS CaptureRing, DivisionLemmas, TLAPS

CaptureSpec == CaptureInit /\ [][CaptureNext]_capture

Slots == 0 .. cc - 1
PacketType == [id : Nat \ {0}, kind : Kinds, snap : Nat, len : Nat]
SlotType == [user : BOOLEAN, pkts : Seq(PacketType)]
HowType == [version : {"V1", "V2", "V3", "socket"}, cooked : BOOLEAN, vlan_offset : {12, 14}]
KernType == [filter : FilterType, head : Slots, queue : Seq(PacketType), next : Nat \ {0}]
HandleType ==
  [offset : Slots, filtering_in_kernel : Nat, fcode : FilterType, direction : {"inout", "in", "out"},
   break_loop : BOOLEAN, timeout : Int, nonblock : BOOLEAN, current : Nat, left : Int,
   settings : Nat, breaks : Nat, applied : BOOLEAN, since : Nat \ {0}, drained : BOOLEAN,
   stuck : BOOLEAN]
ReadType ==
  [op : {"read"}, loop : BOOLEAN, cnt : Int, pkts : Int,
   pc : {"start", "poll", "signal", "frames", "block", "recv"}, todo : Int]
SettingType ==
  [op : {"filter"}, f : FilterType, pc : {"total", "drain", "attach", "reset", "count"},
   total : BOOLEAN, err : Int, n : 0 .. cc, slot : Slots]
RestType == [op : {"idle"}]

CaptureType ==
  /\ how \in HowType /\ ring \in [Slots -> SlotType] /\ kern \in KernType /\ h \in HandleType
  /\ call \in RestType \cup ReadType \cup SettingType

(* A packet waits in a slot of the ring or in the queue of the socket.     *)
Among(p, pkts) == \E i \in DOMAIN pkts : p = pkts[i]
Waits(p) == Among(p, kern.queue) \/ \E s \in Slots : Among(p, ring[s].pkts)

FrameRing == how.version \in {"V1", "V2"}

(* How many slots lie between the slot o that the reader looks at and s.   *)
Ahead(o, s) == IF s >= o THEN s - o ELSE (s - o) + cc

(* The slots that the kernel has filled lie ahead of the reader without a  *)
(* gap, and the kernel fills the slot behind them; a slot of a V1 or V2    *)
(* ring that was filled holds one packet.                                  *)
Contiguous ==
  /\ InRing =>
       /\ \/ kern.head = h.offset /\ \A s \in Slots : ring[s].user
          \/ \A s \in Slots : ring[s].user <=> Ahead(h.offset, s) < Ahead(h.offset, kern.head)
       /\ \A s \in Slots : ring[s].pkts # <<>> => ring[s].user \/ s = kern.head
  /\ FrameRing =>
       \A s \in Slots : (ring[s].user <=> ring[s].pkts # <<>>) /\ Len(ring[s].pkts) <= 1

(* A block that is being read belongs to the reader, and current and left  *)
(* say which of its packets come next.                                     *)
BlockRead ==
  /\ how.version # "V3" => h.current = 0
  /\ h.current # 0 => /\ ring[h.offset].user
                      /\ h.left = (Len(ring[h.offset].pkts) + 1) - h.current /\ h.left >= 0
  /\ At("block") => h.current # 0 /\ call.todo \in 0 .. h.left

(* What waits came before the next packet, and what came since the filter  *)
(* is on the socket passes it.                                             *)
Numbered == /\ \A p \in PacketType : Waits(p) => p.id < kern.next
            /\ h.since <= kern.next

NewPass ==
  h.filtering_in_kernel # 0 =>
    /\ kern.filter.tags \in SUBSET h.fcode.tags
    /\ \A p \in PacketType : Waits(p) /\ p.id >= h.since => Passes(h.fcode, p.kind)

(* What came before is counted: it is not farther from the reader than the *)
(* handle still runs the filter itself, and not among the slots counted (a *)
(* cooked ring counts a frame without room for its header twice).          *)
OldCounted ==
  FrameRing /\ ~how.cooked /\ h.filtering_in_kernel # 0 =>
    \A s \in Slots : \A p \in PacketType : Among(p, ring[s].pkts) /\ p.id < h.since =>
      IF call.op = "filter" THEN (Ahead(h.offset, s) + call.n) + (IF call.n = 0 THEN 0 ELSE 1) < cc
      ELSE Ahead(h.offset, s) + 1 < h.filtering_in_kernel

(* A queue that was read empty before the filter was set holds nothing old.*)
QueueDrained ==
  how.version = "socket" /\ h.drained /\ h.filtering_in_kernel # 0 =>
    \A p \in PacketType : Among(p, kern.queue) => p.id >= h.since

(* How far pcap_setfilter has come.                                        *)
SettingFilter ==
  call.op = "filter" =>
    /\ call.f = h.fcode /\ ~h.applied
    /\ h.filtering_in_kernel = IF call.pc = "count" THEN 1 ELSE 0
    /\ call.pc = "count" => /\ how.version # "socket" /\ kern.filter.tags = h.fcode.tags
                            /\ call.n < cc => Ahead(h.offset, call.slot) = (cc - 1) - call.n
    /\ call.pc \in {"total", "drain"} => ~h.drained
    /\ call.pc = "drain" => kern.filter.tags = {}
    /\ call.pc = "attach" /\ h.drained => kern.queue = <<>> /\ kern.filter.tags = {}

(* Only a handle that has no ring waits for a packet in recvfrom.          *)
RecvPlace == At("recv") => how.version = "socket"

CaptureInv ==
  /\ CaptureType /\ Contiguous /\ BlockRead /\ Numbered /\ NewPass /\ OldCounted /\ QueueDrained
  /\ SettingFilter /\ FilterObeyed
--------------------------------------------------------------------------------
(* The slots of a ring in order (NextSlot, PrevSlot).                      *)
LEMMA SlotOrder ==
  /\ cc \in Nat \ {0} /\ 0 \in Slots
  /\ \A s \in Slots : NextSlot(s) = (IF s = cc - 1 THEN 0 ELSE s + 1) /\ NextSlot(s) \in Slots
  /\ \A s \in Slots : PrevSlot(s) \in Slots
<1>1. cc \in Nat \ {0}
  BY RingAssumption
<1>2. 0 \in Slots
  BY <1>1 DEF Slots
<1>3. ASSUME NEW s \in Slots PROVE NextSlot(s) = (IF s = cc - 1 THEN 0 ELSE s + 1) /\ NextSlot(s) \in Slots
  <2>1. CASE s = cc - 1
    <3>1. s + 1 = cc * 1 + 0 /\ 0 \in 0 .. cc - 1 /\ s + 1 \in Int
      BY <1>1, <2>1
    <3>2. (s + 1) % cc = 0
      BY <1>1, <3>1, ModUnique
    <3> QED
      BY <1>2, <2>1, <3>2 DEF NextSlot
  <2>2. CASE s # cc - 1
    <3>1. s + 1 \in 0 .. cc - 1
      BY <1>1, <2>2 DEF Slots
    <3>2. (s + 1) % cc = s + 1
      BY <1>1, <3>1, ModSmall
    <3> QED
      BY <2>2, <3>1, <3>2 DEF NextSlot, Slots
  <2> QED
    BY <2>1, <2>2
<1>4. ASSUME NEW s \in Slots PROVE PrevSlot(s) \in Slots
  BY <1>1 DEF Slots, PrevSlot
<1> QED
  BY <1>1, <1>2, <1>3, <1>4

(* How far a slot is ahead, before and after the reader or the kernel goes *)
(* to the next slot, and of the slot before it.                            *)
LEMMA AheadFacts ==
  ASSUME NEW o \in Slots, NEW s \in Slots
  PROVE  /\ Ahead(o, s) \in Slots /\ (Ahead(o, s) = 0 <=> s = o)
         /\ \A t \in Slots : Ahead(o, s) = Ahead(o, t) => s = t
         /\ Ahead(NextSlot(o), s) = IF s = o THEN cc - 1 ELSE Ahead(o, s) - 1
         /\ Ahead(o, NextSlot(s)) = IF Ahead(o, s) = cc - 1 THEN 0 ELSE Ahead(o, s) + 1
         /\ Ahead(o, PrevSlot(s)) = IF s = o THEN cc - 1 ELSE Ahead(o, s) - 1
<1>1. cc \in Nat \ {0} /\ o \in 0 .. cc - 1 /\ s \in 0 .. cc - 1
  BY SlotOrder DEF Slots
<1>2. Ahead(o, s) \in Slots /\ (Ahead(o, s) = 0 <=> s = o)
  BY <1>1 DEF Ahead, Slots
<1>3. \A t \in Slots : Ahead(o, s) = Ahead(o, t) => s = t
  BY <1>1 DEF Ahead, Slots
<1>4. Ahead(NextSlot(o), s) = IF s = o THEN cc - 1 ELSE Ahead(o, s) - 1
  <2>1. NextSlot(o) = (IF o = cc - 1 THEN 0 ELSE o + 1)
    BY SlotOrder
  <2> QED
    BY <1>1, <2>1 DEF Ahead
<1>5. Ahead(o, NextSlot(s)) = IF Ahead(o, s) = cc - 1 THEN 0 ELSE Ahead(o, s) + 1
  <2>1. NextSlot(s) = (IF s = cc - 1 THEN 0 ELSE s + 1)
    BY SlotOrder
  <2> QED
    BY <1>1, <2>1 DEF Ahead
<1>6. Ahead(o, PrevSlot(s)) = IF s = o THEN cc - 1 ELSE Ahead(o, s) - 1
  BY <1>1 DEF Ahead, PrevSlot
<1> QED
  BY <1>2, <1>3, <1>4, <1>5, <1>6

(* What a queue or a slot holds after a packet came or went.               *)
LEMMA InFacts ==
  ASSUME NEW q \in Seq(PacketType), NEW p
  PROVE  /\ Among(p, q) => p \in PacketType /\ q # <<>>
         /\ ~Among(p, <<>>)
         /\ \A x \in PacketType : Among(p, Append(q, x)) => Among(p, q) \/ p = x
         /\ q # <<>> => Among(Head(q), q) /\ Head(q) \in PacketType
         /\ Among(p, Tail(q)) /\ q # <<>> => Among(p, q)
<1>1. Among(p, q) => p \in PacketType /\ q # <<>>
  BY DEF Among
<1>2. ~Among(p, <<>>)
  BY DEF Among
<1>3. ASSUME NEW x \in PacketType, Among(p, Append(q, x)) PROVE Among(p, q) \/ p = x
  <2>1. PICK i \in DOMAIN Append(q, x) : p = Append(q, x)[i]
    BY <1>3 DEF Among
  <2>2. i \in 1 .. Len(q) + 1
    BY <2>1
  <2>3. CASE i = Len(q) + 1
    BY <2>1, <2>3
  <2>4. CASE i \in 1 .. Len(q)
    BY <2>1, <2>4 DEF Among
  <2> QED
    BY <2>2, <2>3, <2>4
<1>4. q # <<>> => Among(Head(q), q) /\ Head(q) \in PacketType
  BY DEF Among
<1>5. ASSUME q # <<>>, Among(p, Tail(q)) PROVE Among(p, q)
  <2>1. PICK i \in DOMAIN Tail(q) : p = Tail(q)[i]
    BY <1>5 DEF Among
  <2>2. i + 1 \in DOMAIN q /\ p = q[i + 1]
    BY <1>5, <2>1
  <2> QED
    BY <2>2 DEF Among
<1> QED
  BY <1>1, <1>2, <1>3, <1>4, <1>5
(* The filters, and that NoFilter lets everything through, TotalFilter     *)
(* nothing.                                                                *)
LEMMA FilterFacts ==
  /\ Filters \in SUBSET FilterType /\ NoFilter \in FilterType /\ TotalFilter \in FilterType
  /\ NoFilter.tags = {k.tag : k \in Kinds} /\ TotalFilter.tags = {}
  /\ \A kind \in Kinds : Passes(NoFilter, kind)
  /\ \A f \in FilterType : f.tags \in SUBSET NoFilter.tags
  /\ \A f \in FilterType : fix_program(f).prog \in FilterType /\ fix_program(f).prog.tags = f.tags
<1>1. Filters \in SUBSET FilterType
  BY RingAssumption
<1>2. NoFilter \in FilterType /\ NoFilter.tags = {k.tag : k \in Kinds}
  BY DEF NoFilter, FilterType
<1>3. TotalFilter \in FilterType /\ TotalFilter.tags = {}
  BY <1>2 DEF TotalFilter, FilterType
<1>4. \A kind \in Kinds : Passes(NoFilter, kind)
  BY <1>2 DEF Passes
<1>5. \A f \in FilterType : f.tags \in SUBSET NoFilter.tags
  BY <1>2 DEF FilterType
<1>6. ASSUME NEW f \in FilterType
      PROVE  fix_program(f).prog \in FilterType /\ fix_program(f).prog.tags = f.tags
  <2>1. PICK r \in Nat : r = IF InRing \/ f.ret = 0 THEN f.ret ELSE 65535
    BY DEF FilterType
  <2>2. fix_program(f).prog = [f EXCEPT !.ret = r]
    BY <2>1 DEF fix_program
  <2> QED
    BY <2>2 DEF FilterType
<1> QED
  BY <1>1, <1>2, <1>3, <1>4, <1>5, <1>6

(* What a step that neither reads a packet nor sets the filter leaves as   *)
(* it is.                                                                  *)
HandleKept ==
  /\ h' \in HandleType
  /\ h'.offset = h.offset /\ h'.filtering_in_kernel = h.filtering_in_kernel /\ h'.fcode = h.fcode
  /\ h'.current = h.current /\ h'.left = h.left /\ h'.since = h.since
  /\ (h'.applied <=> h.applied) /\ (h'.drained <=> h.drained) /\ (h'.stuck <=> h.stuck)

CallRests ==
  \/ call' = call
  \/ call.op # "filter" /\ call' \in RestType \cup ReadType /\ ~At("block")'

(* A step that hands nothing over and changes neither the ring nor what    *)
(* decides about the filter keeps the invariant.                           *)
LEMMA QuietKeeps ==
  ASSUME CaptureInv, UNCHANGED <<how, ring, kern>>, HandleKept, CallRests, last' = Nothing
  PROVE  CaptureInv'
<1>1. how' = how /\ ring' = ring /\ kern' = kern
  OBVIOUS
<1>2. /\ h' \in HandleType
      /\ h'.offset = h.offset /\ h'.filtering_in_kernel = h.filtering_in_kernel /\ h'.fcode = h.fcode
      /\ h'.current = h.current /\ h'.left = h.left /\ h'.since = h.since
  BY DEF HandleKept
<1>3. (h'.applied <=> h.applied) /\ (h'.drained <=> h.drained) /\ (h'.stuck <=> h.stuck)
  BY DEF HandleKept
<1>4. CaptureType'
  BY <1>1, <1>2 DEF CaptureInv, CaptureType, CallRests
<1>5. call'.op = "filter" <=> call.op = "filter"
  BY DEF CallRests, RestType, ReadType
<1>6. call.op = "filter" => call' = call
  BY DEF CallRests
<1>7. Contiguous'
  BY <1>1, <1>2 DEF CaptureInv, Contiguous, FrameRing, InRing, Ahead
<1>8. BlockRead'
  <2>1. At("block")' => At("block") /\ call' = call
    BY DEF CallRests, At
  <2> QED
    BY <1>1, <1>2, <2>1 DEF CaptureInv, BlockRead
<1>9. Numbered' /\ NewPass'
  BY <1>1, <1>2 DEF CaptureInv, Numbered, NewPass, Waits, Among, Passes
<1>10. OldCounted'
  BY <1>1, <1>2, <1>5, <1>6 DEF CaptureInv, OldCounted, FrameRing, Ahead, Among
<1>11. QueueDrained'
  BY <1>1, <1>2, <1>3 DEF CaptureInv, QueueDrained, Among
<1>12. SettingFilter'
  <2> SUFFICES ASSUME call'.op = "filter" PROVE SettingFilter'
    BY DEF SettingFilter
  <2>1. call' = call /\ call.op = "filter"
    BY <1>5, <1>6
  <2> QED
    BY <1>1, <1>2, <1>3, <2>1 DEF CaptureInv, SettingFilter, Ahead
<1>13. FilterObeyed'
  <2>1. last'.id = 0
    BY DEF Nothing
  <2> QED
    BY <1>1, <1>2, <1>3, <2>1 DEF CaptureInv, FilterObeyed, Passes
<1> QED
  BY <1>4, <1>7, <1>8, <1>9, <1>10, <1>11, <1>12, <1>13 DEF CaptureInv
--------------------------------------------------------------------------------
(* The steps of a read that look at no packet, and the settings that are   *)
(* not about the filter: all of them are quiet.                            *)

(* What read_op leaves when it returns.                                    *)
LEMMA ReturnsRests ==
  ASSUME CaptureType, call.op = "read", NEW n \in Int
  PROVE  Ended(call, n) \in RestType \cup ReadType /\ (Ended(call, n).op = "read" => Ended(call, n).pc = "start")
<1>1. call \in ReadType
  BY DEF CaptureType, RestType, SettingType
<1>2. \A loop \in BOOLEAN, cnt \in Int : Reading(loop, cnt) \in ReadType /\ Reading(loop, cnt).pc = "start"
  BY DEF Reading, ReadType
<1>3. PICK cnt \in Int : cnt = IF call.cnt <= 0 THEN call.cnt ELSE call.cnt - n
  BY <1>1 DEF ReadType
<1>4. Reading(TRUE, cnt) \in ReadType /\ Reading(TRUE, cnt).pc = "start"
  BY <1>2, Zenon
<1>5. Idle \in RestType /\ Idle.op = "idle"
  BY DEF Idle, RestType
<1>6. Ended(call, n) \in {Reading(TRUE, cnt), Idle}
  BY <1>3 DEF Ended
<1> QED
  BY <1>4, <1>5, <1>6

(* To and break_loop.                                                      *)
LEMMA QuietTypes ==
  ASSUME CaptureType
  PROVE  /\ \A pc \in {"start", "poll", "signal", "frames", "recv"} :
              call \in ReadType => [call EXCEPT !.pc = pc] \in ReadType /\ [call EXCEPT !.pc = pc].pc = pc
         /\ \A b \in BOOLEAN : [h EXCEPT !.break_loop = b] \in HandleType
<1>1. \A pc \in {"start", "poll", "signal", "frames", "recv"} :
        call \in ReadType => [call EXCEPT !.pc = pc] \in ReadType /\ [call EXCEPT !.pc = pc].pc = pc
  BY DEF ReadType
<1>2. \A b \in BOOLEAN : [h EXCEPT !.break_loop = b] \in HandleType
  BY Zenon DEF CaptureType, HandleType
<1> QED
  BY <1>1, <1>2
(* A handle that is not touched, or only its break_loop.                   *)
LEMMA BreakLoopKept ==
  ASSUME CaptureType, h' = h \/ \E b \in BOOLEAN : h' = [h EXCEPT !.break_loop = b]
  PROVE  HandleKept
<1>1. CASE h' = h
  BY <1>1 DEF HandleKept, CaptureType
<1>2. ASSUME NEW b \in BOOLEAN, h' = [h EXCEPT !.break_loop = b] PROVE HandleKept
  <2>1. h' \in HandleType
    BY <1>2, QuietTypes, Zenon
  <2>2. h \in HandleType
    BY DEF CaptureType
  <2>3. /\ h'.offset = h.offset /\ h'.filtering_in_kernel = h.filtering_in_kernel
        /\ h'.fcode = h.fcode /\ h'.current = h.current /\ h'.left = h.left /\ h'.since = h.since
    BY <1>2, <2>2 DEF HandleType
  <2>4. (h'.applied <=> h.applied) /\ (h'.drained <=> h.drained) /\ (h'.stuck <=> h.stuck)
    BY <1>2, <2>2 DEF HandleType
  <2> QED
    BY <2>1, <2>3, <2>4 DEF HandleKept
<1> QED
  BY <1>1, <1>2

(* A call that goes on at another place, or returns.                       *)
LEMMA CallMoves ==
  ASSUME CaptureType, call.op = "read",
         \/ \E pc \in {"start", "poll", "signal", "frames", "recv"} : To(pc)
         \/ \E n \in Int : Returns(n)
  PROVE  CallRests
<1>1. call \in ReadType
  BY DEF CaptureType, RestType, SettingType
<1>2. ASSUME NEW pc \in {"start", "poll", "signal", "frames", "recv"}, To(pc) PROVE CallRests
  <2>1. call' \in ReadType /\ call'.pc = pc
    BY <1>1, <1>2, QuietTypes DEF To
  <2> QED
    BY <1>2, <2>1 DEF CallRests, At
<1>3. ASSUME NEW n \in Int, Returns(n) PROVE CallRests
  <2>1. call' \in RestType \cup ReadType /\ (call'.op = "read" => call'.pc = "start")
    BY <1>3, ReturnsRests DEF Returns
  <2> QED
    BY <2>1 DEF CallRests, At
<1> QED
  BY <1>2, <1>3

(* The steps of a read that look at no packet.                             *)
LEMMA WaitingKeeps ==
  ASSUME CaptureInv, Dispatch \/ Start \/ Polled \/ Interrupted \/ PollError \/ Receive \/ Signal
  PROVE  CaptureInv'
<1>1. CaptureType
  BY DEF CaptureInv
<1>2. -1 \in Int /\ -2 \in Int /\ FALSE \in BOOLEAN
  OBVIOUS
<1>3. how' = how /\ ring' = ring /\ kern' = kern /\ last' = Nothing
  BY DEF Dispatch, Start, Polled, Interrupted, PollError, Receive, Signal
<1>4. HandleKept
  <2>1. h' = h \/ h' = [h EXCEPT !.break_loop = FALSE]
    BY DEF Dispatch, Start, Polled, Interrupted, PollError, Receive, Signal, Broken
  <2> QED
    BY <1>1, <1>2, <2>1, BreakLoopKept
<1>5. CallRests
  <2>1. CASE Dispatch
    <3>1. PICK loop \in BOOLEAN, cnt \in Counts : call' = Reading(loop, cnt)
      BY <2>1 DEF Dispatch
    <3>2. cnt \in Int
      BY RingAssumption
    <3>3. call' \in ReadType /\ call'.pc = "start"
      BY <3>1, <3>2 DEF Reading, ReadType
    <3>4. call.op # "filter"
      BY <2>1 DEF Dispatch
    <3> QED
      BY <3>3, <3>4 DEF CallRests, At
  <2>2. CASE Start \/ Polled \/ Interrupted \/ PollError \/ Receive \/ Signal
    <3>1. call.op = "read"
      BY <2>2 DEF Start, Polled, Interrupted, PollError, Receive, Signal, At
    <3>2. \/ To("start") \/ To("poll") \/ To("signal") \/ To("frames") \/ To("recv")
          \/ Returns(-1) \/ Returns(-2)
      BY <2>2 DEF Start, Polled, Interrupted, PollError, Receive, Signal, Broken
    <3> QED
      BY <1>1, <1>2, <3>1, <3>2, CallMoves
  <2> QED
    BY <2>1, <2>2
<1> QED
  BY <1>3, <1>4, <1>5, QuietKeeps

(* pcap_breakloop, pcap_setdirection and pcap_setnonblock.                 *)
LEMMA SettingsKeep ==
  ASSUME CaptureInv, pcap_breakloop \/ pcap_setdirection \/ pcap_setnonblock
  PROVE  CaptureInv'
<1>1. CaptureType /\ h \in HandleType
  BY DEF CaptureInv, CaptureType
<1>2. how' = how /\ ring' = ring /\ kern' = kern /\ last' = Nothing
  BY DEF pcap_breakloop, pcap_setdirection, pcap_setnonblock
<1>3. h.settings + 1 \in Nat /\ h.breaks + 1 \in Nat
  BY <1>1 DEF HandleType
<1>4. HandleKept
  <2>1. CASE pcap_breakloop
    <3>1. PICK n \in Nat : n = h.breaks + 1
      BY <1>3
    <3>2. h' = [h EXCEPT !.break_loop = TRUE, !.breaks = n]
      BY <2>1, <3>1 DEF pcap_breakloop
    <3>3. h' \in HandleType
      BY <1>1, <3>2, Zenon DEF HandleType
    <3> QED
      BY <1>1, <3>2, <3>3 DEF HandleKept, HandleType
  <2>2. CASE pcap_setdirection
    <3>1. PICK n \in Nat, d \in {"in", "out"} : h' = [h EXCEPT !.direction = d, !.settings = n]
      BY <1>3, <2>2 DEF pcap_setdirection
    <3>2. h' \in HandleType
      BY <1>1, <3>1, Zenon DEF HandleType
    <3> QED
      BY <1>1, <3>1, <3>2 DEF HandleKept, HandleType
  <2>3. CASE pcap_setnonblock
    <3>1. \/ \E n \in Nat, t \in Int : h' = [h EXCEPT !.timeout = t, !.settings = n]
          \/ \E n \in Nat, b \in BOOLEAN : h' = [h EXCEPT !.nonblock = b, !.settings = n]
      <4>1. h.timeout \in Int /\ -h.timeout - 1 \in Int
        BY <1>1 DEF HandleType
      <4> QED
        BY <1>3, <2>3, <4>1 DEF pcap_setnonblock
    <3>2. ASSUME NEW n \in Nat, NEW t \in Int, h' = [h EXCEPT !.timeout = t, !.settings = n]
          PROVE  HandleKept
      <4>1. h' \in HandleType
        BY <1>1, <3>2, Zenon DEF HandleType
      <4> QED
        BY <1>1, <3>2, <4>1 DEF HandleKept, HandleType
    <3>3. ASSUME NEW n \in Nat, NEW b \in BOOLEAN, h' = [h EXCEPT !.nonblock = b, !.settings = n]
          PROVE  HandleKept
      <4>1. h' \in HandleType
        BY <1>1, <3>3, Zenon DEF HandleType
      <4> QED
        BY <1>1, <3>3, <4>1 DEF HandleKept, HandleType
    <3> QED
      BY <3>1, <3>2, <3>3
  <2> QED
    BY <2>1, <2>2, <2>3
<1>5. CallRests
  <2>1. CASE call' = call
    BY <2>1 DEF CallRests
  <2>2. CASE call' # call
    <3>1. call.op = "read" /\ To("signal")
      BY <2>2 DEF pcap_breakloop, pcap_setdirection, pcap_setnonblock, At, To
    <3> QED
      BY <1>1, <3>1, CallMoves
  <2> QED
    BY <2>1, <2>2
<1> QED
  BY <1>2, <1>4, <1>5, QuietKeeps
--------------------------------------------------------------------------------
(* The kernel.  Only packets that pass the filter on the socket come in.   *)

Fresh(p) == p.id = kern.next /\ Passes(kern.filter, p.kind) /\ kern'.next = kern.next + 1

KernelStep ==
  /\ how' = how /\ h' = h /\ call' = call /\ last' = Nothing
  /\ kern' \in KernType /\ ring' \in [Slots -> SlotType]
  /\ kern'.filter = kern.filter /\ kern.next <= kern'.next
  /\ \A s \in Slots : \A p \in PacketType :
       Among(p, ring'[s].pkts) => Among(p, ring[s].pkts) \/ Fresh(p)
  /\ \A p \in PacketType : Among(p, kern'.queue) => Among(p, kern.queue) \/ Fresh(p)

(* What holds after any step of the kernel.                                *)
LEMMA KernelKeeps ==
  ASSUME CaptureInv, KernelStep
  PROVE  /\ CaptureType' /\ Numbered' /\ NewPass' /\ OldCounted' /\ QueueDrained' /\ FilterObeyed'
         /\ (kern'.queue = kern.queue \/ kern.filter.tags # {} => SettingFilter')
<1>1. /\ how' = how /\ h' = h /\ call' = call /\ last' = Nothing
      /\ kern' \in KernType /\ ring' \in [Slots -> SlotType]
      /\ kern'.filter = kern.filter /\ kern.next <= kern'.next
  BY DEF KernelStep
<1>2. h \in HandleType /\ kern \in KernType
  BY DEF CaptureInv, CaptureType
<1>3. h.since \in Nat /\ kern.next \in Nat /\ kern'.next \in Nat /\ h.since <= kern.next
  BY <1>1, <1>2 DEF HandleType, KernType, CaptureInv, Numbered
<1>4. CaptureType'
  BY <1>1 DEF CaptureInv, CaptureType
<1>5. ASSUME NEW p \in PacketType, Waits(p)' PROVE Waits(p) \/ Fresh(p)
  <2>1. Among(p, kern'.queue) \/ \E s \in Slots : Among(p, ring'[s].pkts)
    BY <1>5 DEF Waits, Among
  <2> QED
    BY <2>1 DEF KernelStep, Waits
<1>6. Numbered'
  <2>1. ASSUME NEW p \in PacketType, Waits(p)' PROVE p.id < kern'.next
    <3>1. p.id \in Nat
      BY DEF PacketType
    <3>2. CASE Waits(p)
      BY <1>1, <1>3, <3>1, <3>2 DEF CaptureInv, Numbered
    <3>3. CASE Fresh(p)
      BY <1>3, <3>3 DEF Fresh
    <3> QED
      BY <1>5, <2>1, <3>2, <3>3
  <2>2. h'.since <= kern'.next
    BY <1>1, <1>3
  <2> QED
    BY <2>1, <2>2 DEF Numbered
<1>7. NewPass'
  <2> SUFFICES ASSUME h.filtering_in_kernel # 0
               PROVE  /\ kern.filter.tags \in SUBSET h.fcode.tags
                      /\ \A p \in PacketType : Waits(p)' /\ p.id >= h.since => Passes(h.fcode, p.kind)
    BY <1>1 DEF NewPass, Passes
  <2>1. kern.filter.tags \in SUBSET h.fcode.tags
    BY DEF CaptureInv, NewPass
  <2>2. ASSUME NEW p \in PacketType, Waits(p)', p.id >= h.since PROVE Passes(h.fcode, p.kind)
    <3>1. CASE Waits(p)
      BY <2>2, <3>1 DEF CaptureInv, NewPass
    <3>2. CASE Fresh(p)
      BY <2>1, <3>2 DEF Fresh, Passes
    <3> QED
      BY <1>5, <2>2, <3>1, <3>2
  <2> QED
    BY <2>1, <2>2
<1>8. \A p \in PacketType : Fresh(p) => ~(p.id < h.since) /\ p.id >= h.since
  BY <1>3 DEF Fresh
<1>9. OldCounted'
  <2> SUFFICES ASSUME FrameRing, ~how.cooked, h.filtering_in_kernel # 0, NEW s \in Slots,
                      NEW p \in PacketType, Among(p, ring'[s].pkts), p.id < h.since
               PROVE  IF call.op = "filter"
                      THEN (Ahead(h.offset, s) + call.n) + (IF call.n = 0 THEN 0 ELSE 1) < cc
                      ELSE Ahead(h.offset, s) + 1 < h.filtering_in_kernel
    BY <1>1 DEF OldCounted, FrameRing, Ahead, Among
  <2>1. Among(p, ring[s].pkts)
    BY <1>8 DEF KernelStep
  <2> QED
    BY <2>1 DEF CaptureInv, OldCounted
<1>10. QueueDrained'
  <2> SUFFICES ASSUME how.version = "socket", h.drained, h.filtering_in_kernel # 0,
                      NEW p \in PacketType, Among(p, kern'.queue)
               PROVE  p.id >= h.since
    BY <1>1 DEF QueueDrained, Among
  <2>1. Among(p, kern.queue) \/ Fresh(p)
    BY DEF KernelStep
  <2> QED
    BY <1>8, <2>1 DEF CaptureInv, QueueDrained
<1>11. FilterObeyed'
  <2>1. last'.id = 0
    BY <1>1 DEF Nothing
  <2> QED
    BY <1>1, <2>1 DEF CaptureInv, FilterObeyed, Passes
<1>12. ASSUME kern'.queue = kern.queue \/ kern.filter.tags # {} PROVE SettingFilter'
  BY <1>1, <1>12 DEF CaptureInv, SettingFilter, Ahead
<1> QED
  BY <1>4, <1>6, <1>7, <1>9, <1>10, <1>11, <1>12
(* The kernel fills the slot behind those that wait.                       *)
LEMMA FillKeepsContiguous ==
  ASSUME CaptureInv, InRing, how' = how, h' = h, ~ring[kern.head].user,
         ring' \in [Slots -> SlotType], kern'.head = NextSlot(kern.head),
         \A s \in Slots : (ring'[s].user <=> ring[s].user \/ s = kern.head)
                          /\ (s # kern.head => ring'[s].pkts = ring[s].pkts),
         ring'[kern.head].pkts # <<>>, FrameRing => Len(ring'[kern.head].pkts) <= 1
  PROVE  Contiguous'
<1>1. kern.head \in Slots /\ h.offset \in Slots
  BY DEF CaptureInv, CaptureType, KernType, HandleType
<1>2. \A s \in Slots : ring[s].user <=> Ahead(h.offset, s) < Ahead(h.offset, kern.head)
  BY <1>1 DEF CaptureInv, Contiguous
<1>3. /\ \A s \in Slots : ring'[s].pkts # <<>> => ring'[s].user
      /\ FrameRing' =>
           \A s \in Slots : (ring'[s].user <=> ring'[s].pkts # <<>>) /\ Len(ring'[s].pkts) <= 1
  <2>1. ASSUME NEW s \in Slots
        PROVE  /\ ring'[s].pkts # <<>> => ring'[s].user
               /\ FrameRing => (ring'[s].user <=> ring'[s].pkts # <<>>) /\ Len(ring'[s].pkts) <= 1
    <3>1. CASE s = kern.head
      BY <3>1
    <3>2. CASE s # kern.head
      BY <3>2 DEF CaptureInv, Contiguous
    <3> QED
      BY <3>1, <3>2
  <2> QED
    BY <2>1 DEF FrameRing
<1>4. PICK a \in Slots : a = Ahead(h.offset, kern.head)
  BY <1>1, AheadFacts
<1>5. \A s \in Slots : Ahead(h.offset, s) \in Slots /\ (s = kern.head <=> Ahead(h.offset, s) = a)
  BY <1>1, <1>4, AheadFacts
<1>6. Ahead(h.offset, kern'.head) = IF a = cc - 1 THEN 0 ELSE a + 1
  BY <1>1, <1>4, AheadFacts
<1>7. a \in Int /\ \A b \in Slots : /\ b < a + 1 <=> b < a \/ b = a
                                    /\ a = cc - 1 => b < a \/ b = a
  <2>1. cc \in Nat /\ a \in 0 .. cc - 1
    BY SlotOrder DEF Slots
  <2> QED
    BY <2>1 DEF Slots
<1>8. CASE a = cc - 1
  <2>1. kern'.head = h.offset
    <3>1. kern'.head \in Slots
      BY <1>1, SlotOrder
    <3>2. Ahead(h.offset, kern'.head) = 0
      BY <1>6, <1>8
    <3> QED
      BY <1>1, <3>1, <3>2, AheadFacts
  <2>2. ASSUME NEW s \in Slots PROVE ring'[s].user
    <3>1. Ahead(h.offset, s) < a \/ Ahead(h.offset, s) = a
      BY <1>5, <1>7, <1>8
    <3> QED
      BY <1>2, <1>4, <1>5, <3>1
  <2> QED
    BY <1>3, <2>1, <2>2 DEF Contiguous
<1>9. CASE a # cc - 1
  <2>1. ASSUME NEW s \in Slots PROVE ring'[s].user <=> Ahead(h.offset, s) < a + 1
    <3>1. Ahead(h.offset, s) < a + 1 <=> Ahead(h.offset, s) < a \/ Ahead(h.offset, s) = a
      BY <1>5, <1>7
    <3> QED
      BY <1>2, <1>4, <1>5, <3>1
  <2>2. \A s \in Slots : ring'[s].user <=> Ahead(h'.offset, s) < Ahead(h'.offset, kern'.head)
    BY <1>6, <1>9, <2>1
  <2> QED
    BY <1>3, <2>2 DEF Contiguous, Ahead
<1> QED
  BY <1>8, <1>9

(* A packet arrives.                                                       *)
LEMMA ArriveKeeps ==
  ASSUME CaptureInv, Arrive
  PROVE  CaptureInv'
<1>1. how \in HowType /\ ring \in [Slots -> SlotType] /\ kern \in KernType /\ h \in HandleType
  BY DEF CaptureInv, CaptureType
<1>2. how' = how /\ h' = h /\ call' = call /\ last' = Nothing
  BY DEF Arrive
<1>3. PICK kind \in Kinds :
        LET id == kern.next
            p == Stored(id, kind, kern.filter)
            pkts == Append(ring[kern.head].pkts, p)
            whole == how.version # "V3" \/ Len(pkts) = BlockRoom
        IN IF ~Passes(kern.filter, kind) \/ Full
           THEN /\ kern' = [kern EXCEPT !.next = id + 1]
                /\ fate' = [fate EXCEPT ![id] = "lost"]
                /\ UNCHANGED ring
           ELSE /\ fate' = [fate EXCEPT ![id] = "stored"]
                /\ IF InRing
                   THEN /\ ring' = [ring EXCEPT ![kern.head] = Slot(whole, pkts)]
                        /\ kern' = [kern EXCEPT !.next = id + 1,
                                                !.head = IF whole THEN NextSlot(@) ELSE @]
                   ELSE /\ kern' = [kern EXCEPT !.next = id + 1, !.queue = Append(@, p)]
                        /\ UNCHANGED ring
  BY DEF Arrive
<1> DEFINE p == Stored(kern.next, kind, kern.filter)
           pkts == Append(ring[kern.head].pkts, p)
           whole == how.version # "V3" \/ Len(pkts) = BlockRoom
<1>4. kern.next \in Nat \ {0} /\ kern.next + 1 \in Nat \ {0} /\ kern.filter \in FilterType /\ kern.head \in Slots
      /\ kern.queue \in Seq(PacketType) /\ h.offset \in Slots
  BY <1>1 DEF KernType, HandleType
<1>5. p \in PacketType /\ p.id = kern.next /\ p.kind = kind
  <2>1. kind.len \in Nat /\ kern.filter.ret \in Nat
    BY <1>4, RingAssumption DEF FilterType
  <2> QED
    BY <1>4, <2>1 DEF Stored, PacketType, Lesser
<1> HIDE DEF p
<1>6. ring[kern.head] \in SlotType /\ ring[kern.head].pkts \in Seq(PacketType)
  BY <1>1, <1>4 DEF SlotType
<1>7. pkts \in Seq(PacketType) /\ pkts # <<>>
  BY <1>5, <1>6
<1>8. \A x \in PacketType : Among(x, pkts) => Among(x, ring[kern.head].pkts) \/ x = p
  BY <1>5, <1>6, InFacts
<1>9. CASE ~Passes(kern.filter, kind) \/ Full
  <2>1. kern' = [kern EXCEPT !.next = kern.next + 1] /\ ring' = ring
    BY <1>3, <1>9
  <2>2. /\ kern' \in KernType /\ kern'.filter = kern.filter /\ kern'.head = kern.head
        /\ kern'.queue = kern.queue /\ kern'.next = kern.next + 1
    BY <1>1, <1>4, <2>1 DEF KernType
  <2>3. KernelStep
    BY <1>1, <1>2, <1>4, <2>1, <2>2 DEF KernelStep
  <2>4. Contiguous' /\ BlockRead'
    BY <1>2, <2>1, <2>2 DEF CaptureInv, Contiguous, BlockRead, FrameRing, InRing, Ahead, At
  <2> QED
    BY <2>2, <2>3, <2>4, KernelKeeps DEF CaptureInv
<1>10. CASE Passes(kern.filter, kind) /\ ~Full /\ InRing
  <2>1. /\ ring' = [ring EXCEPT ![kern.head] = Slot(whole, pkts)]
        /\ kern' = [kern EXCEPT !.next = kern.next + 1, !.head = IF whole THEN NextSlot(@) ELSE @]
    BY <1>3, <1>10 DEF p
  <2>2. ~ring[kern.head].user
    BY <1>10 DEF Full
  <2>3. PICK head \in Slots : head = IF whole THEN NextSlot(kern.head) ELSE kern.head
    BY <1>4, SlotOrder
  <2>4. kern' = [kern EXCEPT !.next = kern.next + 1, !.head = head]
    BY <2>1, <2>3
  <2>5. /\ kern' \in KernType /\ kern'.filter = kern.filter /\ kern'.head = head
        /\ kern'.queue = kern.queue /\ kern'.next = kern.next + 1
    BY <1>1, <1>4, <2>4 DEF KernType
  <2>6. whole \in BOOLEAN
    OBVIOUS
  <2>7. Slot(whole, pkts) \in SlotType /\ Slot(whole, pkts).pkts = pkts /\ (Slot(whole, pkts).user <=> whole)
    <3> HIDE DEF whole, pkts
    <3> QED
      BY <1>7, <2>6 DEF Slot, SlotType
  <2> HIDE DEF whole, pkts
  <2>8. /\ ring' \in [Slots -> SlotType] /\ ring'[kern.head] = Slot(whole, pkts)
        /\ \A s \in Slots : s # kern.head => ring'[s] = ring[s]
    BY <1>1, <1>4, <2>1, <2>7
  <2>9. Fresh(p)
    BY <1>5, <1>10, <2>5 DEF Fresh
  <2>10. ASSUME NEW s \in Slots, NEW x \in PacketType, Among(x, ring'[s].pkts)
         PROVE  Among(x, ring[s].pkts) \/ Fresh(x)
    BY <1>8, <2>7, <2>8, <2>9, <2>10
  <2>11. KernelStep
    BY <1>2, <1>4, <2>5, <2>8, <2>10 DEF KernelStep
  <2>12. Contiguous'
    <3>1. CASE whole
      <4>1. \A s \in Slots : ring'[s].user <=> ring[s].user \/ s = kern.head
        BY <2>7, <2>8, <3>1
      <4>2. ring'[kern.head].pkts # <<>> /\ kern'.head = NextSlot(kern.head)
        BY <1>7, <2>3, <2>5, <2>7, <2>8, <3>1
      <4>3. FrameRing => Len(ring'[kern.head].pkts) <= 1
        <5> SUFFICES ASSUME FrameRing PROVE Len(pkts) <= 1
          BY <2>7, <2>8
        <5>1. ring[kern.head].pkts = <<>>
          BY <1>4, <2>2 DEF CaptureInv, Contiguous
        <5> QED
          BY <1>5, <5>1 DEF pkts
      <4> QED
        BY <1>2, <1>10, <2>2, <2>8, <4>1, <4>2, <4>3, FillKeepsContiguous
    <3>2. CASE ~whole
      <4>1. ~FrameRing
        BY <3>2 DEF FrameRing, whole
      <4>2. \A s \in Slots : ring'[s].user <=> ring[s].user
        BY <1>4, <2>2, <2>7, <2>8, <3>2
      <4>3. \A s \in Slots : ring'[s].pkts # <<>> => ring'[s].user \/ s = kern.head
        BY <1>10, <2>8 DEF CaptureInv, Contiguous
      <4>4. kern'.head = kern.head
        BY <2>3, <2>5, <3>2
      <4> QED
        BY <1>2, <1>10, <4>1, <4>2, <4>3, <4>4 DEF CaptureInv, Contiguous, FrameRing, InRing, Ahead
    <3> QED
      BY <3>1, <3>2
  <2>13. BlockRead'
    <3>1. h.current # 0 => ring'[h.offset] = ring[h.offset]
      BY <1>4, <2>2, <2>8 DEF CaptureInv, BlockRead
    <3> QED
      BY <1>2, <3>1 DEF CaptureInv, BlockRead, At
  <2> QED
    BY <2>5, <2>11, <2>12, <2>13, KernelKeeps DEF CaptureInv
<1>11. CASE Passes(kern.filter, kind) /\ ~Full /\ ~InRing
  <2>1. kern' = [kern EXCEPT !.next = kern.next + 1, !.queue = Append(@, p)] /\ ring' = ring
    BY <1>3, <1>11 DEF p
  <2>2. Append(kern.queue, p) \in Seq(PacketType)
    BY <1>4, <1>5
  <2>3. /\ kern' \in KernType /\ kern'.filter = kern.filter /\ kern'.head = kern.head
        /\ kern'.queue = Append(kern.queue, p) /\ kern'.next = kern.next + 1
    BY <1>1, <1>4, <2>1, <2>2 DEF KernType
  <2>4. Fresh(p)
    BY <1>5, <1>11, <2>3 DEF Fresh
  <2>5. ASSUME NEW x \in PacketType, Among(x, kern'.queue) PROVE Among(x, kern.queue) \/ Fresh(x)
    BY <1>4, <1>5, <2>3, <2>4, <2>5, InFacts
  <2>6. KernelStep
    BY <1>1, <1>2, <1>4, <2>1, <2>3, <2>5 DEF KernelStep
  <2>7. kern.filter.tags # {}
    BY <1>11 DEF Passes
  <2>8. Contiguous'
    BY <1>2, <1>11 DEF Contiguous, FrameRing, InRing
  <2>9. BlockRead'
    BY <1>2, <2>1 DEF CaptureInv, BlockRead, At
  <2> QED
    BY <2>6, <2>7, <2>8, <2>9, KernelKeeps DEF CaptureInv
<1> QED
  BY <1>9, <1>10, <1>11

(* The kernel's timer hands a block over.                                  *)
LEMMA RetireKeeps ==
  ASSUME CaptureInv, Retire
  PROVE  CaptureInv'
<1>1. how \in HowType /\ ring \in [Slots -> SlotType] /\ kern \in KernType /\ h \in HandleType
  BY DEF CaptureInv, CaptureType
<1>2. how' = how /\ h' = h /\ call' = call /\ last' = Nothing
  BY DEF Retire
<1>3. /\ how.version = "V3" /\ ~ring[kern.head].user
      /\ ring' = [ring EXCEPT ![kern.head].user = TRUE] /\ kern' = [kern EXCEPT !.head = NextSlot(@)]
  BY DEF Retire
<1>4. kern.head \in Slots /\ NextSlot(kern.head) \in Slots /\ h.offset \in Slots /\ kern.next \in Nat
  BY <1>1, SlotOrder DEF KernType, HandleType
<1>5. /\ kern' \in KernType /\ kern'.filter = kern.filter /\ kern'.queue = kern.queue
      /\ kern'.next = kern.next
  BY <1>1, <1>3, <1>4 DEF KernType
<1>6. ring[kern.head] \in SlotType
  BY <1>1, <1>4
<1>7. /\ [ring[kern.head] EXCEPT !.user = TRUE] \in SlotType
      /\ [ring[kern.head] EXCEPT !.user = TRUE].pkts = ring[kern.head].pkts
  BY <1>6 DEF SlotType
<1>8. /\ ring' \in [Slots -> SlotType] /\ \A s \in Slots : ring'[s].pkts = ring[s].pkts
      /\ \A s \in Slots : s # kern.head => ring'[s] = ring[s]
  BY <1>1, <1>3, <1>4, <1>7
<1>9. KernelStep
  BY <1>2, <1>4, <1>5, <1>8 DEF KernelStep
<1>10. Contiguous'
  <2>1. InRing /\ ~FrameRing
    BY <1>3 DEF InRing, FrameRing
  <2>2. [ring[kern.head] EXCEPT !.user = TRUE].user
    BY <1>6 DEF SlotType
  <2>3. \A s \in Slots : ring'[s].user <=> ring[s].user \/ s = kern.head
    BY <1>1, <1>3, <1>4, <1>8, <2>2
  <2>4. kern'.head = NextSlot(kern.head) /\ ring'[kern.head].pkts # <<>>
    BY <1>1, <1>3, <1>4, <1>8 DEF KernType, Retire
  <2> QED
    BY <1>2, <1>3, <1>8, <2>1, <2>3, <2>4, FillKeepsContiguous
<1>11. BlockRead'
  <2>1. h.current # 0 => ring'[h.offset] = ring[h.offset]
    BY <1>3, <1>4, <1>8 DEF CaptureInv, BlockRead
  <2> QED
    BY <1>2, <2>1 DEF CaptureInv, BlockRead, At
<1> QED
  BY <1>5, <1>9, <1>10, <1>11, KernelKeeps DEF CaptureInv
--------------------------------------------------------------------------------
(* Reading.  A step that looks at packets takes some away and adds none.   *)

ReadStep ==
  /\ call.op = "read" /\ call' \in RestType \cup ReadType
  /\ how' = how /\ ring' \in [Slots -> SlotType] /\ kern' \in KernType /\ h' \in HandleType
  /\ kern'.filter = kern.filter /\ kern'.next = kern.next
  /\ h'.fcode = h.fcode /\ h'.since = h.since
  /\ (h'.applied <=> h.applied) /\ (h'.drained <=> h.drained) /\ (h'.stuck <=> h.stuck)
  /\ (h'.filtering_in_kernel = 0 <=> h.filtering_in_kernel = 0)
  /\ \A s \in Slots : \A p \in PacketType : Among(p, ring'[s].pkts) => Among(p, ring[s].pkts)
  /\ \A p \in PacketType : Among(p, kern'.queue) => Among(p, kern.queue)

(* What holds after any step that reads.                                   *)
LEMMA ReadKeeps ==
  ASSUME CaptureInv, ReadStep
  PROVE  CaptureType' /\ Numbered' /\ NewPass' /\ QueueDrained' /\ SettingFilter'
<1>1. /\ call' \in RestType \cup ReadType
      /\ how' = how /\ ring' \in [Slots -> SlotType] /\ kern' \in KernType /\ h' \in HandleType
      /\ kern'.filter = kern.filter /\ kern'.next = kern.next
      /\ h'.fcode = h.fcode /\ h'.since = h.since
      /\ (h'.filtering_in_kernel = 0 <=> h.filtering_in_kernel = 0)
  BY DEF ReadStep
<1>2. CaptureType'
  BY <1>1 DEF CaptureInv, CaptureType
<1>3. ASSUME NEW p \in PacketType, Waits(p)' PROVE Waits(p)
  <2>1. Among(p, kern'.queue) \/ \E s \in Slots : Among(p, ring'[s].pkts)
    BY <1>3 DEF Waits, Among
  <2> QED
    BY <2>1 DEF ReadStep, Waits
<1>4. Numbered'
  BY <1>1, <1>3 DEF CaptureInv, Numbered
<1>5. NewPass'
  <2> SUFFICES ASSUME h.filtering_in_kernel # 0
               PROVE  /\ kern.filter.tags \in SUBSET h.fcode.tags
                      /\ \A p \in PacketType : Waits(p)' /\ p.id >= h.since => Passes(h.fcode, p.kind)
    BY <1>1 DEF NewPass, Passes
  <2> QED
    BY <1>3 DEF CaptureInv, NewPass
<1>6. QueueDrained'
  <2> SUFFICES ASSUME how.version = "socket", h'.drained, h.filtering_in_kernel # 0,
                      NEW p \in PacketType, Among(p, kern'.queue)
               PROVE  p.id >= h.since
    BY <1>1 DEF QueueDrained, Among
  <2>1. Among(p, kern.queue) /\ h.drained
    BY DEF ReadStep
  <2> QED
    BY <2>1 DEF CaptureInv, QueueDrained
<1>7. SettingFilter'
  <2>1. call'.op # "filter"
    BY <1>1 DEF RestType, ReadType
  <2> QED
    BY <2>1 DEF SettingFilter
<1> QED
  BY <1>2, <1>4, <1>5, <1>6, <1>7

(* A packet that pcap_handle_packet_mmap hands to the callback passes: it  *)
(* came since the filter is on the socket, or the handle ran the filter.   *)
LEMMA RingHands ==
  ASSUME CaptureInv, ReadStep, InRing, NEW p \in PacketType, Among(p, ring[h.offset].pkts),
         NEW verdict \in bpf_filter(p.kind), NEW ret, ret = pcap_handle_packet_mmap(p, verdict),
         last' = IF ret = 1 THEN Header(p) ELSE Nothing
  PROVE  FilterObeyed'
<1>1. /\ call.op = "read" /\ how' = how /\ kern'.filter = kern.filter /\ h'.fcode = h.fcode
      /\ h'.since = h.since
  BY DEF ReadStep
<1>2. h'.applied <=> h.applied
  BY DEF ReadStep
<1>3. h.offset \in Slots /\ h.filtering_in_kernel \in Nat /\ h.since \in Nat /\ p.id \in Nat
      /\ how.version \in {"V1", "V2", "V3", "socket"}
  BY DEF CaptureInv, CaptureType, HandleType, PacketType, HowType
<1>4. h'.applied => \/ \A kind \in Kinds : Passes(h'.fcode, kind) => Passes(kern'.filter, kind)
                    \/ h'.stuck /\ h'.filtering_in_kernel = 0
  <2>1. (h'.stuck <=> h.stuck) /\ (h'.filtering_in_kernel = 0 <=> h.filtering_in_kernel = 0)
    BY DEF ReadStep
  <2> QED
    BY <1>1, <1>2, <2>1 DEF CaptureInv, FilterObeyed, Passes
<1>5. CASE ret # 1
  <2>1. last'.id = 0
    BY <1>5 DEF Nothing
  <2> QED
    BY <1>4, <2>1 DEF FilterObeyed, Passes
<1>6. CASE ret = 1
  <2>1. /\ last'.id = p.id /\ last'.kind = p.kind /\ last'.fcode = h.fcode
        /\ last'.direction = h.direction
    BY <1>6 DEF Header
  <2>2. /\ linux_check_direction(p.kind, h.direction)
        /\ ~(run_bpf(h.filtering_in_kernel) /\ ~verdict)
    BY <1>6 DEF pcap_handle_packet_mmap
  <2>3. ASSUME ~how.cooked, ~(p.id < h.since /\ how.version = "V3") PROVE Passes(h.fcode, p.kind)
    <3>1. verdict = Passes(h.fcode, p.kind)
      BY <2>3 DEF bpf_filter
    <3>2. CASE verdict
      BY <3>1, <3>2
    <3>3. CASE ~verdict
      <4>1. h.filtering_in_kernel = 1
        BY <1>3, <2>2, <3>3 DEF run_bpf
      <4>2. ASSUME p.id < h.since PROVE FALSE
        <5>1. FrameRing
          BY <1>3, <2>3, <4>2 DEF FrameRing, InRing
        <5>2. Ahead(h.offset, h.offset) + 1 < 1
          BY <1>1, <1>3, <2>3, <4>1, <4>2, <5>1 DEF CaptureInv, OldCounted
        <5>3. Ahead(h.offset, h.offset) = 0
          BY <1>3, AheadFacts
        <5> QED
          BY <5>2, <5>3
      <4>3. p.id >= h.since /\ Waits(p)
        BY <1>3, <4>2 DEF Waits
      <4> QED
        BY <4>1, <4>3 DEF CaptureInv, NewPass
    <3> QED
      BY <3>2, <3>3
  <2>4. linux_check_direction(last'.kind, last'.direction)
    BY <2>1, <2>2
  <2>5. \/ Passes(last'.fcode, last'.kind)
        \/ how'.cooked /\ InRing'
        \/ last'.id < h'.since /\ how'.version = "V3"
    BY <1>1, <2>1, <2>3 DEF InRing
  <2> QED
    BY <1>4, <2>4, <2>5 DEF FilterObeyed, Passes, linux_check_direction, InRing
<1> QED
  BY <1>5, <1>6

(* The reader gives the slot back that it has read.                        *)
LEMMA ReleaseKeepsContiguous ==
  ASSUME CaptureInv, InRing, how' = how, kern' = kern, ring[h.offset].user, ring' = Released,
         h'.offset = NextSlot(h.offset)
  PROVE  Contiguous'
<1>1. ring \in [Slots -> SlotType] /\ kern.head \in Slots /\ h.offset \in Slots
  BY DEF CaptureInv, CaptureType, KernType, HandleType
<1>2. /\ ring'[h.offset] = Slot(FALSE, <<>>) /\ \A s \in Slots : s # h.offset => ring'[s] = ring[s]
  BY <1>1 DEF Released
<1>3. ~ring'[h.offset].user /\ ring'[h.offset].pkts = <<>>
  BY <1>2 DEF Slot
<1>4. /\ \A s \in Slots : ring'[s].pkts # <<>> => ring'[s].user \/ s = kern'.head
      /\ FrameRing' =>
           \A s \in Slots : (ring'[s].user <=> ring'[s].pkts # <<>>) /\ Len(ring'[s].pkts) <= 1
  <2>1. ASSUME NEW s \in Slots
        PROVE  /\ ring'[s].pkts # <<>> => ring'[s].user \/ s = kern.head
               /\ FrameRing => (ring'[s].user <=> ring'[s].pkts # <<>>) /\ Len(ring'[s].pkts) <= 1
    <3>1. CASE s = h.offset
      BY <1>3, <3>1
    <3>2. CASE s # h.offset
      BY <1>2, <3>2 DEF CaptureInv, Contiguous
    <3> QED
      BY <3>1, <3>2
  <2> QED
    BY <2>1 DEF FrameRing
<1>5. \A s \in Slots : ring'[s].user <=> ring[s].user /\ s # h.offset
  BY <1>2, <1>3
<1>6. \A s \in Slots : /\ Ahead(h'.offset, s) = IF s = h.offset THEN cc - 1 ELSE Ahead(h.offset, s) - 1
                       /\ Ahead(h.offset, s) \in Slots /\ (Ahead(h.offset, s) = 0 <=> s = h.offset)
  BY <1>1, AheadFacts
<1>7. \A a, b \in Slots : /\ a - 1 < cc - 1 /\ ~(cc - 1 < a - 1)
                          /\ a - 1 < b - 1 <=> a < b
                          /\ b # 0 => (~(cc - 1 < b - 1))
                          /\ a < b => b # 0
  BY SlotOrder DEF Slots
<1>8. \A s \in Slots : ring'[s].user <=> Ahead(h'.offset, s) < Ahead(h'.offset, kern.head)
  <2> SUFFICES ASSUME NEW s \in Slots
               PROVE  ring'[s].user <=> Ahead(h'.offset, s) < Ahead(h'.offset, kern.head)
    OBVIOUS
  <2>1. CASE kern.head = h.offset /\ \A t \in Slots : ring[t].user
    <3>1. Ahead(h'.offset, kern.head) = cc - 1
      BY <1>1, <1>6, <2>1
    <3>2. CASE s = h.offset
      <4>1. Ahead(h'.offset, s) = cc - 1
        BY <1>6, <3>2
      <4>2. ~(cc - 1 < cc - 1)
        BY SlotOrder
      <4> QED
        BY <1>5, <3>1, <3>2, <4>1, <4>2
    <3>3. CASE s # h.offset
      <4>1. Ahead(h'.offset, s) = Ahead(h.offset, s) - 1
        BY <1>6, <3>3
      <4> QED
        BY <1>5, <1>6, <1>7, <2>1, <3>1, <3>3, <4>1
    <3> QED
      BY <3>2, <3>3
  <2>2. CASE \A t \in Slots : ring[t].user <=> Ahead(h.offset, t) < Ahead(h.offset, kern.head)
    <3>1. Ahead(h.offset, kern.head) # 0 /\ kern.head # h.offset
      BY <1>1, <1>6, <1>7, <2>2
    <3>2. Ahead(h'.offset, kern.head) = Ahead(h.offset, kern.head) - 1
      BY <1>1, <1>6, <3>1
    <3>3. CASE s = h.offset
      <4>1. Ahead(h'.offset, s) = cc - 1
        BY <1>6, <3>3
      <4> QED
        BY <1>1, <1>5, <1>6, <1>7, <3>1, <3>2, <3>3, <4>1
    <3>4. CASE s # h.offset
      <4>1. Ahead(h'.offset, s) = Ahead(h.offset, s) - 1
        BY <1>6, <3>4
      <4> QED
        BY <1>1, <1>5, <1>6, <1>7, <2>2, <3>2, <3>4, <4>1
    <3> QED
      BY <3>3, <3>4
  <2> QED
    BY <2>1, <2>2 DEF CaptureInv, Contiguous
<1> QED
  BY <1>4, <1>8 DEF Contiguous, Ahead
(* The counter of packets to run the filter on goes down to 1 and no       *)
(* further.                                                                *)
LEMMA CountedFacts ==
  ASSUME NEW c \in Nat
  PROVE  /\ Counted(c) \in Nat /\ (Counted(c) = 0 <=> c = 0)
         /\ \A a \in Nat : a + 1 < c => (a - 1) + 1 < Counted(c)
BY DEF Counted

(* pcap_read_linux_mmap_v1 and _v2 look at the packet of a slot, and give  *)
(* the slot back.                                                          *)
LEMMA FrameKeeps ==
  ASSUME CaptureInv, pcap_read_linux_mmap
  PROVE  CaptureInv'
<1>1. /\ CaptureType /\ how \in HowType /\ ring \in [Slots -> SlotType] /\ kern \in KernType
      /\ h \in HandleType
  BY DEF CaptureInv, CaptureType
<1>2. call.op = "read" /\ call.pc = "frames" /\ FrameRing /\ InRing /\ how' = how /\ kern' = kern
  BY DEF pcap_read_linux_mmap, At, FrameRing, InRing
<1>3. call \in ReadType
  BY <1>2 DEF CaptureInv, CaptureType, RestType, SettingType
<1>4. h.offset \in Slots /\ h.filtering_in_kernel \in Nat /\ call.pkts \in Int
  BY <1>1, <1>3 DEF HandleType, ReadType
<1>5. CASE ~More(call) \/ ~pcap_get_ring_frame(h.offset, TRUE)
  <2>1. Returns(call.pkts) /\ ring' = ring /\ h' = h /\ last' = Nothing
    BY <1>5 DEF pcap_read_linux_mmap
  <2>2. CallRests
    BY <1>1, <1>2, <1>4, <2>1, CallMoves
  <2>3. HandleKept
    BY <1>1, <2>1, BreakLoopKept
  <2> QED
    BY <1>2, <2>1, <2>2, <2>3, QuietKeeps
<1>6. CASE ~(~More(call) \/ ~pcap_get_ring_frame(h.offset, TRUE))
  <2> DEFINE p == Head(ring[h.offset].pkts)
  <2>1. PICK verdict \in bpf_filter(p.kind) : \E ret \in {pcap_handle_packet_mmap(p, verdict)} :
          /\ Settle(p, ret)
          /\ IF ret < 0
             THEN /\ Returns(ret)
                  /\ h' = [h EXCEPT !.filtering_in_kernel = CountedFor(p)]
                  /\ UNCHANGED ring
             ELSE /\ ring' = Released
                  /\ h' = [h EXCEPT !.offset = NextSlot(@), !.filtering_in_kernel = CountedFor(p),
                                    !.break_loop = FALSE]
                  /\ call' = IF h.break_loop THEN Ended(call, -2) ELSE [call EXCEPT !.pkts = @ + ret]
    BY <1>6 DEF pcap_read_linux_mmap
  <2>2. PICK ret : ret = pcap_handle_packet_mmap(p, verdict)
    OBVIOUS
  <2>3. ret \in {-1, 0, 1}
    BY <2>2 DEF pcap_handle_packet_mmap
  <2>4. ring[h.offset].user
    BY <1>6 DEF pcap_get_ring_frame
  <2>5. ring[h.offset].pkts \in Seq(PacketType) /\ ring[h.offset].pkts # <<>>
    BY <1>1, <1>2, <1>4, <2>4 DEF SlotType, CaptureInv, Contiguous
  <2>6. p \in PacketType /\ Among(p, ring[h.offset].pkts)
    BY <2>5, InFacts
  <2>7. last' = IF ret = 1 THEN Header(p) ELSE Nothing
    BY <2>1, <2>2 DEF Settle, Told
  <2> HIDE DEF p
  <2>8. CASE ret < 0
    <3>1. PICK c \in Nat : c = CountedFor(p)
      BY <1>4, CountedFacts DEF CountedFor
    <3>2. /\ Returns(ret) /\ ring' = ring /\ last' = Nothing /\ ret \in Int
          /\ h' = [h EXCEPT !.filtering_in_kernel = c]
      BY <2>1, <2>2, <2>3, <2>7, <2>8, <3>1
    <3>3. h' \in HandleType
      BY <1>1, <3>2, Zenon DEF HandleType
    <3>4. /\ h'.offset = h.offset /\ h'.filtering_in_kernel = c
          /\ h'.fcode = h.fcode /\ h'.since = h.since /\ h'.current = h.current
      BY <1>1, <3>2 DEF HandleType
    <3>5. (h'.applied <=> h.applied) /\ (h'.drained <=> h.drained) /\ (h'.stuck <=> h.stuck)
      BY <1>1, <3>2 DEF HandleType
    <3>6. call' \in RestType \cup ReadType /\ ~At("block")'
      BY <1>1, <1>2, <3>2, ReturnsRests DEF Returns, At
    <3>7. ReadStep
      BY <1>1, <1>2, <1>4, <3>1, <3>2, <3>3, <3>4, <3>5, <3>6, CountedFacts DEF ReadStep, CountedFor
    <3>8. FilterObeyed'
      BY <1>2, <2>2, <2>6, <2>7, <3>7, RingHands
    <3>9. Contiguous'
      BY <1>2, <3>2, <3>4 DEF CaptureInv, Contiguous, FrameRing, InRing, Ahead
    <3>10. BlockRead'
      BY <1>2, <3>4, <3>6 DEF CaptureInv, BlockRead, FrameRing
    <3>11. OldCounted'
      <4>1. ~how.cooked => c = h.filtering_in_kernel
        BY <2>2, <2>8, <3>1 DEF pcap_handle_packet_mmap, CountedFor
      <4>2. call'.op # "filter"
        BY <3>6 DEF RestType, ReadType
      <4> QED
        BY <1>2, <3>2, <3>4, <4>1, <4>2 DEF CaptureInv, OldCounted, FrameRing, Ahead, Among
    <3> QED
      BY <3>7, <3>8, <3>9, <3>10, <3>11, ReadKeeps DEF CaptureInv
  <2>9. CASE ~(ret < 0)
    <3>0. CountedFor(p) = Counted(h.filtering_in_kernel)
      BY <2>2, <2>9 DEF pcap_handle_packet_mmap, CountedFor
    <3>1. /\ ring' = Released
          /\ h' = [h EXCEPT !.offset = NextSlot(@), !.filtering_in_kernel = CountedFor(p),
                            !.break_loop = FALSE]
          /\ call' = IF h.break_loop THEN Ended(call, -2) ELSE [call EXCEPT !.pkts = @ + ret]
      BY <2>1, <2>2, <2>9
    <3>2. PICK o \in Slots, c \in Nat : o = NextSlot(h.offset) /\ c = Counted(h.filtering_in_kernel)
      BY <1>4, SlotOrder, CountedFacts
    <3>3. h' = [h EXCEPT !.offset = o, !.filtering_in_kernel = c, !.break_loop = FALSE]
      BY <3>0, <3>1, <3>2
    <3>4. h' \in HandleType
      BY <1>1, <3>3, Zenon DEF HandleType
    <3>5. /\ h'.offset = NextSlot(h.offset) /\ h'.filtering_in_kernel = Counted(h.filtering_in_kernel)
          /\ h'.fcode = h.fcode /\ h'.since = h.since /\ h'.current = h.current
      BY <1>1, <3>2, <3>3 DEF HandleType
    <3>6. (h'.applied <=> h.applied) /\ (h'.drained <=> h.drained) /\ (h'.stuck <=> h.stuck)
      BY <1>1, <3>3 DEF HandleType
    <3>7. call' \in RestType \cup ReadType /\ ~At("block")'
      <4>1. CASE call' = Ended(call, -2)
        BY <1>1, <1>2, <4>1, ReturnsRests DEF At
      <4>2. CASE call' = [call EXCEPT !.pkts = @ + ret]
        <5>1. PICK n \in Int : n = call.pkts + ret
          BY <1>4, <2>3
        <5>2. call' = [call EXCEPT !.pkts = n]
          BY <4>2, <5>1
        <5> QED
          BY <1>2, <1>3, <5>2 DEF ReadType, At
      <4> QED
        BY <3>1, <4>1, <4>2
    <3>8. /\ ring' \in [Slots -> SlotType] /\ ring'[h.offset].pkts = <<>>
          /\ \A s \in Slots : s # h.offset => ring'[s] = ring[s]
      <4>1. Slot(FALSE, <<>>) \in SlotType /\ Slot(FALSE, <<>>).pkts = <<>>
        BY DEF Slot, SlotType
      <4> QED
        BY <1>1, <1>4, <3>1, <4>1 DEF Released
    <3>9. \A x : ~Among(x, <<>>)
      BY DEF Among
    <3>10. ReadStep
      BY <1>1, <1>2, <1>4, <3>4, <3>5, <3>6, <3>7, <3>8, <3>9, CountedFacts DEF ReadStep
    <3>11. FilterObeyed'
      BY <1>2, <2>2, <2>6, <2>7, <3>10, RingHands
    <3>12. Contiguous'
      BY <1>2, <2>4, <3>1, <3>5, ReleaseKeepsContiguous
    <3>13. BlockRead'
      BY <1>2, <3>5, <3>7 DEF CaptureInv, BlockRead, FrameRing
    <3>14. OldCounted'
      <4> SUFFICES ASSUME ~how.cooked, h'.filtering_in_kernel # 0, NEW s \in Slots,
                          NEW x \in PacketType, Among(x, ring'[s].pkts), x.id < h.since
                   PROVE  Ahead(h'.offset, s) + 1 < h'.filtering_in_kernel
        <5>1. call'.op # "filter"
          BY <3>7 DEF RestType, ReadType
        <5> QED
          BY <1>2, <3>5, <5>1 DEF OldCounted, Ahead, Among
      <4>1. s # h.offset /\ Among(x, ring[s].pkts)
        BY <3>8, <3>9
      <4>2. Ahead(h.offset, s) + 1 < h.filtering_in_kernel
        BY <1>2, <1>4, <3>5, <4>1, CountedFacts DEF CaptureInv, OldCounted
      <4>3. Ahead(h.offset, s) \in Nat /\ Ahead(h'.offset, s) = Ahead(h.offset, s) - 1
        <5>1. Ahead(h.offset, s) \in Slots /\ Ahead(NextSlot(h.offset), s) = Ahead(h.offset, s) - 1
          BY <1>4, <4>1, AheadFacts
        <5>2. \A a \in Slots : a \in Nat
          BY SlotOrder DEF Slots
        <5> QED
          BY <3>5, <5>1, <5>2
      <4> QED
        BY <1>4, <3>5, <4>2, <4>3, CountedFacts
    <3> QED
      BY <3>10, <3>11, <3>12, <3>13, <3>14, ReadKeeps DEF CaptureInv
  <2> QED
    BY <2>3, <2>8, <2>9
<1> QED
  BY <1>5, <1>6
(* pcap_read_linux_mmap_v3 begins a block or goes on in it.                *)
LEMMA NextBlockKeeps ==
  ASSUME CaptureInv, NextBlock
  PROVE  CaptureInv'
<1>1. /\ CaptureType /\ how \in HowType /\ ring \in [Slots -> SlotType] /\ kern \in KernType
      /\ h \in HandleType
  BY DEF CaptureInv, CaptureType
<1>2. /\ call.op = "read" /\ how.version = "V3" /\ how' = how /\ ring' = ring /\ kern' = kern
      /\ last' = Nothing
  BY DEF NextBlock, At
<1>3. call \in ReadType
  BY <1>2 DEF CaptureInv, CaptureType, RestType, SettingType
<1>4. h.offset \in Slots /\ h.current \in Nat /\ h.left \in Int /\ call.pkts \in Int /\ call.cnt \in Int
  BY <1>1, <1>3 DEF HandleType, ReadType
<1>5. CASE ~pcap_get_ring_frame(h.offset, TRUE) \/ ~More(call)
  <2>1. Returns(call.pkts) /\ h' = h
    BY <1>5 DEF NextBlock
  <2>2. CallRests
    BY <1>1, <1>2, <1>4, <2>1, CallMoves
  <2>3. HandleKept
    BY <1>1, <2>1, BreakLoopKept
  <2> QED
    BY <1>2, <2>1, <2>2, <2>3, QuietKeeps
<1>6. CASE ~(~pcap_get_ring_frame(h.offset, TRUE) \/ ~More(call))
  <2> DEFINE len == Len(ring[h.offset].pkts)
  <2>1. ring[h.offset].user /\ len \in Nat
    BY <1>1, <1>4, <1>6 DEF pcap_get_ring_frame, SlotType
  <2>2. PICK c \in Nat, l \in Nat :
          /\ c = (IF h.current = 0 THEN 1 ELSE h.current) /\ l = (IF h.current = 0 THEN len ELSE h.left)
    BY <1>4, <2>1 DEF CaptureInv, BlockRead
  <2>3. c # 0 /\ l = (len + 1) - c
    BY <2>1, <2>2 DEF CaptureInv, BlockRead
  <2>4. PICK todo \in 0 .. l : todo = IF call.cnt >= 0 /\ l > call.cnt THEN call.cnt ELSE l
    BY <1>4
  <2>5. h' = [h EXCEPT !.current = c, !.left = l]
    BY <1>6, <2>2 DEF NextBlock
  <2>6. call' = [call EXCEPT !.pc = "block", !.todo = todo]
    BY <1>6, <2>2, <2>4 DEF NextBlock
  <2>7. h' \in HandleType
    <3>1. l \in Int
      OBVIOUS
    <3> QED
      BY <1>1, <2>5, <3>1, Zenon DEF HandleType
  <2>8. /\ h'.offset = h.offset /\ h'.filtering_in_kernel = h.filtering_in_kernel
        /\ h'.fcode = h.fcode /\ h'.since = h.since /\ h'.current = c /\ h'.left = l
    BY <1>1, <2>5 DEF HandleType
  <2>9. (h'.applied <=> h.applied) /\ (h'.drained <=> h.drained) /\ (h'.stuck <=> h.stuck)
    BY <1>1, <2>5 DEF HandleType
  <2>10. call' \in ReadType /\ call'.todo = todo /\ call'.op = "read"
    <3>1. todo \in Int
      BY <2>4
    <3> QED
      BY <1>3, <2>6, <3>1 DEF ReadType
  <2>11. ReadStep
    BY <1>1, <1>2, <2>7, <2>8, <2>9, <2>10 DEF ReadStep
  <2>12. BlockRead'
    BY <1>2, <2>1, <2>3, <2>4, <2>8, <2>10 DEF BlockRead
  <2>13. Contiguous' /\ OldCounted'
    BY <1>2, <2>8 DEF CaptureInv, Contiguous, OldCounted, FrameRing, InRing, Ahead
  <2>14. FilterObeyed'
    <3>1. last'.id = 0
      BY <1>2 DEF Nothing
    <3> QED
      BY <1>2, <2>8, <2>9, <3>1 DEF CaptureInv, FilterObeyed, Passes
  <2> QED
    BY <2>11, <2>12, <2>13, <2>14, ReadKeeps DEF CaptureInv
<1> QED
  BY <1>5, <1>6

(* pcap_read_linux_mmap_v3 looks at a packet of a block.                   *)
LEMMA InBlockKeeps ==
  ASSUME CaptureInv, InBlock
  PROVE  CaptureInv'
<1>1. /\ CaptureType /\ how \in HowType /\ ring \in [Slots -> SlotType] /\ kern \in KernType
      /\ h \in HandleType
  BY DEF CaptureInv, CaptureType
<1>2. /\ At("block") /\ call.op = "read" /\ call.todo > 0 /\ how' = how /\ ring' = ring /\ kern' = kern
  BY DEF InBlock, At
<1>3. call \in ReadType
  BY <1>2 DEF CaptureInv, CaptureType, RestType, SettingType
<1>4. /\ h.offset \in Slots /\ h.current \in Nat /\ h.left \in Int /\ h.filtering_in_kernel \in Nat
      /\ call.pkts \in Int /\ call.todo \in Int
  BY <1>1, <1>3 DEF HandleType, ReadType
<1>5. PICK len \in Nat : len = Len(ring[h.offset].pkts)
  BY <1>1, <1>4 DEF SlotType
<1>6. /\ h.current # 0 /\ how.version = "V3" /\ call.todo \in 0 .. h.left
      /\ h.left = (len + 1) - h.current /\ ring[h.offset].user
  BY <1>2, <1>5 DEF CaptureInv, BlockRead
<1>7. InRing /\ ~FrameRing
  BY <1>6 DEF InRing, FrameRing
<1> DEFINE p == ring[h.offset].pkts[h.current]
<1>8. PICK verdict \in bpf_filter(p.kind) : \E ret \in {pcap_handle_packet_mmap(p, verdict)} :
        IF ret < 0
        THEN /\ last' = Nothing
             /\ h' = [h EXCEPT !.filtering_in_kernel = CountedFor(p), !.current = 0]
             /\ Returns(ret)
        ELSE /\ Settle(p, ret)
             /\ h' = [h EXCEPT !.filtering_in_kernel = CountedFor(p), !.current = @ + 1, !.left = @ - 1]
             /\ call' = [call EXCEPT !.pkts = @ + ret, !.todo = @ - 1]
  BY DEF InBlock
<1>9. PICK ret : ret = pcap_handle_packet_mmap(p, verdict)
  OBVIOUS
<1>10. ret \in {-1, 0, 1}
  BY <1>9 DEF pcap_handle_packet_mmap
<1>11. p \in PacketType /\ Among(p, ring[h.offset].pkts)
  <2>1. h.current \in 1 .. len
    BY <1>2, <1>4, <1>6
  <2>2. ring[h.offset].pkts \in Seq(PacketType)
    BY <1>1, <1>4 DEF SlotType
  <2> QED
    BY <1>5, <2>1, <2>2 DEF Among
<1>12. last' = IF ret = 1 THEN Header(p) ELSE Nothing
  BY <1>8, <1>9, <1>10 DEF Settle, Told
<1> DEFINE c == CountedFor(p)
<1>15. c \in Nat /\ (c = 0 <=> h.filtering_in_kernel = 0)
  BY <1>4, CountedFacts DEF CountedFor
<1> HIDE DEF p, c
<1>13. CASE ret < 0
  <2>1. Returns(ret) /\ h' = [h EXCEPT !.filtering_in_kernel = c, !.current = 0] /\ ret \in Int
    BY <1>8, <1>9, <1>10, <1>13 DEF c
  <2>2. call' \in RestType \cup ReadType /\ ~At("block")'
    BY <1>1, <1>2, <2>1, ReturnsRests DEF Returns, At
  <2>3. h' \in HandleType
    <3>1. 0 \in Nat
      OBVIOUS
    <3> QED
      BY <1>1, <1>15, <2>1, <3>1, Zenon DEF HandleType
  <2>4. /\ h'.offset = h.offset /\ h'.filtering_in_kernel = c
        /\ h'.fcode = h.fcode /\ h'.since = h.since /\ h'.current = 0
    BY <1>1, <2>1 DEF HandleType
  <2>5. (h'.applied <=> h.applied) /\ (h'.drained <=> h.drained) /\ (h'.stuck <=> h.stuck)
    BY <1>1, <2>1 DEF HandleType
  <2>6. ReadStep
    BY <1>1, <1>2, <1>15, <2>2, <2>3, <2>4, <2>5 DEF ReadStep
  <2>7. FilterObeyed'
    BY <1>7, <1>9, <1>11, <1>12, <2>6, RingHands
  <2>8. BlockRead'
    BY <2>2, <2>4 DEF BlockRead
  <2>9. Contiguous' /\ OldCounted'
    BY <1>2, <1>7, <2>4 DEF CaptureInv, Contiguous, OldCounted, FrameRing, InRing, Ahead
  <2> QED
    BY <2>6, <2>7, <2>8, <2>9, ReadKeeps DEF CaptureInv
<1>14. CASE ~(ret < 0)
  <2>1. PICK k \in Nat, l \in Int : k = h.current + 1 /\ l = h.left - 1
    BY <1>4
  <2>2. PICK n \in Int, t \in Int : n = call.pkts + ret /\ t = call.todo - 1
    BY <1>4, <1>10
  <2>3. h' = [h EXCEPT !.filtering_in_kernel = c, !.current = k, !.left = l]
    BY <1>8, <1>9, <1>14, <2>1 DEF c
  <2>4. call' = [call EXCEPT !.pkts = n, !.todo = t]
    BY <1>8, <1>9, <1>14, <2>2
  <2>5. h' \in HandleType
    BY <1>1, <1>15, <2>3, Zenon DEF HandleType
  <2>6. /\ h'.offset = h.offset /\ h'.filtering_in_kernel = c
        /\ h'.fcode = h.fcode /\ h'.since = h.since /\ h'.current = k /\ h'.left = l
    BY <1>1, <2>3 DEF HandleType
  <2>7. (h'.applied <=> h.applied) /\ (h'.drained <=> h.drained) /\ (h'.stuck <=> h.stuck)
    BY <1>1, <2>3 DEF HandleType
  <2>8. call' \in ReadType /\ call'.todo = t /\ call'.op = "read"
    BY <1>3, <2>4 DEF ReadType
  <2>10. ReadStep
    BY <1>1, <1>2, <1>15, <2>5, <2>6, <2>7, <2>8 DEF ReadStep
  <2>11. FilterObeyed'
    BY <1>7, <1>9, <1>11, <1>12, <2>10, RingHands
  <2>12. k # 0 /\ l = (len + 1) - k /\ l >= 0 /\ t \in 0 .. l
    BY <1>2, <1>4, <1>6, <2>1, <2>2
  <2>13. BlockRead'
    BY <1>2, <1>5, <1>6, <2>6, <2>8, <2>12 DEF BlockRead
  <2>14. Contiguous' /\ OldCounted'
    BY <1>2, <1>7, <2>6 DEF CaptureInv, Contiguous, OldCounted, FrameRing, InRing, Ahead
  <2> QED
    BY <2>10, <2>11, <2>13, <2>14, ReadKeeps DEF CaptureInv
<1> QED
  BY <1>13, <1>14

(* pcap_read_linux_mmap_v3 gives a block back that it has read.            *)
LEMMA EndOfBlockKeeps ==
  ASSUME CaptureInv, EndOfBlock
  PROVE  CaptureInv'
<1>1. /\ CaptureType /\ how \in HowType /\ ring \in [Slots -> SlotType] /\ kern \in KernType
      /\ h \in HandleType
  BY DEF CaptureInv, CaptureType
<1>2. /\ At("block") /\ call.op = "read" /\ how' = how /\ kern' = kern /\ last' = Nothing
  BY DEF EndOfBlock, At
<1>3. call \in ReadType
  BY <1>2 DEF CaptureInv, CaptureType, RestType, SettingType
<1>4. h.offset \in Slots /\ h.current \in Nat
  BY <1>1 DEF HandleType
<1>5. h.current # 0 /\ how.version = "V3"
  BY <1>2 DEF CaptureInv, BlockRead
<1> DEFINE done == h.left <= 0
<1>6. PICK o \in Slots, c \in Nat :
        o = (IF done THEN NextSlot(h.offset) ELSE h.offset) /\ c = (IF done THEN 0 ELSE h.current)
  BY <1>4, SlotOrder
<1>7. /\ ring' = (IF done THEN Released ELSE ring)
      /\ h' = [h EXCEPT !.offset = o, !.current = c, !.break_loop = FALSE]
      /\ call' = IF h.break_loop THEN Ended(call, -2) ELSE [call EXCEPT !.pc = "frames"]
  BY <1>6 DEF EndOfBlock
<1>8. h' \in HandleType
  BY <1>1, <1>7, Zenon DEF HandleType
<1>9. /\ h'.offset = o /\ h'.filtering_in_kernel = h.filtering_in_kernel
      /\ h'.fcode = h.fcode /\ h'.since = h.since /\ h'.current = c /\ h'.left = h.left
  BY <1>1, <1>7 DEF HandleType
<1>10. (h'.applied <=> h.applied) /\ (h'.drained <=> h.drained) /\ (h'.stuck <=> h.stuck)
  BY <1>1, <1>7 DEF HandleType
<1>11. call' \in RestType \cup ReadType /\ ~At("block")'
  <2>1. CASE call' = Ended(call, -2)
    BY <1>1, <1>2, <2>1, ReturnsRests DEF At
  <2>2. CASE call' = [call EXCEPT !.pc = "frames"]
    BY <1>1, <1>3, <2>2, QuietTypes DEF At
  <2> QED
    BY <1>7, <2>1, <2>2
<1>12. /\ ring' \in [Slots -> SlotType]
       /\ \A s \in Slots : \A p \in PacketType : Among(p, ring'[s].pkts) => Among(p, ring[s].pkts)
       /\ ~done => ring' = ring
  <2>1. Slot(FALSE, <<>>) \in SlotType /\ Slot(FALSE, <<>>).pkts = <<>>
    BY DEF Slot, SlotType
  <2>2. \A x : ~Among(x, <<>>)
    BY DEF Among
  <2>3. Released \in [Slots -> SlotType] /\ Released[h.offset].pkts = <<>>
        /\ \A s \in Slots : s # h.offset => Released[s] = ring[s]
    BY <1>1, <1>4, <2>1 DEF Released
  <2> QED
    BY <1>1, <1>7, <2>2, <2>3
<1>13. ReadStep
  BY <1>1, <1>2, <1>8, <1>9, <1>10, <1>11, <1>12 DEF ReadStep
<1>14. BlockRead'
  <2>1. CASE done
    BY <1>2, <1>6, <1>9, <1>11, <2>1 DEF BlockRead
  <2>2. CASE ~done
    BY <1>2, <1>5, <1>6, <1>9, <1>11, <1>12, <2>2 DEF CaptureInv, BlockRead
  <2> QED
    BY <2>1, <2>2
<1>15. Contiguous' /\ OldCounted'
  <2>1. CASE done
    <3>1. InRing /\ ring[h.offset].user
      BY <1>2, <1>5 DEF InRing, CaptureInv, BlockRead
    <3>2. Contiguous'
      BY <1>2, <1>6, <1>7, <1>9, <2>1, <3>1, ReleaseKeepsContiguous
    <3> QED
      BY <1>2, <1>5, <3>2 DEF OldCounted, FrameRing
  <2>2. CASE ~done
    BY <1>2, <1>5, <1>6, <1>9, <1>12, <2>2 DEF CaptureInv, Contiguous, OldCounted, FrameRing, InRing, Ahead
  <2> QED
    BY <2>1, <2>2
<1>16. FilterObeyed'
  <2>1. last'.id = 0
    BY <1>2 DEF Nothing
  <2> QED
    BY <1>2, <1>9, <1>10, <2>1 DEF CaptureInv, FilterObeyed, Passes
<1> QED
  BY <1>13, <1>14, <1>15, <1>16, ReadKeeps DEF CaptureInv
(* pcap_read_packet takes a packet from the queue of the socket.           *)
LEMMA SocketKeeps ==
  ASSUME CaptureInv, RecvPlace, pcap_read_packet
  PROVE  CaptureInv'
<1>1. /\ CaptureType /\ how \in HowType /\ ring \in [Slots -> SlotType] /\ kern \in KernType
      /\ h \in HandleType
  BY DEF CaptureInv, CaptureType
<1>2. call.op = "read" /\ call.pc = "recv" /\ how' = how /\ ring' = ring /\ h' = h
  BY DEF pcap_read_packet, At
<1>3. HandleKept
  BY <1>1, <1>2, BreakLoopKept
<1>4. CASE \E n \in Int : Returns(n) /\ kern' = kern /\ last' = Nothing
  <2>1. CallRests
    BY <1>1, <1>2, <1>4, CallMoves
  <2> QED
    BY <1>2, <1>3, <1>4, <2>1, QuietKeeps
<1> DEFINE p == Head(kern.queue)
           taken == linux_check_direction(p.kind, h.direction)
                    /\ (h.filtering_in_kernel # 0 \/ Passes(h.fcode, p.kind))
<1>5. CASE /\ kern.queue # <<>> /\ kern' = [kern EXCEPT !.queue = Tail(@)]
           /\ \E ret \in IF taken THEN {1, -1} ELSE {0} : Settle(p, ret) /\ Returns(ret)
  <2>1. PICK ret \in IF taken THEN {1, -1} ELSE {0} : Settle(p, ret) /\ Returns(ret)
    BY <1>5
  <2>2. ret \in {-1, 0, 1} /\ (ret = 1 => taken)
    BY <2>1
  <2>3. kern.queue \in Seq(PacketType) /\ Tail(kern.queue) \in Seq(PacketType)
    BY <1>1, <1>5 DEF KernType
  <2>4. p \in PacketType /\ Among(p, kern.queue)
    BY <1>5, <2>3, InFacts
  <2>5. last' = IF ret = 1 THEN Header(p) ELSE Nothing
    BY <2>1 DEF Settle, Told
  <2> HIDE DEF p
  <2>6. /\ kern' \in KernType /\ kern'.filter = kern.filter /\ kern'.head = kern.head
        /\ kern'.next = kern.next /\ kern'.queue = Tail(kern.queue)
    BY <1>1, <1>5, <2>3 DEF KernType
  <2>7. call' \in RestType \cup ReadType /\ ~At("block")'
    BY <1>1, <1>2, <2>1, <2>2, ReturnsRests DEF Returns, At
  <2>8. \A x \in PacketType : Among(x, kern'.queue) => Among(x, kern.queue)
    BY <1>5, <2>3, <2>6, InFacts
  <2>9. ReadStep
    BY <1>1, <1>2, <2>6, <2>7, <2>8 DEF ReadStep
  <2>10. Contiguous' /\ OldCounted'
    <3>1. Contiguous'
      BY <1>2, <2>6 DEF CaptureInv, Contiguous, FrameRing, InRing, Ahead
    <3>2. call'.op # "filter"
      BY <2>7 DEF RestType, ReadType
    <3>3. OldCounted'
      BY <1>2, <3>2 DEF CaptureInv, OldCounted, FrameRing, Ahead, Among
    <3> QED
      BY <3>1, <3>3
  <2>11. BlockRead'
    BY <1>2, <2>7 DEF CaptureInv, BlockRead
  <2>12. FilterObeyed'
    <3>1. h.applied => \/ \A kind \in Kinds : Passes(h.fcode, kind) => Passes(kern'.filter, kind)
                       \/ h.stuck /\ h.filtering_in_kernel = 0
      BY <2>6 DEF CaptureInv, FilterObeyed
    <3>2. CASE ret # 1
      <4>1. last'.id = 0
        BY <2>5, <3>2 DEF Nothing
      <4> QED
        BY <1>2, <3>1, <4>1 DEF FilterObeyed, Passes
    <3>3. CASE ret = 1
      <4>1. /\ last'.id = p.id /\ last'.kind = p.kind /\ last'.fcode = h.fcode
            /\ last'.direction = h.direction
        BY <2>5, <3>3 DEF Header
      <4>2. linux_check_direction(p.kind, h.direction)
        BY <2>2, <3>3
      <4>3. \/ Passes(h.fcode, p.kind)
            \/ how.cooked /\ InRing
            \/ p.id < h.since /\ (how.version = "V3" \/ (~InRing /\ ~h.drained))
        <5>1. CASE Passes(h.fcode, p.kind)
          BY <5>1
        <5>2. CASE h.filtering_in_kernel # 0
          <6>1. p.id >= h.since => Passes(h.fcode, p.kind)
            BY <2>4, <5>2 DEF CaptureInv, NewPass, Waits
          <6>2. how.version = "socket"
            BY <1>2 DEF RecvPlace, At
          <6>3. h.drained => p.id >= h.since
            BY <2>4, <5>2, <6>2 DEF CaptureInv, QueueDrained
          <6>4. p.id \in Nat /\ h.since \in Nat
            BY <1>1, <2>4 DEF PacketType, HandleType
          <6> QED
            BY <6>1, <6>2, <6>3, <6>4 DEF InRing
        <5> QED
          BY <2>2, <3>3, <5>1, <5>2, Zenon
      <4> QED
        BY <1>2, <3>1, <4>1, <4>2, <4>3 DEF FilterObeyed, Passes, linux_check_direction, InRing
    <3> QED
      BY <3>2, <3>3
  <2> QED
    BY <2>9, <2>10, <2>11, <2>12, ReadKeeps DEF CaptureInv
<1>6. 0 \in Int /\ -1 \in Int
  OBVIOUS
<1> QED
  BY <1>4, <1>5, <1>6 DEF pcap_read_packet
--------------------------------------------------------------------------------
(* Setting the filter.  Packets stay where they are, or are drained.       *)

SetStep ==
  /\ call.op # "read" /\ call' \in RestType \cup SettingType
  /\ how' = how /\ ring' = ring /\ last' = Nothing /\ kern' \in KernType /\ h' \in HandleType
  /\ kern'.head = kern.head /\ kern'.next = kern.next
  /\ h'.offset = h.offset /\ h'.current = h.current /\ h'.left = h.left
  /\ h'.since \in {h.since, kern.next}
  /\ \A p \in PacketType : Among(p, kern'.queue) => Among(p, kern.queue)

(* What holds after any step of pcap_setfilter: while the filter is not in *)
(* the kernel nothing is asked of what waits.                              *)
LEMMA SetKeeps ==
  ASSUME CaptureInv, SetStep
  PROVE  /\ CaptureType' /\ Contiguous' /\ BlockRead' /\ Numbered'
         /\ h'.filtering_in_kernel = 0 => NewPass' /\ OldCounted' /\ QueueDrained'
         /\ ~h'.applied => FilterObeyed'
<1>1. /\ call' \in RestType \cup SettingType
      /\ how' = how /\ ring' = ring /\ last' = Nothing /\ kern' \in KernType /\ h' \in HandleType
      /\ kern'.head = kern.head /\ kern'.next = kern.next
      /\ h'.offset = h.offset /\ h'.current = h.current /\ h'.left = h.left
      /\ h'.since \in {h.since, kern.next}
  BY DEF SetStep
<1>2. CaptureType'
  BY <1>1 DEF CaptureInv, CaptureType
<1>3. Contiguous'
  BY <1>1 DEF CaptureInv, Contiguous, FrameRing, InRing, Ahead
<1>4. BlockRead'
  <2>1. ~At("block")'
    BY <1>1 DEF At, RestType, SettingType
  <2> QED
    BY <1>1, <2>1 DEF CaptureInv, BlockRead
<1>5. Numbered'
  <2>1. ASSUME NEW p \in PacketType, Waits(p)' PROVE Waits(p)
    <3>1. Among(p, kern'.queue) \/ \E s \in Slots : Among(p, ring[s].pkts)
      BY <1>1, <2>1 DEF Waits, Among
    <3> QED
      BY <3>1 DEF SetStep, Waits
  <2>2. kern.next \in Nat
    BY DEF CaptureInv, CaptureType, KernType
  <2> QED
    BY <1>1, <2>1, <2>2 DEF CaptureInv, Numbered
<1>6. h'.filtering_in_kernel = 0 => NewPass' /\ OldCounted' /\ QueueDrained'
  BY DEF NewPass, OldCounted, QueueDrained
<1>7. ~h'.applied => FilterObeyed'
  <2>1. last'.id = 0
    BY <1>1 DEF Nothing
  <2> QED
    BY <2>1 DEF FilterObeyed
<1> QED
  BY <1>2, <1>3, <1>4, <1>5, <1>6, <1>7

(* pcap_setfilter gives the handle its copy, or fails and leaves none.     *)
LEMMA SetFilterKeeps ==
  ASSUME CaptureInv, pcap_setfilter
  PROVE  CaptureInv'
<1>1. CaptureType /\ kern \in KernType /\ h \in HandleType
  BY DEF CaptureInv, CaptureType
<1>2. call.op = "idle" /\ how' = how /\ ring' = ring /\ kern' = kern /\ last' = Nothing
  BY DEF pcap_setfilter
<1>3. PICK n \in Nat : n = h.settings + 1
  BY <1>1 DEF HandleType
<1>4. PICK f \in Filters :
        \/ /\ h' = [h EXCEPT !.fcode = NoFilter, !.settings = n, !.applied = FALSE]
           /\ call' = call
        \/ /\ h' = [h EXCEPT !.fcode = f, !.filtering_in_kernel = 0, !.settings = n, !.applied = FALSE,
                             !.drained = FALSE]
           /\ \/ call' = Setting(f, IF ~f.long /\ fix_program(f).ok THEN "total" ELSE "reset")
              \/ call' = call
  BY <1>3 DEF pcap_setfilter
<1>5. f \in FilterType /\ NoFilter \in FilterType
  BY FilterFacts
<1>6. call \in RestType
  BY <1>1, <1>2 DEF CaptureType, ReadType, SettingType
<1>7. CASE h' = [h EXCEPT !.fcode = NoFilter, !.settings = n, !.applied = FALSE] /\ call' = call
  <2>1. h' \in HandleType
    BY <1>1, <1>5, <1>7, Zenon DEF HandleType
  <2>2. /\ h'.offset = h.offset /\ h'.filtering_in_kernel = h.filtering_in_kernel /\ h'.fcode = NoFilter
        /\ h'.current = h.current /\ h'.left = h.left /\ h'.since = h.since
    BY <1>1, <1>7 DEF HandleType
  <2>3. ~h'.applied /\ (h'.drained <=> h.drained)
    BY <1>1, <1>7 DEF HandleType
  <2>4. SetStep
    BY <1>1, <1>2, <1>6, <1>7, <2>1, <2>2 DEF SetStep
  <2>5. NewPass'
    <3>1. kern.filter.tags \in SUBSET NoFilter.tags
      BY <1>1, FilterFacts DEF KernType
    <3>2. \A p \in PacketType : Passes(NoFilter, p.kind)
      BY FilterFacts DEF PacketType
    <3> QED
      BY <1>2, <2>2, <3>1, <3>2 DEF NewPass, Passes
  <2>6. OldCounted' /\ QueueDrained'
    BY <1>2, <1>7, <2>2, <2>3 DEF CaptureInv, OldCounted, QueueDrained, FrameRing, Ahead, Among
  <2>7. SettingFilter'
    BY <1>2, <1>7 DEF SettingFilter
  <2> QED
    BY <2>3, <2>4, <2>5, <2>6, <2>7, SetKeeps DEF CaptureInv
<1>8. CASE /\ h' = [h EXCEPT !.fcode = f, !.filtering_in_kernel = 0, !.settings = n, !.applied = FALSE,
                             !.drained = FALSE]
           /\ \/ call' = Setting(f, IF ~f.long /\ fix_program(f).ok THEN "total" ELSE "reset")
              \/ call' = call
  <2>1. h' \in HandleType
    <3>1. 0 \in Nat
      OBVIOUS
    <3> QED
      BY <1>1, <1>5, <1>8, <3>1, Zenon DEF HandleType
  <2>2. /\ h'.offset = h.offset /\ h'.filtering_in_kernel = 0 /\ h'.fcode = f
        /\ h'.current = h.current /\ h'.left = h.left /\ h'.since = h.since
    BY <1>1, <1>8 DEF HandleType
  <2>3. ~h'.applied /\ ~h'.drained
    BY <1>1, <1>8 DEF HandleType
  <2>4. \/ call' = call
        \/ call' = Setting(f, "total")
        \/ call' = Setting(f, "reset")
    BY <1>8
  <2>5. \A pc \in {"total", "reset"} :
          Setting(f, pc) \in SettingType /\ Setting(f, pc).f = f /\ Setting(f, pc).pc = pc
    BY <1>5, SlotOrder DEF Setting, SettingType
  <2>6. SetStep
    BY <1>1, <1>2, <1>6, <2>1, <2>2, <2>4, <2>5 DEF SetStep
  <2>7. SettingFilter'
    <3>1. CASE call' = call
      BY <1>2, <3>1 DEF SettingFilter
    <3>2. CASE call' # call
      BY <2>2, <2>3, <2>4, <2>5, <3>2 DEF SettingFilter
    <3> QED
      BY <3>1, <3>2
  <2> QED
    BY <2>2, <2>3, <2>6, <2>7, SetKeeps DEF CaptureInv
<1> QED
  BY <1>4, <1>7, <1>8
(* Where set_kernel_filter is, before the filter is on the socket.         *)
LEMMA SettingFacts ==
  ASSUME CaptureInv, call.op = "filter"
  PROVE  /\ call \in SettingType /\ call.f = h.fcode /\ ~h.applied
         /\ call.pc # "count" => h.filtering_in_kernel = 0
<1>1. call \in SettingType
  BY DEF CaptureInv, CaptureType, RestType, ReadType
<1>2. call.f = h.fcode /\ ~h.applied /\ (call.pc # "count" => h.filtering_in_kernel = 0)
  BY DEF CaptureInv, SettingFilter
<1> QED
  BY <1>1, <1>2

(* SO_DETACH_FILTER takes the filter off the socket, or leaves it there.   *)
LEMMA DetachFacts ==
  ASSUME kern \in KernType, Detach
  PROVE  /\ kern' \in KernType /\ kern'.head = kern.head
         /\ kern'.queue = kern.queue /\ kern'.next = kern.next
<1>1. PICK f \in {NoFilter, kern.filter} : kern' = [kern EXCEPT !.filter = f]
  BY DEF Detach
<1>2. f \in FilterType
  BY FilterFacts DEF KernType
<1> QED
  BY <1>1, <1>2 DEF KernType

(* set_kernel_filter puts the filter on that refuses everything.           *)
LEMMA AttachTotalKeeps ==
  ASSUME CaptureInv, AttachTotal
  PROVE  CaptureInv'
<1>1. CaptureType /\ kern \in KernType /\ h \in HandleType
  BY DEF CaptureInv, CaptureType
<1>2. /\ call.op = "filter" /\ call.pc = "total" /\ how' = how /\ ring' = ring /\ h' = h
      /\ last' = Nothing
  BY DEF AttachTotal, Step
<1>3. /\ call \in SettingType /\ call.f = h.fcode /\ ~h.applied /\ ~h.drained
      /\ h.filtering_in_kernel = 0
  BY <1>2, SettingFacts DEF CaptureInv, SettingFilter
<1>4. ASSUME NEW pc \in {"drain", "attach"}, kern' = [kern EXCEPT !.filter = TotalFilter],
             call' = [call EXCEPT !.pc = pc, !.total = TRUE]
      PROVE  CaptureInv'
  <2>1. /\ kern' \in KernType /\ kern'.filter.tags = {} /\ kern'.head = kern.head
        /\ kern'.queue = kern.queue /\ kern'.next = kern.next
    BY <1>1, <1>4, FilterFacts DEF KernType
  <2>2. call' \in SettingType /\ call'.f = call.f /\ call'.pc = pc /\ call'.op = "filter"
    BY <1>3, <1>4 DEF SettingType
  <2>3. SetStep
    BY <1>1, <1>2, <2>1, <2>2 DEF SetStep
  <2>4. SettingFilter'
    BY <1>2, <1>3, <2>1, <2>2 DEF SettingFilter
  <2> QED
    BY <1>2, <1>3, <2>3, <2>4, SetKeeps DEF CaptureInv
<1>5. CASE call' = [call EXCEPT !.pc = "attach"] /\ kern' = kern
  <2>1. call' \in SettingType /\ call'.f = call.f /\ call'.pc = "attach" /\ call'.op = "filter"
    BY <1>3, <1>5 DEF SettingType
  <2>2. SetStep
    BY <1>1, <1>2, <1>5, <2>1 DEF SetStep
  <2>3. SettingFilter'
    BY <1>2, <1>3, <2>1 DEF SettingFilter
  <2> QED
    BY <1>2, <1>3, <2>2, <2>3, SetKeeps DEF CaptureInv
<1> QED
  BY <1>4, <1>5 DEF AttachTotal

(* set_kernel_filter reads the queue of the socket empty.                  *)
LEMMA DrainKeeps ==
  ASSUME CaptureInv, Drain
  PROVE  CaptureInv'
<1>1. CaptureType /\ kern \in KernType /\ h \in HandleType
  BY DEF CaptureInv, CaptureType
<1>2. call.op = "filter" /\ call.pc = "drain" /\ how' = how /\ ring' = ring /\ last' = Nothing
  BY DEF Drain, Step
<1>3. /\ call \in SettingType /\ call.f = h.fcode /\ ~h.applied /\ ~h.drained
      /\ h.filtering_in_kernel = 0 /\ kern.filter.tags = {}
  BY <1>2, SettingFacts DEF CaptureInv, SettingFilter
<1>4. CASE kern.queue # <<>> /\ kern' = [kern EXCEPT !.queue = Tail(@)] /\ h' = h /\ call' = call
  <2>1. kern.queue \in Seq(PacketType) /\ Tail(kern.queue) \in Seq(PacketType)
    BY <1>1, <1>4 DEF KernType
  <2>2. /\ kern' \in KernType /\ kern'.filter = kern.filter /\ kern'.head = kern.head
        /\ kern'.queue = Tail(kern.queue) /\ kern'.next = kern.next
    BY <1>1, <1>4, <2>1 DEF KernType
  <2>3. \A p \in PacketType : Among(p, kern'.queue) => Among(p, kern.queue)
    BY <1>4, <2>1, <2>2, InFacts
  <2>4. SetStep
    BY <1>1, <1>2, <1>3, <1>4, <2>2, <2>3 DEF SetStep
  <2>5. SettingFilter'
    BY <1>2, <1>3, <1>4, <2>2 DEF SettingFilter
  <2> QED
    BY <1>3, <1>4, <2>4, <2>5, SetKeeps DEF CaptureInv
<1>5. CASE /\ kern.queue = <<>> /\ call' = [call EXCEPT !.pc = "attach"]
           /\ h' = [h EXCEPT !.drained = TRUE] /\ kern' = kern
  <2>1. call' \in SettingType /\ call'.f = call.f /\ call'.pc = "attach" /\ call'.op = "filter"
    BY <1>3, <1>5 DEF SettingType
  <2>2. h' \in HandleType
    BY <1>1, <1>5, Zenon DEF HandleType
  <2>3. /\ h'.offset = h.offset /\ h'.filtering_in_kernel = 0 /\ h'.fcode = h.fcode
        /\ h'.current = h.current /\ h'.left = h.left /\ h'.since = h.since
    BY <1>1, <1>3, <1>5 DEF HandleType
  <2>4. ~h'.applied
    BY <1>1, <1>3, <1>5 DEF HandleType
  <2>5. SetStep
    BY <1>1, <1>2, <1>5, <2>1, <2>2, <2>3 DEF SetStep
  <2>6. SettingFilter'
    BY <1>2, <1>3, <1>5, <2>1, <2>3, <2>4 DEF SettingFilter
  <2> QED
    BY <2>3, <2>4, <2>5, <2>6, SetKeeps DEF CaptureInv
<1>6. CASE Detach /\ h' = h /\ call' = [call EXCEPT !.pc = "reset", !.err = -2]
  <2>1. /\ kern' \in KernType /\ kern'.head = kern.head
        /\ kern'.queue = kern.queue /\ kern'.next = kern.next
    BY <1>1, <1>6, DetachFacts
  <2>2. call' \in SettingType /\ call'.f = call.f /\ call'.pc = "reset" /\ call'.op = "filter"
    <3>1. PICK e \in Int : e = -2
      OBVIOUS
    <3>2. call' = [call EXCEPT !.pc = "reset", !.err = e]
      BY <1>6, <3>1
    <3> QED
      BY <1>3, <3>2 DEF SettingType
  <2>3. SetStep
    BY <1>1, <1>2, <1>6, <2>1, <2>2 DEF SetStep
  <2>4. SettingFilter'
    BY <1>3, <1>6, <2>2 DEF SettingFilter
  <2> QED
    BY <1>3, <1>6, <2>3, <2>4, SetKeeps DEF CaptureInv
<1> QED
  BY <1>4, <1>5, <1>6 DEF Drain
(* set_kernel_filter puts the filter on the socket: from now on only what  *)
(* passes it comes in, and what waits came before.                         *)
LEMMA AttachKeeps ==
  ASSUME CaptureInv, Attach
  PROVE  CaptureInv'
<1>1. CaptureType /\ how \in HowType /\ ring \in [Slots -> SlotType] /\ kern \in KernType /\ h \in HandleType
  BY DEF CaptureInv, CaptureType
<1>2. call.op = "filter" /\ call.pc = "attach" /\ how' = how /\ ring' = ring /\ last' = Nothing
  BY DEF Attach, Step
<1>3. call \in SettingType /\ call.f = h.fcode /\ ~h.applied /\ h.filtering_in_kernel = 0
  BY <1>2, SettingFacts
<1>4. h.offset \in Slots /\ kern.next \in Nat \ {0} /\ h.fcode \in FilterType
  BY <1>1 DEF HandleType, KernType
<1>5. CASE /\ kern' = [kern EXCEPT !.filter = fix_program(call.f).prog]
           /\ h' = [h EXCEPT !.filtering_in_kernel = 1, !.applied = ~InRing, !.since = kern.next,
                             !.stuck = FALSE]
           /\ call' = IF InRing THEN [call EXCEPT !.pc = "count", !.n = 0, !.slot = PrevSlot(h.offset)]
                      ELSE Idle
  <2>1. /\ kern' \in KernType /\ kern'.filter.tags = h.fcode.tags /\ kern'.head = kern.head
        /\ kern'.queue = kern.queue /\ kern'.next = kern.next
    <3>1. PICK g \in FilterType : g = fix_program(call.f).prog /\ g.tags = h.fcode.tags
      BY <1>3, <1>4, FilterFacts
    <3> QED
      BY <1>1, <1>5, <3>1 DEF KernType
  <2>2. h' \in HandleType
    <3>1. (~InRing) \in BOOLEAN /\ FALSE \in BOOLEAN /\ 1 \in Nat
      OBVIOUS
    <3> QED
      BY <1>1, <1>4, <1>5, <3>1, Zenon DEF HandleType
  <2>3. /\ h'.offset = h.offset /\ h'.filtering_in_kernel = 1 /\ h'.fcode = h.fcode
        /\ h'.current = h.current /\ h'.left = h.left /\ h'.since = kern.next
    BY <1>1, <1>5 DEF HandleType
  <2>4. (h'.applied <=> ~InRing) /\ (h'.drained <=> h.drained)
    BY <1>1, <1>5 DEF HandleType
  <2>5. PrevSlot(h.offset) \in Slots /\ Ahead(h.offset, PrevSlot(h.offset)) = cc - 1
    BY <1>4, SlotOrder, AheadFacts
  <2>6. InRing => /\ call' \in SettingType /\ call'.f = call.f /\ call'.pc = "count"
                  /\ call'.op = "filter" /\ call'.n = 0 /\ call'.slot = PrevSlot(h.offset)
    <3>1. PICK s \in Slots : s = PrevSlot(h.offset)
      BY <2>5
    <3>2. 0 \in 0 .. cc
      BY SlotOrder
    <3> SUFFICES ASSUME InRing
                 PROVE  /\ call' \in SettingType /\ call'.f = call.f /\ call'.pc = "count"
                        /\ call'.op = "filter" /\ call'.n = 0 /\ call'.slot = s
      BY <3>1
    <3>3. call' = [call EXCEPT !.pc = "count", !.n = 0, !.slot = s]
      BY <1>5, <3>1
    <3> QED
      BY <1>3, <3>2, <3>3 DEF SettingType
  <2>7. ~InRing => call' \in RestType /\ call'.op = "idle"
    BY <1>5 DEF Idle, RestType
  <2>8. SetStep
    BY <1>2, <2>1, <2>2, <2>3, <2>6, <2>7 DEF SetStep
  <2>9. NewPass'
    <3>1. ASSUME NEW p \in PacketType, Waits(p)' PROVE ~(p.id >= kern.next)
      <4>1. Waits(p)
        BY <1>2, <2>1, <3>1 DEF Waits, Among
      <4>2. p.id \in Nat
        BY DEF PacketType
      <4> QED
        BY <1>4, <4>1, <4>2 DEF CaptureInv, Numbered
    <3> QED
      BY <2>1, <2>3, <3>1 DEF NewPass
  <2>10. OldCounted'
    <3> SUFFICES ASSUME FrameRing', NEW s \in Slots
                 PROVE  call'.op = "filter" /\ call'.n = 0 /\ (Ahead(h'.offset, s) + 0) + 0 < cc
      BY DEF OldCounted
    <3>1. InRing
      BY <1>2 DEF FrameRing, InRing
    <3>2. Ahead(h.offset, s) \in Slots
      BY <1>4, AheadFacts
    <3> QED
      BY <2>3, <2>6, <3>1, <3>2, SlotOrder DEF Slots
  <2>11. QueueDrained'
    <3> SUFFICES ASSUME how.version = "socket", h.drained, NEW p \in PacketType, Among(p, kern.queue)
                 PROVE  FALSE
      BY <1>2, <2>1, <2>4 DEF QueueDrained, Among
    <3>1. kern.queue = <<>>
      BY <1>2 DEF CaptureInv, SettingFilter
    <3> QED
      BY <3>1 DEF Among
  <2>12. SettingFilter'
    <3>1. CASE InRing
      BY <1>2, <1>3, <2>1, <2>3, <2>4, <2>5, <2>6, <3>1, SlotOrder DEF SettingFilter, InRing, Ahead
    <3>2. CASE ~InRing
      BY <2>7, <3>2 DEF SettingFilter
    <3> QED
      BY <3>1, <3>2
  <2>13. FilterObeyed'
    <3>1. last'.id = 0
      BY <1>2 DEF Nothing
    <3> QED
      BY <2>1, <2>3, <3>1 DEF FilterObeyed, Passes
  <2> QED
    BY <2>8, <2>9, <2>10, <2>11, <2>12, <2>13, SetKeeps DEF CaptureInv
<1>6. CASE /\ Detach \/ kern' = kern
           /\ call' = [call EXCEPT !.pc = "reset", !.err = -1] /\ h' = h
  <2>1. /\ kern' \in KernType /\ kern'.head = kern.head
        /\ kern'.queue = kern.queue /\ kern'.next = kern.next
    BY <1>1, <1>6, DetachFacts
  <2>2. call' \in SettingType /\ call'.f = call.f /\ call'.pc = "reset" /\ call'.op = "filter"
    <3>1. PICK e \in Int : e = -1
      OBVIOUS
    <3>2. call' = [call EXCEPT !.pc = "reset", !.err = e]
      BY <1>6, <3>1
    <3> QED
      BY <1>3, <3>2 DEF SettingType
  <2>3. SetStep
    BY <1>1, <1>2, <1>6, <2>1, <2>2 DEF SetStep
  <2>4. SettingFilter'
    BY <1>3, <1>6, <2>2 DEF SettingFilter
  <2> QED
    BY <1>3, <1>6, <2>3, <2>4, SetKeeps DEF CaptureInv
<1> QED
  BY <1>5, <1>6 DEF Attach

(* reset_kernel_filter takes the filter off the socket, if it comes off.   *)
LEMMA ResetKeeps ==
  ASSUME CaptureInv, reset_kernel_filter
  PROVE  CaptureInv'
<1>1. CaptureType /\ kern \in KernType /\ h \in HandleType
  BY DEF CaptureInv, CaptureType
<1>2. call.op = "filter" /\ call.pc = "reset" /\ how' = how /\ ring' = ring /\ last' = Nothing
  BY DEF reset_kernel_filter, Step
<1>3. h.filtering_in_kernel = 0
  BY <1>2, SettingFacts
<1>4. PICK b \in BOOLEAN, c \in BOOLEAN :
        h' = [h EXCEPT !.applied = b, !.stuck = c] /\ (c <=> kern'.filter # NoFilter)
  BY DEF reset_kernel_filter
<1>5. /\ kern' \in KernType /\ kern'.head = kern.head
      /\ kern'.queue = kern.queue /\ kern'.next = kern.next
  BY <1>1, DetachFacts DEF reset_kernel_filter
<1>6. h' \in HandleType
  BY <1>1, <1>4, Zenon DEF HandleType
<1>7. /\ h'.offset = h.offset /\ h'.filtering_in_kernel = 0
      /\ h'.current = h.current /\ h'.left = h.left /\ h'.since = h.since
  BY <1>1, <1>3, <1>4 DEF HandleType
<1>8. call' \in RestType /\ call'.op = "idle"
  BY DEF reset_kernel_filter, Idle, RestType
<1>9. SetStep
  BY <1>2, <1>5, <1>6, <1>7, <1>8 DEF SetStep
<1>10. SettingFilter'
  BY <1>8 DEF SettingFilter
<1>11. FilterObeyed'
  <2>1. last'.id = 0
    BY <1>2 DEF Nothing
  <2>2. (\A kind \in Kinds : Passes(kern'.filter, kind)) \/ h'.stuck
    <3>1. h'.stuck <=> c
      BY <1>1, <1>4 DEF HandleType
    <3> QED
      BY <1>4, <3>1, FilterFacts
  <2> QED
    BY <1>7, <2>1, <2>2 DEF FilterObeyed, Passes
<1> QED
  BY <1>7, <1>9, <1>10, <1>11, SetKeeps DEF CaptureInv
(* The kernel owns a slot: what waits lies nearer to the reader.           *)
LEMMA EmptyBeyond ==
  ASSUME CaptureInv, FrameRing, NEW t \in Slots, ~ring[t].user,
         NEW s \in Slots, NEW p \in PacketType, Among(p, ring[s].pkts)
  PROVE  Ahead(h.offset, s) < Ahead(h.offset, t)
<1>1. ring \in [Slots -> SlotType] /\ kern.head \in Slots /\ h.offset \in Slots
  BY DEF CaptureInv, CaptureType, KernType, HandleType
<1>2. ring[s].pkts # <<>>
  BY DEF Among
<1>3. ring[s].user
  BY <1>2 DEF CaptureInv, Contiguous
<1>4. /\ Ahead(h.offset, s) < Ahead(h.offset, kern.head)
      /\ ~(Ahead(h.offset, t) < Ahead(h.offset, kern.head))
  BY <1>3 DEF CaptureInv, Contiguous, FrameRing, InRing
<1>5. \A x \in Slots : Ahead(h.offset, x) \in Int
  <2>1. \A x \in Slots : Ahead(h.offset, x) \in Slots
    BY <1>1, AheadFacts
  <2>2. \A y \in Slots : y \in Int
    BY DEF Slots
  <2> QED
    BY <2>1, <2>2
<1> QED
  BY <1>1, <1>4, <1>5

(* pcap_setfilter_linux_mmap counts a slot, or ends.                       *)
LEMMA CountKeeps ==
  ASSUME CaptureInv, pcap_setfilter_linux_mmap
  PROVE  CaptureInv'
<1>1. CaptureType /\ how \in HowType /\ ring \in [Slots -> SlotType] /\ kern \in KernType /\ h \in HandleType
  BY DEF CaptureInv, CaptureType
<1>2. /\ call.op = "filter" /\ call.pc = "count" /\ how' = how /\ ring' = ring /\ kern' = kern
      /\ last' = Nothing
  BY DEF pcap_setfilter_linux_mmap, Step
<1>3. /\ call \in SettingType /\ call.f = h.fcode /\ ~h.applied /\ h.filtering_in_kernel = 1
      /\ how.version # "socket" /\ kern.filter.tags = h.fcode.tags
      /\ call.n < cc => Ahead(h.offset, call.slot) = (cc - 1) - call.n
  BY <1>2, SettingFacts DEF CaptureInv, SettingFilter
<1>4. call.n \in 0 .. cc /\ call.slot \in Slots /\ h.offset \in Slots /\ cc \in Nat \ {0}
  BY <1>1, <1>3, SlotOrder DEF SettingType, HandleType
<1>5. ASSUME FrameRing, ~how.cooked, NEW s \in Slots, NEW p \in PacketType, Among(p, ring[s].pkts),
             p.id < h.since
      PROVE  (Ahead(h.offset, s) + call.n) + (IF call.n = 0 THEN 0 ELSE 1) < cc
  BY <1>2, <1>3, <1>5 DEF CaptureInv, OldCounted
<1>6. \A s \in Slots : Ahead(h.offset, s) \in Nat
  <2>1. \A s \in Slots : Ahead(h.offset, s) \in Slots
    BY <1>4, AheadFacts
  <2>2. \A y \in Slots : y \in Nat
    BY <1>4 DEF Slots
  <2> QED
    BY <2>1, <2>2
<1>7. PICK slot \in Slots : slot = PrevSlot(call.slot)
  BY <1>4, SlotOrder
<1>8. CASE call.n < cc /\ pcap_get_ring_frame(slot, FALSE)
  <2>1. PICK n \in 0 .. cc : n = call.n + 1
    BY <1>4, <1>8
  <2>2. call' = [call EXCEPT !.n = n, !.slot = slot] /\ h' = h
    BY <1>7, <1>8, <2>1 DEF pcap_setfilter_linux_mmap
  <2>3. /\ call' \in SettingType /\ call'.f = call.f /\ call'.pc = "count" /\ call'.op = "filter"
        /\ call'.n = n /\ call'.slot = slot
    BY <1>2, <1>3, <2>2 DEF SettingType
  <2>4. ~ring[slot].user
    BY <1>8 DEF pcap_get_ring_frame
  <2>5. n < cc => Ahead(h.offset, slot) = (cc - 1) - n
    <3>1. Ahead(h.offset, slot) = IF call.slot = h.offset THEN cc - 1 ELSE Ahead(h.offset, call.slot) - 1
      BY <1>4, <1>7, AheadFacts
    <3>2. call.slot = h.offset <=> Ahead(h.offset, call.slot) = 0
      BY <1>4, AheadFacts
    <3>3. Ahead(h.offset, call.slot) = (cc - 1) - call.n
      BY <1>3, <1>8
    <3> QED
      BY <1>4, <2>1, <3>1, <3>2, <3>3
  <2>6. SetStep
    BY <1>1, <1>2, <2>2, <2>3 DEF SetStep
  <2>7. NewPass' /\ QueueDrained'
    BY <1>2, <2>2 DEF CaptureInv, NewPass, QueueDrained, Waits, Among, Passes
  <2>8. OldCounted'
    <3> SUFFICES ASSUME FrameRing, ~how.cooked, NEW s \in Slots, NEW p \in PacketType,
                        Among(p, ring[s].pkts), p.id < h.since
                 PROVE  (Ahead(h.offset, s) + n) + 1 < cc
      <4>1. n # 0
        BY <1>4, <2>1
      <4> QED
        BY <1>2, <2>2, <2>3, <4>1 DEF OldCounted, FrameRing, Ahead, Among
    <3>1. Ahead(h.offset, s) < Ahead(h.offset, slot)
      BY <2>4, EmptyBeyond
    <3>2. Ahead(h.offset, s) \in Nat /\ Ahead(h.offset, slot) \in 0 .. cc - 1
      BY <1>4, <1>6, AheadFacts DEF Slots
    <3>3. CASE n < cc
      BY <1>4, <2>5, <3>1, <3>2, <3>3
    <3>4. CASE n = cc
      <4>1. (Ahead(h.offset, s) + call.n) + (IF call.n = 0 THEN 0 ELSE 1) < cc
        BY <1>5
      <4>2. call.n = 0
        BY <1>4, <2>1, <3>2, <3>4, <4>1
      <4> QED
        BY <1>4, <2>1, <3>1, <3>2, <3>4, <4>2
    <3> QED
      BY <1>4, <3>3, <3>4
  <2>9. SettingFilter'
    BY <1>2, <1>3, <2>2, <2>3, <2>5 DEF SettingFilter, Ahead
  <2> QED
    BY <1>3, <2>2, <2>6, <2>7, <2>8, <2>9, SetKeeps DEF CaptureInv
<1>9. CASE ~(call.n < cc /\ pcap_get_ring_frame(slot, FALSE))
  <2>1. PICK m \in Nat : m = 1 + (cc - call.n) /\ m # 0
    BY <1>4
  <2>2. h' = [h EXCEPT !.filtering_in_kernel = m, !.applied = TRUE] /\ call' = Idle
    BY <1>7, <1>9, <2>1 DEF pcap_setfilter_linux_mmap
  <2>3. h' \in HandleType
    BY <1>1, <2>2, Zenon DEF HandleType
  <2>4. /\ h'.offset = h.offset /\ h'.filtering_in_kernel = m /\ h'.fcode = h.fcode
        /\ h'.current = h.current /\ h'.left = h.left /\ h'.since = h.since
    BY <1>1, <2>2 DEF HandleType
  <2>5. call' \in RestType /\ call'.op = "idle"
    BY <2>2 DEF Idle, RestType
  <2>6. SetStep
    BY <1>1, <1>2, <2>3, <2>4, <2>5 DEF SetStep
  <2>7. NewPass' /\ QueueDrained'
    BY <1>2, <1>3, <2>4 DEF CaptureInv, NewPass, QueueDrained, Waits, Among, Passes
  <2>8. OldCounted'
    <3> SUFFICES ASSUME FrameRing, ~how.cooked, NEW s \in Slots, NEW p \in PacketType,
                        Among(p, ring[s].pkts), p.id < h.since
                 PROVE  Ahead(h.offset, s) + 1 < m
      BY <1>2, <2>4, <2>5 DEF OldCounted, FrameRing, Ahead, Among
    <3>1. (Ahead(h.offset, s) + call.n) + (IF call.n = 0 THEN 0 ELSE 1) < cc
      BY <1>5
    <3> QED
      BY <1>4, <1>6, <2>1, <3>1
  <2>9. SettingFilter'
    BY <2>5 DEF SettingFilter
  <2>10. FilterObeyed'
    <3>1. last'.id = 0
      BY <1>2 DEF Nothing
    <3> QED
      BY <1>2, <1>3, <2>4, <3>1 DEF FilterObeyed, Passes
  <2> QED
    BY <2>6, <2>7, <2>8, <2>9, <2>10, SetKeeps DEF CaptureInv
<1> QED
  BY <1>8, <1>9
--------------------------------------------------------------------------------
(* Only Receive, which is taken without a ring, goes to recvfrom.          *)
LEMMA PlaceKept ==
  ASSUME CaptureType, RecvPlace, CaptureNext
  PROVE  RecvPlace'
<1> DEFINE Away(c) == ~(c.op = "read" /\ c.pc = "recv")
<1>1. how' = how
  BY DEF CaptureNext, Arrive, Retire, Dispatch, Reader, Start, Polled, Interrupted, PollError,
         pcap_read_linux_mmap, NextBlock, InBlock, EndOfBlock, Receive, pcap_read_packet,
         pcap_breakloop, Signal, SetFilter, pcap_setfilter, AttachTotal, Drain, Attach,
         reset_kernel_filter, pcap_setfilter_linux_mmap, pcap_setdirection, pcap_setnonblock
<1>2. \A c, n : Away(Ended(c, n))
  BY DEF Ended, Reading, Idle
<1>3. SUFFICES call' = call \/ Away(call') \/ Receive
  <2>1. Receive => how.version = "socket"
    BY DEF Receive, InRing
  <2> QED
    BY <1>1, <2>1 DEF RecvPlace, At
<1>4. call.op = "read" => call \in ReadType
  BY DEF CaptureType, RestType, SettingType
<1>5. ASSUME call.op = "read", NEW pc \in {"start", "poll", "signal", "frames"}, To(pc) PROVE Away(call')
  BY <1>4, <1>5 DEF To, ReadType
<1>6. CASE Arrive \/ Retire \/ pcap_setdirection \/ pcap_setnonblock
  BY <1>6 DEF Arrive, Retire, pcap_setdirection, pcap_setnonblock
<1>7. CASE Dispatch
  BY <1>7 DEF Dispatch, Reading
<1>8. CASE Start \/ Polled \/ Interrupted \/ PollError \/ Signal
  <2>1. call.op = "read"
    BY <1>8 DEF Start, Polled, Interrupted, PollError, Signal, At
  <2>2. \/ To("start") \/ To("poll") \/ To("signal") \/ To("frames")
        \/ Returns(-1) \/ Returns(-2)
    BY <1>8 DEF Start, Polled, Interrupted, PollError, Signal, Broken
  <2> QED
    BY <1>2, <1>5, <2>1, <2>2 DEF Returns
<1>9. CASE pcap_read_linux_mmap
  <2>1. call \in ReadType /\ call.pc = "frames"
    BY <1>4, <1>9 DEF pcap_read_linux_mmap, At
  <2>2. (\E n : call' = Ended(call, n)) \/ \E n : call' = [call EXCEPT !.pkts = n]
    BY <1>9 DEF pcap_read_linux_mmap, Returns
  <2>3. \A n : Away([call EXCEPT !.pkts = n])
    BY <2>1 DEF ReadType
  <2> HIDE DEF Away
  <2> QED
    BY <1>2, <2>2, <2>3, Zenon
<1>10. CASE NextBlock \/ InBlock \/ EndOfBlock
  <2>1. call \in ReadType /\ (InBlock => call.pc = "block")
    BY <1>4, <1>10 DEF NextBlock, InBlock, EndOfBlock, At
  <2>2. \/ \E n : call' = Ended(call, n)
        \/ \E n : call' = [call EXCEPT !.pc = "block", !.todo = n]
        \/ InBlock /\ \E m, n : call' = [call EXCEPT !.pkts = m, !.todo = n]
        \/ call' = [call EXCEPT !.pc = "frames"]
    BY <1>10 DEF NextBlock, InBlock, EndOfBlock, Returns
  <2>3. /\ \A n : Away([call EXCEPT !.pc = "block", !.todo = n])
        /\ InBlock => \A m, n : Away([call EXCEPT !.pkts = m, !.todo = n])
        /\ Away([call EXCEPT !.pc = "frames"])
    BY <2>1 DEF ReadType
  <2> HIDE DEF Away
  <2>4. (\E n : call' = Ended(call, n)) => Away(call')
    BY <1>2, Zenon
  <2>5. (\E n : call' = [call EXCEPT !.pc = "block", !.todo = n]) => Away(call')
    BY <2>3, Zenon
  <2>6. ASSUME InBlock, NEW m, NEW n, call' = [call EXCEPT !.pkts = m, !.todo = n] PROVE Away(call')
    <3>1. Away([call EXCEPT !.pkts = m, !.todo = n])
      BY <2>3, <2>6
    <3> QED
      BY <2>6, <3>1, Zenon
  <2>7. call' = [call EXCEPT !.pc = "frames"] => Away(call')
    BY <2>3, Zenon
  <2> QED
    BY <2>2, <2>4, <2>5, <2>6, <2>7
<1>11. CASE pcap_read_packet
  BY <1>2, <1>11 DEF pcap_read_packet, Returns
<1>12. CASE pcap_breakloop
  <2>1. call' = call \/ (call.op = "read" /\ To("signal"))
    BY <1>12 DEF pcap_breakloop, At, To
  <2> QED
    BY <1>5, <2>1
<1>13. CASE SetFilter
  <2>1. call.op = "filter" => call \in SettingType
    BY DEF CaptureType, RestType, ReadType
  <2> SUFFICES call' = call \/ call'.op \in {"idle", "filter"}
    OBVIOUS
  <2>2. CASE pcap_setfilter
    BY <2>2 DEF pcap_setfilter, Setting
  <2>3. CASE AttachTotal
    BY <2>1, <2>3 DEF AttachTotal, Step, SettingType
  <2>4. CASE Drain
    BY <2>1, <2>4 DEF Drain, Step, SettingType
  <2>5. CASE Attach
    <3>1. call \in SettingType
      BY <2>1, <2>5 DEF Attach, Step
    <3>2. /\ \A s : [call EXCEPT !.pc = "count", !.n = 0, !.slot = s].op = "filter"
          /\ \A e : [call EXCEPT !.pc = "reset", !.err = e].op = "filter"
          /\ Idle.op = "idle"
      BY <3>1 DEF SettingType, Idle
    <3>3. \/ call' = [call EXCEPT !.pc = "count", !.n = 0, !.slot = PrevSlot(h.offset)]
          \/ call' = Idle
          \/ call' = [call EXCEPT !.pc = "reset", !.err = -1]
      BY <2>5 DEF Attach
    <3> QED
      BY <3>2, <3>3
  <2>6. CASE reset_kernel_filter
    BY <2>6 DEF reset_kernel_filter, Idle
  <2>7. CASE pcap_setfilter_linux_mmap
    <3>1. call \in SettingType
      BY <2>1, <2>7 DEF pcap_setfilter_linux_mmap, Step
    <3>2. PICK n, s : n = call.n + 1 /\ s = PrevSlot(call.slot)
      OBVIOUS
    <3>3. [call EXCEPT !.n = n, !.slot = s].op = "filter" /\ Idle.op = "idle"
      BY <3>1 DEF SettingType, Idle
    <3>4. call' = [call EXCEPT !.n = n, !.slot = s] \/ call' = Idle
      BY <2>7, <3>2 DEF pcap_setfilter_linux_mmap
    <3> QED
      BY <3>3, <3>4
  <2> QED
    BY <1>13, <2>2, <2>3, <2>4, <2>5, <2>6, <2>7 DEF SetFilter
<1> QED
  BY <1>6, <1>7, <1>8, <1>9, <1>10, <1>11, <1>12, <1>13 DEF CaptureNext, Reader

(* A handle that was just opened.                                          *)
LEMMA InitialCapture ==
  ASSUME CaptureInit
  PROVE  CaptureInv /\ RecvPlace
<1>1. PICK m \in Modes :
        /\ how = [version |-> m.version, cooked |-> m.cooked, vlan_offset |-> IF m.cooked THEN 14 ELSE 12]
        /\ h = [offset |-> 0, filtering_in_kernel |-> 0, fcode |-> NoFilter, direction |-> "inout",
                break_loop |-> FALSE, timeout |-> m.timeout, nonblock |-> FALSE, current |-> 0, left |-> 0,
                settings |-> 0, breaks |-> 0, applied |-> TRUE, since |-> 1, drained |-> TRUE,
                stuck |-> FALSE]
  BY DEF CaptureInit
<1>2. /\ ring = [s \in Slots |-> Slot(FALSE, <<>>)]
      /\ kern = [filter |-> NoFilter, head |-> 0, queue |-> <<>>, next |-> 1]
      /\ call = Idle /\ last = Nothing
  BY DEF CaptureInit, Slots
<1>3. m.version \in {"V1", "V2", "V3", "socket"} /\ m.cooked \in BOOLEAN /\ m.timeout \in Int
  BY RingAssumption
<1>4. how \in HowType
  <2>1. PICK v \in {12, 14} : v = IF m.cooked THEN 14 ELSE 12
    OBVIOUS
  <2> QED
    BY <1>1, <1>3, <2>1, Zenon DEF HowType
<1>5. 0 \in Slots /\ NoFilter \in FilterType
  BY SlotOrder, FilterFacts
<1>6. <<>> \in Seq(PacketType) /\ 1 \in Nat \ {0} /\ 0 \in Nat /\ 0 \in Int
  OBVIOUS
<1>7. h \in HandleType
  BY <1>1, <1>3, <1>5, <1>6, Zenon DEF HandleType
<1>8. kern \in KernType
  BY <1>2, <1>5, <1>6, Zenon DEF KernType
<1>9. Slot(FALSE, <<>>) \in SlotType /\ ~Slot(FALSE, <<>>).user /\ Slot(FALSE, <<>>).pkts = <<>>
  BY DEF Slot, SlotType
<1>10. ring \in [Slots -> SlotType] /\ \A s \in Slots : ~ring[s].user /\ ring[s].pkts = <<>>
  BY <1>2, <1>9
<1>11. call \in RestType /\ call.op = "idle" /\ last.id = 0
  BY <1>2 DEF Idle, RestType, Nothing
<1>12. CaptureType
  BY <1>4, <1>7, <1>8, <1>10, <1>11 DEF CaptureType
<1>13. /\ h.offset = 0 /\ h.filtering_in_kernel = 0 /\ h.fcode = NoFilter /\ h.current = 0 /\ h.since = 1
       /\ kern.filter = NoFilter /\ kern.head = 0 /\ kern.queue = <<>> /\ kern.next = 1
  BY <1>1, <1>2
<1>14. Contiguous
  <2>1. Ahead(0, 0) = 0
    BY <1>5 DEF Ahead
  <2>2. \A s \in Slots : ~(Ahead(0, s) < 0)
    <3>1. \A s \in Slots : Ahead(0, s) \in Slots
      BY <1>5, AheadFacts
    <3>2. \A x \in Slots : ~(x < 0)
      BY DEF Slots
    <3> QED
      BY <3>1, <3>2
  <2> QED
    BY <1>10, <1>13, <2>1, <2>2 DEF Contiguous
<1>15. BlockRead
  BY <1>11, <1>13 DEF BlockRead, At
<1>16. Numbered
  BY <1>10, <1>13 DEF Numbered, Waits, Among
<1>17. NewPass /\ OldCounted /\ QueueDrained
  BY <1>13 DEF NewPass, OldCounted, QueueDrained
<1>18. SettingFilter /\ RecvPlace
  BY <1>11 DEF SettingFilter, RecvPlace, At
<1>19. FilterObeyed
  BY <1>11, <1>13 DEF FilterObeyed
<1> QED
  BY <1>12, <1>14, <1>15, <1>16, <1>17, <1>18, <1>19 DEF CaptureInv

(* Every step keeps the invariant.                                         *)
LEMMA StepKeeps ==
  ASSUME CaptureInv, RecvPlace, CaptureNext
  PROVE  CaptureInv'
<1>1. CASE Arrive \/ Retire
  BY <1>1, ArriveKeeps, RetireKeeps
<1>2. CASE Dispatch \/ Signal \/ pcap_breakloop \/ pcap_setdirection \/ pcap_setnonblock
  BY <1>2, WaitingKeeps, SettingsKeep
<1>3. CASE Reader
  BY <1>3, WaitingKeeps, FrameKeeps, NextBlockKeeps, InBlockKeeps, EndOfBlockKeeps, SocketKeeps DEF Reader
<1>4. CASE SetFilter
  BY <1>4, SetFilterKeeps, AttachTotalKeeps, DrainKeeps, AttachKeeps, ResetKeeps, CountKeeps DEF SetFilter
<1> QED
  BY <1>1, <1>2, <1>3, <1>4 DEF CaptureNext

(* A reader that stutters keeps it too.                                    *)
LEMMA StutterKeeps ==
  ASSUME CaptureInv, RecvPlace, UNCHANGED capture
  PROVE  CaptureInv' /\ RecvPlace'
BY DEF capture, CaptureInv, RecvPlace, CaptureType, Contiguous, BlockRead, Numbered, NewPass, OldCounted,
       QueueDrained, SettingFilter, FilterObeyed, FrameRing, Ahead, Waits, Among, At, Passes, InRing,
       linux_check_direction

(* The invariant holds in every state of a capture.                        *)
LEMMA CaptureInvariant == CaptureSpec => [](CaptureInv /\ RecvPlace)
<1>1. CaptureInv /\ RecvPlace /\ [CaptureNext]_capture => (CaptureInv /\ RecvPlace)'
  <2> SUFFICES ASSUME CaptureInv, RecvPlace, [CaptureNext]_capture PROVE CaptureInv' /\ RecvPlace'
    OBVIOUS
  <2>1. CASE CaptureNext
    <3>1. CaptureType
      BY DEF CaptureInv
    <3> QED
      BY <2>1, <3>1, StepKeeps, PlaceKept
  <2>2. CASE UNCHANGED capture
    BY <2>2, StutterKeeps
  <2> QED
    BY <2>1, <2>2
<1> QED
  BY <1>1, InitialCapture, PTL DEF CaptureSpec

(* pcap_handle_packet_mmap, pcap_read_packet, pcap_setfilter_linux_common: *)
(* whatever arrives while the filter is changed and packets wait, a packet *)
(* that the application gets passes the filter and the direction that are  *)
(* set, but for one that waited in a V3 ring or in a queue that was not    *)
(* drained, and for cooked rings; and a filter that was set hides no       *)
(* packet that it accepts, unless it is run in userland and the filter on  *)
(* the socket could not be detached.  For rings and queues of any size.    *)
THEOREM FilterAlwaysObeyed == CaptureSpec => []FilterObeyed
<1>1. CaptureInv => FilterObeyed
  BY DEF CaptureInv
<1> QED
  BY <1>1, CaptureInvariant, PTL
--------------------------------------------------------------------------------
(* Packets are looked at once, in the order of their arrival, and reach    *)
(* the callback with their lengths.  The slots are in the order of arrival *)
(* from the reader on, and so are the packets of a block and of the queue. *)
RisingIn(r, o) ==
  \A s, t \in Slots : \A i \in 1 .. Len(r[s].pkts), j \in 1 .. Len(r[t].pkts) :
    Ahead(o, s) < Ahead(o, t) \/ (s = t /\ i < j) => r[s].pkts[i].id < r[t].pkts[j].id
RisingQueue(q) == \A i, j \in 1 .. Len(q) : i < j => q[i].id < q[j].id

(* What became of a packet, while it waits and when it is through.         *)
Pending == {"stored", "back"}
Done == {"seen", "unstamped"}
Fates == {"none", "lost"} \cup Pending \cup Done

(* What the histories f of the packets say when n is the next one: none is *)
(* passed over.  And those that were stored and not looked at are in W.    *)
FateOk(f, n) ==
  /\ f \in [1 .. MaxPackets -> Fates] /\ n \in 1 .. MaxPackets + 1
  /\ \A i \in 1 .. MaxPackets : i >= n => f[i] = "none"
  /\ \A i, j \in 1 .. MaxPackets : j < i /\ f[i] \in Done => f[j] \notin Pending
Held(f, W) == /\ W \in SUBSET (1 .. MaxPackets)
              /\ \A i \in 1 .. MaxPackets : f[i] \in Pending <=> i \in W

(* The lengths that came with a packet, and the filters that leave them.   *)
Measured(p) ==
  /\ p.len = p.kind.len /\ p.snap <= p.kind.len
  /\ p.snap = p.kind.len \/ (InRing /\ p.snap >= snapshot /\ p.snap >= 14)
Fits(f) == f.tags = {} \/ f.ret >= 65535 \/ (InRing /\ f.ret >= snapshot /\ f.ret >= 14)

LastTold == last.id # 0 => /\ last.len = OnTheWire(last.kind)
                           /\ last.caplen = Lesser(snapshot, last.len)

InOrder ==
  /\ InRing => RisingIn(ring, h.offset) /\ kern.queue = <<>>
  /\ RisingQueue(kern.queue)
Lengths ==
  /\ \A p \in PacketType : Waits(p) => Measured(p)
  /\ Fits(kern.filter) /\ (call.op = "filter" => call.f \in Filters)
FateKept == FateOk(fate, kern.next) /\ Held(fate, Waiting)

(* A packet that waits for a second look lies in the block that is read,   *)
(* not before the place of the reader, and before a bad frame.             *)
BackAt(i) ==
  /\ how.version = "V3"
  /\ \E b \in 1 .. Len(ring[h.offset].pkts) : \E a \in 1 .. b - 1 :
       /\ ring[h.offset].pkts[a].id = i /\ ring[h.offset].pkts[b].kind.bad # "no"
       /\ a >= h.current

(* What is through came before all that the ring holds, or is read in the  *)
(* block: when a read goes back to the start of a block, it passes nothing *)
(* over.                                                                   *)
AllLater(i, r) == \A s \in Slots : \A k \in 1 .. Len(r[s].pkts) : i < r[s].pkts[k].id
Reread ==
  \A i \in 1 .. MaxPackets :
    /\ fate[i] = "back" => BackAt(i)
    /\ fate[i] = "unstamped" => ~InRing
    /\ InRing /\ fate[i] \in Done => i \in ReadInBlock \/ AllLater(i, ring)

HandedInv == InOrder /\ Lengths /\ FateKept /\ LastTold /\ Reread

USE DEF Fates, Pending, Done
--------------------------------------------------------------------------------
(* A packet arrives and is lost.                                           *)
LEMMA FateLost ==
  ASSUME NEW f, NEW n, FateOk(f, n), n <= MaxPackets
  PROVE  /\ FateOk([f EXCEPT ![n] = "lost"], n + 1)
         /\ \A W : Held(f, W) => Held([f EXCEPT ![n] = "lost"], W)
<1>1. MaxPackets \in Nat
  BY RingAssumption
<1>2. n \in 1 .. MaxPackets /\ n + 1 \in 1 .. MaxPackets + 1 /\ n \in Int
  BY <1>1 DEF FateOk
<1>3. f \in [1 .. MaxPackets -> Fates]
  BY DEF FateOk
<1>4. PICK g : g = [f EXCEPT ![n] = "lost"]
  OBVIOUS
<1>5. /\ g \in [1 .. MaxPackets -> Fates]
      /\ g[n] = "lost" /\ \A i \in 1 .. MaxPackets : i # n => g[i] = f[i]
  BY <1>2, <1>3, <1>4
<1>6. f[n] = "none"
  BY <1>1, <1>2 DEF FateOk
<1>7. \A i \in 1 .. MaxPackets : i >= n + 1 => g[i] = "none"
  BY <1>1, <1>2, <1>5 DEF FateOk
<1>8. \A W : Held(f, W) => Held(g, W)
  BY <1>2, <1>5, <1>6 DEF Held
<1>9. \A i, j \in 1 .. MaxPackets : j < i /\ g[i] \in Done => g[j] \notin Pending
  BY <1>2, <1>5 DEF FateOk
<1> QED
  BY <1>2, <1>4, <1>5, <1>7, <1>8, <1>9 DEF FateOk

(* A packet arrives and is stored.                                         *)
LEMMA FateStored ==
  ASSUME NEW f, NEW n, FateOk(f, n), n <= MaxPackets
  PROVE  /\ FateOk([f EXCEPT ![n] = "stored"], n + 1)
         /\ \A W : Held(f, W) => Held([f EXCEPT ![n] = "stored"], W \cup {n})
<1>1. MaxPackets \in Nat
  BY RingAssumption
<1>2. n \in 1 .. MaxPackets /\ n + 1 \in 1 .. MaxPackets + 1 /\ n \in Int
  BY <1>1 DEF FateOk
<1>3. f \in [1 .. MaxPackets -> Fates]
  BY DEF FateOk
<1>4. PICK g : g = [f EXCEPT ![n] = "stored"]
  OBVIOUS
<1>5. /\ g \in [1 .. MaxPackets -> Fates]
      /\ g[n] = "stored" /\ \A i \in 1 .. MaxPackets : i # n => g[i] = f[i]
  BY <1>2, <1>3, <1>4
<1>6. \A i \in 1 .. MaxPackets : i >= n => f[i] = "none"
  BY <1>1, <1>2 DEF FateOk
<1>7. \A i \in 1 .. MaxPackets : i >= n + 1 => g[i] = "none"
  BY <1>1, <1>2, <1>5, <1>6
<1>8. \A W : Held(f, W) => Held(g, W \cup {n})
  BY <1>2, <1>5 DEF Held
<1>9. ASSUME NEW i \in 1 .. MaxPackets, NEW j \in 1 .. MaxPackets, j < i, g[i] \in Done PROVE g[j] \notin Pending
  <2>1. i # n /\ f[i] \in Done
    BY <1>5, <1>9
  <2>2. i < n
    BY <1>2, <1>6, <2>1
  <2>3. j # n
    BY <1>2, <1>9, <2>2
  <2> QED
    BY <1>5, <1>9, <2>1, <2>3 DEF FateOk
<1> QED
  BY <1>2, <1>4, <1>5, <1>7, <1>8, <1>9 DEF FateOk

(* The first of those that wait is looked at.                              *)
LEMMA FateSeen ==
  ASSUME NEW f, NEW W, NEW n, FateOk(f, n), Held(f, W), NEW x, x \in W, \A y \in W : x <= y,
         NEW d \in Done
  PROVE  /\ f[x] \in Pending /\ FateOk([f EXCEPT ![x] = d], n)
         /\ Held([f EXCEPT ![x] = d], W \ {x})
<1>1. MaxPackets \in Nat
  BY RingAssumption
<1>2. x \in 1 .. MaxPackets /\ f[x] \in Pending /\ W \in SUBSET (1 .. MaxPackets)
      /\ n \in 1 .. MaxPackets + 1
  BY DEF FateOk, Held
<1>3. f \in [1 .. MaxPackets -> Fates]
  BY DEF FateOk
<1>4. PICK g : g = [f EXCEPT ![x] = d]
  OBVIOUS
<1>5. /\ g \in [1 .. MaxPackets -> Fates]
      /\ g[x] = d /\ \A i \in 1 .. MaxPackets : i # x => g[i] = f[i]
  BY <1>2, <1>3, <1>4
<1>6. \A i \in 1 .. MaxPackets : i >= n => g[i] = "none"
  BY <1>2, <1>5 DEF FateOk
<1>7. /\ W \ {x} \in SUBSET (1 .. MaxPackets)
      /\ \A i \in 1 .. MaxPackets : g[i] \in Pending <=> i \in W \ {x}
  BY <1>2, <1>5 DEF Held
<1>8. ASSUME NEW i \in 1 .. MaxPackets, NEW j \in 1 .. MaxPackets, j < i, g[i] \in Done PROVE g[j] \notin Pending
  <2>1. CASE i = x
    <3>1. ~(x <= j) /\ j # x
      BY <1>1, <1>2, <1>8, <2>1
    <3> QED
      BY <1>7, <3>1
  <2>2. CASE i # x
    BY <1>2, <1>5, <1>8, <2>2 DEF FateOk
  <2> QED
    BY <2>1, <2>2
<1> QED
  BY <1>2, <1>4, <1>5, <1>6, <1>7, <1>8 DEF FateOk, Held

(* The packets R are to be looked at again.                                *)
LEMMA FateBack ==
  ASSUME NEW f, NEW W, NEW n, FateOk(f, n), Held(f, W), NEW R \in SUBSET (1 .. MaxPackets), \A i \in R : i < n,
         \A i \in 1 .. MaxPackets : f[i] \in Done => i \in R \/ \A j \in R : i < j,
         NEW g, g = [i \in DOMAIN f |-> IF i \in R THEN "back" ELSE f[i]]
  PROVE  FateOk(g, n) /\ Held(g, W \cup R)
<1>1. MaxPackets \in Nat
  BY RingAssumption
<1>2. f \in [1 .. MaxPackets -> Fates] /\ n \in 1 .. MaxPackets + 1 /\ W \in SUBSET (1 .. MaxPackets)
  BY DEF FateOk, Held
<1>3. /\ g \in [1 .. MaxPackets -> Fates]
      /\ \A i \in 1 .. MaxPackets : g[i] = IF i \in R THEN "back" ELSE f[i]
  BY <1>2
<1>4. \A i \in 1 .. MaxPackets : i >= n => g[i] = "none"
  BY <1>1, <1>2, <1>3 DEF FateOk
<1>5. \A i \in 1 .. MaxPackets : g[i] \in Pending <=> i \in W \cup R
  BY <1>3 DEF Held
<1>6. ASSUME NEW i \in 1 .. MaxPackets, NEW j \in 1 .. MaxPackets, j < i, g[i] \in Done PROVE g[j] \notin Pending
  <2>1. i \notin R /\ f[i] \in Done
    BY <1>3, <1>6
  <2>2. j \notin R
    BY <1>1, <1>6, <2>1
  <2> QED
    BY <1>3, <1>6, <2>1, <2>2 DEF FateOk
<1> QED
  BY <1>2, <1>3, <1>4, <1>5, <1>6 DEF FateOk, Held
--------------------------------------------------------------------------------
(* The packets of a ring that are not looked at yet.                       *)
FirstAt(o, c, s) == IF s = o /\ c # 0 THEN c ELSE 1

(* The packets that a reader at place c of slot o has yet to look at.      *)
LEMMA UnreadIs ==
  ASSUME NEW r \in [Slots -> SlotType], NEW o, NEW c, NEW x
  PROVE  x \in Unread(r, o, c) <=>
           \E s \in Slots : \E i \in FirstAt(o, c, s) .. Len(r[s].pkts) : x = r[s].pkts[i].id
<1>1. DOMAIN r = Slots
  OBVIOUS
<1> QED
  BY <1>1 DEF Unread, FirstAt

(* A ring of which the kernel has handed over a block, or of which the     *)
(* reader begins a block, holds what it held.                              *)
LEMMA UnreadSame ==
  ASSUME NEW r \in [Slots -> SlotType], NEW q \in [Slots -> SlotType], NEW o, NEW c, NEW d,
         \A s \in Slots : q[s].pkts = r[s].pkts, c = d \/ (c = 0 /\ d = 1)
  PROVE  Unread(q, o, d) = Unread(r, o, c)
<1>1. \A s \in Slots : FirstAt(o, d, s) = FirstAt(o, c, s)
  BY DEF FirstAt
<1>2. \A x : x \in Unread(q, o, d) <=> x \in Unread(r, o, c)
  BY <1>1, UnreadIs
<1> QED
  BY <1>2, Zenon DEF Unread

(* The packet that the reader looks at is the first of those that wait.    *)
LEMMA UnreadFirst ==
  ASSUME NEW r \in [Slots -> SlotType], NEW o \in Slots, NEW c \in Nat, RisingIn(r, o),
         NEW f \in 1 .. Len(r[o].pkts), f = FirstAt(o, c, o), NEW x, x = r[o].pkts[f].id
  PROVE  /\ x \in Unread(r, o, c) /\ \A y \in Unread(r, o, c) : x <= y
         /\ Unread(r, o, f + 1) = Unread(r, o, c) \ {x}
<1>1. \A s \in Slots : r[s] \in SlotType /\ r[s].pkts \in Seq(PacketType) /\ Len(r[s].pkts) \in Nat
  BY DEF SlotType
<1>2. \A s \in Slots : \A i \in 1 .. Len(r[s].pkts) : r[s].pkts[i].id \in Int
  <2>1. \A s \in Slots : \A i \in 1 .. Len(r[s].pkts) : r[s].pkts[i] \in PacketType
    BY <1>1
  <2>2. \A p \in PacketType : p.id \in Int
    BY DEF PacketType
  <2> QED
    BY <2>1, <2>2
<1>3. f \in Nat /\ f # 0 /\ x \in Int
  BY <1>1, <1>2
<1>4. x \in Unread(r, o, c)
  <2>1. f \in FirstAt(o, c, o) .. Len(r[o].pkts)
    BY <1>1
  <2> QED
    BY <2>1, UnreadIs
<1>5. ASSUME NEW s \in Slots, NEW i \in 1 .. Len(r[s].pkts), s # o \/ i > f PROVE x < r[s].pkts[i].id
  <2>1. CASE s = o
    <3>1. f < i
      BY <1>1, <1>3, <1>5, <2>1
    <3> QED
      BY <2>1, <3>1 DEF RisingIn
  <2>2. CASE s # o
    <3>1. Ahead(o, o) = 0 /\ Ahead(o, s) # 0 /\ Ahead(o, s) \in Slots
      BY <2>2, AheadFacts
    <3>2. Ahead(o, o) < Ahead(o, s)
      BY <3>1, SlotOrder DEF Slots
    <3> QED
      BY <3>2 DEF RisingIn
  <2> QED
    BY <2>1, <2>2
<1>6. \A s \in Slots : FirstAt(o, c, s) \in Nat \ {0} /\ (s # o => FirstAt(o, c, s) = 1)
                       /\ FirstAt(o, f + 1, s) = IF s = o THEN f + 1 ELSE 1
  BY <1>3 DEF FirstAt
<1>7. ASSUME NEW y \in Unread(r, o, c), y # x PROVE y \in Unread(r, o, f + 1) /\ x < y
  <2>1. PICK s \in Slots : \E i \in FirstAt(o, c, s) .. Len(r[s].pkts) : y = r[s].pkts[i].id
    BY UnreadIs
  <2>2. PICK i \in FirstAt(o, c, s) .. Len(r[s].pkts) : y = r[s].pkts[i].id
    BY <2>1
  <2>3. i \in 1 .. Len(r[s].pkts)
    BY <1>1, <1>6
  <2>4. s # o \/ i > f
    BY <1>1, <1>3, <1>7, <2>2
  <2>5. i \in FirstAt(o, f + 1, s) .. Len(r[s].pkts)
    BY <1>1, <1>3, <1>6, <2>3, <2>4
  <2> QED
    BY <1>5, <2>2, <2>3, <2>4, <2>5, UnreadIs
<1>8. ASSUME NEW y \in Unread(r, o, f + 1) PROVE y \in Unread(r, o, c) /\ y # x
  <2>1. PICK s \in Slots : \E i \in FirstAt(o, f + 1, s) .. Len(r[s].pkts) : y = r[s].pkts[i].id
    BY UnreadIs
  <2>2. PICK i \in FirstAt(o, f + 1, s) .. Len(r[s].pkts) : y = r[s].pkts[i].id
    BY <2>1
  <2>3. i \in 1 .. Len(r[s].pkts) /\ (s # o \/ i > f)
    BY <1>1, <1>3, <1>6
  <2>4. i \in FirstAt(o, c, s) .. Len(r[s].pkts)
    BY <1>1, <1>3, <1>6, <2>3
  <2>5. x < r[s].pkts[i].id /\ r[s].pkts[i].id \in Int
    BY <1>2, <1>5, <2>3
  <2> QED
    BY <1>3, <2>2, <2>4, <2>5, UnreadIs
<1>9. \A y \in Unread(r, o, c) : x <= y
  <2> TAKE y \in Unread(r, o, c)
  <2>1. y \in Int
    <3>1. PICK s \in Slots : \E i \in FirstAt(o, c, s) .. Len(r[s].pkts) : y = r[s].pkts[i].id
      BY UnreadIs
    <3>2. PICK i \in FirstAt(o, c, s) .. Len(r[s].pkts) : y = r[s].pkts[i].id
      BY <3>1
    <3> QED
      BY <1>1, <1>2, <1>6, <3>2
  <2>2. y = x \/ x < y
    BY <1>7
  <2> QED
    BY <1>3, <2>1, <2>2
<1> QED
  BY <1>4, <1>7, <1>8, <1>9

(* A slot that was read to its end is given back.                          *)
LEMMA UnreadReleased ==
  ASSUME NEW r \in [Slots -> SlotType], NEW o \in Slots, NEW c \in Nat, c > Len(r[o].pkts),
         NEW q \in [Slots -> SlotType], q[o].pkts = <<>>, \A s \in Slots : s # o => q[s] = r[s],
         NEW p \in Slots
  PROVE  Unread(q, p, 0) = Unread(r, o, c)
<1>1. \A s \in Slots : r[s] \in SlotType /\ r[s].pkts \in Seq(PacketType) /\ Len(r[s].pkts) \in Nat
  BY DEF SlotType
<1>2. Len(q[o].pkts) = 0
  OBVIOUS
<1>3. c # 0 /\ \A s \in Slots : /\ FirstAt(p, 0, s) = 1
                                /\ FirstAt(o, c, s) = IF s = o THEN c ELSE 1
  BY <1>1 DEF FirstAt
<1>4. \A i \in c .. Len(r[o].pkts) : FALSE
  BY <1>1
<1>5. \A i \in 1 .. Len(q[o].pkts) : FALSE
  BY <1>2
<1>6. ASSUME NEW x PROVE x \in Unread(q, p, 0) <=> x \in Unread(r, o, c)
  <2>1. ASSUME x \in Unread(q, p, 0) PROVE x \in Unread(r, o, c)
    <3>1. PICK s \in Slots : \E i \in FirstAt(p, 0, s) .. Len(q[s].pkts) : x = q[s].pkts[i].id
      BY <2>1, UnreadIs
    <3>2. s # o
      BY <1>3, <1>5, <3>1
    <3>3. \E i \in FirstAt(o, c, s) .. Len(r[s].pkts) : x = r[s].pkts[i].id
      BY <1>3, <3>1, <3>2
    <3> QED
      BY <3>3, UnreadIs
  <2>2. ASSUME x \in Unread(r, o, c) PROVE x \in Unread(q, p, 0)
    <3>1. PICK s \in Slots : \E i \in FirstAt(o, c, s) .. Len(r[s].pkts) : x = r[s].pkts[i].id
      BY <2>2, UnreadIs
    <3>2. s # o
      BY <1>3, <1>4, <3>1
    <3>3. \E i \in FirstAt(p, 0, s) .. Len(q[s].pkts) : x = q[s].pkts[i].id
      BY <1>3, <3>1, <3>2
    <3> QED
      BY <3>3, UnreadIs
  <2> QED
    BY <2>1, <2>2
<1> QED
  BY <1>6, Zenon DEF Unread

(* A packet is added to a slot that is not being read.                     *)
PutIn(r, q, k, p) == q[k].pkts = Append(r[k].pkts, p) /\ \A s \in Slots : s # k => q[s] = r[s]

(* A packet put into a slot is one that is yet to be looked at.            *)
LEMMA UnreadAdded ==
  ASSUME NEW r \in [Slots -> SlotType], NEW o \in Slots, NEW c \in Nat, NEW k \in Slots, k = o => c = 0,
         NEW p \in PacketType, NEW q \in [Slots -> SlotType], PutIn(r, q, k, p)
  PROVE  Unread(q, o, c) = Unread(r, o, c) \cup {p.id}
<1> USE DEF PutIn
<1>1. \A s \in Slots : r[s] \in SlotType /\ r[s].pkts \in Seq(PacketType) /\ Len(r[s].pkts) \in Nat
  BY DEF SlotType
<1>2. PICK n \in Nat : n = Len(r[k].pkts)
  BY <1>1
<1>3. Len(q[k].pkts) = n + 1 /\ q[k].pkts[n + 1] = p /\ \A i \in 1 .. n : q[k].pkts[i] = r[k].pkts[i]
  BY <1>1, <1>2
<1>4. FirstAt(o, c, k) = 1
  BY DEF FirstAt
<1>5. ASSUME NEW x PROVE x \in Unread(q, o, c) <=> x \in Unread(r, o, c) \/ x = p.id
  <2>1. ASSUME x \in Unread(q, o, c) PROVE x \in Unread(r, o, c) \/ x = p.id
    <3>1. PICK s \in Slots : \E i \in FirstAt(o, c, s) .. Len(q[s].pkts) : x = q[s].pkts[i].id
      BY <2>1, UnreadIs
    <3>2. CASE s = k
      <4>1. PICK i \in 1 .. n + 1 : x = q[k].pkts[i].id
        BY <1>3, <1>4, <3>1, <3>2
      <4>2. CASE i = n + 1
        BY <1>3, <4>1, <4>2
      <4>3. CASE i \in 1 .. n
        BY <1>2, <1>3, <1>4, <4>1, <4>3, UnreadIs
      <4>4. i = n + 1 \/ i \in 1 .. n
        BY <1>2, <4>1
      <4> QED
        BY <4>2, <4>3, <4>4
    <3>3. CASE s # k
      <4>1. \E i \in FirstAt(o, c, s) .. Len(r[s].pkts) : x = r[s].pkts[i].id
        BY <3>1, <3>3
      <4> QED
        BY <4>1, UnreadIs
    <3> QED
      BY <3>2, <3>3
  <2>2. ASSUME x \in Unread(r, o, c) PROVE x \in Unread(q, o, c)
    <3>1. PICK s \in Slots : \E i \in FirstAt(o, c, s) .. Len(r[s].pkts) : x = r[s].pkts[i].id
      BY <2>2, UnreadIs
    <3>2. CASE s = k
      <4>1. PICK i \in 1 .. n : x = r[k].pkts[i].id
        BY <1>2, <1>4, <3>1, <3>2
      <4>2. i \in FirstAt(o, c, k) .. Len(q[k].pkts) /\ x = q[k].pkts[i].id
        BY <1>2, <1>3, <1>4, <4>1
      <4> QED
        BY <4>2, UnreadIs
    <3>3. CASE s # k
      <4>1. \E i \in FirstAt(o, c, s) .. Len(q[s].pkts) : x = q[s].pkts[i].id
        BY <3>1, <3>3
      <4> QED
        BY <4>1, UnreadIs
    <3> QED
      BY <3>2, <3>3
  <2>3. ASSUME x = p.id PROVE x \in Unread(q, o, c)
    <3>1. n + 1 \in FirstAt(o, c, k) .. Len(q[k].pkts) /\ x = q[k].pkts[n + 1].id
      BY <1>2, <1>3, <1>4, <2>3
    <3> QED
      BY <3>1, UnreadIs
  <2> QED
    BY <2>1, <2>2, <2>3
<1> QED
  BY <1>5
(* The order of arrival, when a packet is added behind all that wait, when *)
(* a slot is given back and when a block is handed over.                   *)
LEMMA RisingAdded ==
  ASSUME NEW r \in [Slots -> SlotType], NEW o \in Slots, NEW k \in Slots, RisingIn(r, o),
         NEW p \in PacketType, NEW q \in [Slots -> SlotType], PutIn(r, q, k, p),
         \A s \in Slots : \A i \in 1 .. Len(r[s].pkts) : r[s].pkts[i].id < p.id,
         \A s \in Slots : r[s].pkts # <<>> => ~(Ahead(o, k) < Ahead(o, s))
  PROVE  RisingIn(q, o)
<1> USE DEF PutIn
<1>1. \A s \in Slots : r[s] \in SlotType /\ r[s].pkts \in Seq(PacketType) /\ Len(r[s].pkts) \in Nat
  BY DEF SlotType
<1>2. PICK n \in Nat : n = Len(r[k].pkts)
  BY <1>1
<1>3. Len(q[k].pkts) = n + 1 /\ q[k].pkts[n + 1] = p /\ \A i \in 1 .. n : q[k].pkts[i] = r[k].pkts[i]
  BY <1>1, <1>2
<1>4. \A s \in Slots : \A i \in 1 .. Len(q[s].pkts) :
        (s = k /\ i = n + 1) \/ (i \in 1 .. Len(r[s].pkts) /\ q[s].pkts[i] = r[s].pkts[i])
  <2> SUFFICES ASSUME NEW s \in Slots, NEW i \in 1 .. Len(q[s].pkts)
               PROVE  (s = k /\ i = n + 1) \/ (i \in 1 .. Len(r[s].pkts) /\ q[s].pkts[i] = r[s].pkts[i])
    OBVIOUS
  <2>1. CASE s = k
    <3>1. i = n + 1 \/ i \in 1 .. n
      BY <1>2, <1>3, <2>1
    <3> QED
      BY <1>2, <1>3, <2>1, <3>1
  <2>2. CASE s # k
    BY <2>2
  <2> QED
    BY <2>1, <2>2
<1>5. \A s \in Slots : Ahead(o, s) \in Int
  <2>1. \A s \in Slots : Ahead(o, s) \in Slots
    BY AheadFacts
  <2>2. \A y \in Slots : y \in Int
    BY DEF Slots
  <2> QED
    BY <2>1, <2>2
<1> SUFFICES ASSUME NEW s \in Slots, NEW t \in Slots, NEW i \in 1 .. Len(q[s].pkts),
                    NEW j \in 1 .. Len(q[t].pkts), Ahead(o, s) < Ahead(o, t) \/ (s = t /\ i < j)
             PROVE  q[s].pkts[i].id < q[t].pkts[j].id
  BY DEF RisingIn
<1>6. CASE s = k /\ i = n + 1
  <2>1. t # k
    <3>1. ~(Ahead(o, k) < Ahead(o, k))
      BY <1>5
    <3>2. t = k => ~(i < j)
      BY <1>2, <1>3, <1>6
    <3> QED
      BY <1>6, <3>1, <3>2
  <2>2. j \in 1 .. Len(r[t].pkts) /\ Ahead(o, k) < Ahead(o, t)
    BY <1>4, <1>6, <2>1
  <2>3. r[t].pkts # <<>>
    BY <1>1, <2>2
  <2> QED
    BY <2>2, <2>3
<1>7. CASE i \in 1 .. Len(r[s].pkts) /\ q[s].pkts[i] = r[s].pkts[i]
  <2>1. CASE t = k /\ j = n + 1
    BY <1>3, <1>7, <2>1
  <2>2. CASE j \in 1 .. Len(r[t].pkts) /\ q[t].pkts[j] = r[t].pkts[j]
    BY <1>7, <2>2 DEF RisingIn
  <2> QED
    BY <1>4, <2>1, <2>2
<1> QED
  BY <1>4, <1>6, <1>7

(* The packets stay in order when a slot is given back and the reader goes *)
(* on to the next.                                                         *)
LEMMA RisingReleased ==
  ASSUME NEW r \in [Slots -> SlotType], NEW o \in Slots, RisingIn(r, o),
         NEW q \in [Slots -> SlotType], q[o].pkts = <<>>, \A s \in Slots : s # o => q[s] = r[s]
  PROVE  RisingIn(q, NextSlot(o))
<1>1. \A i \in 1 .. Len(q[o].pkts) : FALSE
  <2>1. Len(q[o].pkts) = 0
    OBVIOUS
  <2> QED
    BY <2>1
<1>2. \A s \in Slots : s # o => Ahead(NextSlot(o), s) = Ahead(o, s) - 1 /\ Ahead(o, s) \in Int
  <2>1. \A s \in Slots : Ahead(o, s) \in Slots /\ (s # o => Ahead(NextSlot(o), s) = Ahead(o, s) - 1)
    BY AheadFacts
  <2>2. \A y \in Slots : y \in Int
    BY DEF Slots
  <2> QED
    BY <2>1, <2>2
<1> SUFFICES ASSUME NEW s \in Slots, NEW t \in Slots, NEW i \in 1 .. Len(q[s].pkts),
                    NEW j \in 1 .. Len(q[t].pkts),
                    Ahead(NextSlot(o), s) < Ahead(NextSlot(o), t) \/ (s = t /\ i < j)
             PROVE  q[s].pkts[i].id < q[t].pkts[j].id
  BY DEF RisingIn
<1>3. s # o /\ t # o
  BY <1>1
<1>4. Ahead(o, s) < Ahead(o, t) \/ (s = t /\ i < j)
  BY <1>2, <1>3
<1> QED
  BY <1>3, <1>4 DEF RisingIn

(* The order depends on the packets of the slots only.                     *)
LEMMA RisingSame ==
  ASSUME NEW r, NEW q, NEW o, RisingIn(r, o), \A s \in Slots : q[s].pkts = r[s].pkts
  PROVE  RisingIn(q, o)
BY DEF RisingIn

(* The queue of the socket, when a packet comes or goes.                   *)
Ids(q) == {q[i].id : i \in DOMAIN q}

(* The queue of the socket stays in order when the newest packet is put at *)
(* its end.                                                                *)
LEMMA QueueAdded ==
  ASSUME NEW q \in Seq(PacketType), RisingQueue(q), NEW p \in PacketType,
         \A i \in 1 .. Len(q) : q[i].id < p.id
  PROVE  RisingQueue(Append(q, p)) /\ Ids(Append(q, p)) = Ids(q) \cup {p.id}
<1>1. PICK n \in Nat : n = Len(q)
  OBVIOUS
<1>2. PICK u : u = Append(q, p)
  OBVIOUS
<1>3. Len(u) = n + 1 /\ DOMAIN u = 1 .. n + 1 /\ u[n + 1] = p /\ \A i \in 1 .. n : u[i] = q[i]
  BY <1>1, <1>2
<1>4. RisingQueue(u)
  <2> SUFFICES ASSUME NEW i \in 1 .. n + 1, NEW j \in 1 .. n + 1, i < j PROVE u[i].id < u[j].id
    BY <1>3 DEF RisingQueue
  <2>1. i \in 1 .. n /\ (j = n + 1 \/ j \in 1 .. n)
    BY <1>1
  <2> QED
    BY <1>1, <1>3, <2>1 DEF RisingQueue
<1>5. Ids(u) = Ids(q) \cup {p.id}
  <2>1. DOMAIN q = 1 .. n /\ n + 1 \in 1 .. n + 1 /\ \A i \in 1 .. n : i \in 1 .. n + 1
    BY <1>1
  <2>2. \A i \in 1 .. n + 1 : i = n + 1 \/ i \in 1 .. n
    BY <1>1
  <2>3. \A x : x \in Ids(u) <=> \E i \in 1 .. n + 1 : x = u[i].id
    BY <1>3 DEF Ids
  <2>4. \A x : x \in Ids(q) <=> \E i \in 1 .. n : x = q[i].id
    BY <2>1 DEF Ids
  <2>5. \A x : x \in Ids(u) <=> x \in Ids(q) \/ x = p.id
    BY <1>3, <2>1, <2>2, <2>3, <2>4
  <2> QED
    BY <2>5
<1> QED
  BY <1>2, <1>4, <1>5

(* Taking the head of the queue takes its oldest packet and leaves the     *)
(* others in order.                                                        *)
LEMMA QueueTaken ==
  ASSUME NEW q \in Seq(PacketType), q # <<>>, RisingQueue(q), NEW x, x = Head(q).id
  PROVE  /\ RisingQueue(Tail(q)) /\ Ids(Tail(q)) = Ids(q) \ {x}
         /\ x \in Ids(q) /\ \A y \in Ids(q) : x <= y
<1>1. PICK n \in Nat : n + 1 = Len(q)
  <2>1. Len(q) \in Nat /\ Len(q) # 0
    OBVIOUS
  <2>2. Len(q) - 1 \in Nat /\ (Len(q) - 1) + 1 = Len(q)
    BY <2>1
  <2> QED
    BY <2>2
<1>2. PICK u : u = Tail(q)
  OBVIOUS
<1>3. Len(u) = n /\ DOMAIN u = 1 .. n /\ \A i \in 1 .. n : u[i] = q[i + 1]
  BY <1>1, <1>2
<1>4. DOMAIN q = 1 .. n + 1 /\ x = q[1].id /\ 1 \in 1 .. n + 1
  BY <1>1
<1>5. \A i \in 1 .. n + 1 : q[i].id \in Int
  <2>1. \A i \in 1 .. n + 1 : q[i] \in PacketType
    BY <1>1
  <2>2. \A p \in PacketType : p.id \in Int
    BY DEF PacketType
  <2> QED
    BY <2>1, <2>2
<1>6. \A i \in 1 .. n : i + 1 \in 1 .. n + 1
  OBVIOUS
<1>7. RisingQueue(u)
  <2> SUFFICES ASSUME NEW i \in 1 .. n, NEW j \in 1 .. n, i < j PROVE u[i].id < u[j].id
    BY <1>3 DEF RisingQueue
  <2>1. i + 1 < j + 1
    OBVIOUS
  <2> QED
    BY <1>1, <1>3, <1>6, <2>1 DEF RisingQueue
<1>8. \A i \in 1 .. n : q[1].id < q[i + 1].id
  <2> TAKE i \in 1 .. n
  <2>1. 1 < i + 1
    OBVIOUS
  <2> QED
    BY <1>1, <1>4, <1>6, <2>1 DEF RisingQueue
<1>9. \A y : y \in Ids(u) <=> \E i \in 1 .. n : y = q[i + 1].id
  BY <1>3 DEF Ids
<1>10. \A y : y \in Ids(q) <=> \E i \in 1 .. n + 1 : y = q[i].id
  BY <1>4 DEF Ids
<1>11. \A i \in 1 .. n + 1 : i = 1 \/ \E j \in 1 .. n : i = j + 1
  <2> TAKE i \in 1 .. n + 1
  <2>1. i # 1 => i - 1 \in 1 .. n /\ i = (i - 1) + 1
    OBVIOUS
  <2> QED
    BY <2>1
<1>12. \A y : y \in Ids(u) <=> y \in Ids(q) /\ y # x
  <2>1. ASSUME NEW y \in Ids(u) PROVE y \in Ids(q) /\ y # x
    <3>1. PICK i \in 1 .. n : y = q[i + 1].id
      BY <1>9
    <3>2. x < y /\ x \in Int /\ y \in Int
      BY <1>4, <1>5, <1>6, <1>8, <3>1
    <3> QED
      BY <1>6, <1>10, <3>1, <3>2
  <2>2. ASSUME NEW y \in Ids(q), y # x PROVE y \in Ids(u)
    <3>1. PICK i \in 1 .. n + 1 : y = q[i].id
      BY <1>10
    <3>2. i # 1
      BY <1>4, <2>2, <3>1
    <3> QED
      BY <1>9, <1>11, <3>1, <3>2
  <2> QED
    BY <2>1, <2>2
<1>13. x \in Ids(q)
  BY <1>4, <1>10
<1>14. \A y \in Ids(q) : x <= y
  <2> TAKE y \in Ids(q)
  <2>1. PICK i \in 1 .. n + 1 : y = q[i].id
    BY <1>10
  <2>2. CASE i = 1
    BY <1>4, <1>5, <2>1, <2>2
  <2>3. ASSUME NEW j \in 1 .. n, i = j + 1 PROVE x <= y
    <3>1. x < y
      BY <1>4, <1>8, <2>1, <2>3
    <3> QED
      BY <1>4, <1>5, <2>1, <3>1
  <2> QED
    BY <1>11, <2>2, <2>3
<1> QED
  BY <1>2, <1>7, <1>12, <1>13, <1>14
--------------------------------------------------------------------------------
(* A step that leaves the packets, their histories and the reader's place  *)
(* keeps the invariant.                                                    *)
Stays ==
  /\ how' = how /\ ring' = ring /\ kern'.queue = kern.queue /\ kern'.next = kern.next
  /\ h'.offset = h.offset /\ h'.current = h.current /\ fate' = fate /\ last' = Nothing

(* The packets of the ring and their histories are as they were.           *)
LEMMA RereadKept ==
  ASSUME HandedInv, how' = how, \A s \in Slots : ring'[s].pkts = ring[s].pkts, fate' = fate,
         h.offset \in Slots, h'.offset = h.offset, h'.current = h.current \/ (h.current = 0 /\ h'.current = 1)
  PROVE  Reread'
<1>1. InRing' <=> InRing
  BY DEF InRing
<1>2. ring'[h.offset].pkts = ring[h.offset].pkts
  OBVIOUS
<1>3. \A i : BackAt(i) => BackAt(i)'
  BY <1>2 DEF BackAt
<1>4. \A i : i \in ReadInBlock => i \in ReadInBlock'
  BY <1>2 DEF ReadInBlock
<1>5. \A i : AllLater(i, ring) => AllLater(i, ring')
  BY DEF AllLater
<1>6. \A i : AllLater(i, ring') => AllLater(i, ring)'
  BY DEF AllLater
<1> QED
  BY <1>1, <1>3, <1>4, <1>5, <1>6 DEF HandedInv, Reread

(* A step that neither stores nor hands over a packet.                     *)
LEMMA StaysKeeps ==
  ASSUME CaptureInv, HandedInv, Stays, Fits(kern'.filter), call'.op = "filter" => call'.f \in Filters
  PROVE  HandedInv'
<1>1. /\ how' = how /\ ring' = ring /\ kern'.queue = kern.queue /\ kern'.next = kern.next
      /\ h'.offset = h.offset /\ h'.current = h.current /\ fate' = fate /\ last' = Nothing
  BY DEF Stays
<1>2. InRing' <=> InRing
  BY <1>1 DEF InRing
<1>3. InOrder'
  BY <1>1, <1>2 DEF HandedInv, InOrder, RisingIn, RisingQueue, Ahead
<1>4. \A p \in PacketType : (Waits(p)' <=> Waits(p)) /\ (Measured(p)' <=> Measured(p))
  BY <1>1, <1>2 DEF Waits, Among, Measured
<1>5. Lengths'
  BY <1>2, <1>4 DEF HandedInv, Lengths, Fits
<1>6. Waiting' = Waiting
  BY <1>1, <1>2 DEF Waiting, Unread
<1>7. FateKept'
  <2>1. FateOk(fate, kern.next) /\ Held(fate, Waiting)
    BY DEF HandedInv, FateKept
  <2> QED
    BY <1>1, <1>6, <2>1 DEF FateKept, FateOk, Held
<1>8. LastTold'
  BY <1>1 DEF LastTold, Nothing
<1>9. Reread'
  <2>1. h.offset \in Slots
    BY DEF CaptureInv, CaptureType, HandleType
  <2> QED
    BY <1>1, <2>1, RereadKept
<1> QED
  BY <1>3, <1>5, <1>7, <1>8, <1>9 DEF HandedInv

(* The filters that are put on the socket fit.                             *)
LEMMA FilterFits ==
  /\ Fits(NoFilter) /\ Fits(TotalFilter)
  /\ \A f \in Filters : Fits(fix_program(f).prog)
<1>1. Fits(NoFilter) /\ Fits(TotalFilter)
  BY DEF NoFilter, TotalFilter, Fits
<1>2. ASSUME NEW f \in Filters PROVE Fits(fix_program(f).prog)
  <2>1. f \in FilterType /\ f.ret \in Nat /\ f.ret >= snapshot /\ f.ret >= 14
    BY RingAssumption, LengthAssumption DEF FilterType
  <2>2. PICK r \in Nat : r = IF InRing \/ f.ret = 0 THEN f.ret ELSE 65535
    BY <2>1
  <2>3. fix_program(f).prog = [f EXCEPT !.ret = r]
    BY <2>2 DEF fix_program
  <2>4. fix_program(f).prog.ret = r
    BY <2>1, <2>3 DEF FilterType
  <2>5. f.ret # 0
    BY <2>1
  <2> QED
    BY <2>1, <2>2, <2>4, <2>5 DEF Fits
<1> QED
  BY <1>1, <1>2

(* Waiting for packets, breaks and the settings.                           *)
LEMMA QuietStays ==
  ASSUME CaptureInv, HandedInv,
         \/ Dispatch \/ Start \/ Polled \/ Interrupted \/ PollError \/ Receive \/ Signal
         \/ pcap_breakloop \/ pcap_setdirection \/ pcap_setnonblock
  PROVE  HandedInv'
<1>1. h \in HandleType /\ call \in RestType \cup ReadType \cup SettingType
  BY DEF CaptureInv, CaptureType
<1>2. how' = how /\ ring' = ring /\ kern' = kern /\ fate' = fate /\ last' = Nothing
  BY DEF Dispatch, Start, Polled, Interrupted, PollError, Receive, Signal, pcap_breakloop,
         pcap_setdirection, pcap_setnonblock
<1>3. h'.offset = h.offset /\ h'.current = h.current
  <2>1. CASE Dispatch \/ Start \/ Polled \/ Interrupted \/ PollError \/ Receive \/ Signal
    <3>1. h' = h \/ h' = [h EXCEPT !.break_loop = FALSE]
      BY <2>1 DEF Dispatch, Start, Polled, Interrupted, PollError, Receive, Signal, Broken
    <3> QED
      BY <1>1, <3>1 DEF HandleType
  <2>2. CASE pcap_breakloop \/ pcap_setdirection
    BY <1>1, <2>2 DEF pcap_breakloop, pcap_setdirection, HandleType
  <2>3. CASE pcap_setnonblock
    BY <1>1, <2>3 DEF pcap_setnonblock, HandleType
  <2> QED
    BY <2>1, <2>2, <2>3
<1>4. call' = call \/ (call.op \in {"idle", "read"} /\ call'.op # "filter")
  <2>1. CASE Dispatch
    BY <2>1 DEF Dispatch, Reading
  <2>2. CASE Start \/ Polled \/ Interrupted \/ PollError \/ Receive \/ Signal \/ pcap_breakloop
    <3>1. call' = call \/ call.op = "read"
      BY <2>2 DEF Start, Polled, Interrupted, PollError, Receive, Signal, pcap_breakloop, At
    <3> SUFFICES ASSUME call' # call PROVE call'.op # "filter"
      BY <3>1
    <3>2. call \in ReadType
      BY <1>1, <3>1 DEF RestType, SettingType
    <3>3. \/ To("start") \/ To("poll") \/ To("signal") \/ To("frames") \/ To("recv")
          \/ Returns(-1) \/ Returns(-2)
      BY <2>2 DEF Start, Polled, Interrupted, PollError, Receive, Signal, Broken, pcap_breakloop, To
    <3>4. \A pc : [call EXCEPT !.pc = pc].op # "filter"
      BY <3>2 DEF ReadType
    <3>5. \A n : Ended(call, n).op # "filter"
      BY DEF Ended, Reading, Idle
    <3> QED
      BY <3>3, <3>4, <3>5 DEF To, Returns
  <2>3. CASE pcap_setdirection \/ pcap_setnonblock
    BY <2>3 DEF pcap_setdirection, pcap_setnonblock
  <2> QED
    BY <2>1, <2>2, <2>3
<1>5. Stays
  BY <1>2, <1>3, <1>4 DEF Stays
<1>6. Fits(kern'.filter) /\ (call'.op = "filter" => call'.f \in Filters)
  BY <1>2, <1>4 DEF HandedInv, Lengths
<1> QED
  BY <1>5, <1>6, StaysKeeps
(* Setting the filter, as far as no packet is drained.                     *)
LEMMA SettingStays ==
  ASSUME CaptureInv, CaptureInv', HandedInv,
         \/ pcap_setfilter \/ AttachTotal \/ (Drain /\ kern'.queue = kern.queue /\ fate' = fate) \/ Attach
         \/ reset_kernel_filter \/ pcap_setfilter_linux_mmap
  PROVE  HandedInv'
<1>1. h \in HandleType /\ kern \in KernType /\ call \in RestType \cup ReadType \cup SettingType
  BY DEF CaptureInv, CaptureType
<1>2. how' = how /\ ring' = ring /\ fate' = fate /\ last' = Nothing
  BY DEF pcap_setfilter, AttachTotal, Drain, Attach, reset_kernel_filter, pcap_setfilter_linux_mmap
<1>3. h'.offset = h.offset /\ h'.current = h.current
  <2>1. CASE pcap_setfilter
    BY <1>1, <2>1 DEF pcap_setfilter, HandleType
  <2>2. CASE AttachTotal \/ Drain \/ reset_kernel_filter
    BY <1>1, <2>2 DEF AttachTotal, Drain, reset_kernel_filter, HandleType
  <2>3. CASE Attach
    BY <1>1, <2>3 DEF Attach, HandleType
  <2>4. CASE pcap_setfilter_linux_mmap
    BY <1>1, <2>4 DEF pcap_setfilter_linux_mmap, HandleType
  <2> QED
    BY <2>1, <2>2, <2>3, <2>4
<1>4. PICK g : kern' = kern \/ kern' = [kern EXCEPT !.filter = g] \/ kern' = [kern EXCEPT !.queue = Tail(@)]
  BY DEF pcap_setfilter, AttachTotal, Drain, Detach, Attach, reset_kernel_filter, pcap_setfilter_linux_mmap
<1>5. kern'.next = kern.next /\ kern'.queue = kern.queue
  <2>1. CASE Drain
    BY <1>1, <1>4, <2>1 DEF Drain, Step, KernType, pcap_setfilter, AttachTotal, Attach, reset_kernel_filter,
                            pcap_setfilter_linux_mmap
  <2>2. CASE ~Drain
    BY <1>1, <2>2 DEF pcap_setfilter, AttachTotal, Attach, reset_kernel_filter, pcap_setfilter_linux_mmap,
                      Detach, KernType
  <2> QED
    BY <2>1, <2>2
<1>6. call.op \in {"idle", "filter"}
  BY DEF pcap_setfilter, AttachTotal, Drain, Attach, reset_kernel_filter, pcap_setfilter_linux_mmap, Step
<1>7. call.op = "filter" => call \in SettingType /\ call.f \in Filters
  BY <1>1 DEF RestType, ReadType, HandedInv, Lengths
<1>8. call'.op = "filter" => call'.f \in Filters
  <2>1. CASE pcap_setfilter
    <3>1. call.op = "idle"
      BY <2>1 DEF pcap_setfilter
    <3>2. PICK f \in Filters : call' = call \/ \E pc : call' = Setting(f, pc)
      BY <2>1 DEF pcap_setfilter
    <3> QED
      BY <3>1, <3>2 DEF Setting
  <2>2. CASE AttachTotal \/ Drain \/ Attach \/ pcap_setfilter_linux_mmap \/ reset_kernel_filter
    <3>1. call \in SettingType /\ call.f \in Filters
      BY <1>7, <2>2 DEF AttachTotal, Drain, Attach, pcap_setfilter_linux_mmap, reset_kernel_filter, Step
    <3>2. call' = call \/ call' = Idle \/ call'.f = call.f
      <4>1. CASE AttachTotal
        BY <3>1, <4>1 DEF AttachTotal, SettingType
      <4>2. CASE Drain \/ reset_kernel_filter
        BY <3>1, <4>2 DEF Drain, reset_kernel_filter, SettingType
      <4>3. CASE Attach
        BY <3>1, <4>3 DEF Attach, SettingType
      <4>4. CASE pcap_setfilter_linux_mmap
        BY <3>1, <4>4 DEF pcap_setfilter_linux_mmap, SettingType
      <4> QED
        BY <2>2, <4>1, <4>2, <4>3, <4>4
    <3>3. Idle.op # "filter"
      BY DEF Idle
    <3> QED
      BY <3>1, <3>2, <3>3
  <2> QED
    BY <2>1, <2>2
<1>9. Fits(kern'.filter)
  <2>1. Fits(kern.filter) /\ Fits(NoFilter) /\ Fits(TotalFilter)
        /\ (call.op = "filter" => Fits(fix_program(call.f).prog))
    BY <1>7, FilterFits DEF HandedInv, Lengths
  <2>2. \A g2 : [kern EXCEPT !.filter = g2].filter = g2
    BY <1>1 DEF KernType
  <2>3. \A q : [kern EXCEPT !.queue = q].filter = kern.filter
    BY <1>1 DEF KernType
  <2>4. CASE pcap_setfilter \/ pcap_setfilter_linux_mmap
    BY <2>1, <2>4 DEF pcap_setfilter, pcap_setfilter_linux_mmap
  <2>5. CASE AttachTotal \/ reset_kernel_filter
    BY <2>1, <2>2, <2>5 DEF AttachTotal, reset_kernel_filter, Detach
  <2>6. CASE Drain
    BY <2>1, <2>2, <2>3, <2>6 DEF Drain, Detach
  <2>7. CASE Attach
    <3>1. call.op = "filter"
      BY <2>7 DEF Attach, Step
    <3> QED
      BY <2>1, <2>2, <2>7, <3>1 DEF Attach, Detach
  <2> QED
    BY <2>4, <2>5, <2>6, <2>7
<1>10. Stays
  BY <1>2, <1>3, <1>5, <1>6 DEF Stays
<1> QED
  BY <1>8, <1>9, <1>10, StaysKeeps
--------------------------------------------------------------------------------
(* The steps that look at packets.                                         *)

(* The lengths that the callback gets.                                     *)
LEMMA HeaderTold ==
  ASSUME CaptureType, how' = how, NEW p \in PacketType, Measured(p), last' = Header(p) \/ last' = Nothing
  PROVE  LastTold'
<1>1. CASE last' = Nothing
  BY <1>1 DEF LastTold, Nothing
<1>2. CASE last' = Header(p)
  <2>1. p.kind \in Kinds /\ p.len \in Nat /\ p.snap \in Nat /\ how.vlan_offset \in {12, 14}
    BY DEF PacketType, CaptureType, HowType
  <2>2. snapshot \in Nat /\ p.kind.len \in Nat /\ (p.kind.vlan => p.kind.len >= 14)
    BY <2>1, RingAssumption, LengthAssumption
  <2>3. CookedHeader \in {0, 16}
    BY DEF CookedHeader, SLL_HDR_LEN
  <2>4. Tagged(p) <=> p.kind.vlan /\ how.version # "V1"
    <3>1. p.kind.vlan => /\ p.snap >= how.vlan_offset
                         /\ p.len + CookedHeader >= how.vlan_offset
      BY <2>1, <2>2, <2>3 DEF Measured
    <3> QED
      BY <3>1 DEF Tagged
  <2>5. PICK a \in Nat : a = Added(p)
    BY <2>3 DEF Added, VLAN_TAG_LEN
  <2>6. OnTheWire(p.kind)' = p.kind.len + a
    <3>1. OnTheWire(p.kind)' = OnTheWire(p.kind)
      BY DEF OnTheWire, CookedHeader
    <3>2. PICK b \in Nat : b = IF Tagged(p) THEN VLAN_TAG_LEN ELSE 0
      BY DEF VLAN_TAG_LEN
    <3>3. OnTheWire(p.kind) = p.kind.len + CookedHeader + b
      BY <2>4, <3>2 DEF OnTheWire
    <3>4. a = CookedHeader + b
      BY <2>5, <3>2 DEF Added
    <3> QED
      BY <2>2, <2>3, <3>1, <3>2, <3>3, <3>4
  <2>7. /\ last'.kind = p.kind /\ last'.len = p.len + a
        /\ last'.caplen = Lesser((IF InRing THEN p.snap ELSE p.len) + a, snapshot)
    BY <1>2, <2>5 DEF Header
  <2>8. last'.len = p.kind.len + a
    BY <2>7 DEF Measured
  <2>9. last'.caplen = Lesser(snapshot, p.kind.len + a)
    BY <2>1, <2>2, <2>7 DEF Measured, Lesser
  <2>10. OnTheWire(last.kind)' = OnTheWire(p.kind)'
    BY <2>7 DEF OnTheWire
  <2> QED
    BY <2>6, <2>8, <2>9, <2>10 DEF LastTold, Lesser
<1> QED
  BY <1>1, <1>2

(* Nothing came, and the filter is as it was.                              *)
LEMMA LengthsKept ==
  ASSUME HandedInv, how' = how, kern'.filter = kern.filter, call'.op # "filter" \/ call' = call,
         \A p \in PacketType : Waits(p)' => Waits(p)
  PROVE  Lengths'
<1>1. InRing' <=> InRing
  BY DEF InRing
<1>2. \A p \in PacketType : Measured(p)' <=> Measured(p)
  BY <1>1 DEF Measured
<1>3. \A p \in PacketType : Waits(p)' => Measured(p)'
  BY <1>2 DEF HandedInv, Lengths
<1>4. Fits(kern.filter)'
  BY <1>1 DEF HandedInv, Lengths, Fits
<1>5. call'.op = "filter" => call'.f \in Filters
  BY DEF HandedInv, Lengths
<1> QED
  BY <1>3, <1>4, <1>5 DEF Lengths

(* The history of a packet that waits, when it was looked at.              *)
LEMMA SettledIs ==
  ASSUME HandedInv, NEW p, p.id \in Waiting, NEW ret \in {-1, 0, 1}
  PROVE  /\ p.id \in 1 .. MaxPackets /\ fate \in [1 .. MaxPackets -> Fates]
         /\ ret >= 0 => Settled(p, ret) = [fate EXCEPT ![p.id] = "seen"]
         /\ ret < 0 /\ InRing => Settled(p, ret) = fate
         /\ ret < 0 /\ ~InRing => Settled(p, ret) = [fate EXCEPT ![p.id] = "unstamped"]
<1>1. FateOk(fate, kern.next) /\ Held(fate, Waiting)
  BY DEF HandedInv, FateKept
<1>2. p.id \in 1 .. MaxPackets /\ fate[p.id] \in Pending /\ fate \in [1 .. MaxPackets -> Fates]
  BY <1>1 DEF FateOk, Held
<1>3. ret >= 0 => ~(ret < 0)
  OBVIOUS
<1>4. ~(ret >= 0) => ret < 0
  OBVIOUS
<1>5. PICK x : x = p.id
  OBVIOUS
<1>6. ret >= 0 => Settled(p, ret) = [fate EXCEPT ![x] = "seen"]
  BY <1>2, <1>5 DEF Settled
<1>7. ret < 0 /\ InRing => Settled(p, ret) = fate
  <2>1. [fate EXCEPT ![x] = fate[x]] = fate
    BY <1>2, <1>5
  <2> QED
    BY <1>2, <1>3, <1>5, <2>1 DEF Settled
<1>8. ret < 0 /\ ~InRing => Settled(p, ret) = [fate EXCEPT ![x] = "unstamped"]
  BY <1>2, <1>3, <1>5 DEF Settled
<1> QED
  BY <1>2, <1>5, <1>6, <1>7, <1>8

(* The first packet that waits was looked at.                              *)
LEMMA SeenKeeps ==
  ASSUME HandedInv, kern'.next = kern.next, NEW x \in Waiting, \A y \in Waiting : x <= y,
         NEW d \in Done, fate' = [fate EXCEPT ![x] = d], Waiting' = Waiting \ {x}
  PROVE  FateKept'
<1>1. FateOk(fate, kern.next) /\ Held(fate, Waiting)
  BY DEF HandedInv, FateKept
<1>2. FateOk([fate EXCEPT ![x] = d], kern.next) /\ Held([fate EXCEPT ![x] = d], Waiting \ {x})
  BY <1>1, FateSeen
<1>3. FateOk(fate', kern'.next) /\ Held(fate', Waiting')
  BY <1>2
<1> QED
  BY <1>3 DEF FateKept, FateOk, Held

(* A packet is taken from the queue of the socket.                         *)
QueueStep ==
  /\ kern.queue # <<>> /\ kern' = [kern EXCEPT !.queue = Tail(@)]
  /\ how' = how /\ ring' = ring /\ h' = h

(* A packet is received from the socket: handed over, passed over or lost  *)
(* to an error.                                                            *)
LEMMA QueueTakenKeeps ==
  ASSUME CaptureInv, HandedInv, QueueStep, call'.op # "filter" \/ call' = call,
         NEW x, x = Head(kern.queue).id, NEW d \in Done, fate' = [fate EXCEPT ![x] = d]
  PROVE  InOrder' /\ Lengths' /\ FateKept' /\ Reread'
<1>1. kern \in KernType /\ kern.queue \in Seq(PacketType) /\ kern.queue # <<>>
  BY DEF CaptureInv, CaptureType, KernType, QueueStep
<1>2. ~InRing /\ RisingQueue(kern.queue)
  BY <1>1 DEF HandedInv, InOrder
<1>3. ~InRing'
  BY <1>2 DEF InRing, QueueStep
<1>4. kern'.queue = Tail(kern.queue) /\ kern'.next = kern.next /\ kern'.filter = kern.filter
  BY <1>1 DEF KernType, QueueStep
<1>5. /\ RisingQueue(Tail(kern.queue)) /\ Ids(Tail(kern.queue)) = Ids(kern.queue) \ {x}
      /\ x \in Ids(kern.queue) /\ \A y \in Ids(kern.queue) : x <= y
  BY <1>1, <1>2, QueueTaken
<1>6. InOrder'
  BY <1>3, <1>4, <1>5 DEF InOrder, RisingQueue
<1>7. \A p \in PacketType : Waits(p)' => Waits(p)
  <2>1. \A p \in PacketType : Among(p, Tail(kern.queue)) => Among(p, kern.queue)
    BY <1>1, InFacts
  <2> QED
    BY <1>4, <2>1 DEF Waits, Among, QueueStep
<1>8. Lengths'
  BY <1>4, <1>7, LengthsKept DEF QueueStep
<1>9. Waiting = Ids(kern.queue) /\ Waiting' = Ids(Tail(kern.queue))
  BY <1>2, <1>3, <1>4 DEF Waiting, Ids
<1>10. x \in Waiting /\ (\A y \in Waiting : x <= y) /\ Waiting' = Waiting \ {x}
  BY <1>5, <1>9
<1>11. FateKept'
  BY <1>4, <1>10, SeenKeeps
<1>12. Reread'
  <2>1. how.version # "V3"
    BY <1>2 DEF InRing
  <2>2. fate \in [1 .. MaxPackets -> Fates] /\ \A i \in 1 .. MaxPackets : fate[i] # "back"
    BY <2>1 DEF HandedInv, FateKept, FateOk, Reread, BackAt
  <2>3. \A i \in 1 .. MaxPackets : fate'[i] # "back"
    BY <2>2
  <2> QED
    BY <1>3, <2>3 DEF Reread
<1> QED
  BY <1>6, <1>8, <1>11, <1>12

(* set_kernel_filter drains the queue.                                     *)
LEMMA DrainHands ==
  ASSUME CaptureInv, CaptureInv', HandedInv, Drain
  PROVE  HandedInv'
<1>1. CASE /\ kern.queue # <<>> /\ kern' = [kern EXCEPT !.queue = Tail(@)]
           /\ fate' = [fate EXCEPT ![Head(kern.queue).id] = "seen"] /\ h' = h /\ call' = call
  <2>1. how' = how /\ ring' = ring /\ last' = Nothing
    BY DEF Drain
  <2>2. QueueStep
    BY <1>1, <2>1 DEF QueueStep
  <2>3. InOrder' /\ Lengths' /\ FateKept' /\ Reread'
    BY <1>1, <2>1, <2>2, QueueTakenKeeps
  <2>4. LastTold'
    BY <2>1 DEF LastTold, Nothing
  <2> QED
    BY <2>3, <2>4 DEF HandedInv
<1>2. CASE kern'.queue = kern.queue /\ fate' = fate
  BY <1>2, SettingStays
<1>3. kern \in KernType
  BY DEF CaptureInv, CaptureType
<1>4. \A g : [kern EXCEPT !.filter = g].queue = kern.queue
  BY <1>3 DEF KernType
<1> QED
  BY <1>1, <1>2, <1>4 DEF Drain, Detach

(* What read_op leaves when it returns.                                    *)
LEMMA EndedOp == \A c, n : Ended(c, n).op # "filter"
BY DEF Ended, Reading, Idle

(* pcap_read_packet.                                                       *)
LEMMA SocketHands ==
  ASSUME CaptureInv, CaptureInv', HandedInv, pcap_read_packet
  PROVE  HandedInv'
<1>1. /\ call.op = "read" /\ how' = how /\ ring' = ring /\ h' = h
  BY DEF pcap_read_packet, At
<1>2. call'.op # "filter"
  BY EndedOp DEF pcap_read_packet, Returns
<1>3. CASE kern' = kern /\ fate' = fate /\ last' = Nothing
  <2>1. Stays
    BY <1>1, <1>3 DEF Stays
  <2>2. Fits(kern'.filter)
    BY <1>3 DEF HandedInv, Lengths
  <2> QED
    BY <1>2, <2>1, <2>2, StaysKeeps
<1> DEFINE p == Head(kern.queue)
<1>4. CASE /\ kern.queue # <<>> /\ kern' = [kern EXCEPT !.queue = Tail(@)]
           /\ \E ret \in {-1, 0, 1} : Settle(p, ret)
  <2>1. PICK ret \in {-1, 0, 1} : fate' = Settled(p, ret) /\ last' = Told(p, ret)
    BY <1>4 DEF Settle
  <2>2. QueueStep
    BY <1>1, <1>4 DEF QueueStep
  <2>3. kern.queue \in Seq(PacketType) /\ kern.queue # <<>>
    BY <1>4 DEF CaptureInv, CaptureType, KernType
  <2>4. p \in PacketType /\ Among(p, kern.queue)
    BY <2>3, InFacts
  <2>5. Measured(p)
    BY <2>4 DEF HandedInv, Lengths, Waits
  <2>6. ~InRing
    BY <1>4 DEF HandedInv, InOrder
  <2>7. p.id \in Waiting
    <3>1. p = kern.queue[1] /\ 1 \in DOMAIN kern.queue
      BY <2>3
    <3> QED
      BY <2>6, <3>1 DEF Waiting
  <2>8. PICK x : x = p.id
    OBVIOUS
  <2> HIDE DEF p
  <2>9. \E d \in Done : fate' = [fate EXCEPT ![x] = d]
    BY <2>1, <2>6, <2>7, <2>8, SettledIs
  <2>10. InOrder' /\ Lengths' /\ FateKept' /\ Reread'
    BY <1>2, <2>2, <2>8, <2>9, QueueTakenKeeps DEF p
  <2>11. LastTold'
    BY <1>1, <2>1, <2>4, <2>5, HeaderTold DEF CaptureInv, Told
  <2> QED
    BY <2>10, <2>11 DEF HandedInv
<1> QED
  BY <1>3, <1>4 DEF pcap_read_packet
--------------------------------------------------------------------------------
(* The kernel's timer hands a block over.                                  *)
LEMMA RetireHands ==
  ASSUME CaptureInv, CaptureInv', HandedInv, Retire
  PROVE  HandedInv'
<1>1. ring \in [Slots -> SlotType] /\ ring' \in [Slots -> SlotType] /\ kern \in KernType
  BY DEF CaptureInv, CaptureType
<1>2. how' = how /\ h' = h /\ call' = call /\ fate' = fate /\ last' = Nothing
  BY DEF Retire
<1>3. kern'.queue = kern.queue /\ kern'.next = kern.next /\ kern'.filter = kern.filter
  BY <1>1 DEF Retire, KernType
<1>4. \A s \in Slots : ring'[s].pkts = ring[s].pkts
  <2>1. kern.head \in Slots
    BY <1>1 DEF KernType
  <2>2. ring[kern.head] \in SlotType
    BY <1>1, <2>1
  <2>3. [ring[kern.head] EXCEPT !.user = TRUE].pkts = ring[kern.head].pkts
    BY <2>2 DEF SlotType
  <2> QED
    BY <1>1, <2>1, <2>3 DEF Retire
<1>5. InRing' <=> InRing
  BY <1>2 DEF InRing
<1>6. InOrder'
  <2>1. InRing => RisingIn(ring', h.offset)
    BY <1>4, RisingSame DEF HandedInv, InOrder
  <2> QED
    BY <1>2, <1>3, <1>5, <2>1 DEF HandedInv, InOrder, RisingIn, RisingQueue, Ahead
<1>7. Lengths'
  <2>1. \A p \in PacketType : Waits(p)' => Waits(p)
    BY <1>3, <1>4 DEF Waits, Among
  <2> QED
    BY <1>2, <1>3, <2>1, LengthsKept
<1>8. Waiting' = Waiting
  <2>1. Unread(ring', h.offset, h.current) = Unread(ring, h.offset, h.current)
    BY <1>1, <1>4, UnreadSame
  <2> QED
    BY <1>2, <1>3, <1>5, <2>1 DEF Waiting
<1>9. FateKept'
  BY <1>2, <1>3, <1>8 DEF HandedInv, FateKept, FateOk, Held
<1>10. LastTold'
  BY <1>2 DEF LastTold, Nothing
<1>11. Reread'
  <2>1. h.offset \in Slots
    BY DEF CaptureInv, CaptureType, HandleType
  <2> QED
    BY <1>2, <1>4, <2>1, RereadKept
<1> QED
  BY <1>6, <1>7, <1>9, <1>10, <1>11 DEF HandedInv

(* The lengths that the kernel gives with a packet.                        *)
LEMMA StoredMeasured ==
  ASSUME NEW id \in Nat \ {0}, NEW kind \in Kinds, NEW f \in FilterType, Fits(f), Passes(f, kind)
  PROVE  /\ Stored(id, kind, f) \in PacketType /\ Measured(Stored(id, kind, f))
         /\ Stored(id, kind, f).id = id
<1>1. kind.len \in Nat /\ kind.len <= 65535 /\ f.ret \in Nat /\ snapshot \in Nat /\ f.tags # {}
  BY RingAssumption, LengthAssumption DEF FilterType, Passes
<1>2. PICK l \in Nat : l = Lesser(kind.len, f.ret)
  BY <1>1 DEF Lesser
<1>3. /\ l <= kind.len /\ (l = kind.len \/ (InRing /\ l >= snapshot /\ l >= 14))
      /\ (InRing \/ l = kind.len)
  BY <1>1, <1>2 DEF Fits, Lesser
<1>4. PICK p : p = Stored(id, kind, f)
  OBVIOUS
<1>5. p = [id |-> id, kind |-> kind, snap |-> l, len |-> kind.len]
  BY <1>2, <1>3, <1>4 DEF Stored
<1>6. p \in PacketType /\ p.id = id /\ p.kind = kind /\ p.snap = l /\ p.len = kind.len
  BY <1>1, <1>5 DEF PacketType
<1> QED
  BY <1>3, <1>4, <1>6 DEF Measured

(* A packet is lost, or stored where it moves none of those in the ring.   *)
LEMMA RereadApart ==
  ASSUME HandedInv, how' = how, ring' = ring, h' = h, NEW x, NEW d \in Fates \ (Done \cup {"back"}),
         fate' = [fate EXCEPT ![x] = d]
  PROVE  Reread'
<1>1. fate \in [1 .. MaxPackets -> Fates]
  BY DEF HandedInv, FateKept, FateOk
<1>2. \A i \in 1 .. MaxPackets : fate'[i] = fate[i] \/ fate'[i] = d
  BY <1>1
<1>3. \A i : /\ BackAt(i)' <=> BackAt(i)
             /\ i \in ReadInBlock' <=> i \in ReadInBlock
             /\ AllLater(i, ring)' <=> AllLater(i, ring)
  BY DEF BackAt, ReadInBlock, AllLater
<1>4. InRing' <=> InRing
  BY DEF InRing
<1> QED
  BY <1>2, <1>3, <1>4 DEF HandedInv, Reread

(* A packet comes into the ring, behind all others.                        *)
LEMMA RereadAdded ==
  ASSUME HandedInv, ring \in [Slots -> SlotType], how' = how, h' = h, h.offset \in Slots, h.current \in Nat,
         NEW k \in Slots, NEW p \in PacketType, p.id = kern.next, PutIn(ring, ring', k, p),
         k = h.offset => h.current = 0, kern.next <= MaxPackets, fate' = [fate EXCEPT ![kern.next] = "stored"]
  PROVE  Reread'
<1>1. FateOk(fate, kern.next) /\ MaxPackets \in Nat
  BY RingAssumption DEF HandedInv, FateKept
<1>2. fate \in [1 .. MaxPackets -> Fates] /\ kern.next \in 1 .. MaxPackets
  BY <1>1 DEF FateOk
<1>3. \A i \in 1 .. MaxPackets : fate'[i] = fate[i] \/ fate'[i] = "stored"
  BY <1>2
<1>4. \A s \in Slots : ring[s].pkts \in Seq(PacketType) /\ Len(ring[s].pkts) \in Nat
  BY DEF SlotType
<1>5. PICK n \in Nat : n = Len(ring[k].pkts)
  BY <1>4
<1>6. /\ Len(ring'[k].pkts) = n + 1 /\ ring'[k].pkts[n + 1] = p
      /\ \A i \in 1 .. n : ring'[k].pkts[i] = ring[k].pkts[i]
  BY <1>4, <1>5 DEF PutIn
<1>7. \A s \in Slots : s # k => ring'[s] = ring[s]
  BY DEF PutIn
<1>8. ASSUME NEW i, BackAt(i) PROVE BackAt(i)'
  <2>1. CASE k = h.offset
    <3>1. PICK b \in 1 .. n : \E a \in 1 .. b - 1 :
            /\ ring[k].pkts[a].id = i /\ ring[k].pkts[b].kind.bad # "no" /\ a >= h.current
      BY <1>5, <1>8, <2>1 DEF BackAt
    <3>2. PICK a \in 1 .. b - 1 :
            /\ ring[k].pkts[a].id = i /\ ring[k].pkts[b].kind.bad # "no" /\ a >= h.current
      BY <3>1
    <3>3. a \in 1 .. n /\ b \in 1 .. n + 1
      BY <1>5
    <3> QED
      BY <1>6, <1>8, <2>1, <3>2, <3>3 DEF BackAt
  <2>2. CASE k # h.offset
    <3>1. ring'[h.offset] = ring[h.offset]
      BY <1>7, <2>2
    <3> QED
      BY <1>8, <3>1 DEF BackAt
  <2> QED
    BY <2>1, <2>2
<1>9. ASSUME NEW i, i \in ReadInBlock PROVE i \in ReadInBlock'
  <2>1. h.current # 0
    BY <1>9 DEF ReadInBlock
  <2>2. ring'[h.offset] = ring[h.offset]
    BY <1>7, <2>1
  <2> QED
    BY <1>9, <2>2 DEF ReadInBlock
<1>10. ASSUME NEW i \in 1 .. MaxPackets, fate[i] \in Done, AllLater(i, ring) PROVE AllLater(i, ring)'
  <2>1. i < p.id
    BY <1>1, <1>2, <1>10 DEF FateOk
  <2>2. ASSUME NEW s \in Slots, NEW j \in 1 .. Len(ring'[s].pkts) PROVE i < ring'[s].pkts[j].id
    <3>1. CASE s = k
      <4>1. j = n + 1 \/ j \in 1 .. n
        BY <1>5, <1>6, <2>2, <3>1
      <4> QED
        BY <1>5, <1>6, <1>10, <2>1, <3>1, <4>1 DEF AllLater
    <3>2. CASE s # k
      BY <1>7, <1>10, <2>2, <3>2 DEF AllLater
    <3> QED
      BY <3>1, <3>2
  <2> QED
    BY <2>2 DEF AllLater
<1>11. InRing' <=> InRing
  BY DEF InRing
<1> QED
  BY <1>3, <1>8, <1>9, <1>10, <1>11 DEF HandedInv, Reread

(* A packet arrives.                                                       *)
LEMMA ArriveHands ==
  ASSUME CaptureInv, CaptureInv', HandedInv, Arrive
  PROVE  HandedInv'
<1>1. /\ how \in HowType /\ ring \in [Slots -> SlotType] /\ ring' \in [Slots -> SlotType]
      /\ kern \in KernType /\ h \in HandleType
  BY DEF CaptureInv, CaptureType
<1>2. how' = how /\ h' = h /\ call' = call /\ last' = Nothing /\ kern.next <= MaxPackets
  BY DEF Arrive
<1>3. PICK kind \in Kinds :
        LET id == kern.next
            p == Stored(id, kind, kern.filter)
            pkts == Append(ring[kern.head].pkts, p)
            whole == how.version # "V3" \/ Len(pkts) = BlockRoom
        IN IF ~Passes(kern.filter, kind) \/ Full
           THEN /\ kern' = [kern EXCEPT !.next = id + 1]
                /\ fate' = [fate EXCEPT ![id] = "lost"]
                /\ UNCHANGED ring
           ELSE /\ fate' = [fate EXCEPT ![id] = "stored"]
                /\ IF InRing
                   THEN /\ ring' = [ring EXCEPT ![kern.head] = Slot(whole, pkts)]
                        /\ kern' = [kern EXCEPT !.next = id + 1,
                                                !.head = IF whole THEN NextSlot(@) ELSE @]
                   ELSE /\ kern' = [kern EXCEPT !.next = id + 1, !.queue = Append(@, p)]
                        /\ UNCHANGED ring
  BY DEF Arrive
<1>4. /\ kern.next \in Nat \ {0} /\ kern.filter \in FilterType /\ kern.head \in Slots
      /\ kern.queue \in Seq(PacketType) /\ h.offset \in Slots /\ h.current \in Nat
  BY <1>1 DEF KernType, HandleType
<1>5. FateOk(fate, kern.next) /\ Held(fate, Waiting)
  BY DEF HandedInv, FateKept
<1>6. InRing' <=> InRing
  BY <1>2 DEF InRing
<1>7. LastTold'
  BY <1>2 DEF LastTold, Nothing
<1>8. CASE ~Passes(kern.filter, kind) \/ Full
  <2>1. /\ kern' = [kern EXCEPT !.next = kern.next + 1] /\ ring' = ring
        /\ fate' = [fate EXCEPT ![kern.next] = "lost"]
    BY <1>3, <1>8
  <2>2. /\ kern'.filter = kern.filter /\ kern'.queue = kern.queue /\ kern'.next = kern.next + 1
    BY <1>1, <2>1 DEF KernType
  <2>3. InOrder'
    BY <1>2, <1>6, <2>1, <2>2 DEF HandedInv, InOrder, RisingIn, RisingQueue, Ahead
  <2>4. Lengths'
    <3>1. \A x \in PacketType : Waits(x)' => Waits(x)
      BY <2>1, <2>2 DEF Waits, Among
    <3> QED
      BY <1>2, <2>2, <3>1, LengthsKept
  <2>5. Waiting' = Waiting
    BY <1>2, <1>6, <2>1, <2>2 DEF Waiting, Unread
  <2>6. FateOk(fate', kern'.next) /\ Held(fate', Waiting)
    BY <1>2, <1>5, <2>1, <2>2, FateLost
  <2>7. FateKept'
    BY <1>2, <2>5, <2>6 DEF FateKept, FateOk, Held
  <2>8. Reread'
    BY <1>2, <2>1, RereadApart
  <2> QED
    BY <1>7, <2>3, <2>4, <2>7, <2>8 DEF HandedInv
<1>9. CASE Passes(kern.filter, kind) /\ ~Full
  <2> DEFINE p == Stored(kern.next, kind, kern.filter)
             pkts == Append(ring[kern.head].pkts, p)
             whole == how.version # "V3" \/ Len(pkts) = BlockRoom
  <2>1. p \in PacketType /\ Measured(p) /\ p.id = kern.next
    BY <1>4, <1>9, StoredMeasured DEF HandedInv, Lengths
  <2>2. fate' = [fate EXCEPT ![kern.next] = "stored"]
    BY <1>3, <1>9
  <2>3. /\ InRing => /\ ring' = [ring EXCEPT ![kern.head] = Slot(whole, pkts)]
                     /\ kern' = [kern EXCEPT !.next = kern.next + 1,
                                             !.head = IF whole THEN NextSlot(@) ELSE @]
        /\ ~InRing => /\ kern' = [kern EXCEPT !.next = kern.next + 1, !.queue = Append(@, p)]
                      /\ ring' = ring
    BY <1>3, <1>9
  <2> HIDE DEF p
  <2>4. FateOk(fate', kern.next + 1) /\ Held(fate', Waiting \cup {p.id})
    BY <1>2, <1>5, <2>1, <2>2, FateStored
  <2>5. \A x \in PacketType : Waits(x) => x.id < p.id
    BY <2>1 DEF CaptureInv, Numbered
  <2> SUFFICES /\ kern'.filter = kern.filter /\ kern'.next = kern.next + 1 /\ InOrder' /\ Reread'
               /\ \A x \in PacketType : Waits(x)' => Waits(x) \/ x = p
               /\ Waiting' = Waiting \cup {p.id}
    <3> SUFFICES ASSUME kern'.filter = kern.filter, kern'.next = kern.next + 1, InOrder', Reread',
                        \A x \in PacketType : Waits(x)' => Waits(x) \/ x = p,
                        Waiting' = Waiting \cup {p.id}
                 PROVE  HandedInv'
      OBVIOUS
    <3>1. Lengths'
      <4>1. \A x \in PacketType : Measured(x)' <=> Measured(x)
        BY <1>6 DEF Measured
      <4>2. \A x \in PacketType : Waits(x)' => Measured(x)'
        BY <2>1, <4>1 DEF HandedInv, Lengths
      <4> QED
        BY <1>2, <1>6, <4>2 DEF HandedInv, Lengths, Fits
    <3>2. FateKept'
      BY <1>2, <2>4 DEF FateKept, FateOk, Held
    <3> QED
      BY <1>7, <3>1, <3>2 DEF HandedInv
  <2>6. CASE InRing
    <3>1. ring' = [ring EXCEPT ![kern.head] = Slot(whole, pkts)] /\ ~ring[kern.head].user
      BY <1>9, <2>3, <2>6 DEF Full
    <3>2. kern'.filter = kern.filter /\ kern'.queue = kern.queue /\ kern'.next = kern.next + 1
      BY <1>1, <2>3, <2>6 DEF KernType
    <3>3. ring'[kern.head].pkts = Append(ring[kern.head].pkts, p) /\ \A s \in Slots : s # kern.head => ring'[s] = ring[s]
      BY <1>1, <1>4, <3>1 DEF Slot
    <3> HIDE DEF pkts, whole
    <3>4. \A x \in PacketType : Waits(x)' => Waits(x) \/ x = p
      <4>1. ASSUME NEW x \in PacketType, NEW s \in Slots, Among(x, ring'[s].pkts) PROVE Among(x, ring[s].pkts) \/ x = p
        <5>1. CASE s = kern.head
          <6>1. ring[kern.head].pkts \in Seq(PacketType)
            BY <1>1, <1>4 DEF SlotType
          <6>2. Among(x, Append(ring[kern.head].pkts, p))
            BY <3>3, <4>1, <5>1
          <6> QED
            BY <2>1, <5>1, <6>1, <6>2, InFacts
        <5>2. CASE s # kern.head
          BY <3>3, <4>1, <5>2
        <5> QED
          BY <5>1, <5>2
      <4>2. ASSUME NEW x \in PacketType, Waits(x)' PROVE Waits(x) \/ x = p
        <5>1. Among(x, kern.queue) \/ \E s \in Slots : Among(x, ring'[s].pkts)
          BY <3>2, <4>2 DEF Waits, Among
        <5> QED
          BY <4>1, <5>1 DEF Waits
      <4> QED
        BY <4>2
    <3>5. kern.head = h.offset => h.current = 0
      BY <3>1 DEF CaptureInv, BlockRead
    <3>6. Waiting' = Waiting \cup {p.id}
      <4>1. Unread(ring', h.offset, h.current) = Unread(ring, h.offset, h.current) \cup {p.id}
        <5>1. PutIn(ring, ring', kern.head, p)
          BY <3>3 DEF PutIn
        <5> QED
          BY <1>1, <1>4, <2>1, <3>5, <5>1, UnreadAdded
      <4> QED
        BY <1>2, <1>6, <2>6, <4>1 DEF Waiting
    <3>7. ASSUME NEW s \in Slots, NEW i \in 1 .. Len(ring[s].pkts) PROVE ring[s].pkts[i].id < p.id
      <4>1. ring[s].pkts \in Seq(PacketType)
        BY <1>1 DEF SlotType
      <4>2. ring[s].pkts[i] \in PacketType /\ Among(ring[s].pkts[i], ring[s].pkts)
        BY <4>1 DEF Among
      <4> QED
        BY <2>5, <4>2 DEF Waits
    <3>8. ASSUME NEW s \in Slots, ring[s].pkts # <<>> PROVE ~(Ahead(h.offset, kern.head) < Ahead(h.offset, s))
      <4>1. \A t \in Slots : ring[t].user <=> Ahead(h.offset, t) < Ahead(h.offset, kern.head)
        BY <1>4, <2>6, <3>1 DEF CaptureInv, Contiguous
      <4>2. Ahead(h.offset, s) < Ahead(h.offset, kern.head) \/ s = kern.head
        BY <2>6, <3>8, <4>1 DEF CaptureInv, Contiguous
      <4>3. \A t \in Slots : Ahead(h.offset, t) \in Int
        <5>1. \A t \in Slots : Ahead(h.offset, t) \in Slots
          BY <1>4, AheadFacts
        <5>2. \A y \in Slots : y \in Int
          BY DEF Slots
        <5> QED
          BY <5>1, <5>2
      <4> QED
        BY <1>4, <4>2, <4>3
    <3>9. RisingIn(ring', h.offset)
      <4>1. RisingIn(ring, h.offset)
        BY <2>6 DEF HandedInv, InOrder
      <4>2. PutIn(ring, ring', kern.head, p)
        BY <3>3 DEF PutIn
      <4> QED
        BY <1>1, <1>4, <2>1, <3>7, <3>8, <4>1, <4>2, RisingAdded
    <3>10. InOrder'
      BY <1>2, <2>6, <3>2, <3>9 DEF HandedInv, InOrder, RisingIn, RisingQueue, Ahead
    <3>11. Reread'
      <4>1. PutIn(ring, ring', kern.head, p)
        BY <3>3 DEF PutIn
      <4> QED
        BY <1>1, <1>2, <1>4, <2>1, <2>2, <3>5, <4>1, RereadAdded
    <3> QED
      BY <3>2, <3>4, <3>6, <3>10, <3>11
  <2>7. CASE ~InRing
    <3>1. kern' = [kern EXCEPT !.next = kern.next + 1, !.queue = Append(@, p)] /\ ring' = ring
      BY <2>3, <2>7
    <3>2. /\ kern'.filter = kern.filter /\ kern'.next = kern.next + 1
          /\ kern'.queue = Append(kern.queue, p)
      BY <1>1, <3>1 DEF KernType
    <3>3. ASSUME NEW i \in 1 .. Len(kern.queue) PROVE kern.queue[i].id < p.id
      <4>1. kern.queue[i] \in PacketType /\ Among(kern.queue[i], kern.queue)
        BY <1>4 DEF Among
      <4> QED
        BY <2>5, <4>1 DEF Waits
    <3>4. RisingQueue(Append(kern.queue, p)) /\ Ids(Append(kern.queue, p)) = Ids(kern.queue) \cup {p.id}
      BY <1>4, <2>1, <3>3, QueueAdded DEF HandedInv, InOrder
    <3>5. InOrder'
      BY <1>6, <2>7, <3>2, <3>4 DEF InOrder, RisingQueue
    <3>6. Waiting' = Waiting \cup {p.id}
      BY <1>6, <2>7, <3>2, <3>4 DEF Waiting, Ids
    <3>7. \A x \in PacketType : Waits(x)' => Waits(x) \/ x = p
      <4>1. \A x \in PacketType : Among(x, Append(kern.queue, p)) => Among(x, kern.queue) \/ x = p
        BY <1>4, <2>1, InFacts
      <4> QED
        BY <3>1, <3>2, <4>1 DEF Waits, Among
    <3>8. Reread'
      BY <1>2, <2>2, <3>1, RereadApart
    <3> QED
      BY <3>2, <3>5, <3>6, <3>7, <3>8
  <2> QED
    BY <2>6, <2>7
<1> QED
  BY <1>8, <1>9
--------------------------------------------------------------------------------
(* The packet of the ring that is looked at is the first that waits.       *)
LEMMA RingFirst ==
  ASSUME CaptureInv, HandedInv, InRing, NEW f \in 1 .. Len(ring[h.offset].pkts),
         f = FirstAt(h.offset, h.current, h.offset), NEW p, p = ring[h.offset].pkts[f]
  PROVE  /\ p \in PacketType /\ Measured(p) /\ p.id \in Waiting /\ \A y \in Waiting : p.id <= y
         /\ Unread(ring, h.offset, f + 1) = Waiting \ {p.id}
<1>1. ring \in [Slots -> SlotType] /\ h.offset \in Slots /\ h.current \in Nat
  BY DEF CaptureInv, CaptureType, HandleType
<1>2. ring[h.offset].pkts \in Seq(PacketType)
  BY <1>1 DEF SlotType
<1>3. p \in PacketType /\ Among(p, ring[h.offset].pkts)
  BY <1>2 DEF Among
<1>4. Measured(p)
  BY <1>1, <1>3 DEF HandedInv, Lengths, Waits
<1>5. Waiting = Unread(ring, h.offset, h.current) /\ RisingIn(ring, h.offset)
  BY DEF Waiting, HandedInv, InOrder
<1>6. PICK x : x = p.id
  OBVIOUS
<1>7. /\ x \in Unread(ring, h.offset, h.current) /\ \A y \in Unread(ring, h.offset, h.current) : x <= y
      /\ Unread(ring, h.offset, f + 1) = Unread(ring, h.offset, h.current) \ {x}
  BY <1>1, <1>5, <1>6, UnreadFirst
<1> QED
  BY <1>3, <1>4, <1>5, <1>6, <1>7

(* The reader goes back to the start of a block.                           *)
LEMMA UnreadBack ==
  ASSUME NEW r \in [Slots -> SlotType], NEW o \in Slots, NEW c \in Nat, c <= Len(r[o].pkts) + 1
  PROVE  Unread(r, o, 0) = Unread(r, o, c) \cup {r[o].pkts[k].id : k \in 1 .. c - 1}
<1>1. \A s \in Slots : Len(r[s].pkts) \in Nat
  BY DEF SlotType
<1>2. \A s \in Slots : /\ FirstAt(o, 0, s) = 1 /\ FirstAt(o, c, s) \in Nat \ {0}
                       /\ s # o => FirstAt(o, c, s) = 1
  BY DEF FirstAt
<1>3. ASSUME NEW s \in Slots, NEW i \in 1 .. Len(r[s].pkts)
      PROVE  i \in FirstAt(o, c, s) .. Len(r[s].pkts) \/ (s = o /\ i \in 1 .. c - 1)
  BY <1>1 DEF FirstAt
<1>4. ASSUME NEW x PROVE x \in Unread(r, o, 0) <=> \/ x \in Unread(r, o, c)
                                                  \/ \E k \in 1 .. c - 1 : x = r[o].pkts[k].id
  <2>1. ASSUME x \in Unread(r, o, 0)
        PROVE  x \in Unread(r, o, c) \/ \E k \in 1 .. c - 1 : x = r[o].pkts[k].id
    <3>1. PICK s \in Slots : \E i \in 1 .. Len(r[s].pkts) : x = r[s].pkts[i].id
      BY <1>2, <2>1, UnreadIs
    <3>2. PICK i \in 1 .. Len(r[s].pkts) : x = r[s].pkts[i].id
      BY <3>1
    <3> QED
      BY <1>3, <3>2, UnreadIs
  <2>2. ASSUME x \in Unread(r, o, c) PROVE x \in Unread(r, o, 0)
    <3>1. PICK s \in Slots : \E i \in FirstAt(o, c, s) .. Len(r[s].pkts) : x = r[s].pkts[i].id
      BY <2>2, UnreadIs
    <3>2. PICK i \in FirstAt(o, c, s) .. Len(r[s].pkts) : x = r[s].pkts[i].id
      BY <3>1
    <3>3. i \in FirstAt(o, 0, s) .. Len(r[s].pkts)
      BY <1>1, <1>2
    <3> QED
      BY <3>2, <3>3, UnreadIs
  <2>3. ASSUME NEW k \in 1 .. c - 1, x = r[o].pkts[k].id PROVE x \in Unread(r, o, 0)
    <3>1. k \in FirstAt(o, 0, o) .. Len(r[o].pkts)
      BY <1>1, <1>2
    <3> QED
      BY <2>3, <3>1, UnreadIs
  <2> QED
    BY <2>1, <2>2, <2>3
<1> QED
  BY <1>4

(* What came before the packets of the ring, or is one of the slot that is *)
(* given back, comes before those that the ring still holds.               *)
LEMMA LaterReleased ==
  ASSUME ring \in [Slots -> SlotType], h.offset \in Slots, RisingIn(ring, h.offset), ring' = Released,
         NEW i, \/ \E k \in 1 .. Len(ring[h.offset].pkts) : i = ring[h.offset].pkts[k].id
                \/ AllLater(i, ring)
  PROVE  AllLater(i, ring)'
<1>1. Len(ring'[h.offset].pkts) = 0 /\ \A s \in Slots : s # h.offset => ring'[s] = ring[s]
  BY DEF Released, Slot
<1>2. \A k \in 1 .. Len(ring'[h.offset].pkts) : FALSE
  BY <1>1
<1>3. ASSUME NEW s \in Slots, s # h.offset, NEW k \in 1 .. Len(ring[s].pkts) PROVE i < ring[s].pkts[k].id
  <2>1. CASE AllLater(i, ring)
    BY <2>1 DEF AllLater
  <2>2. CASE \E m \in 1 .. Len(ring[h.offset].pkts) : i = ring[h.offset].pkts[m].id
    <3>1. Ahead(h.offset, h.offset) = 0 /\ Ahead(h.offset, s) # 0 /\ Ahead(h.offset, s) \in Slots
      BY <1>3, AheadFacts
    <3>2. Ahead(h.offset, h.offset) < Ahead(h.offset, s)
      BY <3>1, SlotOrder DEF Slots
    <3> QED
      BY <2>2, <3>2 DEF RisingIn
  <2> QED
    BY <2>1, <2>2
<1> QED
  BY <1>1, <1>2, <1>3 DEF AllLater

(* A slot that was read to its end is given back.                          *)
LEMMA ReleasedHands ==
  ASSUME CaptureInv, CaptureInv', HandedInv, InRing, how' = how, kern' = kern, ring' = Released,
         h'.offset = NextSlot(h.offset), h'.current = 0, call'.op # "filter" \/ call' = call,
         NEW c \in Nat, c > Len(ring[h.offset].pkts)
  PROVE  InOrder' /\ Lengths' /\ Waiting' = Unread(ring, h.offset, c)
<1>1. /\ ring \in [Slots -> SlotType] /\ ring' \in [Slots -> SlotType] /\ h.offset \in Slots
      /\ h'.offset \in Slots
  BY DEF CaptureInv, CaptureType, HandleType
<1>2. ring'[h.offset].pkts = <<>> /\ \A s \in Slots : s # h.offset => ring'[s] = ring[s]
  BY <1>1 DEF Released, Slot
<1>3. InRing'
  BY DEF InRing
<1>4. InOrder'
  <2>1. RisingIn(ring, h.offset)
    BY DEF HandedInv, InOrder
  <2>2. RisingIn(ring', NextSlot(h.offset))
    BY <1>1, <1>2, <2>1, RisingReleased
  <2> QED
    BY <2>2 DEF HandedInv, InOrder, RisingIn, RisingQueue, Ahead
<1>5. Lengths'
  <2>1. \A x \in PacketType : Waits(x)' => Waits(x)
    <3>1. \A x : ~Among(x, <<>>)
      BY DEF Among
    <3>2. \A x, s : Among(x, ring[s].pkts)' <=> Among(x, ring'[s].pkts)
      BY DEF Among
    <3> QED
      BY <1>1, <1>2, <3>1 DEF Waits, Among
  <2> QED
    BY <2>1, LengthsKept
<1>6. Unread(ring', h'.offset, 0) = Unread(ring, h.offset, c)
  BY <1>1, <1>2, UnreadReleased
<1>7. Waiting' = Unread(ring', h'.offset, 0)
  BY <1>3 DEF Waiting
<1> QED
  BY <1>4, <1>5, <1>6, <1>7

(* pcap_read_linux_mmap_v1 and _v2.                                        *)
LEMMA FrameHands ==
  ASSUME CaptureInv, CaptureInv', HandedInv, pcap_read_linux_mmap
  PROVE  HandedInv'
<1>1. ring \in [Slots -> SlotType] /\ h \in HandleType /\ h.offset \in Slots
  BY DEF CaptureInv, CaptureType, HandleType
<1>2. call.op = "read" /\ FrameRing /\ InRing /\ how' = how /\ kern' = kern
  BY DEF pcap_read_linux_mmap, At, FrameRing, InRing
<1>3. call \in ReadType
  BY <1>2 DEF CaptureInv, CaptureType, RestType, SettingType
<1>4. CASE ~More(call) \/ ~pcap_get_ring_frame(h.offset, TRUE)
  <2>1. ring' = ring /\ h' = h /\ fate' = fate /\ last' = Nothing /\ call' = Ended(call, call.pkts)
    BY <1>4 DEF pcap_read_linux_mmap, Returns
  <2>2. Stays
    BY <1>2, <2>1 DEF Stays
  <2>3. Fits(kern'.filter)
    BY <1>2 DEF HandedInv, Lengths
  <2> QED
    BY <2>1, <2>2, <2>3, EndedOp, StaysKeeps
<1>5. CASE ~(~More(call) \/ ~pcap_get_ring_frame(h.offset, TRUE))
  <2> DEFINE p == Head(ring[h.offset].pkts)
  <2>1. PICK ret \in {-1, 0, 1} :
          /\ Settle(p, ret)
          /\ IF ret < 0
             THEN /\ Returns(ret) /\ h' = [h EXCEPT !.filtering_in_kernel = CountedFor(p)]
                  /\ UNCHANGED ring
             ELSE /\ ring' = Released
                  /\ h' = [h EXCEPT !.offset = NextSlot(@), !.filtering_in_kernel = CountedFor(p),
                                    !.break_loop = FALSE]
                  /\ call' = IF h.break_loop THEN Ended(call, -2) ELSE [call EXCEPT !.pkts = @ + ret]
    <3>1. PICK verdict \in bpf_filter(p.kind) : \E ret \in {pcap_handle_packet_mmap(p, verdict)} :
            /\ Settle(p, ret)
            /\ IF ret < 0
               THEN /\ Returns(ret) /\ h' = [h EXCEPT !.filtering_in_kernel = CountedFor(p)]
                    /\ UNCHANGED ring
               ELSE /\ ring' = Released
                    /\ h' = [h EXCEPT !.offset = NextSlot(@), !.filtering_in_kernel = CountedFor(p),
                                      !.break_loop = FALSE]
                    /\ call' = IF h.break_loop THEN Ended(call, -2) ELSE [call EXCEPT !.pkts = @ + ret]
      BY <1>5 DEF pcap_read_linux_mmap
    <3>2. pcap_handle_packet_mmap(p, verdict) \in {-1, 0, 1}
      BY DEF pcap_handle_packet_mmap
    <3> QED
      BY <3>1, <3>2
  <2>2. ring[h.offset].pkts \in Seq(PacketType) /\ Len(ring[h.offset].pkts) = 1
    <3>1. ring[h.offset].user
      BY <1>5 DEF pcap_get_ring_frame
    <3>2. ring[h.offset].pkts \in Seq(PacketType)
      BY <1>1 DEF SlotType
    <3>3. ring[h.offset].pkts # <<>> /\ Len(ring[h.offset].pkts) <= 1
      BY <1>1, <1>2, <3>1 DEF CaptureInv, Contiguous
    <3>4. PICK n \in Nat : n = Len(ring[h.offset].pkts) /\ n # 0
      BY <3>2, <3>3
    <3>5. n <= 1 /\ n # 0
      BY <3>3, <3>4, Zenon
    <3>6. n = 1
      BY <3>5
    <3> QED
      BY <3>2, <3>4, <3>6
  <2>3. p = ring[h.offset].pkts[1] /\ 1 \in 1 .. Len(ring[h.offset].pkts) /\ h.current = 0
    BY <1>2, <2>2 DEF CaptureInv, BlockRead, FrameRing
  <2>4. FirstAt(h.offset, h.current, h.offset) = 1
    BY <2>3 DEF FirstAt
  <2>5. /\ p \in PacketType /\ Measured(p) /\ p.id \in Waiting /\ (\A y \in Waiting : p.id <= y)
        /\ Unread(ring, h.offset, 1 + 1) = Waiting \ {p.id}
    BY <1>2, <2>3, <2>4, RingFirst
  <2>6. last' = Header(p) \/ last' = Nothing
    BY <2>1 DEF Settle, Told
  <2> HIDE DEF p
  <2>7. CASE ret < 0
    <3>1. /\ h' = [h EXCEPT !.filtering_in_kernel = CountedFor(p)] /\ ring' = ring
          /\ last' = Nothing /\ call'.op # "filter"
      BY <2>1, <2>7, EndedOp DEF Settle, Told, Returns
    <3>2. fate' = fate
      BY <1>2, <2>1, <2>5, <2>7, SettledIs DEF Settle
    <3>3. h'.offset = h.offset /\ h'.current = h.current
      BY <1>1, <3>1 DEF HandleType
    <3>4. Stays
      BY <1>2, <3>1, <3>2, <3>3 DEF Stays
    <3>5. Fits(kern'.filter)
      BY <1>2 DEF HandedInv, Lengths
    <3> QED
      BY <3>1, <3>4, <3>5, StaysKeeps
  <2>8. CASE ~(ret < 0)
    <3>1. fate' = [fate EXCEPT ![p.id] = "seen"] /\ fate \in [1 .. MaxPackets -> Fates]
      <4>1. ret >= 0
        BY <2>8
      <4> QED
        BY <2>1, <2>5, <4>1, SettledIs DEF Settle
    <3>2. /\ ring' = Released
          /\ h' = [h EXCEPT !.offset = NextSlot(@), !.filtering_in_kernel = CountedFor(p), !.break_loop = FALSE]
          /\ call' = IF h.break_loop THEN Ended(call, -2) ELSE [call EXCEPT !.pkts = @ + ret]
      BY <2>1, <2>8
    <3>3. h'.offset = NextSlot(h.offset) /\ h'.current = 0
      BY <1>1, <2>3, <3>2 DEF HandleType
    <3>4. call'.op # "filter"
      <4>1. \A n : [call EXCEPT !.pkts = n].op # "filter"
        BY <1>3 DEF ReadType
      <4> QED
        BY <3>2, <4>1, EndedOp
    <3>5. 2 \in Nat /\ 2 > Len(ring[h.offset].pkts)
      BY <2>2
    <3>6. InOrder' /\ Lengths' /\ Waiting' = Unread(ring, h.offset, 2)
      BY <1>2, <3>2, <3>3, <3>4, <3>5, ReleasedHands
    <3>7. Waiting' = Waiting \ {p.id}
      BY <2>5, <3>6
    <3>8. FateKept'
      <4>1. PICK x : x = p.id
        OBVIOUS
      <4> QED
        BY <1>2, <2>5, <3>1, <3>7, <4>1, SeenKeeps
    <3>9. LastTold'
      BY <1>2, <2>5, <2>6, HeaderTold DEF CaptureInv
    <3>10. Reread'
      <4>0. PICK x : x = p.id
        OBVIOUS
      <4>1. \A i \in 1 .. MaxPackets : fate'[i] = fate[i] \/ (i = x /\ fate'[i] = "seen")
        BY <3>1, <4>0
      <4>2. \A i : i \notin ReadInBlock
        BY <2>3 DEF ReadInBlock
      <4>3. \A i \in 1 .. MaxPackets : /\ fate[i] \notin {"back", "unstamped"}
                                       /\ fate[i] \in Done => AllLater(i, ring)
        BY <1>2, <4>2 DEF HandedInv, Reread, BackAt, FrameRing
      <4>4. RisingIn(ring, h.offset) /\ \E k \in 1 .. Len(ring[h.offset].pkts) : x = ring[h.offset].pkts[k].id
        BY <1>2, <2>3, <4>0 DEF HandedInv, InOrder
      <4>5. AllLater(x, ring)' /\ \A i : AllLater(i, ring) => AllLater(i, ring)'
        BY <1>1, <3>2, <4>4, LaterReleased
      <4> QED
        BY <4>1, <4>3, <4>5 DEF Reread
    <3> QED
      BY <3>6, <3>8, <3>9, <3>10 DEF HandedInv
  <2> QED
    BY <2>7, <2>8
<1> QED
  BY <1>4, <1>5
(* pcap_read_linux_mmap_v3: a block is begun, or gone on with.             *)
LEMMA NextBlockHands ==
  ASSUME CaptureInv, CaptureInv', HandedInv, NextBlock
  PROVE  HandedInv'
<1>1. /\ ring \in [Slots -> SlotType] /\ h \in HandleType /\ h.offset \in Slots /\ h.current \in Nat
  BY DEF CaptureInv, CaptureType, HandleType
<1>2. /\ call.op = "read" /\ InRing /\ how' = how /\ kern' = kern /\ ring' = ring /\ fate' = fate
      /\ last' = Nothing
  BY DEF NextBlock, At, InRing
<1>3. call \in ReadType
  BY <1>2 DEF CaptureInv, CaptureType, RestType, SettingType
<1>4. /\ h'.offset = h.offset /\ (h'.current = h.current \/ (h.current = 0 /\ h'.current = 1))
      /\ call'.op # "filter"
  <2>1. CASE Returns(call.pkts) /\ h' = h
    BY <2>1, EndedOp DEF Returns
  <2>2. ASSUME NEW c, c = (IF h.current = 0 THEN 1 ELSE h.current), NEW l, h' = [h EXCEPT !.current = c, !.left = l],
               NEW n, call' = [call EXCEPT !.pc = "block", !.todo = n]
        PROVE  /\ h'.offset = h.offset /\ (h'.current = h.current \/ (h.current = 0 /\ h'.current = 1))
               /\ call'.op # "filter"
    <3>1. h'.offset = h.offset /\ h'.current = c
      BY <1>1, <2>2 DEF HandleType
    <3>2. call'.op # "filter"
      BY <1>3, <2>2 DEF ReadType
    <3> QED
      BY <2>2, <3>1, <3>2
  <2>3. \/ Returns(call.pkts) /\ h' = h
        \/ /\ \E l : h' = [h EXCEPT !.current = IF h.current = 0 THEN 1 ELSE h.current, !.left = l]
           /\ \E n : call' = [call EXCEPT !.pc = "block", !.todo = n]
    BY ZenonT(30) DEF NextBlock
  <2> QED
    BY <2>1, <2>2, <2>3, ZenonT(30)
<1>5. InRing'
  BY <1>2 DEF InRing
<1>6. InOrder'
  BY <1>2, <1>4 DEF HandedInv, InOrder, InRing, RisingIn, RisingQueue, Ahead
<1>7. Lengths'
  <2>1. \A x \in PacketType : Waits(x)' => Waits(x)
    BY <1>2 DEF Waits, Among
  <2> QED
    BY <1>2, <1>4, <2>1, LengthsKept
<1>8. Waiting' = Waiting
  <2>1. \A s \in Slots : ring[s].pkts = ring[s].pkts
    OBVIOUS
  <2>2. Unread(ring, h.offset, h'.current) = Unread(ring, h.offset, h.current)
    BY <1>1, <1>4, <2>1, UnreadSame
  <2> QED
    BY <1>2, <1>4, <1>5, <2>2 DEF Waiting
<1>9. FateKept'
  <2>1. FateOk(fate, kern.next) /\ Held(fate, Waiting)
    BY <1>2 DEF HandedInv, FateKept
  <2> QED
    BY <1>2, <1>8, <2>1 DEF FateKept, FateOk, Held
<1>10. LastTold'
  BY <1>2 DEF LastTold, Nothing
<1>11. Reread'
  BY <1>1, <1>2, <1>4, RereadKept
<1> QED
  BY <1>6, <1>7, <1>9, <1>10, <1>11 DEF HandedInv

(* A packet of the block.                                                  *)
LEMMA InBlockHands ==
  ASSUME CaptureInv, CaptureInv', HandedInv, InBlock
  PROVE  HandedInv'
<1>1. /\ ring \in [Slots -> SlotType] /\ h \in HandleType /\ h.offset \in Slots /\ h.current \in Nat
      /\ h.left \in Int
  BY DEF CaptureInv, CaptureType, HandleType
<1>2. /\ At("block") /\ call.op = "read" /\ call.todo > 0 /\ how' = how /\ ring' = ring /\ kern' = kern
  BY DEF InBlock, At
<1>3. call \in ReadType
  BY <1>2 DEF CaptureInv, CaptureType, RestType, SettingType
<1>4. PICK len \in Nat : len = Len(ring[h.offset].pkts)
  BY <1>1 DEF SlotType
<1>5. h.current # 0 /\ how.version = "V3" /\ call.todo \in 0 .. h.left /\ h.left = (len + 1) - h.current
  BY <1>2, <1>4 DEF CaptureInv, BlockRead
<1>6. h.current \in 1 .. Len(ring[h.offset].pkts) /\ InRing
  <2>1. call.todo \in Int
    BY <1>3 DEF ReadType
  <2> QED
    BY <1>1, <1>2, <1>4, <1>5, <2>1 DEF InRing
<1>7. h.current = FirstAt(h.offset, h.current, h.offset)
  BY <1>5 DEF FirstAt
<1> DEFINE p == ring[h.offset].pkts[h.current]
<1>8. PICK ret \in {-1, 0, 1} :
        /\ ret < 0 => p.kind.bad # "no"
        /\ IF ret < 0
           THEN /\ fate' = [i \in DOMAIN fate |-> IF i \in ReadInBlock THEN "back" ELSE Settled(p, ret)[i]]
                /\ last' = Nothing
                /\ h' = [h EXCEPT !.filtering_in_kernel = CountedFor(p), !.current = 0]
                /\ Returns(ret)
           ELSE /\ Settle(p, ret)
                /\ h' = [h EXCEPT !.filtering_in_kernel = CountedFor(p), !.current = @ + 1, !.left = @ - 1]
                /\ call' = [call EXCEPT !.pkts = @ + ret, !.todo = @ - 1]
  <2>1. PICK verdict \in bpf_filter(p.kind) : \E ret \in {pcap_handle_packet_mmap(p, verdict)} :
          IF ret < 0
          THEN /\ fate' = [i \in DOMAIN fate |-> IF i \in ReadInBlock THEN "back" ELSE Settled(p, ret)[i]]
               /\ last' = Nothing
               /\ h' = [h EXCEPT !.filtering_in_kernel = CountedFor(p), !.current = 0]
               /\ Returns(ret)
          ELSE /\ Settle(p, ret)
               /\ h' = [h EXCEPT !.filtering_in_kernel = CountedFor(p), !.current = @ + 1, !.left = @ - 1]
               /\ call' = [call EXCEPT !.pkts = @ + ret, !.todo = @ - 1]
    BY DEF InBlock
  <2>2. /\ pcap_handle_packet_mmap(p, verdict) \in {-1, 0, 1}
        /\ p.kind.bad = "no" => pcap_handle_packet_mmap(p, verdict) \in {0, 1}
    BY DEF pcap_handle_packet_mmap
  <2>3. PICK ret : ret = pcap_handle_packet_mmap(p, verdict)
    OBVIOUS
  <2>4. ret \in {-1, 0, 1} /\ (ret < 0 => p.kind.bad # "no")
    BY <2>2, <2>3
  <2> QED
    BY <2>1, <2>3, <2>4, Zenon
<1>9. /\ p \in PacketType /\ Measured(p) /\ p.id \in Waiting /\ (\A y \in Waiting : p.id <= y)
      /\ Unread(ring, h.offset, h.current + 1) = Waiting \ {p.id}
  BY <1>6, <1>7, RingFirst
<1> HIDE DEF p
<1>10. ASSUME NEW i \in ReadInBlock
       PROVE  \E k \in 1 .. h.current - 1 : k \in 1 .. Len(ring[h.offset].pkts) /\ i = ring[h.offset].pkts[k].id
  BY <1>1, <1>4, <1>6, <1>10 DEF ReadInBlock
<1>11. fate \in [1 .. MaxPackets -> Fates] /\ FateOk(fate, kern.next) /\ Held(fate, Waiting)
  BY DEF HandedInv, FateKept, FateOk
<1>12. CASE ret < 0
  <2>1. /\ h' = [h EXCEPT !.filtering_in_kernel = CountedFor(p), !.current = 0] /\ last' = Nothing
        /\ call'.op # "filter" /\ p.kind.bad # "no"
    BY <1>8, <1>12, EndedOp DEF Returns
  <2>2. fate' = [i \in DOMAIN fate |-> IF i \in ReadInBlock THEN "back" ELSE fate[i]]
    <3>1. Settled(p, ret) = fate
      BY <1>6, <1>9, <1>12, SettledIs
    <3> QED
      BY <1>8, <1>12, <3>1
  <2>3. h'.offset = h.offset /\ h'.current = 0
    BY <1>1, <2>1 DEF HandleType
  <2>4. InOrder'
    BY <1>2, <2>3 DEF HandedInv, InOrder, InRing, RisingIn, RisingQueue, Ahead
  <2>5. Lengths'
    <3>1. \A x \in PacketType : Waits(x)' => Waits(x)
      BY <1>2 DEF Waits, Among
    <3> QED
      BY <1>2, <2>1, <3>1, LengthsKept
  <2>6. Waiting' = Waiting \cup ReadInBlock
    <3>1. InRing'
      BY <1>2, <1>6 DEF InRing
    <3>2. h.current <= Len(ring[h.offset].pkts) + 1
      BY <1>1, <1>4, <1>6
    <3>3. Unread(ring, h.offset, 0) = Unread(ring, h.offset, h.current) \cup ReadInBlock
      BY <1>1, <3>2, UnreadBack DEF ReadInBlock
    <3> QED
      BY <1>2, <1>6, <2>3, <3>1, <3>3 DEF Waiting
  <2>7. FateKept'
    <3>1. ASSUME NEW i \in ReadInBlock PROVE i \in 1 .. MaxPackets /\ i < kern.next
      <4>1. PICK k \in 1 .. Len(ring[h.offset].pkts) : i = ring[h.offset].pkts[k].id
        BY <1>10, <3>1
      <4>2. ring[h.offset].pkts \in Seq(PacketType)
        BY <1>1 DEF SlotType
      <4>3. PICK q \in PacketType : q = ring[h.offset].pkts[k] /\ Waits(q)
        BY <1>1, <4>2 DEF Waits, Among
      <4>4. q.id < kern.next /\ q.id \in Nat \ {0} /\ kern.next \in 1 .. MaxPackets + 1 /\ MaxPackets \in Nat
        BY <1>11, <4>3, RingAssumption DEF CaptureInv, Numbered, PacketType, FateOk
      <4> QED
        BY <4>1, <4>3, <4>4
    <3>2. ASSUME NEW i \in 1 .. MaxPackets, fate[i] \in Done, NEW j \in ReadInBlock PROVE i \in ReadInBlock \/ i < j
      <4>1. PICK k \in 1 .. Len(ring[h.offset].pkts) : j = ring[h.offset].pkts[k].id
        BY <1>10, <3>2
      <4>2. i \in ReadInBlock \/ AllLater(i, ring)
        BY <1>6, <3>2 DEF HandedInv, Reread
      <4> QED
        BY <1>1, <4>1, <4>2 DEF AllLater
    <3>3. ReadInBlock \in SUBSET (1 .. MaxPackets)
      BY <3>1
    <3>4. FateOk(fate', kern.next) /\ Held(fate', Waiting \cup ReadInBlock)
      BY <1>11, <2>2, <3>1, <3>2, <3>3, FateBack
    <3> QED
      BY <1>2, <2>6, <3>4 DEF FateKept, FateOk, Held
  <2>8. LastTold'
    BY <2>1 DEF LastTold, Nothing
  <2>9. Reread'
    <3>1. ASSUME NEW i \in ReadInBlock PROVE BackAt(i)'
      <4>1. PICK k \in 1 .. h.current - 1 : i = ring[h.offset].pkts[k].id
        BY <1>10, <3>1
      <4>2. k \in Nat /\ k >= 0
        BY <1>1
      <4>3. ring[h.offset].pkts[h.current].kind.bad # "no"
        BY <2>1 DEF p
      <4> QED
        BY <1>2, <1>5, <1>6, <2>3, <4>1, <4>2, <4>3 DEF BackAt
    <3>2. ASSUME NEW i, BackAt(i) PROVE BackAt(i)'
      <4>1. PICK b \in 1 .. Len(ring[h.offset].pkts) : \E a \in 1 .. b - 1 :
              ring[h.offset].pkts[a].id = i /\ ring[h.offset].pkts[b].kind.bad # "no"
        BY <3>2 DEF BackAt
      <4>2. PICK a \in 1 .. b - 1 : ring[h.offset].pkts[a].id = i /\ ring[h.offset].pkts[b].kind.bad # "no"
        BY <4>1
      <4>3. a >= 0
        OBVIOUS
      <4> QED
        BY <1>2, <1>5, <2>3, <4>2, <4>3 DEF BackAt
    <3>3. \A i \in 1 .. MaxPackets : \/ i \in ReadInBlock /\ fate'[i] = "back"
                                     \/ i \notin ReadInBlock /\ fate'[i] = fate[i]
      BY <1>11, <2>2
    <3>4. \A i : AllLater(i, ring) => AllLater(i, ring)'
      BY <1>2 DEF AllLater
    <3>5. InRing' <=> InRing
      BY <1>2 DEF InRing
    <3> QED
      BY <3>1, <3>2, <3>3, <3>4, <3>5 DEF HandedInv, Reread
  <2> QED
    BY <2>4, <2>5, <2>7, <2>8, <2>9 DEF HandedInv
<1>13. CASE ~(ret < 0)
  <2>1. fate' = [fate EXCEPT ![p.id] = "seen"] /\ p.id \in 1 .. MaxPackets
        /\ (last' = Header(p) \/ last' = Nothing)
    <3>1. ret >= 0
      BY <1>13
    <3> QED
      BY <1>8, <1>9, <1>13, <3>1, SettledIs DEF Settle, Told
  <2>2. /\ h' = [h EXCEPT !.filtering_in_kernel = CountedFor(p), !.current = @ + 1, !.left = @ - 1]
        /\ call' = [call EXCEPT !.pkts = @ + ret, !.todo = @ - 1]
    BY <1>8, <1>13
  <2>3. h'.offset = h.offset /\ h'.current = h.current + 1
    BY <1>1, <2>2 DEF HandleType
  <2>4. call'.op # "filter"
    <3>1. \A m, n : [call EXCEPT !.pkts = m, !.todo = n].op # "filter"
      BY <1>3 DEF ReadType
    <3> QED
      BY <2>2, <3>1
  <2>5. InOrder'
    BY <1>2, <2>3 DEF HandedInv, InOrder, InRing, RisingIn, RisingQueue, Ahead
  <2>6. Lengths'
    <3>1. \A x \in PacketType : Waits(x)' => Waits(x)
      BY <1>2 DEF Waits, Among
    <3> QED
      BY <1>2, <2>4, <3>1, LengthsKept
  <2>7. Waiting' = Waiting \ {p.id}
    <3>1. InRing'
      BY <1>2, <1>6 DEF InRing
    <3> QED
      BY <1>2, <1>9, <2>3, <3>1 DEF Waiting
  <2>8. FateKept'
    <3>1. PICK x : x = p.id
      OBVIOUS
    <3> QED
      BY <1>2, <1>9, <2>1, <2>7, <3>1, SeenKeeps
  <2>9. LastTold'
    BY <1>2, <1>9, <2>1, HeaderTold DEF CaptureInv
  <2>10. Reread'
    <3>1. \A i \in 1 .. MaxPackets : \/ i # p.id /\ fate'[i] = fate[i]
                                     \/ i = p.id /\ fate'[i] = "seen"
      BY <1>11, <2>1
    <3>2. ASSUME NEW i, i # p.id, BackAt(i) PROVE BackAt(i)'
      <4>1. PICK b \in 1 .. Len(ring[h.offset].pkts) : \E a \in 1 .. b - 1 :
              /\ ring[h.offset].pkts[a].id = i /\ ring[h.offset].pkts[b].kind.bad # "no"
              /\ a >= h.current
        BY <3>2 DEF BackAt
      <4>2. PICK a \in 1 .. b - 1 :
              /\ ring[h.offset].pkts[a].id = i /\ ring[h.offset].pkts[b].kind.bad # "no"
              /\ a >= h.current
        BY <4>1
      <4>3. a # h.current
        BY <3>2, <4>2 DEF p
      <4>4. a >= h.current + 1
        BY <1>1, <4>2, <4>3
      <4> QED
        BY <1>2, <1>5, <2>3, <4>2, <4>4 DEF BackAt
    <3>3. p.id \in ReadInBlock'
      <4>1. h.current \in 1 .. (h.current + 1) - 1
        BY <1>1, <1>6
      <4> QED
        BY <1>2, <2>3, <4>1 DEF ReadInBlock, p
    <3>4. \A i : i \in ReadInBlock => i \in ReadInBlock'
      <4>1. \A k \in 1 .. h.current - 1 : k \in 1 .. (h.current + 1) - 1
        BY <1>1
      <4> QED
        BY <1>2, <2>3, <4>1 DEF ReadInBlock
    <3>5. \A i : AllLater(i, ring) => AllLater(i, ring)'
      BY <1>2 DEF AllLater
    <3>6. InRing' <=> InRing
      BY <1>2 DEF InRing
    <3>7. PICK x : x = p.id
      OBVIOUS
    <3> QED
      BY <3>1, <3>2, <3>3, <3>4, <3>5, <3>6, <3>7 DEF HandedInv, Reread
  <2> QED
    BY <2>5, <2>6, <2>8, <2>9, <2>10 DEF HandedInv
<1> QED
  BY <1>12, <1>13

(* A block that was read to its end is given back, and only then.          *)
LEMMA EndOfBlockHands ==
  ASSUME CaptureInv, CaptureInv', HandedInv, EndOfBlock
  PROVE  HandedInv'
<1>1. /\ ring \in [Slots -> SlotType] /\ h \in HandleType /\ h.offset \in Slots /\ h.current \in Nat
      /\ h.left \in Int
  BY DEF CaptureInv, CaptureType, HandleType
<1>2. /\ At("block") /\ call.op = "read" /\ how' = how /\ kern' = kern /\ fate' = fate /\ last' = Nothing
  BY DEF EndOfBlock, At
<1>3. call \in ReadType
  BY <1>2 DEF CaptureInv, CaptureType, RestType, SettingType
<1>4. PICK len \in Nat : len = Len(ring[h.offset].pkts)
  BY <1>1 DEF SlotType
<1>5. h.current # 0 /\ how.version = "V3" /\ h.left = (len + 1) - h.current
  BY <1>2, <1>4 DEF CaptureInv, BlockRead
<1>6. InRing
  BY <1>5 DEF InRing
<1>7. call'.op # "filter"
  <2>1. [call EXCEPT !.pc = "frames"].op # "filter"
    BY <1>3 DEF ReadType
  <2> QED
    BY <2>1, EndedOp DEF EndOfBlock
<1>8. CASE h.left <= 0
  <2>1. /\ ring' = Released
        /\ h' = [h EXCEPT !.offset = NextSlot(@), !.current = 0, !.break_loop = FALSE]
    BY <1>8 DEF EndOfBlock
  <2>2. h'.offset = NextSlot(h.offset) /\ h'.current = 0
    BY <1>1, <2>1 DEF HandleType
  <2>3. h.current > Len(ring[h.offset].pkts)
    BY <1>1, <1>4, <1>5, <1>8
  <2>4. InOrder' /\ Lengths' /\ Waiting' = Unread(ring, h.offset, h.current)
    BY <1>1, <1>2, <1>6, <1>7, <2>1, <2>2, <2>3, ReleasedHands
  <2>5. Waiting' = Waiting
    BY <1>6, <2>4 DEF Waiting
  <2>6. FateKept'
    <3>1. FateOk(fate, kern.next) /\ Held(fate, Waiting)
      BY <1>2 DEF HandedInv, FateKept
    <3> QED
      BY <1>2, <2>5, <3>1 DEF FateKept, FateOk, Held
  <2>7. LastTold'
    BY <1>2 DEF LastTold, Nothing
  <2>8. Reread'
    <3>1. ASSUME NEW i PROVE ~BackAt(i)
      BY <1>1, <1>4, <2>3 DEF BackAt
    <3>2. ASSUME NEW i \in ReadInBlock PROVE \E k \in 1 .. Len(ring[h.offset].pkts) : i = ring[h.offset].pkts[k].id
      <4>1. h.left >= 0
        BY <1>5 DEF CaptureInv, BlockRead
      <4>2. \A k \in 1 .. h.current - 1 : k \in 1 .. Len(ring[h.offset].pkts)
        BY <1>1, <1>4, <1>5, <4>1
      <4> QED
        BY <4>2 DEF ReadInBlock
    <3>3. RisingIn(ring, h.offset)
      BY <1>6 DEF HandedInv, InOrder
    <3>4. ASSUME NEW i, i \in ReadInBlock \/ AllLater(i, ring) PROVE AllLater(i, ring)'
      BY <1>1, <2>1, <3>2, <3>3, <3>4, LaterReleased
    <3>5. InRing' <=> InRing
      BY <1>2 DEF InRing
    <3> QED
      BY <1>2, <3>1, <3>4, <3>5 DEF HandedInv, Reread
  <2> QED
    BY <2>4, <2>6, <2>7, <2>8 DEF HandedInv
<1>9. CASE ~(h.left <= 0)
  <2>1. ring' = ring /\ h' = [h EXCEPT !.offset = @, !.current = @, !.break_loop = FALSE]
    BY <1>9 DEF EndOfBlock
  <2>2. h'.offset = h.offset /\ h'.current = h.current
    BY <1>1, <2>1 DEF HandleType
  <2>3. Stays
    BY <1>2, <2>1, <2>2 DEF Stays
  <2>4. Fits(kern'.filter)
    BY <1>2 DEF HandedInv, Lengths
  <2> QED
    BY <1>7, <2>3, <2>4, StaysKeeps
<1> QED
  BY <1>8, <1>9
--------------------------------------------------------------------------------
(* A handle that was just opened has nothing waiting.                      *)
LEMMA InitialHanded ==
  ASSUME CaptureInit
  PROVE  HandedInv
<1>1. CaptureInv
  BY InitialCapture
<1>2. /\ ring = [s \in Slots |-> Slot(FALSE, <<>>)] /\ call = Idle /\ last = Nothing
      /\ kern = [filter |-> NoFilter, head |-> 0, queue |-> <<>>, next |-> 1]
      /\ fate = [i \in 1 .. MaxPackets |-> "none"]
  BY DEF CaptureInit, Slots
<1>3. ring \in [Slots -> SlotType]
  BY <1>1 DEF CaptureInv, CaptureType
<1>4. \A s \in Slots : ring[s].pkts = <<>> /\ Len(ring[s].pkts) = 0
  BY <1>2 DEF Slot
<1>5. kern.queue = <<>> /\ kern.next = 1 /\ kern.filter = NoFilter /\ Len(kern.queue) = 0
  BY <1>2
<1>6. InOrder
  BY <1>4, <1>5 DEF InOrder, RisingIn, RisingQueue
<1>7. Lengths
  <2>1. \A p \in PacketType : ~Waits(p)
    BY <1>4, <1>5 DEF Waits, Among
  <2>2. call.op # "filter"
    BY <1>2 DEF Idle
  <2> QED
    BY <1>5, <2>1, <2>2, FilterFits DEF Lengths
<1>8. Waiting = {}
  <2>1. ASSUME NEW x PROVE x \notin Unread(ring, h.offset, 0)
    BY <1>3, <1>4, UnreadIs DEF FirstAt
  <2>2. h.current = 0
    BY DEF CaptureInit
  <2>3. Unread(ring, h.offset, 0) = {}
    BY <2>1
  <2> QED
    BY <1>5, <2>2, <2>3 DEF Waiting
<1>9. FateKept
  <2>1. MaxPackets \in Nat
    BY RingAssumption
  <2>2. fate \in [1 .. MaxPackets -> Fates]
        /\ \A i \in 1 .. MaxPackets : fate[i] = "none"
    BY <1>2
  <2> QED
    BY <1>5, <1>8, <2>1, <2>2 DEF FateKept, FateOk, Held
<1>10. LastTold
  BY <1>2 DEF LastTold, Nothing
<1>11. Reread
  <2>1. \A i \in 1 .. MaxPackets : fate[i] = "none"
    BY <1>2
  <2> QED
    BY <2>1 DEF Reread
<1> QED
  BY <1>6, <1>7, <1>9, <1>10, <1>11 DEF HandedInv

(* Every step hands packets over as they arrived.                          *)
LEMMA StepHands ==
  ASSUME CaptureInv, RecvPlace, HandedInv, CaptureNext
  PROVE  HandedInv'
<1>1. CaptureInv'
  BY StepKeeps
<1>2. CASE Arrive \/ Retire
  BY <1>1, <1>2, ArriveHands, RetireHands
<1>3. CASE Dispatch \/ Signal \/ pcap_breakloop \/ pcap_setdirection \/ pcap_setnonblock
  BY <1>3, QuietStays
<1>4. CASE Reader
  BY <1>1, <1>4, QuietStays, FrameHands, NextBlockHands, InBlockHands, EndOfBlockHands, SocketHands DEF Reader
<1>5. CASE SetFilter
  BY <1>1, <1>5, SettingStays, DrainHands DEF SetFilter
<1> QED
  BY <1>2, <1>3, <1>4, <1>5 DEF CaptureNext

(* So does a reader that stutters.                                         *)
LEMMA StutterHands ==
  ASSUME CaptureInv, HandedInv, UNCHANGED capture
  PROVE  HandedInv'
<1>1. /\ how' = how /\ ring' = ring /\ kern' = kern /\ h' = h /\ call' = call /\ fate' = fate
      /\ last' = last
  BY DEF capture
<1>2. InRing' <=> InRing
  BY <1>1 DEF InRing
<1>3. InOrder'
  BY <1>1, <1>2 DEF HandedInv, InOrder, RisingIn, RisingQueue, Ahead
<1>4. Lengths'
  <2>1. \A p \in PacketType : Waits(p)' => Waits(p)
    BY <1>1 DEF Waits, Among
  <2> QED
    BY <1>1, <2>1, LengthsKept
<1>5. Waiting' = Waiting
  BY <1>1, <1>2 DEF Waiting, Unread
<1>6. FateKept'
  <2>1. FateOk(fate, kern.next) /\ Held(fate, Waiting)
    BY DEF HandedInv, FateKept
  <2> QED
    BY <1>1, <1>5, <2>1 DEF FateKept, FateOk, Held
<1>7. LastTold'
  BY <1>1 DEF HandedInv, LastTold, OnTheWire, CookedHeader
<1>8. Reread'
  <2>1. h.offset \in Slots
    BY DEF CaptureInv, CaptureType, HandleType
  <2> QED
    BY <1>1, <2>1, RereadKept
<1> QED
  BY <1>3, <1>4, <1>6, <1>7, <1>8 DEF HandedInv

(* The strengthening of HandedAsArrived holds in every state of the        *)
(* reader.                                                                 *)
LEMMA HandedInvariant == CaptureSpec => []HandedInv
<1>1. CaptureInv /\ RecvPlace /\ HandedInv /\ [CaptureNext]_capture => HandedInv'
  BY StepHands, StutterHands
<1> QED
  BY <1>1, InitialHanded, CaptureInvariant, PTL DEF CaptureSpec

(* pcap_read_linux_mmap_v1/_v2/_v3, pcap_read_packet: whatever arrives,    *)
(* breaks in, fails or is set between the reads, each packet that the      *)
(* kernel stored waits until it is looked at, in the order of arrival, and *)
(* reaches the callback with its length on the wire and cut to the         *)
(* snapshot length and no shorter.  It is looked at once, but for those    *)
(* before a bad frame in a V3 block, to whose start a read that fails goes *)
(* back; and one for which a socket has no time stamp is lost.  For rings, *)
(* blocks and queues of any size and any number of packets.                *)
THEOREM AlwaysHandedAsArrived == CaptureSpec => []HandedAsArrived
<1>1. ASSUME CaptureInv, HandedInv PROVE HandedAsArrived
  <2>1. FateOk(fate, kern.next) /\ Held(fate, Waiting) /\ LastTold
    BY <1>1 DEF HandedInv, FateKept
  <2>2. \A i \in 1 .. MaxPackets : fate[i] # "again"
    BY <2>1 DEF FateOk
  <2>3. \A i \in 1 .. MaxPackets : \A j \in 1 .. i - 1 : fate[i] \in Done => fate[j] \notin Pending
    <3>1. \A i \in 1 .. MaxPackets : \A j \in 1 .. i - 1 : j \in 1 .. MaxPackets /\ j < i
      BY RingAssumption
    <3> QED
      BY <2>1, <3>1 DEF FateOk
  <2>4. \A i \in 1 .. MaxPackets : fate[i] = "back" => BeforeBad(i)
    <3>1. ring \in [Slots -> SlotType] /\ h.offset \in Slots
      BY <1>1 DEF CaptureInv, CaptureType, HandleType
    <3>2. DOMAIN ring[h.offset].pkts = 1 .. Len(ring[h.offset].pkts)
      BY <3>1 DEF SlotType
    <3>3. \A i : BackAt(i) => BeforeBad(i)
      BY <3>2 DEF BackAt, BeforeBad
    <3> QED
      BY <1>1, <3>3 DEF HandedInv, Reread
  <2>5. \A i \in 1 .. MaxPackets : fate[i] = "unstamped" => ~InRing
    BY <1>1 DEF HandedInv, Reread
  <2> QED
    BY <2>1, <2>2, <2>3, <2>4, <2>5 DEF HandedAsArrived, Held, LastTold
<1> QED
  BY <1>1, CaptureInvariant, HandedInvariant, PTL
HIDE DEF Fates, Pending, Done
================================================================================
