---------------------------- MODULE CaptureHandle ----------------------------
(***************************************************************************)
(* The life of a capture handle on Linux (libpcap, pcap.c, pcap-linux.c):  *)
(* pcap_create, pcap_activate with every call that can fail on its way and *)
(* its ways back (the old kind of socket, cooked mode, no ring), monitor   *)
(* mode and promiscuous mode of the device, pcap_close, and the list of    *)
(* handles to close when the program ends.  Several handles share a        *)
(* device; the steps of their activations interleave.                      *)
(***************************************************************************)
EXTENDS Integers, Sequences, FiniteSets, SequencesExt

CONSTANTS
  Handles,
  Options,        \* what can be asked for: [any, promisc, rfmon, buffer_size]
  Systems,        \* kernels and devices: [version of the ring ("none" without
                  \* one, "old" without packet sockets), limited (no
                  \* offloading), arptypes that the device can show, isdn,
                  \* privs, the private calls of its driver: a sequence of [name, args]]
  Mtu,            \* of the device
  Faults          \* calls that can fail, over the whole behaviour

None == "none"

ASSUME HandleAssumption ==
  /\ Mtu \in Nat \ {0} /\ Faults \in Nat
  /\ Options \subseteq [any : BOOLEAN, promisc : BOOLEAN, rfmon : BOOLEAN, buffer_size : Nat]
  \* Neither a handle nor a socket is nothing.
  /\ \A h \in Handles : h # None /\ \A kind \in {"packet", "cooked", "old"} : <<h, kind>> # None

VARIABLE
  w               \* sys, the system; hs, the handles; dev, the device; open, the
                  \* open sockets; rings, the sockets with a ring; maps, the handles with a
                  \* mapped ring; toclose, pcaps_to_close; looped, the handle that this
                  \* list leads back to; faults left; stage of the program ("running",
                  \* "exiting", "ended" or "crashed")

Pagesize == 4096
Snaplen == 65535          \* unless the application sets it

(***************************************************************************)
(* Memory of a handle: what is allocated, and the pointers that are not    *)
(* NULL.  What is freed through a pointer to freed memory is remembered,   *)
(* and what is lost, and where, because its pointer was given new memory.  *)
(***************************************************************************)
Alloc(s, h, x) ==
  LET hd == s.hs[h]
      lost == IF x \in hd.mem THEN {<<x, hd.pc>>} ELSE {}
  IN [s EXCEPT !.hs[h] = [hd EXCEPT !.mem = @ \cup {x}, !.ptr = @ \cup {x}, !.leaked = @ \cup lost]]
\* free() without setting the pointer to NULL.
FreeOnly(s, h, x) == [s EXCEPT !.hs[h].mem = @ \ {x}, !.hs[h].twice = @ \/ x \notin s.hs[h].mem]
Free(s, h, x) ==
  IF x \notin s.hs[h].ptr THEN s ELSE [FreeOnly(s, h, x) EXCEPT !.hs[h].ptr = @ \ {x}]
CloseSocket(s, sock) == [s EXCEPT !.open = @ \ {sock}, !.rings = @ \ {sock}]
Go(s, h, pc) == [s EXCEPT !.hs[h].pc = pc]

(***************************************************************************)
(* Closing.                                                                *)
(***************************************************************************)
\* The list is linked through the handles: for one that is on it already it
\* leads back to that one, and what was behind it is lost.
pcap_add_to_pcaps_to_close(s, h) ==
  IF Contains(s.toclose, h)
  THEN [s EXCEPT !.toclose = <<h>> \o SubSeq(@, 1, SelectInSeq(@, LAMBDA x : x = h) - 1), !.looped = h]
  ELSE [s EXCEPT !.toclose = <<h>> \o @]
\* From behind itself such a handle is still reached when it was taken out.
pcap_remove_from_pcaps_to_close(s, h) ==
  IF s.looped # h /\ Contains(s.toclose, h) THEN [s EXCEPT !.toclose = RemoveFirst(@, h)] ELSE s

pcap_cleanup_live_common(s, h) ==
  LET t == Free(Free(Free(s, h, "buffer"), h, "dlt_list"), h, "fcode")
      fd == t.hs[h].fd
  IN IF fd = None THEN t ELSE [CloseSocket(t, fd) EXCEPT !.hs[h].fd = None]

\* What has to be undone is undone through the socket of the handle: without
\* one the device stays as it is.  What must be done is not forgotten after it
\* was done: a handle that is activated again after a failure does it again.  The
\* name of the monitor interface is gone then: without one, del_mon_if copies
\* from NULL and the program ends there.
RestoreDevice(s, h) ==
  LET hd == s.hs[h]
      reached == hd.fd # None
      crash == "monif" \in hd.must /\ "mondevice" \notin hd.ptr
      old == s.dev
  IN [s EXCEPT
        !.stage = IF crash THEN "crashed" ELSE @,
        !.dev =
          [promisc |-> IF reached /\ "promisc" \in hd.must THEN FALSE ELSE old.promisc,
           mode |-> IF reached /\ "rfmon" \in hd.must /\ ~crash THEN hd.oldmode ELSE old.mode,
           up |-> old.up,
           mons |-> IF reached /\ "monif" \in hd.must /\ ~crash THEN old.mons \ {hd.mon} ELSE old.mons]]

pcap_cleanup_linux(s, h) ==
  LET t == IF s.hs[h].must = {} THEN s
           ELSE pcap_remove_from_pcaps_to_close(RestoreDevice(s, h), h)
  IN pcap_cleanup_live_common(Free(Free(t, h, "mondevice"), h, "device"), h)

\* Mutant: the ring stays mapped.
destroy_ring_mapped(s, h) == [s EXCEPT !.rings = @ \ {s.hs[h].fd}]
destroy_ring(s, h) == [s EXCEPT !.rings = @ \ {s.hs[h].fd}, !.maps = @ \ {h}]

pcap_cleanup_linux_mmap(s, h) ==
  pcap_cleanup_linux(Free(destroy_ring(s, h), h, "oneshot"), h)

pcap_close(s, h) ==
  LET t == Free(s, h, "source")
      u == CASE s.hs[h].cleanup = "live" -> pcap_cleanup_live_common(t, h)
             [] s.hs[h].cleanup = "linux" -> pcap_cleanup_linux(t, h)
             [] s.hs[h].cleanup = "mmap" -> pcap_cleanup_linux_mmap(t, h)
  IN [u EXCEPT !.hs[h] = [@ EXCEPT !.st = "closed", !.pc = None, !.ptr = {}]]

(***************************************************************************)
(* The ways an activation ends.                                            *)
(***************************************************************************)
\* pcap_activate after activate_op returned an error: initialize_ops.
NotActivated(s, h) ==
  [s EXCEPT !.hs[h] = [@ EXCEPT !.st = "failed", !.pc = None, !.cleanup = "live", !.sock = None, !.broke = TRUE]]
\* pcap_activate_linux, label fail.
Fail(s, h) == NotActivated(pcap_cleanup_linux(s, h), h)
\* activate_new closes its socket before it returns an error.
CloseAndFail(s, h) == Fail(CloseSocket(s, s.hs[h].sock), h)
Activated(s, h) == [s EXCEPT !.hs[h] = [@ EXCEPT !.st = "active", !.pc = None, !.sock = None]]

NewHandle ==
  [st |-> "none", pc |-> None, opt |-> [any |-> FALSE], fd |-> None, sock |-> None, must |-> {},
   mon |-> 0, oldmode |-> "managed", mem |-> {}, ptr |-> {}, leaked |-> {}, twice |-> FALSE, cleanup |-> "live",
   cooked |-> FALSE, version |-> "V1", frames |-> 0, frame_size |-> 0, broke |-> FALSE, montype |-> None, wasup |-> TRUE]

HandleInit ==
  \E sys \in Systems :
  w = [sys |-> sys, hs |-> [h \in Handles |-> NewHandle],
       dev |-> [promisc |-> FALSE, mode |-> "managed", up |-> TRUE, mons |-> {}],
       open |-> {}, rings |-> {}, maps |-> {}, toclose |-> <<>>, looped |-> None, faults |-> Faults,
       stage |-> "running"]

In(h, pc) == w.hs[h].st = "activating" /\ w.hs[h].pc = pc
Opt(h) == w.hs[h].opt
\* A call of the system fails.
Failing(s) == [s EXCEPT !.faults = @ - 1]
CanFail == w.faults > 0

(***************************************************************************)
(* pcap_create, the settings of a handle that is not active, pcap_activate *)
(***************************************************************************)
pcap_create(h) ==
  /\ w.hs[h].st = "none"
  /\ \E opt \in Options : w' = Alloc([w EXCEPT !.hs[h].st = "created", !.hs[h].opt = opt], h, "source")

\* pcap_activate_linux to its call of activate_new; the any device is never promiscuous.
pcap_activate(h) ==
  /\ w.hs[h].st \in {"created", "failed"}
  /\ LET opt == [Opt(h) EXCEPT !.promisc = @ /\ ~Opt(h).any]
         s == [w EXCEPT !.hs[h] = [@ EXCEPT !.st = "activating", !.cleanup = "linux", !.opt = opt]]
     IN \/ w' = Go(Alloc(s, h, "device"), h, "socket")
        \/ CanFail /\ w' = NotActivated(Failing(s), h)

(***************************************************************************)
(* activate_new.                                                           *)
(***************************************************************************)
OpenSocket(s, h, kind) == [s EXCEPT !.open = @ \cup {<<h, kind>>}, !.hs[h].sock = <<h, kind>>]

\* The packet socket; a kernel without it has the old kind.  Monitor mode is
\* refused on the any device, and the socket stays open.
Socket(h) ==
  /\ In(h, "socket")
  /\ LET s == OpenSocket(w, h, IF Opt(h).any THEN "cooked" ELSE "packet")
         new == w.sys.version # "old"
     IN \/ /\ new /\ Opt(h).any
           /\ w' = IF Opt(h).rfmon THEN Fail(s, h)
                   ELSE Go([s EXCEPT !.hs[h].cooked = TRUE], h, "options")
        \/ new /\ ~Opt(h).any /\ w' = Go(s, h, IF Opt(h).rfmon THEN "mac80211" ELSE "arptype")
        \/ ~new /\ w' = Go(w, h, "old")
        \/ CanFail /\ w' = Fail(Failing(w), h)

(***************************************************************************)
(* Monitor mode: an interface of its own (mac80211), or the device's mode  *)
(* (wireless extensions).                                                  *)
(***************************************************************************)
\* enter_rfmon_mode_mac80211: the first name monN that is free.
AddMonitorInterface(h) ==
  /\ In(h, "mac80211")
  /\ \/ w' = Go(w, h, "wext")                            \* no such device in sysfs
     \/ LET n == CHOOSE i \in 0 .. Cardinality(w.dev.mons) :
                   i \notin w.dev.mons /\ \A j \in 0 .. i - 1 : j \in w.dev.mons
        IN w' = Go(Alloc([w EXCEPT !.dev.mons = @ \cup {n}, !.hs[h].mon = n], h, "mondevice"), h, "monup")
     \/ CanFail /\ w' = CloseAndFail(Failing(w), h)

\* The interface is brought up.  When that fails it is deleted; when the exit
\* handler cannot be set it is left.
BringUpMonitorInterface(h) ==
  /\ In(h, "monup")
  /\ \/ w' = Go(pcap_add_to_pcaps_to_close([w EXCEPT !.hs[h].must = @ \cup {"monif"}], h), h, "arptype")
     \/ CanFail /\ w' = CloseAndFail([Failing(w) EXCEPT !.dev.mons = @ \ {w.hs[h].mon}], h)
     \/ CanFail /\ w' = CloseAndFail(Failing(w), h)

\* The kind of driver, told by the names of its private calls: the first known
\* name decides, except that a call named monitor lets the search go on.
PrivateNames ==
  [monitor_type |-> "HOSTAP", set_prismhdr |-> "PRISM54", forceprismheader |-> "RT2570",
   forceprism |-> "RT73", prismhdr |-> "RTL8XXX", rfmontx |-> "RT2500"]
MonitorType(privs) ==
  LET others == {i \in DOMAIN privs : privs[i].name \in DOMAIN PrivateNames}
      stop == IF others = {} THEN Len(privs) + 1 ELSE Min(others)
      plain == {i \in 1 .. stop - 1 : privs[i].name = "monitor" /\ privs[i].args \in {1, 2}}
  IN IF others # {} /\ privs[stop].args # 0 THEN PrivateNames[privs[stop].name]
     ELSE IF plain = {} THEN "WEXT"
     ELSE IF privs[Max(plain)].args = 1 THEN "PRISM" ELSE "ACX100"

MustLeaveMonitorMode(s, h) ==
  Go(pcap_add_to_pcaps_to_close([s EXCEPT !.hs[h].must = @ \cup {"rfmon"}], h), h, "arptype")

\* enter_rfmon_mode_wext to the flags; a Prism driver changes the mode by its private call.
EnterMonitorMode(h) ==
  /\ In(h, "wext")
  /\ \/ w' = CloseAndFail(w, h)                           \* not a wireless device
     \/ CanFail /\ w' = CloseAndFail(Failing(w), h)
     \/ LET montype == MonitorType(w.sys.privs)
            s == [w EXCEPT !.hs[h].montype = montype, !.hs[h].oldmode = w.dev.mode]
        IN IF w.dev.mode = "monitor" THEN w' = Go(w, h, "arptype")
           ELSE \/ w' = Go(s, h, "takedown")
                \/ /\ montype = "PRISM"
                   /\ w' = MustLeaveMonitorMode([s EXCEPT !.dev.mode = "monitor"], h)
TakeDown(h) ==
  /\ In(h, "takedown")
  /\ \/ w' = Go([w EXCEPT !.hs[h].wasup = w.dev.up, !.dev.up = FALSE], h, "setmode")
     \/ CanFail /\ w' = CloseAndFail(Failing(w), h)
SetMode(h) ==
  /\ In(h, "setmode")
  /\ \/ w' = Go([w EXCEPT !.dev.mode = "monitor"], h, "bringup")
     \/ CanFail /\ w' = CloseAndFail([Failing(w) EXCEPT !.dev.up = w.hs[h].wasup], h)
     \/ CanFail /\ w' = CloseAndFail(Failing(w), h)      \* nor the old flags set again
\* The header of the packets is asked for, without a look at the answer but for
\* the channel of an ACX100; then the device is brought up again.
BringUp(h) ==
  /\ In(h, "bringup")
  /\ \/ w' = MustLeaveMonitorMode([w EXCEPT !.dev.up = @ \/ w.hs[h].wasup], h)
     \/ /\ CanFail /\ (w.hs[h].wasup \/ w.hs[h].montype = "ACX100")
        /\ w' = CloseAndFail(Failing(w), h)

(***************************************************************************)
(* The link type that the hardware type stands for.                        *)
(***************************************************************************)
EthernetTypes == {"ETHER", "METRICOM", "LOOPBACK"}
LanTypes == [EETHER |-> "EN3MB", AX25 |-> "AX25_KISS", PRONET |-> "PRONET", CHAOS |-> "CHAOS",
             CAN |-> "CAN_SOCKETCAN", IEEE802_TR |-> "IEEE802", IEEE802 |-> "IEEE802",
             ARCNET |-> "ARCNET_LINUX", FDDI |-> "FDDI", IEEE80211 |-> "IEEE802_11",
             IEEE80211_PRISM |-> "PRISM_HEADER", IEEE80211_RADIOTAP |-> "IEEE802_11_RADIO"]
WanTypes == [CISCO |-> "C_HDLC", TUNNEL |-> "RAW", SIT |-> "RAW", CSLIP |-> "RAW", SLIP6 |-> "RAW",
             CSLIP6 |-> "RAW", ADAPT |-> "RAW", SLIP |-> "RAW", RAWHDLC |-> "RAW", DLCI |-> "RAW",
             FRAD |-> "FRELAY", LOCALTLK |-> "LTALK", IP_OVER_FC |-> "IP_OVER_FC"]
FibreTypes == {"FCPP", "FCAL", "FCPL", "FCFABRIC"}
LastTypes == [IRDA |-> "LINUX_IRDA", LAPD |-> "LINUX_LAPD", NONE |-> "RAW",
              IEEE802154 |-> "IEEE802_15_4_NOFCS"]
map_arphrd_to_dlt(arptype, cooked_ok) ==
  CASE arptype \in EthernetTypes -> "EN10MB"
    [] arptype \in DOMAIN LanTypes -> LanTypes[arptype]
    [] arptype = "ATM" -> IF cooked_ok THEN "LINUX_SLL" ELSE None
    [] arptype = "PPP" -> IF cooked_ok THEN "LINUX_SLL" ELSE "RAW"
    [] arptype \in DOMAIN WanTypes -> WanTypes[arptype]
    [] arptype \in FibreTypes -> "FC_2"
    [] arptype \in DOMAIN LastTypes -> LastTypes[arptype]
    [] OTHER -> None
HasDltList(arptype) == arptype \in {"ETHER"} \cup FibreTypes
NeedsCooked(linktype, isdn) ==
  linktype \in {None, "LINUX_SLL", "LINUX_IRDA", "LINUX_LAPD"} \/ (linktype = "EN10MB" /\ isdn)

\* iface_get_arptype, and the second socket, for cooked mode, when it is needed.
Arptype(h) ==
  /\ In(h, "arptype")
  /\ \/ CanFail /\ w' = CloseAndFail(Failing(w), h)
     \/ \E arptype \in w.sys.arptypes :
        LET s == IF HasDltList(arptype) THEN Alloc(w, h, "dlt_list") ELSE w
            closed == CloseSocket(s, s.hs[h].sock)
        IN IF ~NeedsCooked(map_arphrd_to_dlt(arptype, TRUE), w.sys.isdn) THEN w' = Go(s, h, "bind")
           ELSE \/ w' = Go(Free([OpenSocket(closed, h, "cooked") EXCEPT !.hs[h].cooked = TRUE], h, "dlt_list"),
                            h, "bind")
                \/ CanFail /\ w' = Fail(Failing(closed), h)

\* iface_get_id, iface_bind; an error left on the socket means the old kind of socket.
Bind(h) ==
  /\ In(h, "bind")
  /\ \/ w' = Go(w, h, "options")
     \/ CanFail /\ w' = CloseAndFail(Failing(w), h)
     \/ CanFail /\ w' = Go(CloseSocket(Failing(w), w.hs[h].sock), h, "old")

\* Promiscuous membership and auxiliary data, before the socket is the
\* handle's; time stamps, after it.
SocketOptions(h) ==
  /\ In(h, "options")
  /\ LET owned == [w EXCEPT !.hs[h].fd = w.hs[h].sock, !.hs[h].sock = None]
     IN \/ w' = Go(owned, h, "mmap")
        \/ CanFail /\ w' = CloseAndFail(Failing(w), h)
        \/ CanFail /\ w' = Fail(Failing(owned), h)

(***************************************************************************)
(* activate_mmap.                                                          *)
(***************************************************************************)
TPACKET_ALIGN(x) == ((x + 15) \div 16) * 16
MAX_LINKHEADER_SIZE == 256
TPACKET_HDRLEN == 32
SOCKADDR_LL == 20

\* The frames of a V1 or V2 ring hold the headers and a packet: the snapshot
\* length, or what an Ethernet without offloading can carry.  A V3 ring has
\* room for the largest packet, whatever the snapshot length.
FrameSize(version, cooked, limited) ==
  LET maclen == IF cooked THEN 0 ELSE MAX_LINKHEADER_SIZE
      reserve == IF version = "V1" THEN 0 ELSE 4
      netoff == TPACKET_ALIGN(TPACKET_ALIGN(TPACKET_HDRLEN) + SOCKADDR_LL + Max({16, maclen})) + reserve
      packet == IF limited THEN Min({Snaplen, Mtu + 18}) ELSE Snaplen
  IN IF version = "V3" THEN 131072 ELSE TPACKET_ALIGN(netoff - maclen + packet)

\* Blocks are the smallest power of two of pages that holds a frame.
BlockSize(frame_size) == Min({b \in {Pagesize * 2^k : k \in 0 .. 10} : b >= frame_size})
FramesPerBlock(frame_size) == BlockSize(frame_size) \div frame_size
WholeBlocks(frames, frame_size) == (frames \div FramesPerBlock(frame_size)) * FramesPerBlock(frame_size)
Fewer(frames) == IF frames < 20 THEN frames - 1 ELSE frames - (frames \div 20)

SizeRing(s, h, version, buffer, size) ==
  LET opt == [s.hs[h].opt EXCEPT !.buffer_size = buffer]
  IN [s EXCEPT !.hs[h] = [@ EXCEPT !.opt = opt, !.version = version, !.frame_size = size, !.frames = buffer \div size]]

\* prepare_tpacket_socket, init_tpacket: the newest version that the kernel has;
\* create_ring to the size of the ring.
PrepareSocket(h) ==
  /\ In(h, "mmap")
  /\ \/ CanFail /\ w' = Fail(Failing(w), h)               \* no memory for oneshot_buffer
     \/ LET s == Alloc(w, h, "oneshot")
        IN \/ CanFail /\ w' = Fail(FreeOnly(Failing(s), h, "oneshot"), h)
           \/ LET version == IF w.sys.version = "none" THEN "V1" ELSE w.sys.version
                  buffer == IF Opt(h).buffer_size = 0 THEN 2 * 1024 * 1024 ELSE Opt(h).buffer_size
                  size == FrameSize(version, s.hs[h].cooked, w.sys.limited /\ ~s.hs[h].cooked)
              IN w' = Go(SizeRing(s, h, version, buffer, size), h, "ring")

\* create_ring: fewer and fewer frames while memory is short; without the
\* feature in the kernel packets are read from the socket.
CreateRing(h) ==
  /\ In(h, "ring")
  /\ LET hd == w.hs[h]
         frames == WholeBlocks(hd.frames, hd.frame_size)
         refused == FreeOnly(w, h, "oneshot")
     IN \/ /\ CanFail /\ frames > FramesPerBlock(hd.frame_size)
           /\ w' = [Failing(w) EXCEPT !.hs[h].frames = Fewer(frames)]
        \/ w.sys.version = "none" /\ w' = Go(refused, h, "plain")
        \/ CanFail /\ w' = Fail(Failing(refused), h)
        \/ w.sys.version # "none" /\ w' = Go([w EXCEPT !.hs[h].frames = frames, !.rings = @ \cup {hd.fd}], h, "map")

\* The ring is mapped and the table of its frames filled.  A ring of no blocks
\* cannot be mapped.
MapRing(h) ==
  /\ In(h, "map")
  /\ LET hd == w.hs[h]
         refused(s) == Fail(FreeOnly(destroy_ring(s, h), h, "oneshot"), h)
     IN \/ /\ hd.frames > 0
           /\ w' = Activated(Alloc([w EXCEPT !.maps = @ \cup {h}, !.hs[h].cleanup = "mmap"], h, "buffer"), h)
        \/ hd.frames = 0 /\ w' = refused(w)
        \/ CanFail /\ w' = refused(Failing(w))
        \/ CanFail /\ w' = refused([Failing(w) EXCEPT !.maps = @ \cup {h}])

\* pcap_activate_linux without a ring: the buffer of the socket and of the handle.
PlainSocket(h) ==
  /\ In(h, "plain")
  /\ \/ w' = Activated(Alloc(w, h, "buffer"), h)
     \/ CanFail /\ w' = Fail(Failing(w), h)

(***************************************************************************)
(* activate_old: the socket is the handle's from the start, and the device *)
(* is made promiscuous by its flags.                                       *)
(***************************************************************************)
activate_old(h) ==
  /\ In(h, "old")
  /\ LET s == [OpenSocket(w, h, "old") EXCEPT !.hs[h] = [@ EXCEPT !.fd = <<h, "old">>, !.sock = None, !.cooked = FALSE]]
     IN \/ CanFail /\ w' = Fail(Failing(w), h)
        \/ Opt(h).any /\ w' = Fail(s, h)
        \/ ~Opt(h).any /\ CanFail /\ w' = Fail(Failing(s), h)
        \/ /\ ~Opt(h).any
           /\ \E arptype \in w.sys.arptypes :
              LET t == IF HasDltList(arptype) THEN Alloc(s, h, "dlt_list") ELSE s
              IN w' = IF map_arphrd_to_dlt(arptype, FALSE) = None THEN Fail(t, h)
                      ELSE Go(t, h, IF Opt(h).promisc THEN "flags" ELSE "mtu")
OldPromiscuous(h) ==
  /\ In(h, "flags")
  /\ \/ /\ w.dev.promisc
        /\ w' = Go(w, h, "mtu")
     \/ /\ ~w.dev.promisc
        /\ w' = Go(pcap_add_to_pcaps_to_close([w EXCEPT !.dev.promisc = TRUE, !.hs[h].must = @ \cup {"promisc"}], h),
                   h, "mtu")
     \/ CanFail /\ w' = Fail(Failing(w), h)
OldBuffer(h) ==
  /\ In(h, "mtu")
  /\ \/ w' = Go(w, h, "plain")
     \/ CanFail /\ w' = Fail(Failing(w), h)

(***************************************************************************)
(* The end of a handle, and of the program.                                *)
(***************************************************************************)
Close(h) ==
  /\ w.hs[h].st \in {"created", "failed", "active"}
  /\ w' = pcap_close(w, h)

\* A filter is set on a handle that is active; pcap_freecode frees it.
Install(h) ==
  /\ w.hs[h].st = "active" /\ "fcode" \notin w.hs[h].mem
  /\ w' = Alloc(w, h, "fcode")

\* exit: pcap_close_all closes what is on the list, the system closes the rest.
Exit ==
  /\ w.stage = "running" /\ w.looped = None /\ \A h \in Handles : w.hs[h].st # "activating"
  /\ w' = [w EXCEPT !.stage = "exiting"]
pcap_close_all ==
  /\ w.stage = "exiting"
  /\ w' = IF w.toclose # <<>> THEN pcap_close(w, Head(w.toclose))
          ELSE [w EXCEPT !.stage = "ended", !.open = {}, !.rings = {}, !.maps = {}]

Activation(h) ==
  \/ Socket(h) \/ AddMonitorInterface(h) \/ BringUpMonitorInterface(h) \/ EnterMonitorMode(h)
  \/ TakeDown(h) \/ SetMode(h) \/ BringUp(h) \/ Arptype(h) \/ Bind(h) \/ SocketOptions(h)
  \/ PrepareSocket(h) \/ CreateRing(h) \/ MapRing(h) \/ PlainSocket(h)
  \/ activate_old(h) \/ OldPromiscuous(h) \/ OldBuffer(h)

\* Once the list leads back to a handle, only that handle is followed, to its end.
HandleNext ==
  \/ /\ w.stage = "running"
     /\ \E h \in Handles : /\ w.looped \in {None, h}
                           /\ pcap_create(h) \/ pcap_activate(h) \/ Activation(h) \/ Close(h) \/ Install(h)
  \/ Exit \/ pcap_close_all

(***************************************************************************)
(* Properties.                                                             *)
(***************************************************************************)
Owned(h) == {sock \in w.open : sock[1] = h}
Spoiled == \E h \in Handles : w.hs[h].broke /\ w.hs[h].opt.rfmon

\* pcap_activate_linux, pcap_cleanup_linux, pcap_cleanup_linux_mmap, pcap_close:
\* an active handle has what its operations use: the socket, a mapped ring with
\* frames if it reads and closes by the ring; a closed one, and a failed one,
\* leaves nothing behind and is on no list (but for the socket that is left
\* open when monitor mode is asked for on the any device, and a handle that was
\* put on the list twice); nothing is freed twice, and nothing is lost while it
\* is allocated (but for the list of link types, when activate_new gives up
\* after a bind error and activate_old makes it again); when all are closed, or
\* the program ended, the device is as it was (unless entering monitor mode or
\* what follows it failed).  The program does not crash (but where a handle in
\* monitor mode was activated again after a failure).
HandleSound ==
  /\ w.stage = "crashed" => Spoiled
  /\ w.stage # "crashed" => \A h \in Handles :
     LET hd == w.hs[h]
     IN /\ ~hd.twice
        /\ hd.leaked \subseteq {<<"dlt_list", "old">>}
        /\ hd.st = "active" /\ w.stage # "ended" =>
             /\ hd.fd \in w.open /\ Owned(h) = {hd.fd}
             /\ {"source", "device", "buffer"} \subseteq hd.mem
             /\ hd.broke \/ w.looped # None \/ (hd.must # {} <=> Contains(w.toclose, h))
             /\ hd.cleanup = "mmap" <=> h \in w.maps
             /\ hd.cleanup = "mmap" => hd.fd \in w.rings /\ hd.frames > 0 /\ "oneshot" \in hd.mem
        /\ hd.st \in {"failed", "closed"} =>
             /\ hd.mem \subseteq (IF hd.st = "failed" THEN {"source"} ELSE {})
             /\ Owned(h) = {} \/ (hd.opt.any /\ hd.opt.rfmon)
             /\ h \notin w.maps /\ (~Contains(w.toclose, h) \/ w.looped = h)
  /\ ~Spoiled /\ (w.stage = "ended" \/ \A h \in Handles : w.hs[h].st \in {"none", "closed"}) =>
       w.dev = [promisc |-> FALSE, mode |-> "managed", up |-> TRUE, mons |-> {}]

\* pcap_cleanup_linux: a handle that was closed, or could not be activated, was
\* taken out of the list of handles to close at the end.
TakenOut == \A h \in Handles : w.hs[h].st \in {"failed", "closed"} => ~Contains(w.toclose, h)
==============================================================================
