---------------------------- MODULE BpfLinkTests ----------------------------
(***************************************************************************)
(* The tests of gencode.c that look at the link layer: the protocol in a   *)
(* frame, the addresses of its stations, the fields of ATM and of SS7.     *)
(***************************************************************************)
EXTENDS BpfLink

abort == [op |-> "abort"]

\* A test for one direction, for both, or for either.
Directed(dir, src, dst) ==
    CASE dir = "src" -> src
      [] dir = "dst" -> dst
      [] dir = "and" -> And(src, dst)
      [] dir \in {"or", "default"} -> Or(src, dst)
      [] OTHER -> bpf_error

gen_snap(g, org, ptype) == gen_bcmp(g, "OR_MACPL", 0, <<170, 170, 3>> \o org \o <<ptype \div 256, ptype % 256>>)
Snap(g, proto) == IF proto = ETHERTYPE.ATALK THEN gen_snap(g, <<8, 0, 7>>, proto) ELSE gen_snap(g, <<0, 0, 0>>, proto)

LlcPairs == {LLCSAP.ISONS, LLCSAP.IP, LLCSAP.NETBEUI}

\* Ethernet: a type above 1500, or a length and an LLC header behind it.
IsLength(g) == Not(gen_cmp_gt(g, "OR_LINK", g.off_linktype, 2, ETHERMTU))
gen_ether_linktype(g, proto) ==
    CASE proto \in LlcPairs -> And(IsLength(g), gen_cmp(g, "OR_MACPL", 0, 2, proto * 256 + proto))
      [] proto = LLCSAP.IPX ->
           Or(gen_cmp(g, "OR_LINK", g.off_linktype, 2, ETHERTYPE.IPX),
              And(IsLength(g),
                  Or(gen_snap(g, <<0, 0, 0>>, ETHERTYPE.IPX),
                     Or(gen_cmp(g, "OR_MACPL", 0, 1, LLCSAP.IPX), gen_cmp(g, "OR_MACPL", 0, 2, 65535)))))
      [] proto \in {ETHERTYPE.ATALK, ETHERTYPE.AARP} ->
           Or(gen_cmp(g, "OR_LINK", g.off_linktype, 2, proto), And(IsLength(g), Snap(g, proto)))
      [] OTHER ->
           IF proto <= ETHERMTU THEN And(IsLength(g), gen_cmp(g, "OR_LINK", g.off_linktype + 2, 1, proto))
           ELSE gen_cmp(g, "OR_LINK", g.off_linktype, 2, proto)

gen_ipnet_linktype(g, proto) ==
    CASE proto = ETHERTYPE.IP -> gen_cmp(g, "OR_LINK", g.off_linktype, 1, 2)
      [] proto = ETHERTYPE.IPV6 -> gen_cmp(g, "OR_LINK", g.off_linktype, 1, 26)
      [] OTHER -> gen_false

\* Linux cooked captures.
IsSll(g, kind) == gen_cmp(g, "OR_LINK", g.off_linktype, 2, kind)
gen_linux_sll_linktype(g, proto) ==
    CASE proto \in LlcPairs -> And(IsSll(g, SLL_802_2), gen_cmp(g, "OR_MACPL", 0, 2, proto * 256 + proto))
      [] proto = LLCSAP.IPX ->
           Or(IsSll(g, ETHERTYPE.IPX),
              Or(IsSll(g, SLL_802_3),
                 And(IsSll(g, SLL_802_2),
                     Or(gen_cmp(g, "OR_MACPL", 0, 1, LLCSAP.IPX), gen_snap(g, <<0, 0, 0>>, ETHERTYPE.IPX)))))
      [] proto \in {ETHERTYPE.ATALK, ETHERTYPE.AARP} ->
           Or(IsSll(g, proto), And(IsSll(g, SLL_802_2), Snap(g, proto)))
      [] OTHER ->
           IF proto <= ETHERMTU THEN And(IsSll(g, SLL_802_2), gen_cmp(g, "OR_LINK", g.off_macpl, 1, proto))
           ELSE IsSll(g, proto)

gen_llc_linktype(g, proto) ==
    CASE proto \in LlcPairs -> gen_cmp(g, "OR_MACPL", 0, 2, proto * 256 + proto)
      [] proto = LLCSAP.IPX -> gen_cmp(g, "OR_MACPL", 0, 1, LLCSAP.IPX)
      [] proto = ETHERTYPE.ATALK -> gen_snap(g, <<8, 0, 7>>, ETHERTYPE.ATALK)
      [] OTHER -> IF proto <= ETHERMTU THEN gen_cmp(g, "OR_MACPL", 0, 1, proto)
                  ELSE gen_cmp(g, "OR_MACPL", 6, 2, proto)

ethertype_to_ppptype(proto) ==
    CASE proto = ETHERTYPE.IP -> PPP.IP        [] proto = ETHERTYPE.IPV6 -> PPP.IPV6
      [] proto = ETHERTYPE.DN -> PPP.DECNET    [] proto = ETHERTYPE.ATALK -> PPP.APPLE
      [] proto = ETHERTYPE.NS -> PPP.NS        [] proto = LLCSAP.ISONS -> PPP.OSI
      [] proto = LLCSAP.8021D -> PPP.BRPDU     [] proto = LLCSAP.IPX -> PPP.IPX
      [] OTHER -> proto

\* A data frame has the bit 8 of its first byte set and the bit 4 clear.
Bit(g, offset, bit) == gen_ncmp(g, "OR_LINK", offset, 1, -1, "JSET", FALSE, bit)
gen_check_802_11_data_frame(g) == And(Not(Bit(g, 0, 4)), Bit(g, 0, 8))

-----------------------------------------------------------------------------
\* ATM.
gen_atmfield_code(g, field, v, jtype, reverse) ==
    CASE field = "vpi" -> IF g.is_atm THEN gen_ncmp(g, "OR_LINK", g.off_vpi, 1, -1, jtype, reverse, v) ELSE bpf_error
      [] field = "vci" -> IF g.is_atm THEN gen_ncmp(g, "OR_LINK", g.off_vci, 2, -1, jtype, reverse, v) ELSE bpf_error
      [] field = "prototype" -> IF g.off_proto = -1 THEN abort
                                ELSE gen_ncmp(g, "OR_LINK", g.off_proto, 1, 15, jtype, reverse, v)
      [] field = "msgtype" -> IF g.off_payload = -1 THEN abort
                              ELSE gen_ncmp(g, "OR_LINK", g.off_payload + 5, 1, -1, jtype, reverse, v)
      [] field = "callref" -> IF g.is_atm THEN gen_ncmp(g, "OR_LINK", g.off_proto, 1, -1, jtype, reverse, v)
                              ELSE bpf_error
AtmIs(g, field, v) == gen_atmfield_code(g, field, v, "JEQ", FALSE)

AtmChannel == [metac |-> 1, bcc |-> 2, oamf4sc |-> 3, oamf4ec |-> 4, sc |-> 5, ilmic |-> 16]
PT_LANE == 1
PT_LLC == 2
gen_atmtype_abbrev(g, type) ==
    IF ~g.is_atm THEN bpf_error
    ELSE IF type \in DOMAIN AtmChannel THEN And(AtmIs(g, "vpi", 0), AtmIs(g, "vci", AtmChannel[type]))
    ELSE AtmIs(g, "prototype", IF type = "lane" THEN PT_LANE ELSE PT_LLC)
\* What `lane' and `llc' change for the rest of the expression.
AfterAtmType(g, type) ==
    CASE type = "lane" /\ g.is_atm ->
           [g EXCEPT !.is_lane = TRUE, !.off_mac = g.off_payload + 2, !.off_linktype = g.off_payload + 14,
                     !.off_macpl = g.off_payload + 16, !.off_nl = 0, !.off_nl_nosnap = 3]
      [] type = "llc" /\ g.is_atm -> [g EXCEPT !.is_lane = FALSE]
      [] OTHER -> g

AtmMessage == [setup |-> 5, callproceed |-> 2, connect |-> 7, connectack |-> 15, release |-> 77, releasedone |-> 90]
gen_msg_abbrev(g, type) == AtmIs(g, "msgtype", AtmMessage[type])
gen_atmmulti_abbrev(g, type) ==
    LET either(b, m) == Or(gen_msg_abbrev(g, m), b)
        begun == Or(gen_msg_abbrev(g, "setup"), gen_msg_abbrev(g, "callproceed"))
    IN  CASE ~g.is_atm -> bpf_error
          [] type \in {"oam", "oamf4"} -> And(AtmIs(g, "vpi", 0), Or(AtmIs(g, "vci", 3), AtmIs(g, "vci", 4)))
          [] type = "connectmsg" ->
               And(gen_atmtype_abbrev(g, "sc"),
                   FoldLeft(either, begun, <<"connect", "connectack", "release", "releasedone">>))
          [] type = "metaconnect" ->
               And(gen_atmtype_abbrev(g, "metac"),
                   FoldLeft(either, begun, <<"connect", "release", "releasedone">>))

\* SS7.
Mtp2(g) == g.linktype \in {"MTP2", "ERF", "MTP2_WITH_PHDR"}
gen_mtp2type_abbrev(g, type) ==
    LET li(jtype, reverse, v)  == gen_ncmp(g, "OR_PACKET", g.off_li, 1, 63, jtype, reverse, v)
        hsl(jtype, reverse, v) == gen_ncmp(g, "OR_PACKET", g.off_li_hsl, 2, 65408, jtype, reverse, v)
    IN  CASE ~Mtp2(g) -> bpf_error
          [] type = "fisu"  -> li("JEQ", FALSE, 0)
          [] type = "lssu"  -> And(li("JGT", FALSE, 0), li("JGT", TRUE, 2))
          [] type = "msu"   -> li("JGT", FALSE, 2)
          [] type = "hfisu" -> hsl("JEQ", FALSE, 0)
          [] type = "hlssu" -> And(hsl("JGT", FALSE, 0), hsl("JGT", TRUE, 256))
          [] type = "hmsu"  -> hsl("JGT", FALSE, 256)

\* The codes are spread over the bits of a word.
gen_mtp3field_code(g, field, v, jtype, reverse) ==
    LET hsl == IF field \in {"hsio", "hopc", "hdpc", "hsls"} THEN 3 ELSE 0
        cmp(off, size, mask, w) == gen_ncmp(g, "OR_PACKET", off + hsl, size, mask, jtype, reverse, w)
    IN  CASE g.off_sio = -1 -> bpf_error
          [] field \in {"sio", "hsio"} -> IF v > 255 THEN bpf_error ELSE cmp(g.off_sio, 1, -1, v)
          [] field \in {"opc", "hopc"} ->
               IF v > 16383 THEN bpf_error
               ELSE cmp(g.off_opc, 4, 12648207,
                        v \div 1024 + ((v \div 4) % 256) * 256 + (v % 4) * 4194304)
          [] field \in {"dpc", "hdpc"} ->
               IF v > 16383 THEN bpf_error
               ELSE cmp(g.off_dpc, 4, Word(65343, 0), Word((v % 256) * 256 + v \div 256, 0))
          [] field \in {"sls", "hsls"} -> IF v > 15 THEN bpf_error ELSE cmp(g.off_sls, 1, 240, v * 16)
-----------------------------------------------------------------------------
\* Behind a stack of labels nothing says what follows: the bottom-of-stack bit
\* and the version of IP are looked at.
gen_mpls_linktype(g, proto) ==
    And(gen_mcmp(g, "OR_NET", -2, 1, 1, 1),
        gen_mcmp(g, "OR_NET", 0, 1, IF proto = "ip" THEN 64 ELSE 96, 240))

IpVersion(g, proto) ==
    CASE proto = ETHERTYPE.IP -> gen_mcmp(g, "OR_LINK", 0, 1, 64, 240)
      [] proto = ETHERTYPE.IPV6 -> gen_mcmp(g, "OR_LINK", 0, 1, 96, 240)
      [] OTHER -> gen_false

\* The address family of BSD loopbacks, in the order of the host that captured
\* the packets for DLT_NULL and in network order for DLT_LOOP.
AF_INET == 2
AF_INET6 == 10
LittleEndian(n) == ShiftLeft(n, 24)
LoopFamily(g, af) == gen_cmp(g, "OR_LINK", 0, 4, IF g.linktype = "LOOP" THEN af ELSE LittleEndian(af))

ArcnetIs(g, types) ==
    FoldLeft(LAMBDA b, t : Or(b, gen_cmp(g, "OR_LINK", g.off_linktype, 1, t)),
             gen_cmp(g, "OR_LINK", g.off_linktype, 1, Head(types)), Tail(types))
ArcnetLinktype(g, proto) ==
    CASE proto = ETHERTYPE.IPV6 -> ArcnetIs(g, <<196>>)     [] proto = ETHERTYPE.IP -> ArcnetIs(g, <<212, 240>>)
      [] proto = ETHERTYPE.ARP -> ArcnetIs(g, <<213, 241>>) [] proto = ETHERTYPE.REVARP -> ArcnetIs(g, <<214>>)
      [] proto = ETHERTYPE.ATALK -> ArcnetIs(g, <<221>>)    [] OTHER -> gen_false

FrameRelayIs(g, nlpid) == gen_cmp(g, "OR_LINK", 2, 2, 768 + nlpid)
FrameRelayLinktype(g, proto) ==
    CASE proto = ETHERTYPE.IP -> FrameRelayIs(g, 204)
      [] proto = ETHERTYPE.IPV6 -> FrameRelayIs(g, 142)
      [] proto = LLCSAP.ISONS -> Or(FrameRelayIs(g, 129), Or(FrameRelayIs(g, 130), FrameRelayIs(g, 131)))
      [] OTHER -> gen_false

PppBsdosLinktype(g, proto) ==
    LET is(p) == gen_cmp(g, "OR_LINK", g.off_linktype, 2, p)
    IN  IF proto = ETHERTYPE.IP THEN Or(Or(is(PPP.IP), is(PPP.VJC)), is(PPP.VJNC)) ELSE is(ethertype_to_ppptype(proto))

\* ATM LANE: not a control frame.
NotLaneControl(g) == Not(gen_cmp(g, "OR_LINK", 4, 2, 65280))

\* Does the frame carry the protocol?
gen_linktype(g, proto) ==
    IF g.label_stack_depth > 0
    THEN CASE proto \in {ETHERTYPE.IP, PPP.IP} -> gen_mpls_linktype(g, "ip")
           [] proto \in {ETHERTYPE.IPV6, PPP.IPV6} -> gen_mpls_linktype(g, "ip6")
           [] OTHER -> bpf_error
    ELSE IF g.is_pppoes THEN gen_cmp(g, "OR_MACPL", g.off_linktype, 2, ethertype_to_ppptype(proto))
    ELSE
    LET lt == g.linktype
    IN  CASE lt \in {"EN10MB", "NETANALYZER", "NETANALYZER_TRANSPARENT"} -> gen_ether_linktype(g, proto)
          [] lt = "C_HDLC" -> gen_cmp(g, "OR_LINK", g.off_linktype, 2,
                                      IF proto = LLCSAP.ISONS THEN proto * 256 + proto ELSE proto)
          [] lt \in DOMAIN RadioOffsets -> And(gen_check_802_11_data_frame(g), gen_llc_linktype(g, proto))
          [] lt \in {"FDDI", "IEEE802", "ATM_RFC1483", "IP_OVER_FC"} -> gen_llc_linktype(g, proto)
          [] lt = "SUNATM" -> IF g.is_lane THEN And(NotLaneControl(g), gen_ether_linktype(g, proto))
                              ELSE And(AtmIs(g, "prototype", PT_LLC), gen_llc_linktype(g, proto))
          [] lt = "LINUX_SLL" -> gen_linux_sll_linktype(g, proto)
          [] lt \in {"SLIP", "SLIP_BSDOS", "RAW"} -> IpVersion(g, proto)
          [] lt = "IPV4" -> IF proto = ETHERTYPE.IP THEN gen_true ELSE gen_false
          [] lt = "IPV6" -> IF proto = ETHERTYPE.IPV6 THEN gen_true ELSE gen_false
          [] lt \in {"PPP", "PPP_SERIAL", "PPP_ETHER"} ->
               gen_cmp(g, "OR_LINK", g.off_linktype, 2, ethertype_to_ppptype(proto))
          [] lt = "PPP_BSDOS" -> PppBsdosLinktype(g, proto)
          [] lt \in {"NULL", "LOOP", "ENC"} ->
               CASE proto = ETHERTYPE.IP -> LoopFamily(g, AF_INET)
                 [] proto = ETHERTYPE.IPV6 -> LoopFamily(g, AF_INET6)
                 [] OTHER -> gen_false
          [] lt \in {"ARCNET", "ARCNET_LINUX"} -> ArcnetLinktype(g, proto)
          [] lt = "LTALK" -> IF proto = ETHERTYPE.ATALK THEN gen_true ELSE gen_false
          [] lt = "FRELAY" -> FrameRelayLinktype(g, proto)
          [] lt = "BACNET_MS_TP" -> gen_mcmp(g, "OR_LINK", 0, 4, Word(22015, 0), Word(65535, 0))
          [] lt \in DOMAIN JuniperOffsets -> gen_mcmp(g, "OR_LINK", 0, 4, Word(19783, 17152), -256)
          [] lt = "IPNET" -> gen_ipnet_linktype(g, proto)
          [] lt \in {"MFR", "MTP2", "MTP2_WITH_PHDR", "ERF", "PFSYNC", "AX25_KISS"} -> bpf_error
          [] g.off_linktype = -1 -> abort
          [] OTHER -> gen_cmp(g, "OR_LINK", g.off_linktype, 2, proto)

-----------------------------------------------------------------------------
\* Link-level addresses.
gen_ehostop(g, addr, dir) ==
    Directed(dir, gen_bcmp(g, "OR_LINK", g.off_mac + 6, addr), gen_bcmp(g, "OR_LINK", g.off_mac, addr))
gen_fhostop(g, addr, dir) ==
    Directed(dir, gen_bcmp(g, "OR_LINK", 7 + g.fddipad, addr), gen_bcmp(g, "OR_LINK", 1 + g.fddipad, addr))
gen_thostop(g, addr, dir) == Directed(dir, gen_bcmp(g, "OR_LINK", 8, addr), gen_bcmp(g, "OR_LINK", 2, addr))
gen_ipfchostop(g, addr, dir) == Directed(dir, gen_bcmp(g, "OR_LINK", 10, addr), gen_bcmp(g, "OR_LINK", 2, addr))
gen_ahostop(g, addr, dir) == Directed(dir, gen_bcmp(g, "OR_LINK", 0, addr), gen_bcmp(g, "OR_LINK", 1, addr))

\* In an 802.11 frame the place of an address depends on the kind of the frame
\* and on the directions To DS and From DS.
WlanAddr(g, offset, addr) == gen_bcmp(g, "OR_LINK", offset, addr)
WlanSrc(g, addr) ==
    LET from == Or(And(Not(Bit(g, 1, 1)), WlanAddr(g, 16, addr)), And(Bit(g, 1, 1), WlanAddr(g, 24, addr)))
        ds   == Or(And(Not(Bit(g, 1, 2)), WlanAddr(g, 10, addr)), And(Bit(g, 1, 2), from))
        data == Or(And(Not(Bit(g, 0, 8)), WlanAddr(g, 10, addr)), And(Bit(g, 0, 8), ds))
    IN  And(Not(Bit(g, 0, 4)), data)
WlanDst(g, addr) ==
    LET to   == Or(And(Not(Bit(g, 1, 1)), WlanAddr(g, 4, addr)), And(Bit(g, 1, 1), WlanAddr(g, 16, addr)))
        data == Or(And(Not(Bit(g, 0, 8)), WlanAddr(g, 4, addr)), And(Bit(g, 0, 8), to))
    IN  And(Not(Bit(g, 0, 4)), data)

NotControl(g) == Not(gen_mcmp(g, "OR_LINK", 0, 1, 4, 12))
NeitherCtsNorAck(g) ==
    And(Not(gen_mcmp(g, "OR_LINK", 0, 1, 192, 240)), Not(gen_mcmp(g, "OR_LINK", 0, 1, 208, 240)))
HasAddr2(g) == Or(NotControl(g), NeitherCtsNorAck(g))
gen_wlanhostop(g, addr, dir) ==
    CASE dir = "ra" -> And(Bit(g, 0, 8), WlanAddr(g, 4, addr))
      [] dir = "ta" -> And(And(Bit(g, 0, 8), HasAddr2(g)), WlanAddr(g, 10, addr))
      [] dir = "addr1" -> WlanAddr(g, 4, addr)
      [] dir = "addr2" -> And(HasAddr2(g), WlanAddr(g, 10, addr))
      [] dir = "addr3" -> And(NotControl(g), WlanAddr(g, 16, addr))
      [] dir = "addr4" -> And(gen_mcmp(g, "OR_LINK", 1, 1, 3, 3), WlanAddr(g, 24, addr))
      [] OTHER -> Directed(dir, WlanSrc(g, addr), WlanDst(g, addr))
=============================================================================
