------------------------------- MODULE BpfLink -------------------------------
(***************************************************************************)
(* The lower half of libpcap's code generator (gencode.c): where the       *)
(* headers of each link type are, how a field is loaded and compared, and  *)
(* the tests of the link layer's protocol and addresses.                   *)
(*                                                                         *)
(* What a function of gencode.c returns is a tree here: a block (the       *)
(* statements s before a jump j), the results of gen_and, gen_or and       *)
(* gen_not, or the error that ends the compilation.  BpfCode links the     *)
(* blocks.  g holds the globals that init_linktype sets.  An offset of -1  *)
(* is one that the link type does not have.                                *)
(***************************************************************************)
EXTENDS BpfMachine, SequencesExt

And(b0, b1) == [op |-> "and", l |-> b0, r |-> b1]
Or(b0, b1) == [op |-> "or", l |-> b0, r |-> b1]
Not(b) == [op |-> "not", l |-> b]
bpf_error == [op |-> "error"]
Block(s, m, x, k) == [op |-> "block", s |-> s, m |-> m, x |-> x, k |-> k]

Ld(mode, size, k) == Insn("LD", mode, size, FALSE, k)
Ldx(mode, size, k) == Insn("LDX", mode, size, FALSE, k)
AluK(op, k) == Insn("ALU", op, 4, FALSE, k)
AluX(op) == Insn("ALU", op, 4, TRUE, 0)
St(r) == Insn("ST", "", 4, FALSE, r)
Tax == Insn("TAX", "", 4, FALSE, 0)
Txa == Insn("TXA", "", 4, FALSE, 0)
\* A jump inside of a block: its targets are relative to its own place.
SJump(m, k, jt, jf) == [Insn("JMP", m, 4, FALSE, k) EXCEPT !.jt = jt, !.jf = jf]

ETHERMTU == 1500
ETHERTYPE == [IP |-> 2048, ARP |-> 2054, REVARP |-> 32821, NS |-> 1536, MOPDL |-> 24577, MOPRC |-> 24578,
              DN |-> 24579, LAT |-> 24580, SCA |-> 24583, ATALK |-> 32923, AARP |-> 33011, 8021Q |-> 33024,
              IPX |-> 33079, IPV6 |-> 34525, MPLS |-> 34887, PPPOED |-> 34915, PPPOES |-> 34916, 8021QINQ |-> 37120]
LLCSAP == [IP |-> 6, 8021D |-> 66, SNAP |-> 170, IPX |-> 224, NETBEUI |-> 240, ISONS |-> 254]
PPP == [IP |-> 33, OSI |-> 35, NS |-> 37, DECNET |-> 39, APPLE |-> 41, IPX |-> 43, VJC |-> 45, VJNC |-> 47,
        BRPDU |-> 49, IPV6 |-> 87, MPLS_UCAST |-> 641]
SLL_802_3 == 1
SLL_802_2 == 4

-----------------------------------------------------------------------------
\* init_linktype: off_linktype, off_macpl, off_nl and off_nl_nosnap of each type.
LinkOffsets ==
    [ARCNET |-> <<2, 6, 0, 0>>, ARCNET_LINUX |-> <<4, 8, 0, 0>>, EN10MB |-> <<12, 14, 0, 3>>,
     SLIP |-> <<-1, 16, 0, 0>>, SLIP_BSDOS |-> <<-1, 24, 0, 0>>, NULL |-> <<0, 4, 0, 0>>,
     LOOP |-> <<0, 4, 0, 0>>, ENC |-> <<0, 12, 0, 0>>, PPP |-> <<2, 4, 0, 0>>, C_HDLC |-> <<2, 4, 0, 0>>,
     PPP_SERIAL |-> <<2, 4, 0, 0>>, PPP_ETHER |-> <<6, 8, 0, 0>>, PPP_BSDOS |-> <<5, 24, 0, 0>>,
     FDDI |-> <<13, 13, 8, 3>>, IEEE802 |-> <<14, 14, 8, 3>>]
RadioOffsets ==
    [IEEE802_11 |-> <<24, 0, 8, 3>>, PRISM_HEADER |-> <<24, 0, 8, 3>>, IEEE802_11_RADIO_AVS |-> <<24, 0, 8, 3>>,
     IEEE802_11_RADIO |-> <<24, 0, 8, 3>>, PPI |-> <<24, 0, 8, 3>>]
OtherOffsets ==
    [ATM_RFC1483 |-> <<0, 0, 8, 3>>, SUNATM |-> <<4, 4, 8, 3>>, RAW |-> <<-1, 0, 0, 0>>, IPV4 |-> <<-1, 0, 0, 0>>,
     IPV6 |-> <<-1, 0, 0, 0>>, LINUX_SLL |-> <<14, 16, 0, 0>>, LTALK |-> <<-1, 0, 0, 0>>,
     IP_OVER_FC |-> <<16, 16, 8, 3>>, FRELAY |-> <<-1, 0, 0, 0>>, MFR |-> <<-1, 0, 4, 0>>,
     APPLE_IP_OVER_IEEE1394 |-> <<16, 18, 0, 0>>, SYMANTEC_FIREWALL |-> <<6, 44, 0, 0>>]
JuniperOffsets ==
    [JUNIPER_PPP |-> <<4, 4, 0, -1>>, JUNIPER_ATM1 |-> <<4, 4, 0, 10>>, JUNIPER_ATM2 |-> <<8, 8, 0, 10>>,
     JUNIPER_ETHER |-> <<16, 14, 18, 21>>, JUNIPER_PPPOE_ATM |-> <<4, 6, 0, -1>>, JUNIPER_GGSN |-> <<6, 12, 0, -1>>,
     JUNIPER_ES |-> <<6, -1, -1, -1>>, JUNIPER_MONITOR |-> <<12, 12, 0, -1>>, JUNIPER_SERVICES |-> <<12, -1, -1, -1>>,
     JUNIPER_VP |-> <<18, -1, -1, -1>>, JUNIPER_ISM |-> <<8, -1, -1, -1>>, JUNIPER_VS |-> <<8, -1, -1, -1>>,
     BACNET_MS_TP |-> <<-1, -1, -1, -1>>]
LastOffsets ==
    [MTP2 |-> <<-1, -1, -1, -1>>, MTP2_WITH_PHDR |-> <<-1, -1, -1, -1>>, ERF |-> <<-1, -1, -1, -1>>,
     PFSYNC |-> <<-1, 4, 0, 0>>, AX25_KISS |-> <<-1, -1, -1, -1>>, IPNET |-> <<1, 24, 0, -1>>,
     NETANALYZER |-> <<16, 18, 0, 3>>, NETANALYZER_TRANSPARENT |-> <<24, 26, 0, 3>>,
     USER |-> <<-1, -1, -1, -1>>]

DLTs == DOMAIN LinkOffsets \cup DOMAIN RadioOffsets \cup DOMAIN OtherOffsets \cup DOMAIN JuniperOffsets
        \cup DOMAIN LastOffsets
Offsets(lt) ==
    CASE lt \in DOMAIN LinkOffsets -> LinkOffsets[lt]
      [] lt \in DOMAIN RadioOffsets -> RadioOffsets[lt]
      [] lt \in DOMAIN OtherOffsets -> OtherOffsets[lt]
      [] lt \in DOMAIN JuniperOffsets -> JuniperOffsets[lt]
      [] OTHER -> LastOffsets[lt]

\* The signalling units of MTP2 begin behind a header of 0, 4 or 20 bytes.
Mtp2Header(lt) == CASE lt = "MTP2" -> 0 [] lt = "MTP2_WITH_PHDR" -> 4 [] lt = "ERF" -> 20 [] OTHER -> -1

init_linktype(lt, fddipad) ==
    LET o   == Offsets(lt)
        pad == IF lt = "FDDI" THEN fddipad ELSE 0
        mtp == Mtp2Header(lt)
        su(n) == IF mtp < 0 THEN -1 ELSE mtp + n
    IN  [linktype |-> lt, fddipad |-> fddipad, off_ll |-> 0,
         off_mac |-> CASE lt = "SUNATM" -> -1 [] lt = "AX25_KISS" -> 1 [] lt = "NETANALYZER" -> 4
                       [] lt = "NETANALYZER_TRANSPARENT" -> 12 [] OTHER -> 0,
         off_linktype |-> o[1] + pad, off_macpl |-> o[2] + pad, off_nl |-> o[3], off_nl_nosnap |-> o[4],
         variable |-> lt \in DOMAIN RadioOffsets,
         is_atm |-> lt = "SUNATM", is_lane |-> FALSE, is_pppoes |-> FALSE, label_stack_depth |-> 0,
         orig_linktype |-> -1, orig_nl |-> -1,
         off_vpi |-> IF lt = "SUNATM" THEN 1 ELSE -1, off_vci |-> IF lt = "SUNATM" THEN 2 ELSE -1,
         off_proto |-> IF lt = "SUNATM" THEN 0 ELSE -1, off_payload |-> IF lt = "SUNATM" THEN 4 ELSE -1,
         off_li |-> su(2), off_li_hsl |-> su(4), off_sio |-> su(3), off_opc |-> su(4), off_dpc |-> su(4),
         off_sls |-> su(7)]

-----------------------------------------------------------------------------
\* Scratch words for the length of a radio header and for the offset of the
\* payload: alloc_reg hands them out at their first use, from the same store as
\* the registers of arithmetic, which come first here.
reg_off_ll == 14
reg_off_macpl == 15

gen_llprefixlen(g) == IF g.variable /\ g.linktype # "IEEE802_11" THEN <<Ldx("MEM", 4, reg_off_ll)>> ELSE <<>>
gen_off_macpl(g) == IF g.variable THEN <<Ldx("MEM", 4, reg_off_macpl)>> ELSE <<>>

gen_load_llrel(g, offset, size) ==
    IF gen_llprefixlen(g) # <<>> THEN gen_llprefixlen(g) \o <<Ld("IND", size, offset)>>
    ELSE <<Ld("ABS", size, offset + g.off_ll)>>
gen_load_macplrel(g, offset, size) ==
    IF gen_off_macpl(g) # <<>> THEN gen_off_macpl(g) \o <<Ld("IND", size, offset)>>
    ELSE <<Ld("ABS", size, g.off_macpl + offset)>>
gen_loadx_iphdrlen(g) ==
    IF gen_off_macpl(g) # <<>>
    THEN gen_off_macpl(g) \o <<Ld("IND", 1, g.off_nl), AluK("AND", 15), AluK("LSH", 2), AluX("ADD"), Tax>>
    ELSE <<Ldx("MSH", 1, g.off_macpl + g.off_nl)>>

\* Offsets count from the packet, the link header, the MAC payload, the network
\* header behind its encapsulation or the transport header.
gen_load_a(g, offrel, offset, size) ==
    CASE offrel = "OR_PACKET" -> <<Ld("ABS", size, offset)>>
      [] offrel = "OR_LINK" -> gen_load_llrel(g, offset, size)
      [] offrel = "OR_MACPL" -> gen_load_macplrel(g, offset, size)
      [] offrel = "OR_NET" -> gen_load_macplrel(g, g.off_nl + offset, size)
      [] offrel = "OR_NET_NOSNAP" -> gen_load_macplrel(g, g.off_nl_nosnap + offset, size)
      [] offrel = "OR_TRAN_IPV4" -> gen_loadx_iphdrlen(g) \o <<Ld("IND", size, g.off_macpl + g.off_nl + offset)>>
      [] offrel = "OR_TRAN_IPV6" -> gen_load_macplrel(g, g.off_nl + 40 + offset, size)

\* A comparison is a node of the tree until the blocks are made, as are the tests
\* of a link type and of a protocol further on: Expanded is what they stand for.
gen_ncmp(g, offrel, offset, size, mask, jtype, reverse, v) ==
    [op |-> "ncmp", g |-> g, offrel |-> offrel, offset |-> offset, size |-> size, mask |-> mask, jtype |-> jtype,
     reverse |-> reverse, v |-> v]
Compared(t) ==
    LET s == gen_load_a(t.g, t.offrel, t.offset, t.size) \o (IF t.mask = -1 THEN <<>> ELSE <<AluK("AND", t.mask)>>)
        b == Block(s, t.jtype, FALSE, t.v)
    IN  IF t.reverse /\ t.jtype \in {"JGT", "JGE"} THEN Not(b) ELSE b
gen_cmp(g, offrel, offset, size, v) == gen_ncmp(g, offrel, offset, size, -1, "JEQ", FALSE, v)
gen_cmp_gt(g, offrel, offset, size, v) == gen_ncmp(g, offrel, offset, size, -1, "JGT", FALSE, v)
gen_cmp_ge(g, offrel, offset, size, v) == gen_ncmp(g, offrel, offset, size, -1, "JGE", FALSE, v)
gen_cmp_lt(g, offrel, offset, size, v) == gen_ncmp(g, offrel, offset, size, -1, "JGE", TRUE, v)
gen_cmp_le(g, offrel, offset, size, v) == gen_ncmp(g, offrel, offset, size, -1, "JGT", TRUE, v)
gen_mcmp(g, offrel, offset, size, v, mask) == gen_ncmp(g, offrel, offset, size, mask, "JEQ", FALSE, v)

\* A run of bytes, compared from its end in words, then halves, then a byte.
RECURSIVE gen_bcmp_(_, _, _, _, _)
gen_bcmp_(g, offrel, offset, v, b) ==
    LET n    == Len(v)
        size == IF n >= 4 THEN 4 ELSE IF n >= 2 THEN 2 ELSE 1
        tmp  == gen_cmp(g, offrel, offset + n - size, size, Extract(v, n - size, size))
    IN  IF n = 0 THEN b
        ELSE gen_bcmp_(g, offrel, offset, SubSeq(v, 1, n - size), IF b.op = "none" THEN tmp ELSE And(b, tmp))
gen_bcmp(g, offrel, offset, v) == gen_bcmp_(g, offrel, offset, v, [op |-> "none"])

gen_uncond(rsense) == Block(<<Ld("IMM", 4, IF rsense THEN 0 ELSE 1)>>, "JEQ", FALSE, 0)
gen_true == gen_uncond(TRUE)
gen_false == gen_uncond(FALSE)

-----------------------------------------------------------------------------
\* The length of the header in front of the 802.11 header, into its scratch word
\* and into X.
gen_load_prism_llprefixlen ==
    <<Ld("ABS", 4, 0), AluK("AND", -4096), SJump("JEQ", Word(32801, 4096), 1, 3), Ld("ABS", 4, 4),
      SJump("JA", 1, 0, 2), Ld("IMM", 4, 144), St(reg_off_ll), Tax>>
gen_load_avs_llprefixlen == <<Ld("ABS", 4, 4), St(reg_off_ll), Tax>>
gen_load_radiotap_llprefixlen ==
    <<Ld("ABS", 1, 3), AluK("LSH", 8), Tax, Ld("ABS", 1, 2), AluX("OR"), St(reg_off_ll), Tax>>
gen_load_ppi_llprefixlen == gen_load_radiotap_llprefixlen

\* The length of the 802.11 header: two bytes more with QoS, rounded up when the
\* radio header says that the data is padded.  n statements follow up to `next'.
RadiotapPad ==
    <<Ld("ABS", 4, 4), SJump("JSET", Word(512, 0), 1, 10), SJump("JSET", Word(256, 0), 1, 3),
      Ld("ABS", 1, 16), SJump("JSET", 32, 3, 7), Ld("ABS", 1, 8), SJump("JSET", 32, 1, 5),
      Ld("MEM", 4, reg_off_macpl), AluK("ADD", 3), AluK("AND", -4), St(reg_off_macpl)>>
gen_load_802_11_header_len(g, s) ==
    LET radiotap == IF g.linktype = "IEEE802_11_RADIO" THEN RadiotapPad ELSE <<>>
        past     == Len(radiotap)
    IN  (IF s = <<>> THEN <<Ldx("IMM", 4, g.off_ll)>> ELSE s)
        \o <<Txa, AluK("ADD", 24), St(reg_off_macpl), Ld("IND", 1, 0),
             SJump("JSET", 8, 1, 6 + past), SJump("JSET", 4, 5 + past, 1), SJump("JSET", 128, 1, 4),
             Ld("MEM", 4, reg_off_macpl), AluK("ADD", 2), St(reg_off_macpl)>>
        \o radiotap

\* What is put in front of the first block when the scratch words are used.
ComputeOffsets(g, usesll, usesmacpl) ==
    LET prefix == IF ~usesll THEN <<>>
                  ELSE CASE g.linktype = "PRISM_HEADER" -> gen_load_prism_llprefixlen
                         [] g.linktype = "IEEE802_11_RADIO_AVS" -> gen_load_avs_llprefixlen
                         [] g.linktype = "IEEE802_11_RADIO" -> gen_load_radiotap_llprefixlen
                         [] g.linktype = "PPI" -> gen_load_ppi_llprefixlen
                         [] OTHER -> <<>>
    IN  IF g.variable /\ usesmacpl THEN gen_load_802_11_header_len(g, prefix) ELSE prefix

\* A PPI packet must hold an 802.11 frame.
gen_ppi_dlt_check == Block(<<Ld("ABS", 4, 4)>>, "JEQ", FALSE, Word(26880, 0))
=============================================================================
