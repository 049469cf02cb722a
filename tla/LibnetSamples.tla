---------------------------- MODULE LibnetSamples ----------------------------
(***************************************************************************)
(* The sample programs of libnet (libnet/sample/*.c), which document how a *)
(* packet of each kind is built, run against the model of the builders.    *)
(*                                                                         *)
(* A program is the sequence of its library calls.  A call that fails      *)
(* sends it to its label bad, where it frees its context.  The programs    *)
(* that take a payload are run with several sizes; loops are run twice.    *)
(* The programs that flood a target are left out.                          *)
(***************************************************************************)
EXTENDS LibnetBuild, LibnetCq

CONSTANTS Payloads,   \* sizes of the payload given on the command line
          PortLists,  \* port lists given to udp2
          LastPort,   \* 65535 in the code
          Contexts    \* bound: contexts in the queue of icmp_echo_cq

VARIABLES program,  \* the program's name
          todo,     \* the calls it still makes
          cleanup,  \* the calls behind its label bad
          heap,     \* its libnet contexts
          l,        \* the one it works on
          tags,     \* results of its builders, newest last
          cq,       \* the queue of contexts
          device,   \* what the device has: "hw", "ip"
          freed,    \* contexts destroyed, in order
          list,     \* the port list given to udp2
          written,  \* packets given to libnet_write: the context, the port
          result    \* what the last call returned

vars == <<program, todo, cleanup, heap, l, tags, cq, device, list, freed, written, result>>

-----------------------------------------------------------------------------
\* A builder with a payload of s bytes, a length argument and an argument of
\* its own; `again' is how many builders ago the tag it is given was returned.
StepX(op, s, len, x) == [op |-> op, a |-> [New(s) EXCEPT !.len = len], x |-> x, again |-> 0]
Step(op, s, len) == StepX(op, s, len, 0)
Open(type) == StepX("init", 0, 0, type)
Ethernet == Step("ethernet", 0, 0)
Auto(op) == Step(op, 0, 0)
Write == Step("write", 0, 0)
Destroy == Step("destroy", 0, 0)

\* The same calls once more, with the tags they returned.
Repeated(steps) ==
    LET n == Len(SelectSeq(steps, LAMBDA s : s.op # "write"))
    IN  steps \o [i \in DOMAIN steps |-> [steps[i] EXCEPT !.again = n]]

Program(type, steps) == <<Open(type)>> \o steps \o <<Destroy>>
Sent(type, steps) == Program(type, Append(steps, Write))

\* TCP or UDP with n bytes inside, in an IPv4 header.
TcpIp(n, s) == <<Step("tcp", s, 20 + n + s), Step("ipv4", 0, 40 + n + s)>>
\* A fault: the IP length leaves the UDP header out.
UdpIp_short(n, s) == <<Step("udp", s, 8 + n + s), Step("ipv4", 0, 20 + n + s)>>
UdpIp(n, s) == <<Step("udp", s, 8 + n + s), Step("ipv4", 0, 28 + n + s)>>

arp == Program("LINK_ADV", <<StepX("arp", 0, 0, <<6, 4>>), Auto("autobuild_ethernet"),
                             Step("cull", 0, 0), Write>>)
arp_new == Program("LINK_ADV", <<Auto("autobuild_arp"), Auto("autobuild_ethernet"),
                                 Step("cull", 0, 0), Write>>)
bgp4_hdr(s) == Sent("RAW4", <<Step("bgp4_header", s, 0)>> \o TcpIp(19 + s, 0))
\* The payload is counted and not given.
bgp4_notification(s) ==
    Sent("RAW4", <<Step("bgp4_notification", 0, 0), Step("bgp4_header", 0, 0)>> \o TcpIp(21 + s, 0))
bgp4_open(s) ==
    Sent("RAW4", <<Step("bgp4_open", s, 0), Step("bgp4_header", 0, 0)>> \o TcpIp(29 + s, 0))
bgp4_update(s) ==
    Sent("RAW4", <<StepX("bgp4_update", s, 0, <<<<s, 4, 3>>, {1, 2, 3}>>), Step("bgp4_header", 0, 0)>>
                     \o TcpIp(30 + 2 * s, 0))
cdp == Sent("LINK", <<Step("cdp", 0, 6), Step("data", 20, 0), Step("data", 8, 0), Step("data", 31, 0),
                      Step("data", 21, 0), Ethernet>>)
\* The options are filled up to the least size of a BOOTP packet.
dhcp_discover == Sent("LINK", <<Step("dhcpv4", 60, 0)>> \o UdpIp(300, 0) \o <<Auto("autobuild_ethernet")>>)
dns_udp(s) == Sent("RAW4", <<StepX("dnsv4", s + 6, 0, 12)>> \o UdpIp(18 + s, 0))
dns_tcp(s) == Sent("RAW4", <<StepX("dnsv4", s + 6, 0, 14)>> \o TcpIp(20 + s, 0))
dot1x == Sent("LINK_ADV", <<Step("802_1x", 6, 0), Auto("autobuild_ethernet")>>)
fddi_tcp1(s) == Sent("LINK", TcpIp(0, s) \o <<Step("fddi", 0, 0)>>)
fddi_tcp2(s) == Sent("LINK", TcpIp(0, s) \o <<Auto("autobuild_fddi")>>)
get_addr == <<Open("LINK"), Auto("get_hwaddr"), Auto("get_ipaddr4")>>
tring_tcp1(s) == Sent("LINK", TcpIp(0, s) \o <<Step("token_ring", 0, 0)>>)
tring_tcp2(s) == Sent("LINK", TcpIp(0, s) \o <<Auto("autobuild_token_ring")>>)
tcp1(s) == Sent("LINK", <<StepX("tcp_options", 0, 0, 20)>> \o TcpIp(20, s) \o <<Ethernet>>)
tcp2(s) == Sent("RAW4", TcpIp(0, s))
tftp(s) == Sent("RAW4", UdpIp(0, s + 12))
udp1(s) ==
    Program("RAW4", Repeated(<<Step("udp", s, 8 + s), StepX("ipv4_options", 0, 0, 20),
                               Step("ipv4", 0, 48 + s), Write>>))
\* One packet for each port; the outer headers are built for the first one.
udp2(s, ports) ==
    Program("LINK", FlattenSeq([i \in DOMAIN ports |->
        IF i = 1 THEN UdpIp(0, s) \o <<Ethernet, StepX("write", 0, 0, ports[1])>>
        ELSE <<[Step("udp", s, 8 + s) EXCEPT !.again = IF i = 2 THEN 3 ELSE 1],
               StepX("write", 0, 0, ports[i])>>]))

\* The packet inside a GRE message by version and flags, and the message.
gre(v, flags, s) ==
    LET inner == IF v = 0 THEN TcpIp(0, 0)
                 ELSE IF "ACK" \notin flags THEN <<Step("data", 2, 0)>> ELSE <<>>
        fv    == IF v = 0 THEN flags
                 ELSE (flags \ {"CSUM", "ROUTING"}) \cup {"KEY"}
                        \cup (IF "ACK" \notin flags THEN {"SEQ"} ELSE {})
        routes == IF "ROUTING" \in fv THEN <<Step("gre_last_sre", 0, 0), Step("gre_sre", 0, s)>> ELSE <<>>
        size  == (IF v = 0 THEN 40 ELSE IF inner = <<>> THEN 0 ELSE 2)
                   + (IF routes = <<>> THEN 0 ELSE 8 + s) + libnet_getgre_length(v, fv)
    IN  Sent("LINK", inner \o routes \o <<StepX("gre", 0, size, <<v, fv>>), Step("ipv4", 0, size + 20),
                                          Auto("autobuild_ethernet")>>)

\* The IPv6 header is built for the first packet.
icmp6_echoreq ==
    <<Open("RAW6"), Step("icmpv4_echo", 56, 0), Step("ipv6", 0, 0), Write,
      [Step("icmpv4_echo", 56, 0) EXCEPT !.again = 2], Write>>
\* The contexts are written in the order of the queue's iterator.
icmp_echo_cq(s) ==
    FlattenSeq([i \in 1 .. Contexts |->
        <<Open("RAW4"), Step("icmpv4_echo", 0, 0), Step("ipv4", s, 28 + s), StepX("cq_add", 0, 0, i)>>])
      \o <<Step("cq_head", 0, 0), Step("cq_destroy", 0, 0)>>
\* An error message quotes an IPv4 header with eight bytes of its data.
Quoting(error) == <<Step("ipv4", 8, 28), Step(error, 0, 0), Step("ipv4", 0, 56)>>
icmp_redirect == Sent("LINK", Quoting("icmpv4_redirect") \o <<Ethernet>>)
icmp_timeexceed == Sent("LINK", Quoting("icmpv4_timeexceed"))
icmp_timestamp == Sent("RAW4", <<Step("icmpv4_timestamp", 0, 0), Step("ipv4", 0, 40)>>)
icmp_unreach(mode) ==
    Program(mode, Repeated(Quoting("icmpv4_unreach")
                             \o (IF mode = "LINK" THEN <<Ethernet>> ELSE <<>>) \o <<Write>>))
ieee(snap) ==
    Sent("LINK", <<StepX("arp", 0, 0, <<6, 4>>)>> \o (IF snap THEN <<Step("802_2snap", 0, 0)>> ELSE <<>>)
                   \o <<Step("802_1q", 0, 0)>>)
ip_link(s) == Sent("LINK", <<Step("ipv4", s, 20 + s), Ethernet>>)
ip_raw(s) == Sent("RAW4", <<Step("ipv4", s, 20 + s)>>)
isl == Sent("LINK", <<StepX("arp", 0, 0, <<6, 4>>), Auto("autobuild_ethernet"), Step("isl", 0, 0)>>)
mpls(s) == Sent("LINK_ADV", TcpIp(0, s) \o <<Step("mpls", 0, 0), Step("mpls", 0, 0), Step("mpls", 0, 0), Ethernet>>)
ntp == Sent("RAW4", <<Step("ntp", 0, 0), Step("udp", 0, 56), Step("autobuild_ipv4", 0, 76)>>)
ospf_hello ==
    Sent("RAW4", <<Step("ospfv2_hello", 0, 0), Step("data", 8, 0), Step("ospfv2", 0, 32), Step("ipv4", 0, 68)>>)
ospf_lsa ==
    Sent("RAW4", <<Step("ospfv2_lsa_net", 0, 0), Step("ospfv2_lsa", 0, 28), Step("data", 8, 0),
                   Step("ospfv2", 0, 36), Step("ipv4", 0, 72)>>)
rpc_tcp(s) == Sent("RAW4", <<StepX("rpc_call", s, 0, TRUE)>> \o TcpIp(44 + s, 0))
rpc_udp(s) == Sent("RAW4", <<StepX("rpc_call", s, 0, FALSE)>> \o UdpIp(40 + s, 0))
sebek(s) == Sent("LINK_ADV", <<Step("sebek", s, 0)>> \o UdpIp(48 + s, 0) \o <<Auto("autobuild_ethernet")>>)
stp(kind) == Sent("LINK", <<Step(kind, 0, 0), Step("802_2", 0, 0), Step("802_3", 0, 0)>>)

\* The programs run on a command line with a payload of s bytes.
Programs(s) ==
    [arp |-> arp, arp_new |-> arp_new, bgp4_hdr |-> bgp4_hdr(s),
     bgp4_notification |-> bgp4_notification(s), bgp4_open |-> bgp4_open(s),
     bgp4_update |-> bgp4_update(s), cdp |-> cdp, dhcp_discover |-> dhcp_discover,
     dns_udp |-> dns_udp(s), dns_tcp |-> dns_tcp(s), dot1x |-> dot1x, fddi_tcp1 |-> fddi_tcp1(s),
     fddi_tcp2 |-> fddi_tcp2(s), get_addr |-> get_addr, tring_tcp1 |-> tring_tcp1(s),
     tring_tcp2 |-> tring_tcp2(s), tcp1 |-> tcp1(s), tcp2 |-> tcp2(s), tftp |-> tftp(s),
     udp1 |-> udp1(s), icmp6_echoreq |-> icmp6_echoreq, icmp_echo_cq |-> icmp_echo_cq(s),
     icmp_redirect |-> icmp_redirect, icmp_timeexceed |-> icmp_timeexceed,
     icmp_timestamp |-> icmp_timestamp, icmp_unreach_link |-> icmp_unreach("LINK"),
     icmp_unreach_raw |-> icmp_unreach("RAW4"), ieee |-> ieee(FALSE), ieee_snap |-> ieee(TRUE),
     ip_link |-> ip_link(s), ip_raw |-> ip_raw(s), isl |-> isl, mpls |-> mpls(s), ntp |-> ntp,
     ospf_hello |-> ospf_hello, ospf_lsa |-> ospf_lsa, rpc_tcp |-> rpc_tcp(s), rpc_udp |-> rpc_udp(s),
     sebek |-> sebek(s), stp_conf |-> stp("stp_conf"), stp_tcn |-> stp("stp_tcn")]

GreFlags == {{}, {"CSUM"}, {"ROUTING"}, {"CSUM", "ROUTING", "SEQ"}, {"KEY", "SEQ"}, {"ACK"}}

Starts(name, steps) ==
    /\ program = name /\ todo = steps /\ (name = "udp2" \/ list = <<>>)
    /\ cleanup = IF name = "icmp_echo_cq" THEN <<Step("cq_destroy", 0, 0), Destroy>> ELSE <<Destroy>>

Init ==
    /\ \E s \in Payloads :
          \/ \E name \in DOMAIN Programs(s) : Starts(name, Programs(s)[name])
          \/ \E v \in {0, 1}, flags \in GreFlags : (v = 1 \/ "ACK" \notin flags)
                                                /\ Starts("gre", gre(v, flags, s))
          \/ /\ list \in PortLists
             /\ Starts("udp2", udp2(s, Ports(libnet_plist_chain_new(list, LastPort), LastPort)))
    /\ device \in SUBSET {"hw", "ip"}
    /\ heap = <<>> /\ l = 0 /\ tags = <<>> /\ cq = EmptyCq /\ freed = <<>> /\ written = <<>>
    /\ result = 0

\* udp2 goes on when a packet is not sent, the others look at no result.
GoesOn(op) == program \in {"icmp6_echoreq", "get_addr"} \/ (program = "udp2" /\ op = "write")

\* What the program does next, after a call that returned r.
Goes(r) ==
    /\ result' = r
    /\ IF r = -1 /\ ~GoesOn(Head(todo).op)
       THEN todo' = cleanup /\ cleanup' = <<>>
       ELSE todo' = Tail(todo) /\ UNCHANGED cleanup

Doing(op) == todo # <<>> /\ Head(todo).op = op

init ==
    /\ Doing("init")
    /\ heap' = Append(heap, libnet_init(Head(todo).x, "EN10MB"))
    /\ l' = Len(heap) + 1
    /\ Goes(0)
    /\ UNCHANGED <<program, tags, cq, device, list, freed, written>>

\* An autobuilder looks the device up.
FromDevice(c) ==
    CASE c.op = "autobuild_ipv4" -> [c EXCEPT !.x = "ip" \in device]
      [] c.op \in {"autobuild_ethernet", "autobuild_fddi", "autobuild_token_ring"} ->
             [c EXCEPT !.x = "hw" \in device]
      [] OTHER -> c

build ==
    /\ todo # <<>>
    /\ Head(todo).op \notin {"init", "write", "cull", "destroy", "get_hwaddr", "get_ipaddr4",
                             "cq_add", "cq_head", "cq_next", "cq_destroy"}
    /\ LET c == Head(todo)
           tag == IF c.again = 0 THEN 0 ELSE tags[Len(tags) + 1 - c.again]
       IN  \E res \in {Call(heap[l], [FromDevice(c) EXCEPT !.a.ptag = tag])} :
              /\ heap' = [heap EXCEPT ![l] = res.l]
              /\ tags' = Append(tags, res.r)
              /\ Goes(res.r)
    /\ UNCHANGED <<program, l, cq, device, list, freed, written>>

cull ==
    /\ Doing("cull")
    /\ heap' = [heap EXCEPT ![l] = libnet_pblock_coalesce(@).l]
    /\ Goes(0)
    /\ UNCHANGED <<program, l, tags, cq, device, list, freed, written>>

\* The device takes the packet or does not.
write ==
    /\ Doing("write")
    /\ \E c \in {libnet_pblock_coalesce(heap[l])}, taken \in BOOLEAN :
          /\ heap' = [heap EXCEPT ![l] = c.l]
          /\ written' = Append(written, [l |-> l, port |-> Head(todo).x])
          /\ Goes(IF c.ok /\ taken THEN heap[l].total_size ELSE -1)
    /\ UNCHANGED <<program, l, tags, cq, device, list, freed>>

destroy ==
    /\ Doing("destroy")
    /\ freed' = Append(freed, l)
    /\ Goes(0)
    /\ UNCHANGED <<program, heap, l, tags, cq, device, list, written>>

address ==
    /\ Doing("get_hwaddr") \/ Doing("get_ipaddr4")
    /\ Goes(IF (IF Doing("get_hwaddr") THEN "hw" ELSE "ip") \in device THEN 0 ELSE -1)
    /\ UNCHANGED <<program, heap, l, tags, cq, device, list, freed, written>>

cq_add ==
    /\ Doing("cq_add")
    /\ \E res \in {libnet_cq_add(cq, l, Head(todo).x)} : cq' = res.q /\ Goes(res.r)
    /\ UNCHANGED <<program, heap, l, tags, device, list, freed, written>>

\* for_each_context_in_cq: head or next, then the body as long as the iterator
\* has a context.
cq_iterate ==
    /\ Doing("cq_head") \/ Doing("cq_next")
    /\ \E res \in {IF Doing("cq_head") THEN libnet_cq_head(cq) ELSE libnet_cq_next(cq)} :
          /\ cq' = res.q /\ l' = res.r
          /\ todo' = (IF libnet_cq_last(res.q) THEN <<Write, Step("cq_next", 0, 0)>> ELSE <<>>) \o Tail(todo)
    /\ result' = 0
    /\ UNCHANGED <<program, cleanup, heap, tags, device, list, freed, written>>

cq_destroy ==
    /\ Doing("cq_destroy")
    /\ freed' = freed \o libnet_cq_destroy(cq)
    /\ Goes(0)
    /\ UNCHANGED <<program, heap, l, tags, cq, device, list, written>>

Next == init \/ build \/ cull \/ write \/ destroy \/ address \/ cq_add \/ cq_iterate \/ cq_destroy

Spec == Init /\ [][Next]_vars

-----------------------------------------------------------------------------
Upto(i) == Bytes(SubSeq(heap[l].blocks, 1, i))
At(type) == {i \in DOMAIN heap[l].blocks : heap[l].blocks[i].type = type}
Sending == Doing("write")
Finished == todo = <<>>

\* Exceptions, each one a program that does not do what its packet needs:
\* bgp4_notification counts the payload of its command line in the lengths of
\* TCP and IP and hands it to no builder; isl puts its header outside of the
\* Ethernet header, which libnet_write refuses; icmp_timeexceed opens the link
\* layer and builds no link header; ospf_lsa sums an OSPF packet that is shorter
\* than the length it gives.
CountsUnsent == {"bgp4_notification"}
Refused == {"isl", "icmp_timeexceed", "ospf_lsa"}

\* The IP length a sample gives is the length of what lies behind its IP header
\* when it writes the packet, also when headers are rebuilt for a second packet;
\* every checksum it leaves to the library runs over exactly the bytes behind the
\* header it is in; and libnet_write can put together what it has built.
LengthsTrue ==
    Sending =>
        /\ program \notin CountsUnsent => \A i \in At("IPV4_H") : heap[l].blocks[i].len = Upto(i)
        /\ program \notin CountsUnsent \cup Refused =>
              \A i \in Summed(heap[l]) :
                  heap[l].blocks[i].type # "IPV4_H" => heap[l].blocks[i].h_len = Upto(i)
        /\ program \notin Refused => libnet_pblock_coalesce(heap[l]).ok

\* A program that has ended has destroyed each of its contexts, once.
\* icmp6_echoreq and get_addr destroy none; icmp_echo_cq, when a packet is not
\* sent, destroys the queued context it was sending once more.
DestroyedOnce ==
    /\ Finished /\ program \notin {"icmp6_echoreq", "get_addr"} => ToSet(freed) = DOMAIN heap
    /\ program # "icmp_echo_cq" \/ cleanup # <<>> => IsInjective(freed)

\* icmp_echo_cq writes every context of the queue once, the newest first; udp2
\* sends to each port of its list and to no other one, 65535 included, and of a
\* range that begins with port 0 to none.
Listed(token) ==
    IF Len(token) = 1 THEN {token[1]}
    ELSE IF token[2] = OpenEnd THEN token[1] .. LastPort
    ELSE Min(ToSet(token)) .. Max(ToSet(token))
ReachesAll ==
    /\ Finished /\ program = "icmp_echo_cq" /\ cleanup # <<>> =>
        [i \in DOMAIN written |-> written[i].l] = Reverse(SetToSortSeq(DOMAIN heap, <))
    /\ Finished /\ program = "udp2" =>
        {written[i].port : i \in DOMAIN written} =
            UNION {ports \in {Listed(list[i]) : i \in DOMAIN list} : 0 \notin ports}
=============================================================================
