------------------------------ MODULE PacketTests ------------------------------
(****************************************************************************)
(* The network tests of network/arp.c, icmp.c and ethernet.c, from the call *)
(* to the return: the RUNNING_MISSION record, the libnet handle, what each  *)
(* does when a header cannot be built, and the loops over the values it     *)
(* tries.  A storm sends one packet again and again; a grammar test goes    *)
(* through tables of header values; a fuzzer counts a 16 bit value up.      *)
(* When packets leave is StormPacing's subject, not this module's.          *)
(****************************************************************************)
EXTENDS Integers, Sequences, FiniteSets

CONSTANTS
  Values,      \* values of the fuzzers' counter: 2^16
  Codes        \* values of an ICMP code: 2^8

ASSUME TestsAssumption == Values \in Nat \ {0} /\ Codes \in Nat \ {0, 1}

----------------------------------------------------------------------------
(* The tests.  running: the type written to RUNNING_MISSION at the start;   *)
(* ends: whether the end is written too; noDevice: what happens when        *)
(* libnet_init fails; layers: what happens when each header cannot be built;*)
(* destroys: whether the handle is destroyed at the normal end.             *)

Test(running, ends, noDevice, layers, destroys) ==
  [running |-> running, ends |-> ends, noDevice |-> noDevice, layers |-> layers,
   destroys |-> destroys]

ARP_Request_Storm    == Test("ARP_REQUEST_STORM_", TRUE, "return", <<"return", "return">>, TRUE)
APR_Host_Reply_Storm == Test("none", FALSE, "return", <<"return", "return">>, TRUE)
Icmp_storm           == Test("ICMP_STORM_STORM_", FALSE, "exit", <<"ignore", "ignore", "ignore">>, FALSE)
Ethernet_Brodacast_Storm == Test("none", FALSE, "return", <<"return">>, FALSE)
Ethernet_Multicast_Storm == Test("none", FALSE, "return", <<"return">>, FALSE)
Ethernet_Unicast_Storm   == Test("none", FALSE, "return", <<"return">>, FALSE)

ARP_Grammear     == Test("none", FALSE, "return", <<"return", "return">>, TRUE)
Ethernet_Grammar == Test("none", FALSE, "return", <<"return">>, FALSE)
Icmp_Grammar     == Test("ICMP_GRAMMAR_", FALSE, "exit", <<"destroy", "return", "return">>, FALSE)

Icmp_Fuzzer     == Test("ICMP_STORM_STORM_", FALSE, "return", <<"destroy", "return", "return">>, FALSE)
Icmp_Type_Code_Cross_Product ==
  Test("ICMP_TYPE_CODE_", FALSE, "return", <<"destroy", "return", "return">>, FALSE)
Ethernet_Fuzzer == Test("none", FALSE, "return", <<"return">>, FALSE)

Storms == {"ARP_Request_Storm", "APR_Host_Reply_Storm", "Icmp_storm",
           "Ethernet_Brodacast_Storm", "Ethernet_Multicast_Storm", "Ethernet_Unicast_Storm"}
Grammars == {"ARP_Grammear", "Ethernet_Grammar", "Icmp_Grammar"}
Fuzzers == {"Icmp_Fuzzer", "Icmp_Type_Code_Cross_Product", "Ethernet_Fuzzer"}
Names == Storms \cup Grammars \cup Fuzzers

Life ==
  [ARP_Request_Storm |-> ARP_Request_Storm,
   APR_Host_Reply_Storm |-> APR_Host_Reply_Storm,
   Icmp_storm |-> Icmp_storm,
   Ethernet_Brodacast_Storm |-> Ethernet_Brodacast_Storm,
   Ethernet_Multicast_Storm |-> Ethernet_Multicast_Storm,
   Ethernet_Unicast_Storm |-> Ethernet_Unicast_Storm,
   ARP_Grammear |-> ARP_Grammear,
   Ethernet_Grammar |-> Ethernet_Grammar,
   Icmp_Grammar |-> Icmp_Grammar,
   Icmp_Fuzzer |-> Icmp_Fuzzer,
   Icmp_Type_Code_Cross_Product |-> Icmp_Type_Code_Cross_Product,
   Ethernet_Fuzzer |-> Ethernet_Fuzzer]

VARIABLES
  phase,       \* "idle", "opening", "building", "storming" or "exited"
  test,        \* the test that runs, or the one that ran last
  arp, eth, icmp, value,   \* where the loops of the tests are
  tried,       \* history: the combinations of values it built packets from, in order
  done,        \* history: it came to its normal end
  handle,      \* its libnet handle: "closed" or "open"
  Running      \* the RUNNING_MISSION record

loops == <<arp, eth, icmp, value>>
tests == <<phase, test, arp, eth, icmp, value, tried, done, handle, Running>>

\* A packet with the values of the last one is not another combination.
Tried(what) == IF tried # <<>> /\ tried[Len(tried)] = what THEN tried ELSE Append(tried, what)

----------------------------------------------------------------------------
(* ARP_Grammear: seven passes, each a loop over j around loops over m.  A   *)
(* loop over m says which tables it reads and with which index.             *)

TableSize == [ARPHRD_TYPE |-> 21, ARP_POROTOL |-> 20, ARP_OPCODE |-> 20,
              ARP_HARDWARE_SIZE |-> 12, ARP_POROTOL_SIZE |-> 12]

Over(n, index) == [n |-> n, index |-> index]

ArpPass1 == [n |-> 21, inner |-> <<Over(1, [ARPHRD_TYPE |-> "j"])>>]
ArpPass2 == [n |-> 20, inner |-> <<Over(1, [ARP_POROTOL |-> "j"])>>]
ArpPass3 == [n |-> 20, inner |-> <<Over(20, [ARPHRD_TYPE |-> "m", ARP_POROTOL |-> "j"])>>]
ArpPass4 == [n |-> 12, inner |-> <<Over(10, [ARP_HARDWARE_SIZE |-> "j", ARP_POROTOL_SIZE |-> "m"])>>]
ArpPass5 == [n |-> 12, inner |-> <<Over(21, [ARPHRD_TYPE |-> "m", ARP_HARDWARE_SIZE |-> "j"]),
                                   Over(20, [ARP_POROTOL |-> "20", ARP_HARDWARE_SIZE |-> "j"])>>]
ArpPass6 == [n |-> 12, inner |-> <<Over(21, [ARPHRD_TYPE |-> "m", ARP_POROTOL_SIZE |-> "j"]),
                                   Over(20, [ARP_POROTOL |-> "20", ARP_POROTOL_SIZE |-> "j"])>>]

\* The seventh pass goes through every other table for each operation
OpcodeAndTypes == <<Over(21, [ARPHRD_TYPE |-> "m", ARP_OPCODE |-> "j"]),
                    Over(20, [ARP_POROTOL |-> "20", ARP_OPCODE |-> "j"])>>
OpcodeAndSizes == <<Over(12, [ARP_HARDWARE_SIZE |-> "m", ARP_OPCODE |-> "j"]),
                    Over(12, [ARP_POROTOL_SIZE |-> "m", ARP_OPCODE |-> "j"])>>
ArpPass7 == [n |-> 20, inner |-> OpcodeAndTypes \o OpcodeAndSizes]

ArpPasses == <<ArpPass1, ArpPass2, ArpPass3, ArpPass4, ArpPass5, ArpPass6, ArpPass7>>

\* The entry of each table that the packet at p is built from
ArpEntries(p) ==
  LET index == ArpPasses[p.pass].inner[p.inner].index
  IN [t \in DOMAIN index |-> CASE index[t] = "j" -> p.j [] index[t] = "m" -> p.m [] index[t] = "20" -> 20]

ArpLast(p) ==
  /\ p.pass = Len(ArpPasses)
  /\ p.j = ArpPasses[p.pass].n - 1
  /\ p.inner = Len(ArpPasses[p.pass].inner)
  /\ p.m = ArpPasses[p.pass].inner[p.inner].n - 1

\* Mutant: the loop over j goes one too far
ArpStep_far(p) ==
  LET pass == ArpPasses[p.pass]
  IN CASE p.m + 1 < pass.inner[p.inner].n -> [p EXCEPT !.m = @ + 1]
       [] p.m + 1 = pass.inner[p.inner].n /\ p.inner < Len(pass.inner) ->
            [p EXCEPT !.m = 0, !.inner = @ + 1]
       [] p.m + 1 = pass.inner[p.inner].n /\ p.inner = Len(pass.inner) /\ p.j < pass.n ->
            [p EXCEPT !.m = 0, !.inner = 1, !.j = @ + 1]
       [] OTHER -> [pass |-> p.pass + 1, j |-> 0, inner |-> 1, m |-> 0]

\* The packet after the one at p, which is not the last
ArpStep(p) ==
  LET pass == ArpPasses[p.pass]
  IN CASE p.m + 1 < pass.inner[p.inner].n -> [p EXCEPT !.m = @ + 1]
       [] p.m + 1 = pass.inner[p.inner].n /\ p.inner < Len(pass.inner) ->
            [p EXCEPT !.m = 0, !.inner = @ + 1]
       [] p.m + 1 = pass.inner[p.inner].n /\ p.inner = Len(pass.inner) /\ p.j + 1 < pass.n ->
            [p EXCEPT !.m = 0, !.inner = 1, !.j = @ + 1]
       [] OTHER -> [pass |-> p.pass + 1, j |-> 0, inner |-> 1, m |-> 0]

----------------------------------------------------------------------------
(* Ethernet_Grammar: three nested loops.                                    *)

EthernetLast(p) == p = <<17, 11, 11>>

EthernetStep(p) ==
  CASE p[3] < 11 -> <<p[1], p[2], p[3] + 1>>
    [] p[3] = 11 /\ p[2] < 11 -> <<p[1], p[2] + 1, 0>>
    [] OTHER -> <<p[1] + 1, 0, 0>>

----------------------------------------------------------------------------
(* Icmp_Grammar.  i and j index the table of identifiers, type_add asks for *)
(* the next code, and id and stamps say whether Icmp_id and the indices of  *)
(* the timestamps have been assigned.                                       *)

Heads == <<"ICMP_ECHO", "ICMP_UNREACH", "ICMP_TSTAMP", "ICMP_TIMXCEED", "ICMP_REDIRECT">>

\* The switch on head_type, before the header is built
IcmpSwitch(p) ==
  CASE Heads[p.head] \notin {"ICMP_ECHO", "ICMP_TSTAMP"} -> p
    [] Heads[p.head] \in {"ICMP_ECHO", "ICMP_TSTAMP"} /\ p.i < 7 ->
         LET j == IF p.j < 7 THEN p.j + 1 ELSE p.j
         IN [p EXCEPT !.i = IF j = 7 THEN @ + 1 ELSE @, !.j = j, !.type_add = "no",
                      !.id = TRUE, !.stamps = @ \/ Heads[p.head] = "ICMP_TSTAMP"]
    [] OTHER -> [p EXCEPT !.i = 0, !.j = 0, !.type_add = "yes"]

IcmpLast(p) == p.code = Codes - 1 /\ p.head = Len(Heads)

\* After the write: the next type after the last code, or the next code
IcmpStep(p) ==
  LET q == IcmpSwitch(p)
  IN CASE q.code = Codes - 1 -> [q EXCEPT !.type_add = "yes", !.head = @ + 1, !.code = 0]
       [] q.code # Codes - 1 /\ q.type_add = "yes" -> [q EXCEPT !.code = @ + 1]
       [] OTHER -> q

----------------------------------------------------------------------------
(* From call to return.                                                     *)

\* The loops' variables before the first packet
ArpStart == [pass |-> 1, j |-> 0, inner |-> 1, m |-> 0]
EthernetStart == <<0, 0, 0>>
IcmpStart == [head |-> 1, code |-> 0, i |-> 0, j |-> 0, type_add |-> "unset",
              id |-> FALSE, stamps |-> FALSE]

TestsInit ==
  /\ phase = "idle" /\ test = "ARP_Request_Storm" /\ tried = <<>> /\ done = FALSE
  /\ arp = ArpStart /\ eth = EthernetStart /\ icmp = IcmpStart /\ value = 0
  /\ handle = "closed"
  /\ Running = [status |-> "STOPPED", type |-> "ARP_REQUEST_STORM_"]

\* A test is called.  It writes RUNNING_MISSION first, if at all.
begin_test(t) ==
  /\ phase = "idle"
  /\ phase' = "opening" /\ test' = t /\ tried' = <<>> /\ done' = FALSE
  /\ UNCHANGED loops
  /\ handle' = "closed"
  /\ Running' = IF Life[t].running = "none" THEN Running
                ELSE [status |-> "RUNNING", type |-> Life[t].running]

\* The test runner knows one test.  It starts a thread for it and waits for
\* its end; what it hands over is the address of a pointer, so that the device
\* may be anything and libnet_init may fail.
Test_MISS == begin_test("ARP_Request_Storm")

\* The other tests are entry points that nothing in the program calls yet
other_test == \E t \in Names \ {"ARP_Request_Storm"} : begin_test(t)

libnet_init ==
  /\ phase = "opening"
  /\ \/ phase' = "building" /\ handle' = "open"
     \/ phase' = (IF Life[test].noDevice = "exit" THEN "exited" ELSE "idle") /\ handle' = handle
  /\ UNCHANGED <<test, loops, tried, done, Running>>

\* A test returns: its variables go out of scope
leave ==
  /\ phase' = "idle"
  /\ arp' = ArpStart /\ eth' = EthernetStart /\ icmp' = IcmpStart /\ value' = 0

\* Mutant: the handle is destroyed and the loop goes on
build_fails_on ==
  /\ phase = "building"
  /\ \E k \in DOMAIN Life[test].layers :
       \/ /\ Life[test].layers[k] = "return"
          /\ leave /\ handle' = handle /\ tried' = <<>>
       \/ /\ Life[test].layers[k] = "destroy"
          /\ phase' = "building" /\ handle' = "closed" /\ UNCHANGED <<loops, tried>>
       \/ /\ Life[test].layers[k] = "ignore"
          /\ phase' = "storming" /\ UNCHANGED <<loops, handle, tried>>
  /\ UNCHANGED <<test, done, Running>>

\* A header cannot be built
build_fails ==
  /\ phase = "building"
  /\ \E k \in DOMAIN Life[test].layers :
       \/ /\ Life[test].layers[k] = "return"
          /\ leave /\ handle' = handle /\ tried' = <<>>
       \/ /\ Life[test].layers[k] = "destroy"
          /\ leave /\ handle' = "closed" /\ tried' = <<>>
       \/ /\ Life[test].layers[k] = "ignore"
          /\ phase' = "storming" /\ UNCHANGED <<loops, handle, tried>>
  /\ UNCHANGED <<test, done, Running>>

\* The normal end of a test
finish ==
  /\ leave /\ done' = TRUE
  /\ handle' = IF Life[test].destroys THEN "closed" ELSE handle
  /\ Running' = IF Life[test].ends THEN [status |-> "END", type |-> Life[test].running] ELSE Running

storm_begins ==
  /\ phase = "building" /\ test \in Storms
  /\ phase' = "storming"
  /\ UNCHANGED <<test, loops, tried, done, handle, Running>>

\* send_storm_set_time or send_storm_random_time returns
storm_ends ==
  /\ phase = "storming"
  /\ finish
  /\ UNCHANGED <<test, tried>>

\* A grammar test has built and written a packet.  It was not the last:
\* the loops go on
packet(what) ==
  /\ phase = "building"
  /\ tried' = Tried(what)
  /\ UNCHANGED <<phase, test, done, handle, Running>>

\* It was the last: the test ends
last_packet(what) ==
  /\ phase = "building"
  /\ tried' = Tried(what)
  /\ finish
  /\ UNCHANGED test

arp_packet ==
  /\ test = "ARP_Grammear"
  /\ \/ ArpLast(arp) /\ last_packet(ArpEntries(arp))
     \/ ~ArpLast(arp) /\ packet(ArpEntries(arp)) /\ arp' = ArpStep(arp) /\ UNCHANGED <<eth, icmp, value>>

ethernet_packet ==
  /\ test = "Ethernet_Grammar"
  /\ \/ EthernetLast(eth) /\ last_packet(eth)
     \/ ~EthernetLast(eth) /\ packet(eth) /\ eth' = EthernetStep(eth) /\ UNCHANGED <<arp, icmp, value>>

icmp_packet ==
  /\ test = "Icmp_Grammar"
  /\ LET what == <<icmp.head, icmp.code>>
     IN \/ IcmpLast(icmp) /\ last_packet(what)
        \/ ~IcmpLast(icmp) /\ packet(what) /\ icmp' = IcmpStep(icmp) /\ UNCHANGED <<arp, eth, value>>

\* Mutant: the counter stops at its largest value
fuzz_packet_stop ==
  /\ phase = "building" /\ test \in Fuzzers
  /\ value' = IF value < Values - 1 THEN value + 1 ELSE value
  /\ UNCHANGED <<phase, test, arp, eth, icmp, tried, done, handle, Running>>

\* One packet of a fuzzer.  The counter is never above its largest value, so
\* the loop has no end.  (A random length of 0 leaves everything as it is.)
fuzz_packet ==
  /\ phase = "building" /\ test \in Fuzzers
  /\ value' = (value + 1) % Values
  /\ UNCHANGED <<phase, test, arp, eth, icmp, tried, done, handle, Running>>

exited == phase = "exited" /\ UNCHANGED tests

Packet == arp_packet \/ ethernet_packet \/ icmp_packet \/ fuzz_packet

TestsNext ==
  \/ Test_MISS
  \/ other_test
  \/ libnet_init
  \/ build_fails
  \/ storm_begins
  \/ storm_ends
  \/ arp_packet
  \/ ethernet_packet
  \/ icmp_packet
  \/ fuzz_packet
  \/ exited

----------------------------------------------------------------------------
(* What the tests promise.                                                  *)

\* The tables that ARP_Grammear combines: the types of hardware and of protocol
\* alone and with each other, the two sizes with each other, the types with the
\* sizes, and all of them with the operations
TwoOf(a, b) == {{x, y} : x \in a, y \in b}
ArpTables ==
  LET types == {"ARPHRD_TYPE", "ARP_POROTOL"}
      sizes == {"ARP_HARDWARE_SIZE", "ARP_POROTOL_SIZE"}
  IN TwoOf(types, types) \cup {sizes} \cup TwoOf(types, sizes) \cup TwoOf(types \cup sizes, {"ARP_OPCODE"})

\* Every entry of each table with every entry of the others
Entries(tables) ==
  {c \in [tables -> 0 .. 20] : \A t \in tables : c[t] < TableSize[t]}

ArpCombinations == UNION {Entries(tables) : tables \in ArpTables}

\* What ARP_Grammear leaves out.  The third pass ends before the last type of
\* hardware.  The fourth goes over the ten sizes that the table is given, not
\* the two behind them, which are 0 as the first one is.  With a size or an
\* operation no protocol of the table is tried.
ArpLeftOut ==
  {c \in ArpCombinations :
     \/ DOMAIN c = {"ARPHRD_TYPE", "ARP_POROTOL"} /\ c["ARPHRD_TYPE"] = 20
     \/ DOMAIN c = {"ARP_HARDWARE_SIZE", "ARP_POROTOL_SIZE"} /\ c["ARP_POROTOL_SIZE"] >= 10
     \/ "ARP_POROTOL" \in DOMAIN c /\ DOMAIN c \cap {"ARP_HARDWARE_SIZE", "ARP_POROTOL_SIZE", "ARP_OPCODE"} # {}}

\* What it reads from behind the table of protocols instead: whatever is there.
ArpBehindTable ==
  UNION {{[t \in {"ARP_POROTOL", with} |-> IF t = with THEN i ELSE 20] : i \in 0 .. TableSize[with] - 1} :
         with \in {"ARP_HARDWARE_SIZE", "ARP_POROTOL_SIZE", "ARP_OPCODE"}}

ArpExpected == (ArpCombinations \ ArpLeftOut) \cup ArpBehindTable
EthernetExpected == (0 .. 17) \X (0 .. 11) \X (0 .. 11)
IcmpExpected == (DOMAIN Heads) \X (0 .. Codes - 1)
Expected(t) ==
  CASE t = "ARP_Grammear" -> ArpExpected
    [] t = "Ethernet_Grammar" -> EthernetExpected
    [] t = "Icmp_Grammar" -> IcmpExpected

\* A grammar test builds a packet from nothing but combinations of the values it
\* is about, and has tried all of them when it comes to its end: Ethernet_Grammar
\* those of its tables, Icmp_Grammar every code of each of its five types,
\* ARP_Grammear those of its tables, but for the ones its loops leave out, and
\* but for the packets of three loops that are built from a value behind the
\* table of protocols.
AllTried ==
  /\ tried # <<>> => tried[Len(tried)] \in Expected(test)
  /\ phase = "idle" /\ done /\ test \in Grammars => {tried[i] : i \in DOMAIN tried} = Expected(test)

\* A test builds and sends only while its libnet handle is open, whatever
\* header failed before, and no packet of Icmp_Grammar is built from a variable
\* that was never assigned: Icmp_id, the timestamps' indices, type_add.
BuiltFromLiveState ==
  /\ phase \in {"building", "storming"} => handle = "open"
  /\ phase = "building" /\ test = "Icmp_Grammar" =>
       /\ Heads[icmp.head] \in {"ICMP_ECHO", "ICMP_TSTAMP"} /\ icmp.i >= 7 => icmp.id
       /\ Heads[icmp.head] = "ICMP_TSTAMP" /\ icmp.i >= 7 => icmp.stamps
       /\ Heads[icmp.head] \notin {"ICMP_ECHO", "ICMP_TSTAMP"} => icmp.type_add # "unset"

\* A grammar test comes to an end: no loop over its tables and codes hangs.  A
\* fuzzer that is not stopped by an error comes back to its smallest and to its
\* largest value again and again.
TestsProgress ==
  /\ phase # "idle" /\ test \in Grammars ~> phase \in {"idle", "exited"}
  /\ \A v \in {0, Values - 1} :
        phase # "idle" /\ test \in Fuzzers ~> phase = "idle" \/ value = v
================================================================================
