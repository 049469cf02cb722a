# A TLA+ verification of pirate

pirate is a network robustness tester. A browser posts *missions* (kinds of
network test) and an *environment* (host and targets) to an embedded web server,
starts and stops missions, and watches a *monitor* that pings the target while
missions run. This directory models that program, checks it with TLC on small
instances and proves most of its safety properties with TLAPS for every instance. The libraries
that the repository carries and builds on (mongoose, libnet, libpcap) are modelled
too, in the parts that run on Linux.

## The system

| part | source | state | operations |
|---|---|---|---|
| control plane | `ui/ui.c`, `include/comm.h` | `mission_list`, `env`, the command in hand | `/mission`, `/env`, `/runner`, `/scan`, `/setup` handlers; `command_control`, `mission_ctl` |
| monitor control | `monitor/monitor.c` | `ping_tid` | `monitor_ctrl` with `start_ping`, `stop_ping`; `check_mission_queue` |
| ping thread | `monitor/ping.c`, `monitor/ping_common.c` | phase, SIGINT handler, `exiting`, `in_pr_addr` | `ping_main`, `setup`, `main_loop`, `pr_addr`, `sigexit`, `finish` |
| ping accounting | `monitor/ping_common.h`, `.c`, `monitor/ping.c` | `ntransmitted`, `nreceived`, `nrepeats`, `nerrors`, `acked`, `pipesize`, `rcvd_tbl` | `pinger`/`send_probe`, `gather_statistics`, `acknowledge`, `in_flight`, `receive_error_msg`, `parse_reply` |
| ping pacing | `pinger` in `monitor/ping_common.c` | `cur_time`, `tokens` | the token bucket |
| feedback channel | `Feedback`, `iterate_callback`, `run_server` in `ui/ui.c`; `ui/mongoose.c` | `feedback_list`, `fblock`, the connections | link a result, drain, write |
| lists | `include/mylist.h` | `Flink`, `Blink` | eight list operations |
| storm sending | `network/network.c`, `comm/sleep.c`, `comm/timer.c`, `include/timer.h` | `bytes_sent`, the delta timer, the static `nap` and `skip_length` | `send_storm*`, `do_sleep` |
| test runner | `network/network.c` | the `Running` record | `Test_Work`, `Test_MISS`, `RUNING_MISSION_W` |
| packet generators | `network/arp.c`, `icmp.c`, `ethernet.c` | a libnet handle, loop indices, counters | one function per test |
| web server | `ui/mongoose.c` | connections, their buffers, flags and endpoints | the polling loop: accept, read, parse, handle, write, close |
| packet library | `network/libnet/src`, `include` | a context: protocol blocks, tags, flags | one builder per header, coalescing, checksums, writing, clearing; the context queue |
| libnet's sample programs | `network/libnet/sample` | | one sequence of library calls each |
| filter compiler | `gencode.c`, `grammar.y`, `optimize.c`, `bpf/net/bpf_filter.c` in `network/libpcap` | globals of the code generator, blocks, values, the program | parse, optimize, lay out, validate, run |
| packet capture | `pcap-linux.c`, `pcap.c` in `network/libpcap` | a handle, its socket, ring and mapping; the device; the list of handles to close | create, activate, set filter and modes, read, break, close |
| other third-party code | `comm/cJSON.c`, web libraries | | |

Two threads run. The *server thread* is mongoose's event loop: it calls one
handler at a time and, about every two seconds, `iterate_callback` for each
connection. The *ping thread* is created by the first START or RESUME; it sends
probes, receives answers and calls `Feedback`. They meet in `feedback_list`
(under `fblock`, except for one unlocked look), in the environment (copied when the
ping thread starts) and through SIGINT, which `stop_ping` sends to the ping
thread. `ping_main` was a program of its own and still leaves through `exit()`.
The network tests run in a thread of their own that `Test_MISS` joins; the call
that would start the test runner is commented out in `command_control`.

What is hard here: the ping thread and signals act in the middle of a request;
the list of missions has duplicates; the feedback list is looked at without the
lock while the other thread is half way through an insertion; answers are lost, repeated,
late and reordered, and are known only by 16-bit numbers that wrap; time is
converted between units with rounding; `do_sleep` keeps static state from one storm
to the next; the grammar tests end only if flags and indices of nested loops work
together; the web server processes a pipelined request from inside the end of the
one before it; a header of libnet may be rebuilt below others that hold its length;
the optimizer moves edges with values that its own changes made old; a filter is
changed while packets that the old one let in wait in a ring that the kernel goes
on filling; an activation that fails half way has to undo what it did through
pointers and flags that four functions share. `PROJECT.json` lists these hazards with
the line where each bites.

## Modules

| module | models | composed with |
|---|---|---|
| `MissionRegistry` | abstract: sets of listed and running types, one monitor | implemented by `MissionControl` |
| `MissionControl` | control plane, monitor control, life of the ping thread and of the process | |
| `MissionControlProofs` | the theorems about `MissionControl` | extends it |
| `ListEntry` | the list operations as operators on memory | base of `ListMachine` and `FeedbackQueue` |
| `ListMachine` | any sequence of list operations on several lists | extends `ListEntry` |
| `FeedbackChannel` | abstract: a first-in first-out channel read in batches | implemented by `FeedbackQueue` |
| `FeedbackQueue` | `Feedback`, `iterate_callback`, the server's timer and connections | extends `ListEntry` |
| `PingWindow` | what the ping thread counts | |
| `PingPacing` | when the ping thread sends | |
| `StormPacing` | when the network tests send | |
| `PacketTests` | what the network tests send, from call to return | |
| `LibnetHeaders`, `Pblock`, `LibnetBuild` | header layouts, protocol blocks, builders | `LibnetBuild` extends the other two |
| `LibnetPackets` | a program that builds, changes, writes and clears packets | extends `LibnetBuild` |
| `LibnetCq`, `LibnetSamples` | the context queue and port lists; the sample programs | `LibnetSamples` extends `LibnetCq` and `LibnetBuild` |
| `WebServer` | mongoose's polling loop and its clients | |
| `BpfMachine` | the filter machine and its validator | base of all Bpf modules |
| `BpfLink`, `BpfLinkTests`, `BpfPrimitives`, `BpfExpressions`, `BpfGrammar` | from the expression to a tree of blocks | each extends the one before |
| `BpfCode`, `BpfOptimize` | blocks and their layout; the optimizer | extend `BpfGrammar` |
| `BpfMeaning` | abstract: what a filter means, said of the packet | reference for `BpfCompile` |
| `BpfCompile` | `pcap_compile`, step by step | composes the Bpf modules |
| `CaptureRing` | reading from rings and sockets, changing the filter, breaking the loop | |
| `CaptureHandle` | opening, activating, closing handles | |
| `MCPingThread` | `PingWindow` and `PingPacing` in one run | extends both |
| `MCNetworkTests` | `StormPacing` and `PacketTests` in one run | extends both |
| `MCLists` | `ListMachine` and `FeedbackQueue` in one run | extends both |
| `MCCapture` | `CaptureRing` and `CaptureHandle` in one run | extends both |
| other `MC...` | the small instances for TLC | |
| `ListEntryProofs` | what each list operation does to its list and to every other one | extends `ListEntry` |
| `ListsProofs` | the theorems about `ListMachine` and `FeedbackQueue` | extends both and `ListEntryProofs` |
| `DivisionLemmas` | quotient and remainder | used by the next three |
| `PingThreadProofs` | the theorems about `PingWindow` and `PingPacing` | extends both |
| `NetworkTestsProofs` | the theorems about `StormPacing` and `PacketTests` | extends both |
| `CaptureRingProofs` | the theorems about `CaptureRing` | extends it |
| `CaptureHandleProofs` | the theorem about `CaptureHandle` | extends it |

A run of two modules explores the behaviours of each while the other one keeps an
initial state: nothing the one reads is written by the other.

Definitions whose comment begins with "Mutant:" or "A fault:" are wrong versions of the definition
that follows; no specification uses them. Putting one in the place of the
original makes TLC refute the property `PROJECT.json` pairs it with, which shows
that the property depends on that code.

### MissionControl

`missions` is the list as a sequence of `[type, status]` records, head first;
`env` the three address strings; `cmd` the command `/runner` is executing;
`reply` the class of the last reply. `ping` is the phase of the ping thread
(`none`, `starting` in `ping_main` and `setup`, `top` of `main_loop`,
`receiving`, inside `pr_addr`); `sigint`, `pending`, `exiting` are the disposition of
SIGINT, a signal sent and not yet taken, and the flag of `ping_common.c`; `proc`
says how the process ended. `created` and `stopSent` are history.

One action is one handler, with one exception: `/runner` is `parse_runner`
(search, `command_control`, `mission_ctl`) followed by `monitor_start` or
`monitor_stop` (`monitor_ctrl`), so that the ping thread and signals can act in
between. The locks `rwlock` and `rwlock_env` are not modelled as state: only the
server thread takes them in the program as it is built. A request whose fields
are missing where the code does not look is `bad_request`. A list is walked from the
head: `IsFirst` names the entry a walk stops at. The ping thread's actions follow `main_loop`;
`sigexit` is the signal taken by the ping thread, `interrupt` a Ctrl-C taken by
either. When the server thread takes it while the ping thread is in the
resolver, `longjmp` runs on the wrong stack: undefined in C, and the model lets
the process crash (the other outcomes, in which it goes on, are those of the
second disjunct). Addresses are model values; JSON text, logging and reply
wording are left out. `pthread_create` and `malloc` succeed.

### ListEntry, ListMachine

A memory is a record of two functions, `Flink` and `Blink`, from addresses to
addresses; every operation of `mylist.h` maps the memory before the call to the
memory after it, store by store. `IsChain(m, h, s)` says that the list of head
`h` is the sequence `s` in both directions. `ListMachine` calls the operations
in any order on several heads that share entries, next to a plain sequence per
head. The precondition of `RemoveHeadList` and `RemoveTailList` (a list that is
not empty) is the one every caller tests.

### FeedbackQueue

The stores of `InsertTailList` are three steps (the entry's own fields; the last
entry's `Flink`; the head's `Blink`), because `iterate_callback` tests
`IsListEmpty` without the lock. Drain, unlock and write are separate steps, so
that `Feedback` can run between the drain and the write. Nodes are allocated
from `free` and given back, so an address is used again. `conns` is mongoose's
list of connections, newest first; clients come and leave at any moment, and the
server learns of it in its next poll. `chain`, `fed` and `sent` are history.
Stores of one word are atomic and in program order: the project is built without
optimisation for x86.

### PingWindow

`ntransmitted` is kept exactly, sequence numbers modulo `W` (2^16 in the code).
Any of the last `MaxAge + 1` probes may be answered at any moment and any number of
times; `MaxAge` is at most half of the numbers minus one, the age up to which
the code claims to tell old from new. `rcvd` is the set of numbers whose bit is
set. `answered` and `worst` are history. `parse_reply` passes `csfailed` as 0,
so a reply with a bad checksum is counted as any other and is not an action of
its own; options that only the stand-alone program can set are off.

### PingPacing

The clock counts microseconds and is read as seconds and microseconds;
`Elapsed` computes milliseconds from them as the code does, with C's division.
The thread may wake up at any moment. `interval` is positive, as in the library
build.

### StormPacing

The loop of `send_storm` and the loops of the sweeps (`Icmp_Fuzzer`,
`Icmp_Grammar`, `Icmp_Type_Code_Cross_Product`, `Ethernet_Fuzzer`) around `do_sleep`.
`elapsed` is the clock and `stamp` the delta timer, both in microseconds since
`start_time`; `bytes_sent`, `nap` and `skip_length` are COUNTERs of `Word` values.
`write` is `libnet_write` with `do_sleep` up to its call of `select`; `wake` is the
return of `select` with the rest of the turn. `skip`, `nap_untimed`, `nap_until_due`
and `fall_behind` are the ways through `do_sleep`. A sweep goes on after a failed
write with a length of -1 and takes a timestamp in every turn; `send_storm` returns
on a failure and takes none while it catches up. Storms are measured in CPU time,
which has no fixed relation to the clock, so one may end after any packet.
`sent`, `failed`, `negative` and `calls` are history. `ARP_Grammear` and
`Ethernet_Grammar` are not among the sweeps: they add a variable without a value
to `bytes_sent`, and nothing can be said of their pace.

### PacketTests

Each test is a record of what it does with the `Running` record, with a device
that cannot be opened, with each header that cannot be built, and with its handle
at the end; `Life` collects the twelve. A storm has one packet. The loops of
`ARP_Grammear` are data (`ArpPass1` to `ArpPass7`: bounds, and which table is read with
which index), stepped through by `ArpStep`; `EthernetStep` is three nested loops;
`IcmpSwitch` and `IcmpStep` are the body of `Icmp_Grammar` before and after the write.
`arp`, `eth`, `icmp` and `value` are the positions of these loops, `tried` the combinations
of values that packets were built from so far (history). Header contents are abstracted to
the tables they come from and the index into each (`ArpEntries`), also where that is 20 in a table of 20;
when packets leave is the subject of `StormPacing`.

What `AllTried` expects of `ARP_Grammear` is said of its tables, not of its loops: `TableSize` has their
lengths, `ArpTables` which of them are combined, and `ArpCombinations` every entry of the one with
every entry of the other. `ArpLeftOut` lists what the code does not try of these (the last
hardware type with the protocols, the last two protocol sizes with the hardware sizes, every protocol with a
size or an operation), and `ArpBehindTable` what it builds instead, from the value behind the
table of protocols.

### LibnetHeaders, Pblock, LibnetBuild, LibnetPackets

A context is a record with the list of its blocks, innermost first. Of a block the
model keeps its type, size and tag, how many bytes were copied in, whether they are
whole fields of a struct without padding, which bytes its checksum spans, and the two
fields that other calls change (`ip_hl`/`th_off`, `ip_len`). Every builder is an
operator from a context and its arguments to a context and a tag or -1; an error
deletes the block as the code does. `LibnetPackets` is a program that builds from the
inside out, rebuilds headers through their tags with other sizes, gives wrong
arguments, switches checksums off, writes and clears. It passes true lengths and
does not resize a block under a UDP, GRE or OSPF header, whose `h_len` no call can
put right.

### LibnetCq, LibnetSamples

A sample program is the sequence of its library calls with the arguments that matter,
run by `Next` call by call; a call that fails sends it to its label `bad`. Loops are
run twice, payloads have 0 or 5 bytes, ports end at 4 instead of 65535. The
programs that flood a target are left out.

### WebServer

The functions of `mongoose.c` are operators on the record of a connection (receive and
send buffers, flags, endpoint, content length); the actions are the steps of
`mg_poll_server`: accept, the read pass, the write pass, the closing pass, and the clock. A
client has a script of requests that it may pipeline, sends its bytes in any pieces,
falls silent or goes. Bytes are units: head, empty line and body of a request, header and
data of a frame. What files, CGI programs and uninitialised fields hold is chosen
by the environment. Connections do not read each other's records, so one is explored;
the iteration over several is in `FeedbackQueue`.

### The Bpf modules

A word of the machine is the 32-bit integer with its bits. What a function of
`gencode.c` returns is a tree (blocks, and, or, not, or the error that ends the
compilation); `BpfCode` links the blocks by threading open branches through `jt` and `jf`,
as `backpatch` and `merge` do, and lays the program out with long jumps where 8 bits are
too few. `BpfOptimize` has the passes of `optimize.c`: levels, dominators, closures, edge
sets, use and definition, value numbering, folding, dead stores, edge moving, pull-ups,
interning. `BpfCompile` takes these one phase at a time, so every pass has a state of its
own and properties can be said after each. `BpfMeaning` is independent of the code: a
described packet, how it looks on the wire, and whether an expression is true of it.
The tree enters as the parser reduces it; the scanner and the host's name tables are
abstracted to what they deliver.

### CaptureRing

`ring` is the memory shared with the kernel: slots with an owner, one packet each (V1,
V2) or a block of them (V3); without a ring, `kern.queue` is the socket's queue. The
kernel stores a packet if the filter on the socket accepts it and there is room, and
hands over a block when it is full or by its timer. A read is a sequence of steps (look,
poll, packet by packet, end of block) between which packets arrive and a signal handler
calls `pcap_breakloop`. Setting a filter is the sequence of `pcap_setfilter_linux_common`,
`set_kernel_filter` and the count of waiting frames, each step with its failure: that of the total filter, of
the socket's mode, of draining the queue, of the new filter, and of `SO_DETACH_FILTER`, after which the filter
that was on the socket is still there and nobody knows (`Detach`; `stuck` records it). A read that
returned -1 leaves the handle as it is, and the application may read on: in a V3 ring from the start of the block.
A frame can be bad in two ways: its place is outside the ring's frame, or a cooked header does not
fit in front of it. Without a ring the time stamp of a packet may not be got. `fix_program` and
`fix_offset` are modelled by what they do: constants returned become 65535 without a
ring; offsets into the cooked header are moved or make the filter unfit for the
kernel. `fate` and `last` are history; a packet that lies before a failure in its block is `back`. In a ring in cooked mode the filter is run before the
header it was compiled for has been built; its verdict there is any.

### CaptureHandle

One variable holds the handles, the device, the open sockets, rings, mappings and
`pcaps_to_close`. An activation is a sequence of steps that interleaves with the other
handle's; at every call of the system there is an alternative in which it fails, and
what the code then does: fail, cooked mode, the old kind of socket, no ring. Memory
is the set of allocated things and the set of pointers that are not NULL, so that a
second `free` is seen; `leaked` remembers what was allocated when its pointer was given new memory, and
the step in which that happened. The calls with which `pcap_cleanup_linux` gives the device its modes back
are taken to succeed when the handle has a socket; a name of the monitor interface that is NULL
ends the program there (`stage = "crashed"`). `Systems` fixes what the kernel and the driver can do. The code
lets a handle that failed be activated again, and so does the model. At exit
`pcap_close_all` closes the handles on the list one by one, and the system what is
open besides. `pcaps_to_close` is linked through the handles, and a handle that is on
it can be put on it again: the list then leads back to that handle for ever, which
`looped` records, and what lay behind it is out of reach. From there the model follows
only that handle, to its close: a walk down the list that looks for another one would not end.

## Runs

| run | bounds | shows |
|---|---|---|
| `control` | 2 mission types, 1 address and the empty one, 3 entries | types; duplicates never run; running missions are watched; one ping thread; `/runner` answers truly; the list implements `MissionRegistry`; a SIGINT ends the process |
| `monitor_stop` | same | *violated*: stopping the monitor keeps the server up |
| `client_init` | same | *violated*: INIT is answered with the mission list |
| `lists` | 2 heads, 3 entries; 2 nodes, 3 calls, a websocket and a plain connection | every list is right in both directions, results are true; the shared list well formed, no freed node linked, nothing lost, repeated or overtaken; it implements `FeedbackChannel`; results are written while there is a websocket |
| `packets` | payloads of 0 and 215 bytes, options of 0, 3 and 44, 4 kinds of context, 2 changes | no block lost, nothing unwritten sent; checksums span and land right; a failed call adds nothing; `ip_len` follows TCP options |
| `samples` | 39 programs, 2 payload sizes, port lists up to 4, 3 contexts | lengths true and accepted; contexts destroyed once; iterator and port lists reach everything |
| `web` | one connection, 12 scripts of up to 3 requests, buffers of 3 units, 2 ticks of idleness | requests handled once and answered in turn; closing leaves nothing behind and cuts no reply off; every connection ends; complete requests are answered |
| `bpf` | the filters and packets of `MCBpfCompile`: every kind of primitive, every link type | a filter accepts what it says; no pass changes what it returns; what is installed is sound; the loops end |
| `ping` | 6 numbers, 9 probes, age up to 2, 2 repeats, 2 errors; a millisecond of 3 us, a second of 4 ms, interval 4 ms, preload 2 | duplicates, receptions and pipe size are exact; the rate is kept up to rounding |
| `network` | 2 speeds, packets of 1 and 2 bytes, 5 packets a storm, delays 0, 1 and 5, COUNTERs of 2^16; all tables and codes as in the code, a fuzzer counter of 16 values | never ahead of the speed; naps are short and end when due; every combination tried, but for those that `ARP_Grammear` leaves out; nothing unassigned used, no destroyed handle used; grammar tests end, fuzzers go round |
| `capture` | 2 slots, 3 packets of 3 kinds, 5 ways of reading, one change of a setting, one break; 2 handles, 4 systems, 4 sets of options, one failing call | filter and direction obeyed across their change; each packet handed over in order, with its lengths, and once but for what lies before a bad frame in a block; a break ends the loop; handles hold what they use and leave nothing behind |
| `twice_listed` | the handles of `capture` | *violated*: a handle that was closed or failed is out of the list of handles to close |

Why the bounds are enough. Three entries of two types put a duplicate in front
of, between and behind other entries, and the proofs remove the bound. Three
calls on two nodes let a result arrive before, during and after a drain and an
address come back while another result is queued; the plain connection stands in
front of the websocket or behind it. Nine probes on six numbers use every number
once and half of them again, so that the table, the ages and `acked` all meet the wrap.
A second of twelve microseconds with an interval that is not a divisor of
the rounding error makes every phase of the microsecond counter happen, in both
directions. A byte takes 8/3 or 8/5 of a unit of time in `network`, so that due times are rounded,
a delay of 5 puts the test several packets behind, storms follow one another without
end, and a sleep longer than `MaxNap` (reached only after the counter wrapped) goes on for ever. In
`network` only the fuzzers' counter is shortened; what they do does not depend on its
value. The sizes of `packets` make `ip_len` cross a byte (215 + 44), leave options
that are not whole words (3) and are too long (44). A buffer of three units in `web` is
smaller than a request with its body, and two requests fit partly. Three packets on two
slots fill the ring, wrap it and lose one; with two packets to a block, a block is
full, retired early, left half read, or bad at its second packet. Of the kinds one has no room for a cooked header, one is
tagged and one lies outside its frame; the rings are V1, V2 in cooked mode and V3. Of the filters one
goes to the kernel and one is too long for it. Any of the calls that set a filter, a poll, a receive or a time stamp may fail, without a bound.
In the part on handles one failing call at any place, in either of two
handles that share the device, passes every cleanup path; paths that depend on
the kernel (no ring, no packet sockets) or on the device (not a wireless one) need no failure and meet one on top, so that
a handle in monitor mode fails, is activated again and fails again.

A terminated process stutters in `control` and in `network`, and `lists`, `ping` and
`bpf` never stop or stutter at the end, so deadlock is checked there. The programs of `packets` and
`samples` come to an end, the clients of `web` have finite scripts, and in `capture` the
application may stop after an error or at exit.

### Fairness

`control`: a handler runs to its end (`monitor_start`, `monitor_stop`), the
ping thread is scheduled, set-up and resolver calls end (the resolver has its own
timeout), a pending signal is delivered. Strong fairness for `recv_done`: the
receive loop leaves when its non-blocking `recvmsg` finds nothing, and answers do
not arrive faster than they are read forever. `lists`, in its part on the feedback channel: both threads are
scheduled, time passes, and a thread waiting for `fblock` gets it when the other
gives it back again and again (strong fairness, as glibc's rwlock wakes a waiting
writer). `network`: the thread of the test runs
(weak fairness of opening the device and of the next packet; a header may fail at any time).
`web`: the polling loop goes round, and the clock moves on while it does (strong
fairness of `poll_later`: `select` ends after its timeout). `capture`: the reading
thread runs and the kernel's timer of a block fires; poll ends when it has a timeout.
Nothing is assumed of clients, of the application or of the network.

### Disagreements

Three runs refute what a comment, a message or the client says of the code; each
is a finding in `PROJECT.json`.

* Stopping the last mission ends the server: `finish()` calls `exit()` in the ping
  thread, while the log only says that the monitor thread exits.
* INIT from a new client with a mission listed dereferences NULL in `push_mission`.
* A capture handle can be put on the list of handles to close twice in one activation: it enters
  monitor mode and is listed; binding its socket leaves an error there, the code falls back to the old kind of
  socket, makes the device promiscuous and lists the handle again. The list now leads back to
  it, and closing the handle, which takes it out once, leaves freed memory on the list. Found by
  the proof of `HandleSound`, which needs a list without repetitions.

Met on the way, part of the models, with no run of their own:

* The text of an ICMP error never reaches the browser (`Content` in `FeedbackQueue`).
* `acknowledge` lets a late answer move `acked` back.
* `ARP_Grammear` reads entry 20 of a table of 20 in three of its passes, where it means to go through the table; its
  third pass never tries the last of the 21 hardware types.
* `libnet_build_tcp` adds to `ip_len` in network byte order (`IpLenFollowsTcp` says
  when the result is right all the same).
* `a/0` in a filter compiles to a program that the validator refuses.
* A TPACKET_V3 ring read with a count of 0 never gets beyond its first block, while
  pcap_loop(3PCAP) gives 0 the meaning of -1; it counts blocks for packets when a filter
  is set, so packets of the old filter may come through; a count may be exceeded.
* After a read that failed, the next read of a V3 ring hands the packets that precede the bad frame in
  its block over again, and a bad frame is never released: it stops every later read.
* Without a ring, a packet that was received is lost when its time stamp cannot be got.
* The result of `SO_DETACH_FILTER` is ignored: `pcap_setfilter` returns 0 with the filter that refuses everything still on the socket.
* The list of link types that `activate_new` made is lost when `activate_old`, after a bind error, makes it again.
* A ring in cooked mode runs the filter on bytes without the cooked header.
* When monitor mode was entered and a later step of the activation fails, the mode is
  restored through a descriptor of -1 and stays; `must_do_on_close` is kept for the
  next activation of the handle, which is then on no list. When that one fails too before it has a
  monitor interface, the cleanup deletes an interface whose name is NULL, and the program crashes in `strncpy`.
* Monitor mode on the "any" device is refused without closing the socket.

## Proofs

Every theorem states a property of a run, of the specification which that run checks, without its fairness;
where a run explores several components side by side (`lists`, `ping`, `network`, `capture`), of the component that
the property is about (`ListSpec`, `Spec` of `FeedbackQueue`, `WindowSpec`, `PacingSpec`, `StormSpec`, `TestsSpec`, `CaptureSpec`, `HandleSpec`).
The run shows it on a small instance, the theorem for every value of the constants that satisfies the module's `ASSUME`. The bounds of the exploration (numbers
of calls, probes, packets, settings, failures) are constants of the theorems like all others, so that
nothing is left of them but that they are natural numbers.

| theorem | property | inductive invariant | assumed |
|---|---|---|---|
| `TypeCorrect`, `OnlyFirstRuns`, `MissionsAreMonitored`, `OnePingThread`, `RunnerAnswersTruly`, `RegistryRefined` | the run `control`, without liveness | `IInv` | `ControlAssumption` |
| `ListsStayWellFormed`, `ResultsStayCorrect` | `ListsWellFormed`, `ResultsCorrect` | `ListInv` | `ListAssumption` |
| `QueueStaysSound`, `ResultsConserved`, `QueueImplementsChannel` | `QueueSound`, `Conservation`, `ImplementsChannel` | `QueueInv` | `QueueAssumption` |
| `CountsStayExact`, `PipesizeStaysExact` | `CountsExact`, `PipesizeExact` | `WindowInv` | `WindowAssumption` |
| `RateStaysBounded` | `RateBoundRounded` | `PacingInv` | `PacingAssumption` |
| `SpeedAlwaysKept`, `NapsStayRight` | `SpeedKept`, `NapsAreRight` | `StormInv` | `StormAssumption`, `NoWrap` |
| `AlwaysBuiltFromLiveState` | `BuiltFromLiveState` | `TestsInv` | `TestsAssumption` |
| `FilterAlwaysObeyed` | `FilterObeyed` | `CaptureInv`, `RecvPlace` | `RingAssumption` |
| `AlwaysHandedAsArrived` | `HandedAsArrived` | `HandedInv` with these two | `RingAssumption`, `LengthAssumption` |
| `HandlesStaySound` | `HandleSound` | `HandleInv`, `LeakInv` | `HandleAssumption` |

TLC evaluates every assumption on the runs. Three say something about the code's
arithmetic: `WindowAssumption` lets answers be at most half a window (32767 probes)
old, and `NoWrap` lets a storm send no more than about 2 terabytes, so that the 64-bit product of
bytes and microseconds in `do_sleep` does not wrap. `LengthAssumption` lets a filter return at least the snapshot length, as
`pcap_compile` ends every filter, and at least 14 bytes, and a packet have no more than the 65535
bytes that `fix_program` makes a filter return. The 14 bytes are needed: a packet cut before the place of
its VLAN tag is handed over without it, and its length on the wire is then that of the
untagged packet. `HandleAssumption` only gives the options their types and tells handles and
sockets from the absence of one.

### Control plane

`MissionControlProofs` proves, for every set of mission types and addresses and
every bound on the list, from `ControlAssumption` alone:

* `TypeCorrect`, `OnlyFirstRuns`, `MissionsAreMonitored`, `OnePingThread`: the four
  invariants of the run `control`;
* `RunnerAnswersTruly`: its action property;
* `RegistryRefined`: its refinement, `Spec => ImplementsRegistry`.

None of the invariants is inductive. That only the first entry of a type runs
must be known before STOP can be said to clear a type; that a running mission is
watched fails in the middle of a START, between `mission_ctl` and
`monitor_ctrl`. `IInv` therefore adds to the types, `OnlyFirstOfTypeRuns` and `SinglePing` two
facts about the middle of a request: `MonitoredInv` (while no START or RESUME is
in hand, something running implies a ping thread) and `CommandInv` (the command in
hand has had its effect on the list: the type runs after START, does not after
STOP). The argument has three layers: facts about the list operators
(`FirstExists`, which uses that a nonempty set of naturals has a least element,
`ControlKeepsList`, `StartRuns`, `StopStops`, `PostKeepsRunning`); preservation
of `IInv` action by action (`RunnerStep`, `MonitorStep`, `StepHolds`); and the
refinement, where START maps to `Start`, STOP to `Stop`, `monitor_start` to
`Watch` or a stutter, `monitor_stop` to `Dismiss` or a stutter, and every end of
the process to `Die`.

### Lists and the feedback channel

`ListEntryProofs` is about memory: a call of `mylist.h` on a list turns the
chain of that list into the chain that the call promises (`InsertTailChain`,
`InsertHeadChain`, `RemoveEntryChain`, `SplicedChain` for `AppendTailList` with the head
taken out), and leaves every list apart from it as it is (the lemmas `...Apart`). The
proofs go through the value of every field after the call. RemoveHeadList and
RemoveTailList are reduced to RemoveEntryList. `ListsWellFormed` alone is not
inductive: two chains could share an entry, and removing it from one would break the
other. `ListInv` adds that they do not.

`FeedbackQueue` uses the same lemmas, but an insertion is three writes there, and the other
thread looks in between. `QueueInv` says what the list is at each of them
(`Links`: before the head's Blink is written, the memory with that field written is the
chain), who holds the lock where (`LockHeld`, `Excluded`), that the node in hand and the chain are allocated
and differ (`NodeInHand`, `ChainAllocated`), and `Conservation`. The refinement needs it
for the drain: what `iterate_callback` takes is the head of the chain, hence the oldest
message of the channel.

### Ping

The duplicate table is right because at most half of the numbers can still be answered:
two probes that can be have different numbers (`DifferentNumbers`), and the number of the next
probe is not theirs (`ClearedForNext`, the bit that `pinger` clears). The difference of two wrapped numbers
is the true age when it is at most half a window (`AgeExact`). `WindowInv` is the table's part of `CountsExact` with the
types and `pipesize = worst`.

`RateBoundRounded` is not inductive, since it forgets what is left in the bucket. `PaidFor` adds the tokens to the
left side and measures to `cur_time` instead of now: every probe pays an interval out
of what the clock has put in. What the rounding adds to each probe is bounded by `CDivBound`
(C's division towards zero) and `ElapsedBound` (microseconds that run backwards across a second).

### Network tests

`StormInv` ties the static variables to the clock: the bytes counted are those sent
less the failures (`BytesCounted`), only the first packet is sent without a timestamp (`Stamped`), what a test
may send without looking at the clock was already due when it last did (`CatchingUp`), a test that sleeps
wakes when its bytes are due (`AsleepUntilDue`), one that is awake is due (`AwakeWhenDue`), and as long as
`bytes_sent` has not gone below zero a `nap` is at most the time of two packets (`NapsBounded`). The arithmetic is in
lemmas on quotients (`DueExact`, `DueSoon`, `DueLater`, `NapExact`): `__div64_32` of a product that does
not wrap is the quotient, and a packet more makes it grow by at most what a packet takes.

`BuiltFromLiveState` is not inductive for `Icmp_Grammar`, whose nested loops assign a
variable in one pass and use it in another. `IcmpLive` says which variables are assigned
at which head, code and index; `IcmpSwitchLive` and `IcmpStepLive` take it through the loops.

### Packet capture

What makes `FilterObeyed` hold in a ring: the packets that were there before a filter was
set are run through it by the handle, as many as `pcap_setfilter_linux_mmap` counts. `CaptureInv`
says why that number is enough. The kernel's packets lie ahead of the reader without a gap
(`Contiguous`); a packet that came since the filter is on the socket passes it (`Numbered`, `NewPass`);
one that came before is nearer to the reader than the handle still filters, and while the
slots are counted it is not among those counted (`OldCounted`): when the kernel owns a
slot, what waits lies nearer (`EmptyBeyond`). Each read moves the reader one slot and lowers the number by one,
so that this is kept. Without a ring `QueueDrained` says that the queue was read empty while the
filter that refuses everything was on; `SettingFilter` says how far `set_kernel_filter` has come. `BlockRead`
and `RecvPlace` give the packet in hand its place. Cooked rings, V3 rings and a socket that could not be
drained are excepted by the property itself, as the code excepts them. That a filter hides nothing needs to be said of the detach: what
stays on the socket when it fails is known to the handle only as `stuck`, with the filter run in userland, and the
next filter that the kernel takes replaces it.

`HandedAsArrived` needs the order of what waits. `HandedInv` adds to `CaptureInv`: the numbers of the
packets rise from the place of the reader, in a block and from slot to slot, to where the kernel
writes (`InOrder`, which needs `Contiguous` for V3 rings too); every waiting packet has the length it
came with, uncut or cut by a filter that leaves the snapshot length and the VLAN tag (`Lengths`, `Fits`); and
`fate` says of a number that it is stored, or back after a failure, exactly when a packet with it waits where the reader has not yet looked
(`FateKept`, with `Unread`). A number is back only while it lies in the reader's V3 block before a bad frame
(`Reread`): such a block is never released, so that nothing that is looked at again was overtaken. A packet added by the kernel is the newest of all (`UnreadAdded`), what the reader
looks at is the oldest (`QueueTaken` and its like for slots and blocks), so none is skipped, repeated or overtaken.

`HandleSound` is about handles that fail anywhere. `HandleInv` says for each handle how what it has fits
how far it has come: which memory is allocated and that every pointer but that of the oneshot buffer is to
allocated memory (`MemoryOk`: this is why nothing is freed twice, though the same pointers are freed in
four functions); which modes it may have set (`ModesOk`); that it owns exactly the socket of `fd`, or before that of
`sock` (`SocketsOk`); and that it is on the list if and only if it has something to undo (`ListingOk`, up to a handle that is there
twice). Of the device it says that whoever has set a mode will undo it (`DeviceOk`): for each of promiscuous
mode, monitor mode, the interface that was taken down and the interfaces that were added there is a handle on its way through
the steps that set it, or with the duty in `must_do_on_close` and on the list, so that also the end of the
program finds it. Each operation first has a lemma on what it changes (`...Does`), then one that the
rest, above all the other handles, stays as it was (`Others`), then that the invariant is kept (`...Keeps`). Giving up
is the hard part, since it can happen in any state of an activation: `Failable` names what must
hold there, and `FailKeeps` does the cleanup once for all of them. A crash is in `HandleInv` as well: a handle has lost the
name of its monitor interface only after it failed (`Lost` in `ModesOk`).
`LeakInv` says what a handle does not yet have where it will be allocated (the buffer during an activation, the list of
link types up to the hardware type, the name of the interface up to monitor mode); with `MemoryOk` for the rest,
the only place left where an allocation overwrites a pointer is `activate_old`. `Grows` follows what a step may add,
and the lemmas `...Leaks` go through the actions.

### Only model-checked

* Liveness and fairness (`SignalEndsProcess`, `FedIsWritten`, `EveryConnectionEnds`, `RequestsAnswered`,
  `TestsProgress`, `BreakEndsLoop`): TLAPS 1.4.5 has no rules for fairness that its backends can use.
* The web server and the Bpf modules: `close_local_endpoint` and `process_request` call each other,
  and the compiler works on trees; their recursive operators are out of the prover's reach.
* `AllTried`: which combinations a grammar test tries is a computation on fixed tables, which TLC carries out completely.
* Libnet (`PacketWellFormed`, `Checksums`, `IpLenFollowsTcp`, the samples): sums over
  block lists of any length, which would need an induction over data. `FailedCallAddsNothing` has no sums and is in the plan.
* The three refuted properties.

## Not modelled

Of pirate: `Test_Work`, the loop of the test runner (its call is commented out);
`ARP_Cache_Saturation_Storm` and `ARP_Cache_Send`; `frag_ping`, `frag_and_send`, `get_sum` and
`ping` in `icmp.c`, demonstration code that nothing calls; the ways of sleeping other
than `select`, which no caller chooses; `top_speed`, with which nothing is paced; the ARP monitor
(empty functions); round trip statistics; printing and logging; the web pages.

Of the libraries: cJSON (text, seen only through which fields are there); in
mongoose the HTTP client (nothing calls it), TLS and Lua (not compiled in), digest
authentication, DAV, directory listings, MIME types and the parsing of options; in
libnet the look-up of devices and addresses, hexdump, random numbers and the link layers of
other systems; in libpcap the scanner, name look-up, `gateway`, dumping of programs,
savefiles, statistics, injection, enumeration of devices, time stamp types and the
capture back ends of other systems and special devices (`pcap-bpf.c`, `pcap-dlpi.c`,
`pcap-win32.c`, `pcap-dos.c`, USB, Bluetooth, CAN, ...), which this build does not compile.

Out of reach of the models here: memory layout (buffer sizes), most failed allocations, and
a wall clock that steps.

## Plan

Done: all modules above, and the proofs listed.

What could follow, in this order:

1. `FailedCallAddsNothing` of `LibnetPackets`: a builder at a time, without the sums.
2. `Test_Work` on top of `PacketTests` and `MissionControl`; `frag_and_send`.
3. Pure algorithms against reference definitions: `Get_long_address`, `in_cksum`,
   `__div64_32`, `llsqrt`.
4. The composition of `CaptureHandle` with `CaptureRing`, where closing a handle takes the ring from a
   reader.
