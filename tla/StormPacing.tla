------------------------------ MODULE StormPacing ------------------------------
(****************************************************************************)
(* How the network tests keep to their speed (network/network.c): the loop  *)
(* of send_storm and the loops of the sweeps, both around do_sleep.  A test *)
(* writes a packet, and do_sleep computes from the bytes sent when they are *)
(* due at the given speed, then sleeps until then or, when the test is late,*)
(* notes how many bytes may go out without looking at the clock.            *)
(*                                                                          *)
(* Time is in microseconds since start_time, naps in nanoseconds.  The CPU  *)
(* time that ends a storm has no fixed relation to that clock, so a storm   *)
(* may end after any packet.  top_speed is off: with it nothing is paced.   *)
(****************************************************************************)
EXTENDS Integers

CONSTANTS
  Speeds,      \* speeds in bits per second
  Lens,        \* lengths of packets
  Scale,       \* bit microseconds in a byte second: 8 * 1000000
  Nano,        \* nanoseconds in a microsecond: 1000
  Word,        \* values of a COUNTER: 2^64
  Half,        \* values of the divisor of do_div_64: 2^32
  Delays,      \* bound: how late the thread may run at a write or after a sleep
  MaxCalls,    \* bound: packets of one storm
  MaxNap       \* bound: the longest sleep the model sees the end of

ASSUME StormAssumption ==
  /\ Half \in Nat /\ Word \in Nat /\ Half <= Word
  /\ Scale \in 1 .. Half - 1
  /\ Nano \in Nat \ {0}
  /\ Speeds # {} /\ Speeds \subseteq 1 .. Half - 1
  /\ Lens # {} /\ Lens \subseteq Nat \ {0}
  /\ \E l \in Lens : \A k \in Lens : k <= l
  /\ \E s \in Speeds : \A k \in Speeds : s <= k
  /\ Delays \subseteq Nat /\ MaxCalls \in Nat /\ MaxNap \in Nat

VARIABLES
  pc,          \* "idle", "send" before a write, "sleep" inside or after do_sleep
  loop,        \* "storm": send_storm, "sweep": Icmp_*, Ethernet_Fuzzer
  speed,
  elapsed,     \* the clock, since start_time
  stamp,       \* delta_ctx, since start_time; Unset before start_delta_time
  bytes_sent,
  skip_timestamp,
  skip_length, \* static in do_sleep: outlives the storm
  nap,         \* static in do_sleep: outlives the storm
  wait,        \* how long select is asked to wait
  send_len,    \* what libnet_write returned
  calls, sent, failed, negative   \* history

pacing == <<pc, loop, speed, elapsed, stamp, bytes_sent, skip_timestamp,
          skip_length, nap, wait, send_len, calls, sent, failed, negative>>

Unset == -1
U64(x) == x % Word

\* When `bytes` bytes are due
next_tx_us(bytes, s) == U64(U64(bytes) * Scale) \div (s % Half)

StormInit ==
  /\ pc = "idle" /\ loop = "storm" /\ speed \in Speeds
  /\ elapsed = 0 /\ stamp = Unset /\ bytes_sent = 0 /\ skip_timestamp = FALSE
  /\ skip_length = 0 /\ nap = 0 /\ wait = 0
  /\ send_len = -1
  /\ calls = 0 /\ sent = 0 /\ failed = 0 /\ negative = FALSE

----------------------------------------------------------------------------
(* The loops.                                                               *)

\* What send_storm and the sweeps set before their loop
begin ==
  /\ elapsed' = 0 /\ stamp' = Unset /\ bytes_sent' = 0 /\ skip_timestamp' = FALSE
  /\ send_len' = -1 /\ calls' = 0 /\ sent' = 0 /\ failed' = 0
  /\ UNCHANGED <<skip_length, nap, wait, negative>>

\* A test begins: send_storm_set_time and send_storm_random_time call
\* send_storm at once, a sweep begins its own loop
start_test ==
  /\ pc = "idle" /\ pc' = "send"
  /\ loop' \in {"storm", "sweep"} /\ speed' \in Speeds
  /\ begin

\* send_storm returns, at its end or with -1, and its caller calls it again
\* or returns because test_time is over
storm_returns ==
  /\ pc = "send" /\ loop = "storm"
  /\ pc' \in {"send", "idle"}
  /\ begin
  /\ UNCHANGED <<loop, speed>>

\* The last packet of a sweep was sent; its variables go out of scope
sweep_ends ==
  /\ pc = "send" /\ loop = "sweep" /\ calls > 0
  /\ pc' = "idle"
  /\ begin
  /\ UNCHANGED <<loop, speed>>

----------------------------------------------------------------------------
(* do_sleep(), called with bytes_sent and the result of libnet_write.       *)

\* Mutant: the bytes that go out without a timestamp are not counted down
skip_forever(len) ==
  /\ skip_timestamp /\ U64(len) < skip_length
  /\ wait' = 0
  /\ UNCHANGED <<skip_length, nap, skip_timestamp>>

\* Still catching up: no look at the clock
skip(len) ==
  /\ skip_timestamp /\ U64(len) < skip_length
  /\ skip_length' = skip_length - len
  /\ wait' = 0
  /\ UNCHANGED <<nap, skip_timestamp>>

\* Mutant: the time since the last timestamp is not taken off the nap
nap_this_time_whole(n, now) == n \div Nano

\* The nap less the time since the last timestamp, as select gets it
nap_this_time(n, now) ==
  LET delta == IF stamp = Unset THEN 0 ELSE (now - stamp) * Nano
  IN (IF n > delta THEN n - delta ELSE 0) \div Nano

\* The first packet: there is no timestamp, and nap is what the last storm left
nap_untimed(now) ==
  /\ stamp = Unset
  /\ skip_length' = (IF skip_timestamp THEN 0 ELSE skip_length)
  /\ skip_timestamp' = FALSE
  /\ nap' = nap
  /\ wait' = nap_this_time(nap, now)

\* The packet is not due yet
nap_until_due(len, now) ==
  LET due == next_tx_us(bytes_sent + len, speed)
  IN /\ stamp # Unset /\ due > stamp
     /\ skip_length' = (IF skip_timestamp THEN 0 ELSE skip_length)
     /\ skip_timestamp' = FALSE
     /\ nap' = U64((due - stamp) * Nano)
     /\ wait' = nap_this_time(nap', now)

\* The test is late: skip_length bytes may go out at once
fall_behind(len) ==
  LET due == next_tx_us(bytes_sent + len, speed)
  IN /\ stamp # Unset /\ due <= stamp
     /\ nap' = 0
     /\ skip_length' = U64((stamp - due) * speed) \div (Scale % Half)
     /\ skip_timestamp' = TRUE
     /\ wait' = 0

do_sleep(len, now) ==
  \/ skip(len)
  \/ /\ ~(skip_timestamp /\ U64(len) < skip_length)
     /\ \/ nap_untimed(now)
        \/ nap_until_due(len, now)
        \/ fall_behind(len)

\* libnet_write, and do_sleep up to its call of select.  A sweep goes on when
\* the write fails, with a length of -1.  A storm repeats the same packet.
write(len) ==
  /\ pc = "send" /\ calls < MaxCalls
  /\ len = -1 => loop = "sweep"
  /\ loop = "storm" /\ calls > 0 => len = send_len
  /\ \E d \in Delays :
       /\ elapsed' = elapsed + d
       /\ do_sleep(len, elapsed')
  /\ pc' = "sleep"
  /\ send_len' = len
  /\ calls' = calls + 1
  /\ sent' = sent + (IF len = -1 THEN 0 ELSE len)
  /\ failed' = failed + (IF len = -1 THEN 1 ELSE 0)
  /\ negative' = (negative \/ sent' < failed')
  /\ UNCHANGED <<loop, speed, stamp, bytes_sent>>

\* select returns; bytes_sent and the timestamp follow.  A sweep always takes
\* a timestamp, send_storm only when it is not catching up.
wake ==
  /\ pc = "sleep" /\ wait <= MaxNap
  /\ \E d \in Delays : elapsed' = elapsed + wait + d
  /\ bytes_sent' = U64(bytes_sent + send_len)
  /\ stamp' = (IF loop = "storm" /\ skip_timestamp THEN stamp ELSE elapsed')
  /\ pc' = "send" /\ wait' = 0
  /\ UNCHANGED <<loop, speed, skip_timestamp, skip_length, nap, send_len,
                 calls, sent, failed, negative>>

\* A sleep longer than MaxNap goes on
sleep_on == pc = "sleep" /\ wait > MaxNap /\ UNCHANGED pacing

StormNext ==
  \/ start_test
  \/ storm_returns
  \/ sweep_ends
  \/ \E len \in Lens \cup {-1} : write(len)
  \/ wake
  \/ sleep_on

----------------------------------------------------------------------------
(* What the loops promise.                                                  *)

\* From the second packet on, a test is never ahead of its speed: before each
\* write, the bytes sent so far are due.  Failed writes of a sweep are counted
\* as a byte less each (do_sleep and its callers).
SpeedKept ==
  pc = "send" /\ calls >= 2 /\ sent >= failed =>
    ((sent - failed) * Scale) \div speed <= elapsed

Longest == CHOOSE l \in Lens : \A k \in Lens : k <= l
Slowest == CHOOSE s \in Speeds : \A k \in Speeds : s <= k

\* The time two of the longest packets take at the lowest speed
TwoPackets == (2 * Longest * Scale) \div Slowest + 1

\* A COUNTER holds the bits of a whole test in microseconds, and the time of
\* two packets in nanoseconds: with 64 bits, tests of up to 2 terabytes.
ASSUME NoWrap ==
  /\ MaxCalls * Longest * Scale < Word
  /\ TwoPackets * Nano < Word

\* No sleep is longer than two packets take, whatever an earlier storm left in
\* the static nap, unless a sweep failed to write more often than it sent
\* bytes: then bytes_sent wraps below 0 and the nap is enormous.  From the
\* second packet on a test that sleeps wakes exactly when its bytes are due:
\* what it loses by running late it makes up for (do_sleep).
NapsAreRight ==
  /\ pc = "sleep" /\ ~negative => wait <= TwoPackets
  /\ pc = "sleep" /\ calls >= 2 /\ wait > 0 /\ sent >= failed =>
        elapsed + wait = ((sent - failed) * Scale) \div speed
================================================================================
