--------------------------- MODULE NetworkTestsProofs ---------------------------
(***************************************************************************)
(* The network tests keep to their speed and build from what is there, for *)
(* any speeds, lengths, delays and number of packets that a COUNTER can    *)
(* hold the bits of (NoWrap).                                              *)
(***************************************************************************)
EXTENDS StormPacing, PacketTests, DivisionLemmas

StormSpec == StormInit /\ [][StormNext]_pacing

StormType ==
  /\ pc \in {"idle", "send", "sleep"} /\ speed \in Speeds
  /\ elapsed \in Nat /\ stamp \in Nat \cup {Unset} /\ stamp <= elapsed
  /\ bytes_sent \in 0 .. Word - 1 /\ skip_length \in 0 .. Word - 1
  /\ nap \in Nat /\ wait \in Nat /\ send_len \in Int
  /\ calls \in 0 .. MaxCalls /\ sent \in Nat /\ failed \in Nat /\ sent <= calls * Longest

(* bytes_sent is what was sent less what failed, in the width of a COUNTER.*)
BytesCounted ==
  IF pc = "sleep" THEN U64(bytes_sent + send_len) = U64(sent - failed)
  ELSE bytes_sent = U64(sent - failed)

(* The first packet alone is sent without a timestamp.                     *)
Stamped ==
  /\ calls = 0 => pc # "sleep" /\ sent = 0 /\ failed = 0 /\ stamp = Unset /\ ~skip_timestamp
  /\ calls = 1 => sent <= Longest
  /\ calls = 1 /\ pc = "sleep" => stamp = Unset /\ ~skip_timestamp
  /\ calls >= 1 /\ (pc # "sleep" \/ calls >= 2) => stamp # Unset

(* x bytes are due at time t.                                              *)
DueBy(x, t) == x * Scale < (t + 1) * speed

(* While a test catches up, all it may skip the clock for is due.          *)
CatchingUp ==
  skip_timestamp => /\ DueBy((sent - failed) + skip_length, stamp)
                    /\ pc = "sleep" => wait = 0

AsleepUntilDue ==
  pc = "sleep" /\ calls >= 2 /\ ~skip_timestamp /\ sent >= failed =>
    /\ DueBy(sent - failed, elapsed + wait)
    /\ wait > 0 => elapsed + wait = ((sent - failed) * Scale) \div speed

AwakeWhenDue == pc = "send" /\ calls >= 2 => DueBy(sent - failed, stamp)

NapsBounded == ~negative => /\ nap <= TwoPackets * Nano /\ wait <= TwoPackets
                            /\ sent >= failed

StormInv ==
  /\ StormType /\ BytesCounted /\ Stamped /\ CatchingUp /\ AsleepUntilDue
  /\ AwakeWhenDue /\ NapsBounded

--------------------------------------------------------------------------------
(* The constants.                                                          *)
LEMMA StormBounds ==
  /\ Word \in Nat \ {0} /\ Half \in Nat \ {0} /\ Scale \in Nat \ {0} /\ Scale % Half = Scale
  /\ Nano \in Nat \ {0} /\ MaxCalls \in Nat /\ MaxNap \in Nat /\ Delays \in SUBSET Nat
  /\ \A s \in Speeds : s \in Nat \ {0} /\ s % Half = s /\ Slowest <= s
  /\ \A l \in Lens : l \in Nat \ {0} /\ l <= Longest
  /\ Longest \in Nat \ {0} /\ Slowest \in Nat \ {0} /\ TwoPackets \in Nat
<1>1. /\ Half \in Nat /\ Word \in Nat /\ Half <= Word /\ Scale \in 1 .. Half - 1
      /\ Nano \in Nat \ {0} /\ Delays \in SUBSET Nat /\ MaxCalls \in Nat /\ MaxNap \in Nat
      /\ Speeds \in SUBSET (1 .. Half - 1) /\ Lens \in SUBSET (Nat \ {0})
  BY StormAssumption
<1>2. Word \in Nat \ {0} /\ Half \in Nat \ {0} /\ Scale \in Nat \ {0} /\ Scale \in 0 .. Half - 1
  BY <1>1
<1>3. Longest \in Lens /\ \A l \in Lens : l <= Longest
  BY StormAssumption DEF Longest
<1>4. Slowest \in Speeds /\ \A s \in Speeds : Slowest <= s
  BY StormAssumption DEF Slowest
<1>5. Longest \in Nat \ {0} /\ Slowest \in Nat \ {0}
  BY <1>1, <1>3, <1>4
<1>6. Scale % Half = Scale
  BY <1>2, ModSmall
<1>7. ASSUME NEW s \in Speeds PROVE s \in Nat \ {0} /\ s % Half = s
  <2>1. s \in 0 .. Half - 1 /\ s \in Nat \ {0}
    BY <1>1
  <2> QED
    BY <1>2, <2>1, ModSmall
<1>8. TwoPackets \in Nat
  <2>1. \A a, b \in Nat : 2 * a * b \in Nat
    OBVIOUS
  <2>2. PICK x \in Nat : x = 2 * Longest * Scale
    BY <1>2, <1>5, <2>1
  <2>3. x \div Slowest \in Nat
    BY <1>5, ModReduces
  <2> QED
    BY <2>2, <2>3 DEF TwoPackets
<1> QED
  BY <1>1, <1>2, <1>3, <1>4, <1>5, <1>6, <1>7, <1>8

(* U64.                                                                    *)
LEMMA U64Facts ==
  /\ \A x \in Int : U64(x) \in 0 .. Word - 1
  /\ \A x \in 0 .. Word - 1 : U64(x) = x
  /\ \A x \in Nat : U64(x) <= x
  /\ \A x, y \in Int : U64(U64(x) + y) = U64(x + y)
<1>1. Word \in Nat \ {0}
  BY StormBounds
<1>2. ASSUME NEW x \in Int PROVE U64(x) \in 0 .. Word - 1
  BY <1>1, DivMod DEF U64
<1>3. ASSUME NEW x \in 0 .. Word - 1 PROVE U64(x) = x
  BY <1>1, ModSmall DEF U64
<1>4. ASSUME NEW x \in Nat PROVE U64(x) <= x
  BY <1>1, ModReduces DEF U64
<1>5. ASSUME NEW x \in Int, NEW y \in Int PROVE U64(U64(x) + y) = U64(x + y)
  BY <1>1, ModOfSum DEF U64
<1> QED
  BY <1>2, <1>3, <1>4, <1>5

(* When x bytes are due, if that is not negative and no test sends more.   *)
LEMMA DueExact ==
  ASSUME NEW x \in Nat, x <= MaxCalls * Longest, speed \in Speeds,
         NEW b \in Int, U64(b) = U64(x)
  PROVE  /\ next_tx_us(b, speed) = (x * Scale) \div speed
         /\ x * Scale \in Nat /\ (x * Scale) \div speed \in Nat
<1>1. /\ Word \in Nat \ {0} /\ Scale \in Nat \ {0} /\ MaxCalls \in Nat /\ Longest \in Nat \ {0}
      /\ speed \in Nat \ {0} /\ speed % Half = speed
  BY StormBounds
<1>2. PICK t \in Nat : t = MaxCalls * Longest
  BY <1>1
<1>3. t * Scale < Word /\ x <= t
  BY <1>2, NoWrap
<1>4. x * Scale \in Nat /\ t * Scale \in Nat
  BY <1>1, <1>2
<1>5. x * Scale <= t * Scale /\ x <= x * Scale
  <2>1. \A a, c \in Nat : \A d \in Nat \ {0} : a <= c => a * d <= c * d /\ a <= a * d
    OBVIOUS
  <2> QED
    BY <1>1, <1>2, <1>3, <2>1
<1>6. x \in 0 .. Word - 1 /\ x * Scale \in 0 .. Word - 1
  BY <1>1, <1>3, <1>4, <1>5
<1>7. U64(x) = x /\ U64(x * Scale) = x * Scale
  BY <1>6, U64Facts
<1>8. (x * Scale) \div speed \in Nat
  BY <1>1, <1>4, ModReduces
<1> QED
  BY <1>1, <1>4, <1>7, <1>8 DEF next_tx_us
--------------------------------------------------------------------------------
(* Before the first test everything is 0.                                  *)
LEMMA InitialStorm == StormInit => StormInv
<1> SUFFICES ASSUME StormInit PROVE StormInv
  OBVIOUS
<1>1. /\ Word \in Nat \ {0} /\ MaxCalls \in Nat /\ Nano \in Nat \ {0} /\ TwoPackets \in Nat
      /\ Longest \in Nat \ {0}
  BY StormBounds
<1>2. U64(0) = 0
  <2>1. 0 \in 0 .. Word - 1
    BY <1>1
  <2> QED
    BY <2>1, U64Facts
<1>3. /\ pc = "idle" /\ speed \in Speeds /\ elapsed = 0 /\ stamp = -1 /\ bytes_sent = 0
      /\ skip_length = 0 /\ nap = 0 /\ wait = 0 /\ send_len = -1 /\ calls = 0 /\ sent = 0
      /\ failed = 0
  BY DEF StormInit, Unset
<1>4. ~skip_timestamp
  BY DEF StormInit
<1>5. StormType
  BY <1>1, <1>3 DEF StormType, Unset
<1>6. BytesCounted
  BY <1>2, <1>3 DEF BytesCounted
<1>7. Stamped /\ CatchingUp /\ AsleepUntilDue /\ AwakeWhenDue
  BY <1>3, <1>4 DEF Stamped, CatchingUp, AsleepUntilDue, AwakeWhenDue, Unset
<1>8. 0 <= TwoPackets * Nano
  BY <1>1
<1>9. NapsBounded
  BY <1>1, <1>3, <1>8 DEF NapsBounded
<1> QED
  BY <1>5, <1>6, <1>7, <1>9 DEF StormInv

(* A loop begins with nothing sent, and with the nap that was left over    *)
(* (start_test, and send_storm and a sweep that return).                   *)
LEMMA BeginKeeps ==
  ASSUME StormInv, begin, pc' \in {"send", "idle"}, speed' \in Speeds
  PROVE  StormInv'
<1>1. /\ Word \in Nat \ {0} /\ MaxCalls \in Nat /\ Longest \in Nat \ {0}
  BY StormBounds
<1>2. U64(0) = 0
  <2>1. 0 \in 0 .. Word - 1
    BY <1>1
  <2> QED
    BY <2>1, U64Facts
<1>3. /\ elapsed' = 0 /\ stamp' = -1 /\ bytes_sent' = 0
      /\ skip_length' = skip_length /\ nap' = nap /\ wait' = wait /\ send_len' = -1
      /\ calls' = 0 /\ sent' = 0 /\ failed' = 0
  BY DEF begin, Unset
<1>4. ~skip_timestamp' /\ (~negative' => ~negative)
  BY DEF begin
<1>5. StormType'
  BY <1>1, <1>3 DEF StormType, Unset, StormInv
<1>6. BytesCounted'
  BY <1>2, <1>3 DEF BytesCounted, U64
<1>7. Stamped' /\ CatchingUp' /\ AsleepUntilDue' /\ AwakeWhenDue'
  BY <1>3, <1>4 DEF Stamped, CatchingUp, AsleepUntilDue, AwakeWhenDue, Unset
<1>9. NapsBounded'
  BY <1>3, <1>4 DEF NapsBounded, StormInv
<1> QED
  BY <1>5, <1>6, <1>7, <1>9 DEF StormInv

--------------------------------------------------------------------------------
(* What libnet_write and the call of do_sleep do to everything but the     *)
(* sleep itself.                                                           *)
Written(len) ==
  /\ pc = "send" /\ pc' = "sleep" /\ speed' = speed /\ stamp' = stamp /\ bytes_sent' = bytes_sent
  /\ elapsed' \in Nat /\ elapsed <= elapsed'
  /\ len \in Int /\ len <= Longest /\ send_len' = len
  /\ calls' = calls + 1 /\ calls' \in 0 .. MaxCalls
  /\ sent' \in Nat /\ failed' \in Nat /\ sent' - failed' = (sent - failed) + len
  /\ sent' <= calls' * Longest /\ (calls' = 1 => sent' <= Longest)
  /\ U64(bytes_sent + len) = U64(sent' - failed')
  /\ (~negative' => ~negative /\ sent' >= failed')

(* A write counts the packet, whether it could be sent or not.             *)
LEMMA WriteCounts ==
  ASSUME StormInv, NEW len \in Lens \cup {-1}, write(len)
  PROVE  Written(len)
<1>1. /\ Word \in Nat \ {0} /\ MaxCalls \in Nat /\ Longest \in Nat \ {0} /\ Delays \in SUBSET Nat
      /\ \A l \in Lens : l \in Nat \ {0} /\ l <= Longest
  BY StormBounds
<1>2. /\ elapsed \in Nat /\ bytes_sent \in Int /\ calls \in 0 .. MaxCalls /\ sent \in Nat
      /\ failed \in Nat /\ sent <= calls * Longest
  BY DEF StormInv, StormType
<1>3. /\ pc = "send" /\ pc' = "sleep" /\ speed' = speed /\ stamp' = stamp
      /\ bytes_sent' = bytes_sent /\ send_len' = len /\ calls' = calls + 1 /\ calls < MaxCalls
      /\ sent' = sent + (IF len = -1 THEN 0 ELSE len)
      /\ failed' = failed + (IF len = -1 THEN 1 ELSE 0)
  BY DEF write
<1>4. PICK d \in Delays : elapsed' = elapsed + d
  BY DEF write
<1>5. elapsed' \in Nat /\ elapsed <= elapsed'
  BY <1>1, <1>2, <1>4
<1>6. len \in Int /\ len <= Longest /\ (len # -1 => len \in Nat)
  BY <1>1
<1>7. sent' \in Nat /\ failed' \in Nat /\ sent' - failed' = (sent - failed) + len
      /\ sent' <= sent + Longest
  BY <1>1, <1>2, <1>3, <1>6
<1>8. calls' \in 0 .. MaxCalls /\ calls' * Longest = calls * Longest + Longest
  BY <1>1, <1>2, <1>3
<1>9. sent' <= calls' * Longest
  <2>1. PICK p \in Nat : p = calls * Longest
    BY <1>1, <1>2
  <2>2. sent <= p /\ calls' * Longest = p + Longest
    BY <1>2, <1>8, <2>1
  <2>3. sent' <= p + Longest
    BY <1>1, <1>2, <1>7, <2>2
  <2> QED
    BY <2>2, <2>3
<1>10. calls' = 1 => sent' <= Longest
  BY <1>1, <1>9
<1>11. U64(bytes_sent + len) = U64(sent' - failed')
  <2>1. bytes_sent = U64(sent - failed)
    BY <1>3 DEF StormInv, BytesCounted
  <2>2. sent - failed \in Int
    BY <1>2
  <2> QED
    BY <1>6, <1>7, <2>1, <2>2, U64Facts
<1>12. ~negative' => ~negative /\ ~(sent' < failed')
  BY Zenon DEF write
<1>13. ~negative' => ~negative /\ sent' >= failed'
  BY <1>7, <1>12
<1> QED
  BY <1>3, <1>5, <1>6, <1>7, <1>8, <1>9, <1>10, <1>11, <1>13 DEF Written
(* Every packet but the first follows a timestamp.                         *)
LEMMA WriteStamped ==
  ASSUME StormInv, NEW len, Written(len)
  PROVE  calls' >= 1 /\ (calls' >= 2 <=> stamp # Unset)
<1>1. pc = "send" /\ calls \in 0 .. MaxCalls /\ calls' = calls + 1
  BY DEF StormInv, StormType, Written
<1>2. MaxCalls \in Nat
  BY StormBounds
<1>3. calls' >= 1 /\ (calls' >= 2 <=> calls >= 1)
  BY <1>1, <1>2
<1>4. (calls = 0 => stamp = Unset) /\ (calls >= 1 => stamp # Unset)
  BY <1>1 DEF StormInv, Stamped
<1> QED
  BY <1>1, <1>2, <1>3, <1>4

(* What every write keeps whatever do_sleep computes.                      *)
LEMMA WriteKeepsCounts ==
  ASSUME StormInv, NEW len, Written(len),
         skip_length' \in 0 .. Word - 1, nap' \in Nat, wait' \in Nat
  PROVE  StormType' /\ BytesCounted' /\ AwakeWhenDue'
<1>1. /\ speed \in Speeds /\ elapsed \in Nat /\ stamp \in Nat \cup {Unset}
      /\ stamp <= elapsed /\ bytes_sent \in 0 .. Word - 1
  BY DEF StormInv, StormType
<1>2. /\ pc' = "sleep" /\ speed' = speed /\ stamp' = stamp /\ bytes_sent' = bytes_sent
      /\ elapsed' \in Nat /\ elapsed <= elapsed'
      /\ len \in Int /\ send_len' = len /\ calls' \in 0 .. MaxCalls
      /\ sent' \in Nat /\ failed' \in Nat /\ sent' <= calls' * Longest
      /\ U64(bytes_sent + len) = U64(sent' - failed')
  BY DEF Written
<1>3. stamp' \in Nat \cup {Unset} /\ stamp' <= elapsed'
  BY <1>1, <1>2 DEF Unset
<1>4. StormType'
  BY <1>1, <1>2, <1>3 DEF StormType, Unset
<1>5. BytesCounted'
  BY <1>2 DEF BytesCounted, U64
<1>6. AwakeWhenDue'
  BY <1>2 DEF AwakeWhenDue
<1> QED
  BY <1>4, <1>5, <1>6

(* While the test catches up, the bytes sent come off the bytes to skip.   *)
LEMMA SkipKeeps ==
  ASSUME StormInv, NEW len \in Lens \cup {-1}, Written(len), skip(len)
  PROVE  StormInv'
<1>1. Word \in Nat \ {0} /\ Longest \in Nat \ {0} /\ MaxCalls \in Nat
      /\ \A l \in Lens : l \in Nat \ {0}
  BY StormBounds
<1>2. /\ U64(len) < skip_length /\ skip_length' = skip_length - len /\ wait' = 0 /\ nap' = nap
  BY DEF skip
<1>3. skip_timestamp /\ skip_timestamp'
  BY DEF skip
<1>4. skip_length \in 0 .. Word - 1 /\ nap \in Nat /\ sent \in Nat /\ failed \in Nat /\ wait \in Nat
  BY DEF StormInv, StormType
<1>5. len \in Nat /\ len <= skip_length
  <2>1. len # -1
    <3>1. ASSUME len = -1 PROVE U64(len) = Word - 1
      <4>1. -1 = Word * (-1) + (Word - 1) /\ Word - 1 \in 0 .. Word - 1
        BY <1>1
      <4>2. (-1) % Word = Word - 1
        BY <1>1, <4>1, ModUnique
      <4> QED
        BY <3>1, <4>2 DEF U64
    <3> QED
      BY <1>1, <1>2, <1>4, <3>1
  <2>2. len \in Nat
    BY <1>1, <2>1
  <2>3. ASSUME len >= Word PROVE FALSE
    <3>1. MaxCalls >= 1 /\ Scale \in Nat \ {0}
      BY <1>1, StormBounds, WriteStamped DEF Written
    <3>2. Longest < Word
      <4>1. \A a, b, c \in Nat \ {0} : a * b * c >= b
        OBVIOUS
      <4>2. MaxCalls * Longest * Scale < Word /\ MaxCalls \in Nat \ {0}
        BY NoWrap, <1>1, <3>1
      <4>3. MaxCalls * Longest * Scale >= Longest
        BY <1>1, <3>1, <4>1, <4>2
      <4>4. PICK m \in Nat : m = MaxCalls * Longest * Scale
        BY <1>1, <3>1
      <4> QED
        BY <1>1, <4>2, <4>3, <4>4
    <3> QED
      BY <1>1, <2>2, <2>3, <3>2 DEF Written
  <2>4. U64(len) = len
    <3>1. len \in 0 .. Word - 1
      BY <1>1, <2>2, <2>3
    <3> QED
      BY <3>1, U64Facts
  <2> QED
    BY <1>2, <1>4, <2>2, <2>4
<1>6. skip_length' \in 0 .. Word - 1 /\ nap' \in Nat /\ wait' \in Nat
  BY <1>1, <1>2, <1>4, <1>5
<1>7. StormType' /\ BytesCounted' /\ AwakeWhenDue'
  BY <1>6, WriteKeepsCounts
<1>8. Stamped'
  <2>1. calls >= 1
    BY <1>3 DEF StormInv, Stamped, StormType
  <2>2. calls' = calls + 1 /\ stamp' = stamp /\ calls \in 0 .. MaxCalls
    BY DEF Written, StormInv, StormType
  <2>3. calls' >= 2
    BY <1>1, <2>1, <2>2
  <2>4. stamp' # Unset
    BY <2>2, <2>3, WriteStamped
  <2> QED
    BY <2>3, <2>4 DEF Stamped, Unset
<1>9. CatchingUp'
  <2>1. DueBy((sent - failed) + skip_length, stamp)
    BY <1>3 DEF StormInv, CatchingUp
  <2>2. (sent' - failed') + skip_length' = (sent - failed) + skip_length
    <3>1. sent' - failed' = (sent - failed) + len
      BY DEF Written
    <3> QED
      BY <1>2, <1>4, <1>5, <3>1
  <2>3. DueBy((sent - failed) + skip_length, stamp)'
    BY <2>1, <2>2 DEF Written, DueBy
  <2> QED
    BY <1>2, <2>3 DEF CatchingUp
<1>10. AsleepUntilDue'
  BY <1>3 DEF AsleepUntilDue
<1>11. NapsBounded'
  <2>1. 0 <= TwoPackets
    BY StormBounds
  <2> QED
    BY <1>2, <2>1 DEF NapsBounded, StormInv, Written
<1> QED
  BY <1>7, <1>8, <1>9, <1>10, <1>11 DEF StormInv
--------------------------------------------------------------------------------
(* A multiple of a number, divided by it.                                  *)
LEMMA DivExact ==
  ASSUME NEW d \in Nat \ {0}, NEW m \in Nat
  PROVE  (m * d) \div d = m
<1>1. \A a \in Int : a * d \in Int
  OBVIOUS
<1>2. m * d \in Int /\ m * d < (m + 1) * d /\ ~(m * d < ((m - 1) + 1) * d)
  OBVIOUS
<1>3. (m * d) \div d <= m
  BY <1>2, DivAtMost
<1>4. ~((m * d) \div d <= m - 1)
  BY <1>2, DivAtMost
<1>5. (m * d) \div d \in Int
  BY <1>2, DivMod
<1> QED
  BY <1>3, <1>4, <1>5

(* A sleep of do_sleep is not longer than the nap it was computed from.    *)
LEMMA NapBound ==
  ASSUME NEW n \in Nat, NEW now \in Nat, stamp \in Nat \cup {Unset}, stamp <= now
  PROVE  /\ nap_this_time(n, now) \in Nat
         /\ \A t \in Nat : n <= t * Nano => nap_this_time(n, now) <= t
<1> DEFINE delta == IF stamp = Unset THEN 0 ELSE (now - stamp) * Nano
           left == IF n > delta THEN n - delta ELSE 0
<1>1. Nano \in Nat \ {0}
  BY StormBounds
<1>2. delta \in Nat
  <2>1. stamp # Unset => now - stamp \in Nat
    BY DEF Unset
  <2>2. \A a, b \in Nat : a * b \in Nat
    OBVIOUS
  <2> QED
    BY <1>1, <2>1, <2>2
<1>3. nap_this_time(n, now) = left \div Nano
  BY DEF nap_this_time
<1> HIDE DEF delta
<1>4. left \in Nat /\ left <= n
  BY <1>2
<1> HIDE DEF left
<1>5. left \div Nano \in Nat
  BY <1>1, <1>4, ModReduces
<1>6. ASSUME NEW t \in Nat, n <= t * Nano PROVE left \div Nano <= t
  <2>1. left < (t + 1) * Nano
    <3>1. (t + 1) * Nano = t * Nano + Nano /\ t * Nano \in Nat
      BY <1>1
    <3> QED
      BY <1>1, <1>4, <1>6, <3>1
  <2> QED
    BY <1>1, <1>4, <2>1, DivAtMost
<1> QED
  BY <1>3, <1>5, <1>6

(* A nap of k microseconds after the last timestamp ends k microseconds    *)
(* after it, or is over already.                                           *)
LEMMA NapExact ==
  ASSUME NEW k \in Nat, NEW now \in Nat, stamp \in Nat, stamp <= now
  PROVE  nap_this_time(k * Nano, now) = IF stamp + k > now THEN (stamp + k) - now ELSE 0
<1>1. Nano \in Nat \ {0}
  BY StormBounds
<1>2. PICK e \in Nat : e = now - stamp
  OBVIOUS
<1>3. nap_this_time(k * Nano, now) =
        (IF k * Nano > e * Nano THEN k * Nano - e * Nano ELSE 0) \div Nano
  BY <1>2 DEF nap_this_time, Unset
<1>4. CASE k > e
  <2>1. k - e \in Nat /\ k * Nano - e * Nano = (k - e) * Nano
    BY <1>1, <1>4
  <2>2. k * Nano > e * Nano
    BY <1>1, <1>4
  <2>3. ((k - e) * Nano) \div Nano = k - e
    BY <1>1, <2>1, DivExact
  <2>4. nap_this_time(k * Nano, now) = k - e
    BY <1>3, <2>1, <2>2, <2>3
  <2> QED
    BY <1>2, <1>4, <2>4
<1>5. CASE ~(k > e)
  <2>1. ~(k * Nano > e * Nano)
    BY <1>1, <1>5
  <2>2. 0 \div Nano = 0
    BY <1>1
  <2>3. nap_this_time(k * Nano, now) = 0
    BY <1>3, <2>1, <2>2
  <2> QED
    BY <1>2, <1>5, <2>3
<1> QED
  BY <1>4, <1>5

(* The first packet sleeps for what an earlier test left in the static nap.*)
LEMMA NapUntimedKeeps ==
  ASSUME StormInv, NEW len, Written(len), nap_untimed(elapsed')
  PROVE  StormInv'
<1>1. /\ Word \in Nat \ {0} /\ Longest \in Nat \ {0} /\ MaxCalls \in Nat /\ TwoPackets \in Nat
  BY StormBounds
<1>2. /\ stamp = Unset /\ skip_length' \in {0, skip_length} /\ nap' = nap
      /\ wait' = nap_this_time(nap, elapsed')
  BY DEF nap_untimed
<1>3. ~skip_timestamp'
  BY DEF nap_untimed
<1>4. /\ skip_length \in 0 .. Word - 1 /\ nap \in Nat /\ stamp \in Nat \cup {Unset}
      /\ elapsed' \in Nat /\ calls \in 0 .. MaxCalls
  BY DEF StormInv, StormType, Written
<1>5. stamp <= elapsed'
  BY <1>2, <1>4 DEF Unset
<1>6. wait' \in Nat /\ \A t \in Nat : nap <= t * Nano => wait' <= t
  BY <1>2, <1>4, <1>5, NapBound
<1>7. skip_length' \in 0 .. Word - 1 /\ nap' \in Nat
  BY <1>1, <1>2, <1>4
<1>8. StormType' /\ BytesCounted' /\ AwakeWhenDue'
  BY <1>6, <1>7, WriteKeepsCounts
<1>9. calls' >= 1 /\ ~(calls' >= 2) /\ calls' \in 0 .. MaxCalls
  BY <1>2, WriteStamped DEF Written
<1>10. calls' = 1
  BY <1>1, <1>9
<1>11. stamp' = Unset /\ sent' <= Longest
  BY <1>2, <1>10 DEF Written
<1>12. Stamped'
  BY <1>3, <1>10, <1>11 DEF Stamped, Unset, Written
<1>13. CatchingUp' /\ AsleepUntilDue'
  BY <1>3, <1>9 DEF CatchingUp, AsleepUntilDue
<1>14. NapsBounded'
  <2> SUFFICES ASSUME ~negative' PROVE nap' <= TwoPackets * Nano /\ wait' <= TwoPackets /\ sent' >= failed'
    BY DEF NapsBounded
  <2>1. ~negative /\ sent' >= failed'
    BY DEF Written
  <2>2. nap <= TwoPackets * Nano
    BY <2>1 DEF StormInv, NapsBounded
  <2> QED
    BY <1>1, <1>2, <1>6, <2>1, <2>2
<1> QED
  BY <1>8, <1>12, <1>13, <1>14 DEF StormInv
--------------------------------------------------------------------------------
(* The time at which bytes are due is computed without overflow as long as *)
(* not more failed than was sent, and lies at most two packets ahead.      *)
LEMMA DueSoon ==
  ASSUME StormInv, NEW len, Written(len), stamp # Unset, sent' >= failed',
         NEW x, x = sent' - failed'
  PROVE  /\ x \in Nat /\ x * Scale \in Nat
         /\ next_tx_us(bytes_sent + len, speed) = (x * Scale) \div speed
         /\ (x * Scale) \div speed \in Nat
         /\ (x * Scale) \div speed <= stamp + TwoPackets
<1>1. /\ Scale \in Nat \ {0} /\ Longest \in Nat \ {0} /\ Slowest \in Nat \ {0} /\ MaxCalls \in Nat
      /\ \A s \in Speeds : s \in Nat \ {0} /\ Slowest <= s
  BY StormBounds
<1>2. /\ speed \in Speeds /\ stamp \in Nat \cup {Unset} /\ sent \in Nat /\ failed \in Nat
      /\ bytes_sent \in 0 .. Word - 1 /\ calls \in 0 .. MaxCalls
  BY DEF StormInv, StormType
<1>3. /\ sent' \in Nat /\ failed' \in Nat /\ sent' - failed' = (sent - failed) + len
      /\ sent' <= calls' * Longest /\ calls' \in 0 .. MaxCalls /\ calls' = calls + 1
      /\ len \in Int /\ len <= Longest /\ U64(bytes_sent + len) = U64(sent' - failed')
      /\ pc = "send"
  BY DEF Written
<1>4. x \in Nat /\ x <= sent' /\ stamp \in Nat /\ speed \in Nat \ {0} /\ Slowest <= speed
  <2>1. \A a, b \in Nat : a >= b => a - b \in Nat /\ a - b <= a
    OBVIOUS
  <2>2. x \in Nat /\ x <= sent'
    BY <1>3, <2>1
  <2>3. stamp \in Nat
    BY <1>2
  <2> QED
    BY <1>1, <1>2, <2>2, <2>3
<1>5. x <= MaxCalls * Longest
  <2>1. \A a, b, c \in Nat : a <= b => a * c <= b * c
    OBVIOUS
  <2>2. calls' * Longest <= MaxCalls * Longest /\ calls' * Longest \in Nat
    BY <1>1, <1>3, <2>1
  <2>3. PICK m \in Nat : m = MaxCalls * Longest
    BY <1>1
  <2>4. PICK n \in Nat : n = calls' * Longest
    BY <2>2
  <2> QED
    BY <1>3, <1>4, <2>2, <2>3, <2>4
<1>6. bytes_sent + len \in Int
  BY <1>2, <1>3
<1>7. /\ next_tx_us(bytes_sent + len, speed) = (x * Scale) \div speed
      /\ x * Scale \in Nat /\ (x * Scale) \div speed \in Nat
  BY <1>2, <1>3, <1>4, <1>5, <1>6, DueExact
<1>8. PICK q \in Nat : q = (2 * Longest * Scale) \div Slowest /\ TwoPackets = q + 1
  <2>1. \A a, b \in Nat : 2 * a * b \in Nat
    OBVIOUS
  <2>2. 2 * Longest * Scale \in Nat
    BY <1>1, <2>1
  <2>3. (2 * Longest * Scale) \div Slowest \in Nat
    BY <1>1, <2>2, ModReduces
  <2> QED
    BY <2>3 DEF TwoPackets
<1>9. 2 * (Longest * Scale) < (q + 1) * speed
  <2>1. PICK y \in Nat : y = 2 * Longest * Scale /\ y = 2 * (Longest * Scale)
    BY <1>1
  <2>2. y < (q + 1) * Slowest
    <3>1. y \div Slowest <= q
      BY <1>8, <2>1
    <3> QED
      BY <1>1, <3>1, DivAtMost
  <2>3. \A a, b, c \in Nat : a <= b => c * a <= c * b
    OBVIOUS
  <2>4. (q + 1) * Slowest <= (q + 1) * speed
    BY <1>1, <1>4, <2>3
  <2>5. (q + 1) * Slowest \in Nat /\ (q + 1) * speed \in Nat
    BY <1>1, <1>4
  <2> QED
    BY <2>1, <2>2, <2>4, <2>5
<1>10. x * Scale < ((stamp + (q + 1)) + 1) * speed
  <2>1. PICK l \in Nat : l = Longest * Scale
    BY <1>1
  <2>2. PICK v \in Nat : v = (q + 1) * speed
    BY <1>4
  <2>3. PICK w \in Nat : w = (stamp + 1) * speed
    BY <1>4
  <2>4. ((stamp + (q + 1)) + 1) * speed = w + v
    BY <1>4, <2>2, <2>3
  <2>5. 2 * l < v
    BY <1>9, <2>1, <2>2
  <2>6. calls >= 1
    BY <1>1, <1>2, <1>3 DEF StormInv, Stamped
  <2>7. CASE calls = 1
    <3>1. x <= 2 * Longest
      <4>1. calls' = 2
        BY <1>3, <2>7
      <4>2. sent' <= 2 * Longest
        BY <1>3, <4>1
      <4>3. \A a, b, c \in Nat : a <= b /\ b <= 2 * c => a <= 2 * c
        OBVIOUS
      <4> QED
        BY <1>1, <1>3, <1>4, <4>2, <4>3
    <3>2. \A a, b, c \in Nat : a <= 2 * b => a * c <= 2 * (b * c)
      OBVIOUS
    <3>3. x * Scale <= 2 * l
      BY <1>1, <1>4, <2>1, <3>1, <3>2
    <3> QED
      BY <1>7, <2>4, <2>5, <3>3
  <2>8. CASE calls >= 2
    <3>1. PICK y \in Int : y = sent - failed
      BY <1>2
    <3>2. PICK z \in Int : z = y * Scale
      BY <1>1, <3>1
    <3>3. z < w
      BY <1>3, <2>3, <2>8, <3>1, <3>2 DEF StormInv, AwakeWhenDue, DueBy
    <3>4. x <= y + Longest
      <4>1. x = y + len
        BY <1>3, <3>1
      <4>2. \A b, c \in Int : b <= c => y + b <= y + c
        OBVIOUS
      <4>3. Longest \in Int /\ len \in Int /\ len <= Longest
        BY <1>1, <1>3
      <4>4. y + len <= y + Longest
        BY <4>2, <4>3
      <4> QED
        BY <4>1, <4>4
    <3>5. \A a, b, c, d \in Int : d >= 0 /\ a <= b + c => a * d <= b * d + c * d
      OBVIOUS
    <3>6. x * Scale <= y * Scale + Longest * Scale
      BY <1>1, <1>4, <3>4, <3>5
    <3>7. x * Scale <= z + l
      BY <2>1, <3>2, <3>6
    <3> QED
      BY <1>7, <2>4, <2>5, <3>3, <3>7
  <2> QED
    BY <1>2, <1>1, <2>6, <2>7, <2>8
<1>11. (x * Scale) \div speed <= stamp + (q + 1)
  <2>1. stamp + (q + 1) \in Int
    BY <1>4
  <2> QED
    BY <1>4, <1>7, <1>10, <2>1, DivAtMost
<1> QED
  BY <1>4, <1>7, <1>8, <1>11
(* The time at which bytes are due is never negative, wrapped or not.      *)
LEMMA DueType ==
  ASSUME NEW b \in Int, speed \in Speeds
  PROVE  next_tx_us(b, speed) \in Nat
<1>1. Word \in Nat \ {0} /\ Scale \in Nat \ {0} /\ speed \in Nat \ {0} /\ speed % Half = speed
  BY StormBounds
<1>2. PICK u \in Nat : u = U64(b)
  <2>1. U64(b) \in 0 .. Word - 1
    BY U64Facts
  <2> QED
    BY <1>1, <2>1
<1>3. PICK v \in Nat : v = U64(u * Scale)
  <2>1. u * Scale \in Int
    BY <1>1
  <2>2. U64(u * Scale) \in 0 .. Word - 1
    BY <2>1, U64Facts
  <2> QED
    BY <1>1, <2>2
<1>4. next_tx_us(b, speed) = v \div speed
  BY <1>1, <1>2, <1>3 DEF next_tx_us
<1> QED
  BY <1>1, <1>4, ModReduces

(* A test that is early sleeps until its bytes are due.                    *)
LEMMA NapUntilDueKeeps ==
  ASSUME StormInv, NEW len, Written(len), nap_until_due(len, elapsed')
  PROVE  StormInv'
<1> DEFINE due == next_tx_us(bytes_sent + len, speed)
<1>1. /\ Word \in Nat \ {0} /\ Scale \in Nat \ {0} /\ Nano \in Nat \ {0} /\ MaxCalls \in Nat
      /\ TwoPackets \in Nat /\ Half \in Nat \ {0}
      /\ \A s \in Speeds : s \in Nat \ {0} /\ s % Half = s
  BY StormBounds
<1>2. /\ stamp # Unset /\ due > stamp /\ skip_length' \in {0, skip_length}
      /\ nap' = U64((due - stamp) * Nano) /\ wait' = nap_this_time(nap', elapsed')
  BY DEF nap_until_due
<1>3. ~skip_timestamp'
  BY DEF nap_until_due
<1>4. /\ skip_length \in 0 .. Word - 1 /\ stamp \in Nat \cup {Unset} /\ speed \in Speeds
      /\ bytes_sent \in 0 .. Word - 1
  BY DEF StormInv, StormType
<1>5. /\ elapsed' \in Nat /\ len \in Int /\ stamp' = stamp /\ speed' = speed
      /\ sent' \in Nat /\ failed' \in Nat
  BY DEF Written
<1>6. stamp \in Nat /\ speed \in Nat \ {0}
  BY <1>1, <1>2, <1>4
<1>7. stamp <= elapsed'
  <2>1. stamp <= elapsed /\ elapsed <= elapsed' /\ elapsed \in Nat
    BY DEF StormInv, StormType, Written
  <2> QED
    BY <1>5, <1>6, <2>1
<1>8. due \in Nat
  <2>1. bytes_sent + len \in Int
    BY <1>4, <1>5
  <2> QED
    BY <1>4, <2>1, DueType
<1> HIDE DEF due
<1>9. nap' \in Nat
  <2>1. (due - stamp) * Nano \in Int
    BY <1>1, <1>6, <1>8
  <2> QED
    BY <1>1, <1>2, <2>1, U64Facts
<1>10. wait' \in Nat /\ \A t \in Nat : nap' <= t * Nano => wait' <= t
  BY <1>2, <1>4, <1>5, <1>7, <1>9, NapBound
<1>11. skip_length' \in 0 .. Word - 1
  BY <1>1, <1>2, <1>4
<1>12. StormType' /\ BytesCounted' /\ AwakeWhenDue'
  BY <1>9, <1>10, <1>11, WriteKeepsCounts
<1>13. calls' >= 2 /\ calls' \in Nat
  BY <1>1, <1>2, WriteStamped DEF Written
<1>14. Stamped'
  BY <1>2, <1>5, <1>13 DEF Stamped, Unset
<1>15. CatchingUp'
  BY <1>3 DEF CatchingUp
<1>16. ASSUME sent' >= failed'
       PROVE  /\ nap' <= TwoPackets * Nano
              /\ DueBy(sent - failed, elapsed + wait)'
              /\ wait' > 0 => elapsed' + wait' = ((sent' - failed') * Scale) \div speed
  <2>1. PICK x \in Int : x = sent' - failed'
    <3>1. sent' \in Nat /\ failed' \in Nat
      BY <1>5
    <3>2. sent' - failed' \in Int
      BY <3>1
    <3> QED
      BY <3>2
  <2>2. x \in Nat /\ x * Scale \in Nat /\ due = (x * Scale) \div speed /\ due \in Nat
        /\ due <= stamp + TwoPackets
    BY <1>2, <1>16, <2>1, DueSoon DEF due
  <2>3. PICK k \in Nat : k = due - stamp
    BY <1>2, <1>6, <2>2
  <2>4. k <= TwoPackets /\ stamp + k = due
    BY <1>1, <1>6, <2>2, <2>3
  <2>5. k * Nano <= TwoPackets * Nano /\ k * Nano \in Nat
    <3>1. \A a, b, c \in Nat : a <= b => a * c <= b * c /\ a * c \in Nat
      OBVIOUS
    <3> QED
      BY <1>1, <2>4, <3>1
  <2>6. nap' = k * Nano
    <3>1. PICK m \in Nat : m = TwoPackets * Nano
      BY <1>1
    <3>2. k * Nano \in 0 .. Word - 1
      BY <1>1, <2>5, <3>1, NoWrap
    <3> QED
      BY <1>2, <2>3, <3>2, U64Facts
  <2>7. wait' = IF due > elapsed' THEN due - elapsed' ELSE 0
    BY <1>2, <1>5, <1>6, <1>7, <2>4, <2>6, NapExact
  <2>8. due <= elapsed' + wait' /\ (wait' > 0 => elapsed' + wait' = due)
    BY <1>5, <2>2, <2>7
  <2>9. DueBy(sent - failed, elapsed + wait)'
    <3>1. PICK t \in Nat : t = elapsed' + wait'
      <4>1. elapsed' \in Nat /\ wait' \in Nat
        BY <1>5, <1>10
      <4>2. \A a, b \in Nat : \E t \in Nat : t = a + b
        OBVIOUS
      <4> QED
        BY <4>1, <4>2
    <3>2. x * Scale < (t + 1) * speed
      BY <1>6, <2>2, <2>8, <3>1, DivAtMost
    <3> QED
      BY <1>5, <2>1, <3>1, <3>2 DEF DueBy
  <2> QED
    BY <2>1, <2>2, <2>5, <2>6, <2>8, <2>9
<1>17. AsleepUntilDue'
  BY <1>5, <1>16 DEF AsleepUntilDue
<1>18. NapsBounded'
  <2> SUFFICES ASSUME ~negative' PROVE nap' <= TwoPackets * Nano /\ wait' <= TwoPackets /\ sent' >= failed'
    BY DEF NapsBounded
  <2>1. sent' >= failed'
    BY DEF Written
  <2> QED
    BY <1>1, <1>10, <1>16, <2>1
<1> QED
  BY <1>12, <1>14, <1>15, <1>17, <1>18 DEF StormInv
(* A test that is late may send what is due by the last timestamp, and no  *)
(* more, before it looks at the clock again.                               *)
LEMMA FallBehindKeeps ==
  ASSUME StormInv, NEW len, Written(len), fall_behind(len)
  PROVE  StormInv'
<1> DEFINE due == next_tx_us(bytes_sent + len, speed)
<1>1. /\ Word \in Nat \ {0} /\ Scale \in Nat \ {0} /\ Scale % Half = Scale /\ Nano \in Nat \ {0}
      /\ TwoPackets \in Nat /\ MaxCalls \in Nat /\ \A s \in Speeds : s \in Nat \ {0}
  BY StormBounds
<1>2. /\ stamp # Unset /\ due <= stamp /\ nap' = 0 /\ wait' = 0
      /\ skip_length' = U64((stamp - due) * speed) \div Scale
  BY <1>1 DEF fall_behind
<1>3. skip_timestamp'
  BY DEF fall_behind
<1>4. stamp \in Nat \cup {Unset} /\ speed \in Speeds /\ bytes_sent \in 0 .. Word - 1
  BY DEF StormInv, StormType
<1>5. /\ len \in Int /\ stamp' = stamp /\ speed' = speed /\ sent' \in Nat /\ failed' \in Nat
  BY DEF Written
<1>6. stamp \in Nat /\ speed \in Nat \ {0}
  BY <1>1, <1>2, <1>4
<1>7. due \in Nat
  <2>1. bytes_sent + len \in Int
    BY <1>4, <1>5
  <2> QED
    BY <1>4, <2>1, DueType
<1>8. PICK y \in Nat : y = (stamp - due) * speed
  <2>1. stamp - due \in Nat
    BY <1>2, <1>6, <1>7
  <2>2. \A a, b \in Nat : \E c \in Nat : c = a * b
    OBVIOUS
  <2> QED
    BY <1>6, <2>1, <2>2
<1>9. PICK w \in Nat : w = U64(y) /\ w <= y /\ w <= Word - 1
  <2>1. U64(y) \in 0 .. Word - 1 /\ U64(y) <= y
    BY U64Facts
  <2> QED
    BY <1>1, <2>1
<1>10. skip_length' = w \div Scale /\ skip_length' \in Nat
  BY <1>1, <1>2, <1>8, <1>9, ModReduces
<1>11. skip_length' * Scale <= w /\ skip_length' <= Word - 1
  <2>1. PICK q \in Nat : q = skip_length'
    BY <1>10
  <2>2. w \div Scale \in Int /\ w % Scale \in 0 .. Scale - 1 /\ w = Scale * (w \div Scale) + (w % Scale)
    BY <1>1, DivMod
  <2>3. PICK r \in Nat : r = w % Scale
    BY <1>1, <2>2
  <2>4. w = Scale * q + r /\ q = w \div Scale
    BY <1>10, <2>1, <2>2, <2>3
  <2>5. q * Scale <= w
    BY <1>1, <2>4
  <2>6. q <= q * Scale /\ q * Scale \in Nat
    BY <1>1
  <2>7. q <= Word - 1
    BY <1>1, <1>9, <2>5, <2>6
  <2> QED
    BY <2>1, <2>5, <2>7
<1>12. skip_length' \in 0 .. Word - 1 /\ nap' \in Nat /\ wait' \in Nat
  BY <1>1, <1>2, <1>10, <1>11
<1>13. StormType' /\ BytesCounted' /\ AwakeWhenDue'
  BY <1>12, WriteKeepsCounts
<1>14. calls' >= 2 /\ calls' \in Nat
  BY <1>1, <1>2, WriteStamped DEF Written
<1>15. Stamped'
  BY <1>2, <1>5, <1>14 DEF Stamped, Unset
<1>16. PICK x \in Int : x = sent' - failed'
  <2>1. \A a, b \in Nat : \E c \in Int : c = a - b
    OBVIOUS
  <2> QED
    BY <1>5, <2>1
<1>17. x * Scale < (due + 1) * speed
  <2>1. CASE sent' >= failed'
    <3>1. x * Scale \in Nat /\ due = (x * Scale) \div speed
      BY <1>2, <1>16, <2>1, DueSoon
    <3>2. due <= due
      BY <1>7
    <3> QED
      BY <1>6, <1>7, <3>1, <3>2, DivAtMost
  <2>2. CASE ~(sent' >= failed')
    <3>1. \A a, b \in Nat : ~(a >= b) => a - b < 0
      OBVIOUS
    <3>2. x < 0
      BY <1>5, <1>16, <2>2, <3>1
    <3>3. \A a \in Int, b, c, d \in Nat : a < 0 /\ b # 0 /\ c # 0 => a * b < (d + 1) * c
      OBVIOUS
    <3> QED
      BY <1>1, <1>6, <1>7, <3>2, <3>3
  <2> QED
    BY <2>1, <2>2
<1> HIDE DEF due
<1>18. (x + skip_length') * Scale < (stamp + 1) * speed
  <2>1. PICK q \in Nat : q = skip_length'
    BY <1>10
  <2>2. q * Scale <= (stamp - due) * speed
    <3>1. PICK p \in Nat : p = q * Scale
      BY <1>1
    <3>2. p <= y
      BY <1>9, <1>11, <2>1, <3>1
    <3> QED
      BY <1>8, <3>1, <3>2
  <2>3. (x + q) * Scale = x * Scale + q * Scale
    BY <1>1
  <2>4. (stamp + 1) * speed = (stamp - due) * speed + (due + 1) * speed
    BY <1>6, <1>7
  <2>5. \A a, b, c, d \in Int : a < b /\ c <= d => a + c < d + b
    OBVIOUS
  <2>6. /\ x * Scale \in Int /\ q * Scale \in Int /\ (stamp - due) * speed \in Int
        /\ (due + 1) * speed \in Int
    BY <1>1, <1>6, <1>7
  <2>7. x * Scale + q * Scale < (stamp - due) * speed + (due + 1) * speed
    BY <1>17, <2>2, <2>5, <2>6
  <2> QED
    BY <2>1, <2>3, <2>4, <2>7
<1>19. CatchingUp'
  <2>1. DueBy((sent - failed) + skip_length, stamp)'
    BY <1>5, <1>16, <1>18 DEF DueBy
  <2> QED
    BY <1>2, <2>1 DEF CatchingUp
<1>20. AsleepUntilDue'
  BY <1>3 DEF AsleepUntilDue
<1>21. NapsBounded'
  <2>1. 0 <= TwoPackets /\ 0 <= TwoPackets * Nano
    BY <1>1
  <2> QED
    BY <1>2, <2>1 DEF NapsBounded, Written
<1> QED
  BY <1>13, <1>15, <1>19, <1>20, <1>21 DEF StormInv
--------------------------------------------------------------------------------
(* More is due later.                                                      *)
LEMMA DueLater ==
  ASSUME NEW x \in Int, NEW y \in Int, NEW s \in Int, NEW t \in Int,
         speed \in Nat \ {0}, Scale \in Nat \ {0}, x <= y, s <= t, DueBy(y, s)
  PROVE  DueBy(x, t)
<1>1. \A a, b, c \in Int : c >= 0 /\ a <= b => a * c <= b * c
  OBVIOUS
<1>2. x * Scale <= y * Scale /\ (s + 1) * speed <= (t + 1) * speed
  BY <1>1
<1>3. /\ x * Scale \in Int /\ y * Scale \in Int /\ (s + 1) * speed \in Int
      /\ (t + 1) * speed \in Int /\ y * Scale < (s + 1) * speed
  BY DEF DueBy
<1>4. \A a, b, c, d \in Int : a <= b /\ b < c /\ c <= d => a < d
  OBVIOUS
<1>5. x * Scale < (t + 1) * speed
  BY <1>2, <1>3, <1>4
<1> QED
  BY <1>5 DEF DueBy

(* When select returns, what was sent is due.                              *)
LEMMA WakeKeeps ==
  ASSUME StormInv, wake
  PROVE  StormInv'
<1>1. /\ Word \in Nat \ {0} /\ Scale \in Nat \ {0} /\ Delays \in SUBSET Nat /\ MaxCalls \in Nat
      /\ TwoPackets \in Nat /\ \A s \in Speeds : s \in Nat \ {0}
  BY StormBounds
<1>2. /\ pc = "sleep" /\ pc' = "send" /\ wait' = 0 /\ speed' = speed /\ skip_length' = skip_length
      /\ nap' = nap /\ send_len' = send_len /\ calls' = calls /\ sent' = sent /\ failed' = failed
      /\ bytes_sent' = U64(bytes_sent + send_len)
  BY DEF wake
<1>3. (skip_timestamp' <=> skip_timestamp) /\ (negative' <=> negative)
  BY DEF wake
<1>4. /\ speed \in Speeds /\ elapsed \in Nat /\ stamp \in Nat \cup {Unset} /\ stamp <= elapsed
      /\ bytes_sent \in 0 .. Word - 1 /\ skip_length \in 0 .. Word - 1 /\ nap \in Nat /\ wait \in Nat
      /\ send_len \in Int /\ calls \in 0 .. MaxCalls /\ sent \in Nat /\ failed \in Nat
      /\ sent <= calls * Longest
  BY DEF StormInv, StormType
<1>5. PICK d \in Delays : elapsed' = elapsed + wait + d
  BY DEF wake
<1>6. elapsed' \in Nat /\ elapsed + wait <= elapsed' /\ elapsed <= elapsed'
  BY <1>1, <1>4, <1>5
<1>7. (stamp' = stamp /\ skip_timestamp) \/ stamp' = elapsed'
  BY DEF wake
<1>8. stamp' \in Nat \cup {Unset} /\ stamp' <= elapsed' /\ stamp <= stamp'
  BY <1>4, <1>6, <1>7 DEF Unset
<1>9. calls # 0 /\ stamp' # Unset
  <2>1. calls # 0
    BY <1>2 DEF StormInv, Stamped
  <2>2. skip_timestamp => calls # 1
    BY <1>2 DEF StormInv, Stamped
  <2>3. calls >= 2 => stamp # Unset
    BY <1>1, <1>4 DEF StormInv, Stamped
  <2>4. skip_timestamp => stamp # Unset
    BY <1>1, <1>4, <2>1, <2>2, <2>3
  <2> QED
    BY <1>6, <1>7, <2>1, <2>4 DEF Unset
<1>10. stamp' \in Nat
  BY <1>8, <1>9
<1>11. bytes_sent' \in 0 .. Word - 1
  <2>1. bytes_sent + send_len \in Int
    BY <1>4
  <2> QED
    BY <1>2, <2>1, U64Facts
<1>12. StormType'
  BY <1>1, <1>2, <1>4, <1>6, <1>8, <1>11 DEF StormType, Unset
<1>13. BytesCounted'
  BY <1>2 DEF StormInv, BytesCounted, U64
<1>14. Stamped'
  <2>1. calls = 1 => sent <= Longest
    BY DEF StormInv, Stamped
  <2> QED
    BY <1>2, <1>9, <2>1 DEF Stamped, Unset
<1>15. speed \in Nat \ {0}
  BY <1>1, <1>4
<1>16. PICK x \in Int : x = sent - failed
  <2>1. \A a, b \in Nat : \E c \in Int : c = a - b
    OBVIOUS
  <2> QED
    BY <1>4, <2>1
<1>17. ASSUME skip_timestamp
       PROVE  DueBy(x + skip_length, stamp') /\ DueBy(x, stamp')
  <2>1. DueBy(x + skip_length, stamp)
    BY <1>16, <1>17 DEF StormInv, CatchingUp
  <2>2. x + skip_length \in Int /\ x <= x + skip_length /\ x + skip_length <= x + skip_length
    BY <1>1, <1>4
  <2>3. stamp \in Int /\ stamp' \in Int
    BY <1>4, <1>10 DEF Unset
  <2> QED
    BY <1>1, <1>8, <1>15, <2>1, <2>2, <2>3, DueLater
<1>18. CatchingUp'
  <2> SUFFICES ASSUME skip_timestamp' PROVE DueBy((sent - failed) + skip_length, stamp)'
    BY <1>2 DEF CatchingUp
  <2>1. DueBy(x + skip_length, stamp')
    BY <1>3, <1>17
  <2> QED
    BY <1>2, <1>16, <2>1 DEF DueBy
<1>19. AsleepUntilDue'
  BY <1>2 DEF AsleepUntilDue
<1>20. AwakeWhenDue'
  <2> SUFFICES ASSUME calls >= 2 PROVE DueBy(x, stamp')
    BY <1>2, <1>16 DEF AwakeWhenDue, DueBy
  <2>1. CASE skip_timestamp
    BY <1>17, <2>1
  <2>2. CASE ~skip_timestamp /\ sent >= failed
    <3>1. DueBy(x, elapsed + wait)
      BY <1>2, <1>16, <2>2 DEF StormInv, AsleepUntilDue
    <3>2. stamp' = elapsed'
      BY <1>7, <2>2
    <3>3. elapsed + wait \in Int /\ elapsed' \in Int /\ x <= x
      BY <1>4, <1>6
    <3> QED
      BY <1>1, <1>6, <1>15, <3>1, <3>2, <3>3, DueLater
  <2>3. CASE ~(sent >= failed)
    <3>1. \A a, b \in Nat : ~(a >= b) => a - b < 0
      OBVIOUS
    <3>2. x < 0
      BY <1>4, <1>16, <2>3, <3>1
    <3>3. \A a \in Int, b, c, e \in Nat : a < 0 /\ b # 0 /\ c # 0 => a * b < (e + 1) * c
      OBVIOUS
    <3> QED
      BY <1>1, <1>10, <1>15, <3>2, <3>3 DEF DueBy
  <2> QED
    BY <2>1, <2>2, <2>3
<1>21. NapsBounded'
  <2>1. 0 <= TwoPackets
    BY <1>1
  <2> QED
    BY <1>2, <1>3, <2>1 DEF NapsBounded, StormInv
<1> QED
  BY <1>12, <1>13, <1>14, <1>18, <1>19, <1>20, <1>21 DEF StormInv

(* Every step of send_storm, of the sweeps and of do_sleep keeps StormInv. *)
LEMMA StormInvariant == StormSpec => []StormInv
<1>1. StormInit => StormInv
  BY InitialStorm
<1>2. ASSUME StormInv, [StormNext]_pacing PROVE StormInv'
  <2>1. CASE start_test
    BY <1>2, <2>1, BeginKeeps DEF start_test
  <2>2. CASE storm_returns \/ sweep_ends
    <3>1. begin /\ pc' \in {"send", "idle"} /\ speed' = speed
      BY <2>2 DEF storm_returns, sweep_ends
    <3>2. speed \in Speeds
      BY <1>2 DEF StormInv, StormType
    <3> QED
      BY <1>2, <3>1, <3>2, BeginKeeps
  <2>3. ASSUME NEW len \in Lens \cup {-1}, write(len) PROVE StormInv'
    <3>1. Written(len)
      BY <1>2, <2>3, WriteCounts
    <3>2. do_sleep(len, elapsed')
      BY <2>3 DEF write
    <3>3. skip(len) \/ nap_untimed(elapsed') \/ nap_until_due(len, elapsed') \/ fall_behind(len)
      BY <3>2 DEF do_sleep
    <3> QED
      BY <1>2, <3>1, <3>3, SkipKeeps, NapUntimedKeeps, NapUntilDueKeeps, FallBehindKeeps
  <2>4. CASE wake
    BY <1>2, <2>4, WakeKeeps
  <2>5. CASE UNCHANGED pacing
    <3>1. /\ pc' = pc /\ speed' = speed /\ elapsed' = elapsed /\ stamp' = stamp
          /\ bytes_sent' = bytes_sent /\ skip_length' = skip_length /\ nap' = nap /\ wait' = wait
          /\ send_len' = send_len /\ calls' = calls /\ sent' = sent /\ failed' = failed
      BY <2>5 DEF pacing
    <3>2. (skip_timestamp' <=> skip_timestamp) /\ (negative' <=> negative)
      BY <2>5 DEF pacing
    <3>3. StormType' /\ BytesCounted'
      BY <1>2, <3>1 DEF StormInv, StormType, BytesCounted, U64, Unset
    <3>4. Stamped' /\ CatchingUp'
      BY <1>2, <3>1, <3>2 DEF StormInv, Stamped, CatchingUp, DueBy, Unset
    <3>5. AsleepUntilDue' /\ AwakeWhenDue'
      BY <1>2, <3>1, <3>2 DEF StormInv, AsleepUntilDue, AwakeWhenDue, DueBy
    <3>6. NapsBounded'
      BY <1>2, <3>1, <3>2 DEF StormInv, NapsBounded
    <3> QED
      BY <3>3, <3>4, <3>5, <3>6 DEF StormInv
  <2> QED
    BY <1>2, <2>1, <2>2, <2>3, <2>4, <2>5 DEF StormNext, sleep_on
<1> QED
  BY <1>1, <1>2, PTL DEF StormSpec
(* At any speed, with any packets and delays, no test is ahead of its      *)
(* speed: before each write from the third on, the bytes that send_storm   *)
(* or a sweep sent so far are due.                                         *)
THEOREM SpeedAlwaysKept == StormSpec => []SpeedKept
<1>1. StormInv => SpeedKept
  <2> SUFFICES ASSUME StormInv, pc = "send", calls >= 2, sent >= failed
               PROVE  ((sent - failed) * Scale) \div speed <= elapsed
    BY DEF SpeedKept
  <2>1. /\ elapsed \in Nat /\ stamp \in Nat \cup {Unset} /\ stamp <= elapsed
        /\ sent \in Nat /\ failed \in Nat /\ speed \in Nat \ {0} /\ Scale \in Nat \ {0}
    BY StormBounds DEF StormInv, StormType
  <2>2. PICK x \in Int : x = sent - failed
    BY <2>1
  <2>3. DueBy(x, stamp) /\ x <= x /\ stamp \in Int /\ elapsed \in Int
    BY <2>1, <2>2 DEF StormInv, AwakeWhenDue, Unset
  <2>4. DueBy(x, elapsed)
    BY <2>1, <2>3, DueLater
  <2>5. x * Scale < (elapsed + 1) * speed /\ x * Scale \in Int
    BY <2>1, <2>4 DEF DueBy
  <2>6. (x * Scale) \div speed <= elapsed
    BY <2>1, <2>3, <2>5, DivAtMost
  <2> QED
    BY <2>2, <2>6
<1> QED
  BY <1>1, StormInvariant, PTL

(* do_sleep never sleeps longer than two packets take, and wakes exactly   *)
(* when the bytes are due, unless bytes_sent fell below 0.                 *)
THEOREM NapsStayRight == StormSpec => []NapsAreRight
<1>1. StormInv => NapsAreRight
  <2> SUFFICES ASSUME StormInv PROVE NapsAreRight
    OBVIOUS
  <2>1. ~negative => wait <= TwoPackets
    BY DEF StormInv, NapsBounded
  <2>2. ASSUME pc = "sleep", calls >= 2, wait > 0, sent >= failed
        PROVE  elapsed + wait = ((sent - failed) * Scale) \div speed
    <3>1. ~skip_timestamp
      BY <2>2 DEF StormInv, CatchingUp
    <3> QED
      BY <2>2, <3>1 DEF StormInv, AsleepUntilDue
  <2> QED
    BY <2>1, <2>2 DEF NapsAreRight
<1> QED
  BY <1>1, StormInvariant, PTL
--------------------------------------------------------------------------------
(* The tests build from what is there.                                     *)

TestsSpec == TestsInit /\ [][TestsNext]_tests

IcmpType == [head : 1 .. 5, code : 0 .. Codes - 1, i : 0 .. 7, j : 0 .. 7,
             type_add : {"unset", "yes", "no"}, id : BOOLEAN, stamps : BOOLEAN]

(* Icmp_Grammar leaves its first type with i at 0 and Icmp_id assigned, so *)
(* that the third type assigns its timestamps before it uses them.         *)
IcmpLive(p) ==
  /\ p \in IcmpType
  /\ p.i >= 7 => p.id
  /\ p.head >= 2 => p.id /\ p.type_add # "unset"
  /\ p.head = 1 /\ p.code = Codes - 1 => p.i = 0 /\ p.j = 0
  /\ p.head = 2 => p.i = 0
  /\ p.head = 3 /\ p.i >= 7 => p.stamps

TestsInv ==
  /\ phase \in {"building", "storming"} => handle = "open"
  /\ IcmpLive(icmp)

(* The variables of Icmp_Grammar keep their types.                         *)
LEMMA IcmpUpdates ==
  ASSUME NEW r \in IcmpType
  PROVE  /\ \A i, j \in 0 .. 7, stamps \in BOOLEAN :
              [r EXCEPT !.i = i, !.j = j, !.type_add = "no", !.id = TRUE, !.stamps = stamps]
                \in IcmpType
         /\ [r EXCEPT !.i = 0, !.j = 0, !.type_add = "yes"] \in IcmpType
         /\ \A head \in 1 .. 5 :
              [r EXCEPT !.type_add = "yes", !.head = head, !.code = 0] \in IcmpType
<1>1. /\ 0 \in 0 .. Codes - 1 /\ 0 \in 0 .. 7 /\ TRUE \in BOOLEAN
      /\ "no" \in {"unset", "yes", "no"} /\ "yes" \in {"unset", "yes", "no"}
  BY TestsAssumption
<1>2. \A i, j \in 0 .. 7, stamps \in BOOLEAN :
        [r EXCEPT !.i = i, !.j = j, !.type_add = "no", !.id = TRUE, !.stamps = stamps] \in IcmpType
  BY <1>1, Zenon DEF IcmpType
<1>3. [r EXCEPT !.i = 0, !.j = 0, !.type_add = "yes"] \in IcmpType
  BY <1>1, Zenon DEF IcmpType
<1>4. \A head \in 1 .. 5 : [r EXCEPT !.type_add = "yes", !.head = head, !.code = 0] \in IcmpType
  BY <1>1, Zenon DEF IcmpType
<1> QED
  BY <1>2, <1>3, <1>4

(* The switch of Icmp_Grammar on its type, case by case.                   *)
LEMMA IcmpSwitchLive ==
  ASSUME NEW p, IcmpLive(p), NEW q, q = IcmpSwitch(p)
  PROVE  /\ q \in IcmpType /\ q.head = p.head /\ q.code = p.code
         /\ q.i >= 7 => q.id
         /\ q.head \in {1, 3} => q.type_add # "unset" /\ (q.type_add = "yes" => q.i = 0 /\ q.j = 0)
         /\ q.head >= 2 => q.id /\ q.type_add # "unset"
         /\ q.head = 1 /\ q.code = Codes - 1 => q.id /\ q.i = 0
         /\ q.head = 2 => q.i = 0
         /\ q.head = 3 /\ q.i >= 7 => q.stamps
<1>1. /\ Heads[1] = "ICMP_ECHO" /\ Heads[2] = "ICMP_UNREACH" /\ Heads[3] = "ICMP_TSTAMP"
      /\ Heads[4] = "ICMP_TIMXCEED" /\ Heads[5] = "ICMP_REDIRECT"
  BY DEF Heads
<1>2. p \in IcmpType
  BY DEF IcmpLive
<1>3. CASE p.head \notin {1, 3}
  <2>1. Heads[p.head] \notin {"ICMP_ECHO", "ICMP_TSTAMP"}
    BY <1>1, <1>2, <1>3 DEF IcmpType
  <2>2. q = p
    BY <2>1 DEF IcmpSwitch
  <2> QED
    BY <1>2, <1>3, <2>2 DEF IcmpLive, IcmpType
<1>4. CASE p.head \in {1, 3} /\ p.i < 7
  <2>1. Heads[p.head] \in {"ICMP_ECHO", "ICMP_TSTAMP"}
    BY <1>1, <1>4
  <2> DEFINE j == IF p.j < 7 THEN p.j + 1 ELSE p.j
             s == p.stamps \/ Heads[p.head] = "ICMP_TSTAMP"
  <2>2. q = [p EXCEPT !.i = IF j = 7 THEN @ + 1 ELSE @, !.j = j, !.type_add = "no",
                      !.id = TRUE, !.stamps = s]
    BY <1>4, <2>1 DEF IcmpSwitch
  <2>3. j \in 0 .. 7 /\ (p.j = 0 => j = 1)
    BY <1>2 DEF IcmpType
  <2>4. s \in BOOLEAN /\ (p.head = 3 => s)
    BY <1>1
  <2> HIDE DEF j, s
  <2>5. /\ q.head = p.head /\ q.code = p.code /\ q.i = (IF j = 7 THEN p.i + 1 ELSE p.i)
        /\ q.j = j /\ q.type_add = "no"
    BY <1>2, <2>2 DEF IcmpType
  <2>6. q.id /\ (p.head = 3 => q.stamps)
    BY <1>2, <2>2, <2>4 DEF IcmpType
  <2>7. q \in IcmpType
    <3>1. PICK i \in 0 .. 7 : i = IF j = 7 THEN p.i + 1 ELSE p.i
      BY <1>2, <1>4 DEF IcmpType
    <3>2. q = [p EXCEPT !.i = i, !.j = j, !.type_add = "no", !.id = TRUE, !.stamps = s]
      BY <2>2, <3>1
    <3>3. j \in 0 .. 7 /\ s \in BOOLEAN
      BY <2>3, <2>4
    <3>4. [p EXCEPT !.i = i, !.j = j, !.type_add = "no", !.id = TRUE, !.stamps = s] \in IcmpType
      BY <1>2, <3>3, IcmpUpdates, Zenon
    <3> QED
      BY <3>2, <3>4
  <2> QED
    BY <1>4, <2>3, <2>5, <2>6, <2>7 DEF IcmpLive
<1>5. CASE p.head \in {1, 3} /\ ~(p.i < 7)
  <2>1. Heads[p.head] \in {"ICMP_ECHO", "ICMP_TSTAMP"}
    BY <1>1, <1>5
  <2>2. q = [p EXCEPT !.i = 0, !.j = 0, !.type_add = "yes"]
    BY <1>5, <2>1 DEF IcmpSwitch
  <2>3. q.head = p.head /\ q.code = p.code /\ q.i = 0 /\ q.j = 0 /\ q.type_add = "yes"
    BY <1>2, <2>2 DEF IcmpType
  <2>4. q \in IcmpType
    BY <1>2, <2>2, IcmpUpdates, Zenon
  <2>5. q.id <=> p.id
    BY <1>2, <2>2 DEF IcmpType
  <2>6. p.i >= 7 /\ p.id
    BY <1>2, <1>5 DEF IcmpLive, IcmpType
  <2> QED
    BY <2>3, <2>4, <2>5, <2>6 DEF IcmpLive
<1> QED
  BY <1>3, <1>4, <1>5

(* What follows a packet of Icmp_Grammar: the next type or the next code.  *)
LEMMA IcmpStepLive ==
  ASSUME NEW p, IcmpLive(p), ~IcmpLast(p)
  PROVE  IcmpLive(IcmpStep(p))
<1>1. PICK q : q = IcmpSwitch(p)
  OBVIOUS
<1>2. /\ q \in IcmpType /\ q.head = p.head /\ q.code = p.code
      /\ q.i >= 7 => q.id
      /\ q.head \in {1, 3} => q.type_add # "unset" /\ (q.type_add = "yes" => q.i = 0 /\ q.j = 0)
      /\ q.head >= 2 => q.id /\ q.type_add # "unset"
      /\ q.head = 1 /\ q.code = Codes - 1 => q.id /\ q.i = 0
      /\ q.head = 2 => q.i = 0
      /\ q.head = 3 /\ q.i >= 7 => q.stamps
  BY <1>1, IcmpSwitchLive
<1>3. Codes \in Nat \ {0, 1}
  BY TestsAssumption
<1>4. ~(q.code = Codes - 1 /\ q.head = 5)
  BY <1>2 DEF IcmpLast, Heads
<1>5. CASE q.code = Codes - 1
  <2>1. PICK r : r = [q EXCEPT !.type_add = "yes", !.head = @ + 1, !.code = 0]
    OBVIOUS
  <2>2. IcmpStep(p) = r
    BY <1>1, <1>5, <2>1 DEF IcmpStep
  <2>3. /\ r.head = q.head + 1 /\ r.code = 0 /\ r.i = q.i /\ r.j = q.j /\ r.type_add = "yes"
    BY <1>2, <2>1 DEF IcmpType
  <2>4. (r.id <=> q.id) /\ (r.stamps <=> q.stamps)
    BY <1>2, <2>1 DEF IcmpType
  <2>5. q.head \in 1 .. 4
    BY <1>2, <1>4, <1>5 DEF IcmpType
  <2>6. r \in IcmpType
    <3>1. PICK h \in 1 .. 5 : h = q.head + 1
      BY <2>5
    <3>2. r = [q EXCEPT !.type_add = "yes", !.head = h, !.code = 0]
      BY <2>1, <3>1
    <3> QED
      BY <1>2, <3>2, IcmpUpdates, Zenon
  <2>7. q.id
    BY <1>2, <1>5, <2>5
  <2> QED
    BY <1>2, <1>3, <1>5, <2>2, <2>3, <2>4, <2>5, <2>6, <2>7 DEF IcmpLive
<1>6. CASE q.code # Codes - 1 /\ q.type_add = "yes"
  <2>1. PICK r : r = [q EXCEPT !.code = @ + 1]
    OBVIOUS
  <2>2. IcmpStep(p) = r
    BY <1>1, <1>6, <2>1 DEF IcmpStep
  <2>3. /\ r.head = q.head /\ r.code = q.code + 1 /\ r.i = q.i /\ r.j = q.j /\ r.type_add = q.type_add
    BY <1>2, <2>1 DEF IcmpType
  <2>4. (r.id <=> q.id) /\ (r.stamps <=> q.stamps)
    BY <1>2, <2>1 DEF IcmpType
  <2>5. r \in IcmpType
    BY <1>2, <1>3, <1>6, <2>1 DEF IcmpType
  <2> QED
    BY <1>2, <1>6, <2>2, <2>3, <2>4, <2>5 DEF IcmpLive
<1>7. CASE q.code # Codes - 1 /\ q.type_add # "yes"
  <2>1. IcmpStep(p) = q
    BY <1>1, <1>7 DEF IcmpStep
  <2> QED
    BY <1>2, <1>7, <2>1 DEF IcmpLive
<1> QED
  BY <1>5, <1>6, <1>7

(* For any number of codes, no packet is built with a closed libnet handle *)
(* and none of Icmp_Grammar from a variable that was never assigned,       *)
(* whichever tests run and whichever headers fail before.                  *)
THEOREM AlwaysBuiltFromLiveState == TestsSpec => []BuiltFromLiveState
<1>1. IcmpLive(IcmpStart)
  <2>1. Codes \in Nat \ {0, 1}
    BY TestsAssumption
  <2>2. IcmpStart \in IcmpType
    BY <2>1 DEF IcmpStart, IcmpType
  <2> QED
    BY <2>1, <2>2 DEF IcmpLive, IcmpStart
<1>2. TestsInit => TestsInv
  BY <1>1 DEF TestsInit, TestsInv
<1>3. ASSUME TestsInv, [TestsNext]_tests PROVE TestsInv'
  <2>1. ASSUME NEW t, begin_test(t) PROVE TestsInv'
    BY <1>3, <2>1 DEF begin_test, loops, TestsInv, IcmpLive, IcmpType
  <2>2. CASE libnet_init
    BY <1>3, <2>2 DEF libnet_init, loops, TestsInv, IcmpLive, IcmpType
  <2>3. CASE build_fails
    <3>1. \/ leave
          \/ phase' = "storming" /\ phase = "building" /\ handle' = handle /\ icmp' = icmp
      BY <2>3 DEF build_fails, loops
    <3>2. /\ icmp' \in {icmp, IcmpStart}
          /\ phase' = "idle" \/ (phase' = "storming" /\ phase = "building" /\ handle' = handle)
      BY <3>1 DEF leave
    <3> QED
      BY <1>1, <1>3, <3>2 DEF TestsInv, IcmpLive, IcmpType
  <2>4. CASE storm_begins
    BY <1>3, <2>4 DEF storm_begins, loops, TestsInv, IcmpLive, IcmpType
  <2>5. ASSUME finish PROVE TestsInv'
    <3>1. icmp' = IcmpStart /\ phase' = "idle"
      BY <2>5 DEF finish, leave
    <3> QED
      BY <1>1, <3>1 DEF TestsInv, IcmpLive, IcmpType
  <2>6. CASE storm_ends
    BY <2>5, <2>6 DEF storm_ends
  <2>7. ASSUME phase' = phase, handle' = handle, icmp' = icmp PROVE TestsInv'
    BY <1>3, <2>7 DEF TestsInv, IcmpLive, IcmpType
  <2>8. CASE arp_packet \/ ethernet_packet
    BY <2>5, <2>7, <2>8 DEF arp_packet, ethernet_packet, packet, last_packet
  <2>9. CASE icmp_packet
    <3>1. CASE finish
      BY <2>5, <3>1
    <3>2. CASE ~finish
      <4>1. ~IcmpLast(icmp) /\ icmp' = IcmpStep(icmp) /\ phase' = phase /\ handle' = handle
        BY <2>9, <3>2 DEF icmp_packet, packet, last_packet
      <4>2. IcmpLive(IcmpStep(icmp))
        BY <1>3, <4>1, IcmpStepLive DEF TestsInv
      <4> QED
        BY <1>3, <4>1, <4>2 DEF TestsInv, IcmpLive, IcmpType
    <3> QED
      BY <3>1, <3>2
  <2>10. CASE fuzz_packet
    BY <2>7, <2>10 DEF fuzz_packet
  <2>11. CASE UNCHANGED tests
    BY <2>7, <2>11 DEF tests
  <2> QED
    BY <1>3, <2>1, <2>2, <2>3, <2>4, <2>6, <2>8, <2>9, <2>10, <2>11
       DEF TestsNext, Test_MISS, other_test, exited
<1>4. TestsInv => BuiltFromLiveState
  <2> SUFFICES ASSUME TestsInv PROVE BuiltFromLiveState
    OBVIOUS
  <2>1. /\ Heads[1] = "ICMP_ECHO" /\ Heads[2] = "ICMP_UNREACH" /\ Heads[3] = "ICMP_TSTAMP"
        /\ Heads[4] = "ICMP_TIMXCEED" /\ Heads[5] = "ICMP_REDIRECT"
    BY DEF Heads
  <2>2. icmp.head \in 1 .. 5
    BY DEF TestsInv, IcmpLive, IcmpType
  <2>3. (Heads[icmp.head] = "ICMP_TSTAMP" => icmp.head = 3)
        /\ (Heads[icmp.head] \notin {"ICMP_ECHO", "ICMP_TSTAMP"} => icmp.head >= 2)
    BY <2>1, <2>2
  <2> QED
    BY <2>3 DEF TestsInv, IcmpLive, BuiltFromLiveState
<1> QED
  BY <1>2, <1>3, <1>4, PTL DEF TestsSpec
================================================================================
