--------------------------- MODULE PingThreadProofs ---------------------------
(***************************************************************************)
(* The bookkeeping of the ping thread, for any number of sequence numbers  *)
(* (2^16 in the code), probes, answers and errors, and for any interval,   *)
(* preload and resolution of the clock.                                    *)
(***************************************************************************)
EXTENDS PingWindow, PingPacing, DivisionLemmas, FiniteSetTheorems

-------------------------------------------------------------------------------
WindowSpec == WindowInit /\ [][WindowNext]_window

(* Probes are numbered from 1, and only probes that were sent are answered.*)
WindowType ==
  /\ ntransmitted \in Nat /\ nreceived \in Nat /\ nrepeats \in Nat /\ nerrors \in Nat
  /\ acked \in 0 .. W - 1 /\ pipesize \in Int /\ worst \in Int
  /\ rcvd \in SUBSET (0 .. W - 1)
  /\ answered \in SUBSET (1 .. ntransmitted)

TableRight == \A n \in Answerable : U16(n) \in rcvd <=> n \in answered

WindowInv ==
  WindowType /\ TableRight /\ nreceived = Cardinality(answered) /\ pipesize = worst

(* What the constants are: half a window is less than a window.            *)
LEMMA WindowBounds ==
  /\ W \in Nat \ {0} /\ Half \in Nat /\ Half + 1 < W
  /\ MaxAge \in Nat /\ MaxAge <= Half /\ MaxSent \in Nat /\ MaxExtra \in Nat
<1>1. W \in Nat /\ W >= 4 /\ Half = (W \div 2) - 1
  BY WindowAssumption DEF Half
<1>2. (W \div 2) \in Nat /\ W \div 2 >= 2 /\ W \div 2 < W
  BY <1>1
<1> QED
  BY <1>1, <1>2, WindowAssumption

(* Two different probes at most half a window apart have different         *)
(* sequence numbers.                                                       *)
LEMMA DifferentNumbers ==
  ASSUME NEW a \in Nat, NEW b \in Nat, a < b, b - a < W
  PROVE  U16(a) # U16(b)
<1> DEFINE p == a \div W
           q == b \div W
           r == b % W
<1>0. W \in Nat \ {0}
  BY WindowBounds
<1> SUFFICES ASSUME U16(a) = U16(b) PROVE FALSE
  OBVIOUS
<1>1. p \in Int /\ q \in Int /\ r \in 0 .. W - 1 /\ a = W * p + r /\ b = W * q + r
  BY <1>0, DivMod DEF U16
<1> HIDE DEF p, q, r
<1>2. W * (q - p) = W * q - W * p
  BY <1>0, <1>1
<1>3. W * (q - p) = b - a
  BY <1>0, <1>1, <1>2
<1>4. q - p = 0
  BY <1>0, <1>1, <1>3, NoSmallMultiple
<1> QED
  BY <1>0, <1>1, <1>3, <1>4

(* The age computed from 16-bit numbers is the age.                        *)
LEMMA AgeExact ==
  ASSUME NEW a \in Nat, NEW b \in Nat, b <= a, a - b < W
  PROVE  U16(a - U16(b)) = a - b
<1> DEFINE q == b \div W
           r == b % W
<1>0. W \in Nat \ {0}
  BY WindowBounds
<1>1. q \in Int /\ r \in 0 .. W - 1 /\ b = W * q + r
  BY <1>0, DivMod
<1> HIDE DEF q, r
<1>2. a - r = W * q + (a - b) /\ a - b \in 0 .. W - 1 /\ a - r \in Int
  BY <1>0, <1>1
<1>3. (a - r) % W = a - b
  BY <1>0, <1>1, <1>2, ModUnique
<1> QED
  BY <1>3 DEF U16, r

(* A sequence number on the wire is one of W (2^16 in the code).           *)
LEMMA NumberType ==
  ASSUME NEW x \in Int
  PROVE  U16(x) \in 0 .. W - 1
BY WindowBounds, DivMod DEF U16

(* acknowledge keeps pipesize equal to what it stands for.                 *)
LEMMA AcknowledgeExact ==
  ASSUME WindowInv, NEW n \in Answerable, acknowledge(n)
  PROVE  /\ pipesize' = worst' /\ pipesize' \in Int /\ worst' \in Int
         /\ acked' \in 0 .. W - 1
<1>1. n \in Nat /\ n <= ntransmitted /\ ntransmitted - n <= MaxAge /\ ntransmitted \in Nat
  BY DEF Answerable, WindowInv, WindowType
<1>2. ntransmitted - n < W /\ ntransmitted - n <= Half
  BY <1>1, WindowBounds
<1>3. U16(ntransmitted - U16(n)) = ntransmitted - n
  BY <1>1, <1>2, AgeExact
<1>4. pipesize' = Max2(pipesize, ntransmitted - n + 1) /\ worst' = Max2(worst, ntransmitted - n + 1)
  BY <1>2, <1>3 DEF acknowledge
<1>5. acked' \in {acked, U16(n)}
  BY DEF acknowledge
<1> QED
  BY <1>1, <1>4, <1>5, NumberType DEF WindowInv, WindowType, Max2

(* A bit cleared for the next probe is the bit of none that can still be   *)
(* answered.                                                               *)
LEMMA ClearedForNext ==
  ASSUME WindowInv, NEW n \in Answerable
  PROVE  U16(n) # U16(ntransmitted + 1)
<1>1. n \in Nat /\ n <= ntransmitted /\ ntransmitted - n <= MaxAge /\ ntransmitted \in Nat
  BY DEF Answerable, WindowInv, WindowType
<1>2. n < ntransmitted + 1 /\ (ntransmitted + 1) - n < W /\ ntransmitted + 1 \in Nat
  BY <1>1, WindowBounds
<1> QED
  BY <1>1, <1>2, DifferentNumbers

(* Two requests that can still be answered do not carry the same number    *)
(* (pinger, pr_pack).                                                      *)
LEMMA OtherNumber ==
  ASSUME WindowInv, NEW n \in Answerable, NEW k \in Answerable, n # k
  PROVE  U16(n) # U16(k)
<1>1. /\ n \in Nat /\ n <= ntransmitted /\ ntransmitted - n <= MaxAge /\ ntransmitted \in Nat
      /\ k \in Nat /\ k <= ntransmitted /\ ntransmitted - k <= MaxAge
  BY DEF Answerable, WindowInv, WindowType
<1>2. n - k < W /\ k - n < W /\ (n < k \/ k < n)
  BY <1>1, WindowBounds
<1> QED
  BY <1>1, <1>2, DifferentNumbers

-------------------------------------------------------------------------------
(* Before the first probe.                                                 *)
LEMMA InitialWindow == WindowInit => WindowInv
<1> SUFFICES ASSUME WindowInit PROVE WindowInv
  OBVIOUS
<1>1. WindowType
  BY WindowBounds DEF WindowInit, WindowType
<1>2. Answerable = {}
  BY DEF WindowInit, Answerable
<1>3. nreceived = Cardinality(answered)
  BY FS_EmptySet DEF WindowInit
<1> QED
  BY <1>1, <1>2, <1>3 DEF WindowInv, TableRight, WindowInit

(* A probe is sent, or could not be sent: its bit, cleared in both cases,  *)
(* is not the bit of a probe that can still be answered.                   *)
LEMMA PingerKeeps ==
  ASSUME WindowInv, pinger \/ pinger_send_fails
  PROVE  WindowInv'
<1>1. /\ rcvd' = rcvd \ {U16(ntransmitted + 1)} /\ pipesize' = pipesize /\ worst' = worst
      /\ answered' = answered /\ nreceived' = nreceived /\ nrepeats' = nrepeats
      /\ nerrors' = nerrors
      /\ ntransmitted' \in {ntransmitted, ntransmitted + 1}
      /\ acked' \in {acked, U16(ntransmitted + 2)}
  BY DEF pinger, pinger_send_fails, rcvd_clear, advance_ntransmitted, counters
<1>2. ntransmitted \in Nat /\ answered \in SUBSET (1 .. ntransmitted)
  BY DEF WindowInv, WindowType
<1>3. U16(ntransmitted + 2) \in 0 .. W - 1
  BY <1>2, NumberType
<1>4. WindowType'
  <2>1. answered' \in SUBSET (1 .. ntransmitted') /\ ntransmitted' \in Nat
    BY <1>1, <1>2
  <2> QED
    BY <1>1, <1>3, <2>1 DEF WindowInv, WindowType
<1>5. ASSUME NEW n \in Answerable' PROVE U16(n) \in rcvd' <=> n \in answered'
  <2>1. CASE n \in Answerable
    <3>1. U16(n) # U16(ntransmitted + 1)
      BY <2>1, ClearedForNext
    <3> QED
      BY <1>1, <2>1, <3>1 DEF WindowInv, TableRight
  <2>2. CASE n \notin Answerable
    <3>1. n \in 1 .. ntransmitted' /\ ntransmitted' - n <= MaxAge
      BY DEF Answerable
    <3>2. ~(n \in 1 .. ntransmitted /\ ntransmitted - n <= MaxAge)
      BY <2>2 DEF Answerable
    <3>3. \A a, b \in Nat : \A k \in 1 .. a + 1 :
            (a + 1) - k <= b => k = a + 1 \/ (k \in 1 .. a /\ a - k <= b)
      OBVIOUS
    <3>4. n = ntransmitted + 1
      BY <1>1, <1>2, <3>1, <3>2, <3>3, WindowBounds, Zenon
    <3> QED
      BY <1>1, <1>2, <3>4
  <2> QED
    BY <2>1, <2>2
<1>6. TableRight'
  BY <1>5 DEF TableRight, U16
<1> QED
  BY <1>1, <1>4, <1>6 DEF WindowInv

(* An echo reply: a duplicate is one, and a first answer is none.          *)
LEMMA GatherKeeps ==
  ASSUME WindowInv, NEW n, gather_statistics(n)
  PROVE  WindowInv'
<1>1. /\ n \in Answerable /\ acknowledge(n) /\ answered' = answered \cup {n}
      /\ ntransmitted' = ntransmitted /\ nerrors' = nerrors
  BY DEF gather_statistics
<1>2. pipesize' = worst' /\ pipesize' \in Int /\ worst' \in Int /\ acked' \in 0 .. W - 1
  BY <1>1, AcknowledgeExact
<1>3. n \in 1 .. ntransmitted /\ ntransmitted \in Nat /\ answered \in SUBSET (1 .. ntransmitted)
  BY <1>1 DEF Answerable, WindowInv, WindowType
<1>4. Answerable' = Answerable
  BY <1>1 DEF Answerable
<1>5. U16(n) \in 0 .. W - 1
  BY <1>3, NumberType
<1>6. IsFiniteSet(answered)
  <2>1. IsFiniteSet(1 .. ntransmitted)
    BY <1>3, FS_Interval
  <2> QED
    BY <1>3, <2>1, FS_Subset
<1>7. CASE U16(n) \in rcvd
  <2>1. nrepeats' = nrepeats + 1 /\ nreceived' = nreceived /\ rcvd' = rcvd
    BY <1>7 DEF gather_statistics
  <2>2. n \in answered
    BY <1>1, <1>7 DEF WindowInv, TableRight
  <2>3. answered' = answered
    BY <1>1, <2>2
  <2>4. WindowType'
    <3>1. ntransmitted' = ntransmitted /\ nerrors' = nerrors
      BY <1>1
    <3>2. /\ ntransmitted' \in Nat /\ nreceived' \in Nat /\ nrepeats' \in Nat /\ nerrors' \in Nat
      BY <2>1, <3>1 DEF WindowInv, WindowType
    <3>3. rcvd' \in SUBSET (0 .. W - 1) /\ answered' \in SUBSET (1 .. ntransmitted')
      BY <2>1, <2>3, <3>1 DEF WindowInv, WindowType
    <3> QED
      BY <1>2, <3>2, <3>3 DEF WindowType
  <2>5. TableRight'
    BY <1>4, <2>1, <2>3 DEF WindowInv, TableRight, U16
  <2> QED
    BY <1>2, <2>1, <2>3, <2>4, <2>5 DEF WindowInv
<1>8. CASE U16(n) \notin rcvd
  <2>1. rcvd' = rcvd \cup {U16(n)} /\ nreceived' = nreceived + 1 /\ nrepeats' = nrepeats
    BY <1>8 DEF gather_statistics
  <2>2. n \notin answered
    BY <1>1, <1>8 DEF WindowInv, TableRight
  <2>3. Cardinality(answered') = Cardinality(answered) + 1
    BY <1>1, <1>6, <2>2, FS_AddElement
  <2>4. WindowType'
    <3>1. /\ ntransmitted' = ntransmitted /\ nerrors' = nerrors
          /\ answered' = answered \cup {n}
      BY <1>1
    <3>2. /\ ntransmitted' \in Nat /\ nreceived' \in Nat /\ nrepeats' \in Nat /\ nerrors' \in Nat
      BY <2>1, <3>1 DEF WindowInv, WindowType
    <3>3. rcvd' \in SUBSET (0 .. W - 1)
      BY <1>5, <2>1 DEF WindowInv, WindowType
    <3>4. answered' \in SUBSET (1 .. ntransmitted')
      BY <1>3, <3>1
    <3> QED
      BY <1>2, <3>2, <3>3, <3>4 DEF WindowType
  <2>5. ASSUME NEW k \in Answerable PROVE U16(k) \in rcvd' <=> k \in answered'
    <3>1. CASE k = n
      BY <1>1, <2>1, <3>1
    <3>2. CASE k # n
      <4>1. U16(k) # U16(n)
        BY <1>1, <3>2, OtherNumber
      <4> QED
        BY <1>1, <2>1, <3>2, <4>1 DEF WindowInv, TableRight
    <3> QED
      BY <3>1, <3>2
  <2>6. TableRight'
    BY <1>4, <2>5 DEF TableRight, U16
  <2> QED
    BY <1>2, <2>1, <2>3, <2>4, <2>6 DEF WindowInv
<1> QED
  BY <1>7, <1>8

(* An error acknowledges its probe and is not an answer.                   *)
LEMMA ErrorKeeps ==
  ASSUME WindowInv, NEW n, receive_error_msg(n) \/ parse_reply_error(n)
  PROVE  WindowInv'
<1>1. /\ n \in Answerable /\ acknowledge(n) /\ answered' = answered /\ rcvd' = rcvd
      /\ ntransmitted' = ntransmitted /\ nreceived' = nreceived /\ nrepeats' = nrepeats
      /\ nerrors' \in {nerrors, nerrors + 1}
  BY DEF receive_error_msg, parse_reply_error
<1>2. pipesize' = worst' /\ pipesize' \in Int /\ worst' \in Int /\ acked' \in 0 .. W - 1
  BY <1>1, AcknowledgeExact
<1>3. WindowType'
  BY <1>1, <1>2 DEF WindowInv, WindowType
<1>4. TableRight'
  BY <1>1 DEF WindowInv, TableRight, Answerable, U16
<1> QED
  BY <1>1, <1>2, <1>3, <1>4 DEF WindowInv

(* The invariant of the window of requests holds in every state of pinger  *)
(* and the receiver.                                                       *)
LEMMA WindowInvariant == WindowSpec => []WindowInv
<1>1. WindowInv /\ [WindowNext]_window => WindowInv'
  <2> SUFFICES ASSUME WindowInv, [WindowNext]_window PROVE WindowInv'
    OBVIOUS
  <2>1. CASE pinger \/ pinger_send_fails
    BY <2>1, PingerKeeps
  <2>2. CASE receive_local_error \/ UNCHANGED window
    <3>1. /\ ntransmitted' = ntransmitted /\ nreceived' = nreceived /\ nrepeats' = nrepeats
          /\ nerrors' \in {nerrors, nerrors + 1} /\ acked' = acked /\ pipesize' = pipesize
          /\ rcvd' = rcvd /\ answered' = answered /\ worst' = worst
      BY <2>2 DEF receive_local_error, window
    <3>2. WindowType'
      BY <3>1 DEF WindowInv, WindowType
    <3>3. TableRight'
      BY <3>1 DEF WindowInv, TableRight, Answerable, U16
    <3> QED
      BY <3>1, <3>2, <3>3 DEF WindowInv
  <2>3. ASSUME NEW n \in 1 .. MaxSent, gather_statistics(n) PROVE WindowInv'
    BY <2>3, GatherKeeps
  <2>4. ASSUME NEW n \in 1 .. MaxSent, receive_error_msg(n) \/ parse_reply_error(n)
        PROVE  WindowInv'
    BY <2>4, ErrorKeeps
  <2> QED
    BY <2>1, <2>2, <2>3, <2>4 DEF WindowNext
<1> QED
  BY <1>1, InitialWindow, PTL DEF WindowSpec

(* However the answers are lost, repeated, delayed or reordered, and       *)
(* across every wrap of the 16-bit numbers, rcvd_tbl tells duplicates from *)
(* first answers and nreceived counts each answered probe once.            *)
THEOREM CountsStayExact == WindowSpec => []CountsExact
<1>1. WindowInv => CountsExact
  <2> SUFFICES ASSUME WindowInv PROVE CountsExact
    OBVIOUS
  <2>1. ntransmitted \in Nat /\ answered \in SUBSET (1 .. ntransmitted)
    BY DEF WindowInv, WindowType
  <2>2. IsFiniteSet(1 .. ntransmitted) /\ Cardinality(1 .. ntransmitted) = ntransmitted
    BY <2>1, FS_Interval
  <2>3. Cardinality(answered) <= ntransmitted
    BY <2>1, <2>2, FS_Subset
  <2> QED
    BY <2>3 DEF WindowInv, TableRight, CountsExact
<1> QED
  BY <1>1, WindowInvariant, PTL

(* pipesize, computed by acknowledge from 16-bit differences, is the       *)
(* largest number of probes that were out when one of them was answered.   *)
THEOREM PipesizeStaysExact == WindowSpec => []PipesizeExact
<1>1. WindowInv => PipesizeExact
  BY DEF WindowInv, PipesizeExact
<1> QED
  BY <1>1, WindowInvariant, PTL

-------------------------------------------------------------------------------
PacingSpec == PacingInit /\ [][PacingNext]_bucket

PacingType ==
  /\ now \in Nat /\ cur_time \in Nat /\ tokens \in Nat /\ sent \in Nat /\ first \in Nat
  /\ now >= UsPerSec /\ cur_time <= now

(* cur_time tells whether a probe was sent, and what was sent and what is  *)
(* left in the bucket were paid for by the time of the last probe.         *)
PaidFor ==
  \/ cur_time = 0 /\ sent = 0 /\ first = 0
  \/ /\ cur_time >= UsPerSec
     /\ (sent * interval + tokens) * UsPerMs
          <= (cur_time - first) + preload * interval * UsPerMs + sent * (UsPerMs - 1)

PacingInv == PacingType /\ PaidFor

(* The constants.                                                          *)
LEMMA PacingBounds ==
  /\ UsPerMs \in Nat \ {0} /\ MsPerSec \in Nat \ {0} /\ UsPerSec \in Nat \ {0}
  /\ interval \in Nat \ {0} /\ preload \in Nat \ {0}
<1>1. \A a, b \in Nat \ {0} : a * b \in Nat \ {0}
  OBVIOUS
<1> QED
  BY <1>1, PacingAssumption DEF UsPerSec

(* Rounding towards zero adds less than one unit.                          *)
LEMMA CDivBound ==
  ASSUME NEW d \in Nat \ {0}, NEW u \in Int
  PROVE  CDiv(u, d) \in Int /\ d * CDiv(u, d) <= u + (d - 1)
<1>1. CASE u >= 0
  <2>1. u \div d \in Int /\ u % d \in 0 .. d - 1 /\ u = d * (u \div d) + (u % d)
    BY DivMod
  <2>2. CDiv(u, d) = u \div d
    BY <1>1 DEF CDiv
  <2> QED
    BY <2>1, <2>2
<1>2. CASE u < 0
  <2> DEFINE q == (-u) \div d
             r == (-u) % d
  <2>1. q \in Int /\ r \in 0 .. d - 1 /\ -u = d * q + r
    BY DivMod
  <2>2. CDiv(u, d) = -q
    BY <1>2 DEF CDiv
  <2> HIDE DEF q, r
  <2>3. d * (-q) = -(d * q)
    BY <2>1
  <2> QED
    BY <2>1, <2>2, <2>3
<1> QED
  BY <1>1, <1>2

(* The milliseconds pinger computes are at most those that have passed,    *)
(* rounded up.                                                             *)
LEMMA ElapsedBound ==
  ASSUME PacingType
  PROVE  Elapsed(now) \in Int /\ UsPerMs * Elapsed(now) <= (now - cur_time) + (UsPerMs - 1)
<1> DEFINE s == tv_sec(now)
           r == tv_sec(cur_time)
           u == tv_usec(now)
           v == tv_usec(cur_time)
           c == CDiv(u - v, UsPerMs)
<1>1. /\ s \in Int /\ u \in Int /\ now = UsPerSec * s + u
      /\ r \in Int /\ v \in Int /\ cur_time = UsPerSec * r + v
  <2>1. now \in Int /\ cur_time \in Int
    BY DEF PacingType
  <2> QED
    BY <2>1, PacingBounds, DivMod DEF tv_sec, tv_usec
<1> HIDE DEF s, r, u, v
<1>2. c \in Int /\ UsPerMs * c <= (u - v) + (UsPerMs - 1)
  BY <1>1, PacingBounds, CDivBound
<1> HIDE DEF c
<1>3. Elapsed(now) = (s - r) * MsPerSec + c
  BY DEF Elapsed, s, r, u, v, c
<1>4. UsPerMs * ((s - r) * MsPerSec + c) = UsPerSec * s - UsPerSec * r + UsPerMs * c
  <2>1. \A a, b, x, y, z \in Int : a * ((x - y) * b + z) = (a * b) * x - (a * b) * y + a * z
    OBVIOUS
  <2> QED
    BY <1>1, <1>2, <2>1, PacingBounds DEF UsPerSec
<1>5. (s - r) * MsPerSec + c \in Int
  BY <1>1, <1>2, PacingBounds
<1>6. UsPerSec * s \in Int /\ UsPerSec * r \in Int /\ UsPerMs * c \in Int
  BY <1>1, <1>2, PacingBounds
<1>7. UsPerSec * s - UsPerSec * r + UsPerMs * c <= (now - cur_time) + (UsPerMs - 1)
  BY <1>1, <1>2, <1>6, PacingBounds
<1> QED
  BY <1>3, <1>4, <1>5, <1>7

(* A time of second one or later is not taken for "not started".           *)
LEMMA Started ==
  ASSUME PacingInv
  PROVE  /\ tv_sec(cur_time) = 0 => cur_time = 0 /\ sent = 0 /\ first = 0
         /\ tv_sec(cur_time) # 0 => cur_time >= UsPerSec
<1> DEFINE q == cur_time \div UsPerSec
           r == cur_time % UsPerSec
<1>1. cur_time \in Int /\ UsPerSec \in Nat \ {0}
  BY PacingBounds DEF PacingInv, PacingType
<1>2. q \in Int /\ r \in 0 .. UsPerSec - 1 /\ cur_time = UsPerSec * q + r
  BY <1>1, DivMod
<1>3. q = tv_sec(cur_time)
  BY DEF tv_sec
<1> HIDE DEF q, r
<1>4. q = 0 => cur_time < UsPerSec
  BY <1>1, <1>2
<1>5. cur_time = 0 => q = 0
  <2> SUFFICES ASSUME cur_time = 0 PROVE q = 0
    OBVIOUS
  <2>1. UsPerSec * q < UsPerSec /\ UsPerSec * q > -UsPerSec
    BY <1>1, <1>2
  <2> QED
    BY <1>1, <1>2, <2>1, NoSmallMultiple
<1> QED
  BY <1>1, <1>3, <1>4, <1>5 DEF PacingInv, PaidFor

(* Before the first call.                                                  *)
LEMMA InitialPacing == PacingInit => PacingInv
<1> SUFFICES ASSUME PacingInit PROVE PacingInv
  OBVIOUS
<1>1. now \in Nat /\ now >= UsPerSec
  BY PacingBounds DEF PacingInit
<1>2. cur_time = 0 /\ tokens = 0 /\ sent = 0 /\ first = 0
  BY DEF PacingInit
<1> QED
  BY <1>1, <1>2, PacingBounds DEF PacingInv, PacingType, PaidFor

(* The first probe: the bucket holds what preload pays for beyond it.      *)
LEMMA FirstKeeps ==
  ASSUME PacingInv, pinger_first
  PROVE  PacingInv'
<1>1. /\ now' = now /\ cur_time' = now /\ first' = now
      /\ tokens' = interval * (preload - 1) /\ sent' = sent + 1 /\ tv_sec(cur_time) = 0
  BY DEF pinger_first
<1>2. sent' = 1
  BY <1>1, Started
<1>3. tokens' \in Nat
  <2>1. \A a, b \in Nat \ {0} : a * (b - 1) \in Nat
    OBVIOUS
  <2> QED
    BY <1>1, <2>1, PacingBounds
<1>4. now \in Nat /\ now >= UsPerSec
  BY DEF PacingInv, PacingType
<1>5. (1 * interval + interval * (preload - 1)) * UsPerMs
        <= (now - now) + preload * interval * UsPerMs + 1 * (UsPerMs - 1)
  <2>1. \A i, p, d \in Nat \ {0} : 1 * i + i * (p - 1) = p * i
    OBVIOUS
  <2>2. preload * interval * UsPerMs \in Nat
    <3>1. \A a, b, c \in Nat : a * b * c \in Nat
      OBVIOUS
    <3> QED
      BY <3>1, PacingBounds
  <2>3. (1 * interval + interval * (preload - 1)) * UsPerMs = preload * interval * UsPerMs
    BY <2>1, PacingBounds
  <2> QED
    BY <1>4, <2>2, <2>3, PacingBounds
<1>6. PacingType'
  BY <1>1, <1>2, <1>3, <1>4 DEF PacingType
<1>7. PaidFor'
  BY <1>1, <1>2, <1>4, <1>5 DEF PaidFor
<1> QED
  BY <1>6, <1>7 DEF PacingInv

(* The arithmetic of a paid probe: s probes and t tokens are paid for by   *)
(* the bound b, the tokens grow by e and one interval i is spent.          *)
LEMMA PaidArithmetic ==
  ASSUME NEW s \in Nat, NEW t \in Nat, NEW n \in Int, NEW e \in Int,
         NEW i \in Nat, NEW d \in Nat \ {0}, NEW b \in Int, NEW x \in Int,
         (s * i + t) * d <= b + s * (d - 1), n <= e + t, d * e <= x + (d - 1)
  PROVE  ((s + 1) * i + (n - i)) * d <= b + x + (s + 1) * (d - 1)
<1>1. s * i \in Int /\ (s + 1) * i = s * i + i
  OBVIOUS
<1>2. PICK p \in Int : p = s * i
  BY <1>1
<1>3. (s + 1) * i + (n - i) = p + n
  BY <1>1, <1>2
<1>4. (p + n) * d <= (p + e + t) * d
  <2>1. \A a, c \in Int : a <= c => a * d <= c * d
    OBVIOUS
  <2> QED
    BY <1>2, <2>1
<1>5. (p + e + t) * d = (p + t) * d + d * e
  BY <1>2
<1>6. (s + 1) * (d - 1) = s * (d - 1) + (d - 1) /\ s * (d - 1) \in Int
  OBVIOUS
<1>7. (p + t) * d \in Int /\ d * e \in Int /\ (p + n) * d \in Int
  BY <1>2
<1>8. (p + t) * d <= b + s * (d - 1)
  BY <1>2
<1>9. (p + n) * d <= b + x + (s + 1) * (d - 1)
  BY <1>4, <1>5, <1>6, <1>7, <1>8
<1> QED
  BY <1>3, <1>9

(* A paid probe: the time since the last one, rounded up, went into the    *)
(* bucket and one interval of it is spent.                                 *)
LEMMA PaidKeeps ==
  ASSUME PacingInv, pinger_paid
  PROVE  PacingInv'
<1>1. /\ now' = now /\ cur_time' = now /\ first' = first
      /\ tokens' = ntokens - interval /\ sent' = sent + 1
      /\ tv_sec(cur_time) # 0 /\ ntokens >= interval
  BY DEF pinger_paid
<1>2. /\ now \in Nat /\ cur_time \in Nat /\ tokens \in Nat /\ sent \in Nat /\ first \in Nat
      /\ now >= UsPerSec
  BY DEF PacingInv, PacingType
<1>3. cur_time >= UsPerSec /\ UsPerSec > 0
  BY <1>1, Started, PacingBounds
<1> DEFINE B == (cur_time - first) + preload * interval * UsPerMs
           e == Elapsed(now)
           n == ntokens
<1>4. preload * interval * UsPerMs \in Int
  <2>1. \A a, b, c \in Nat : a * b * c \in Int
    OBVIOUS
  <2> QED
    BY <2>1, PacingBounds
<1>5. (sent * interval + tokens) * UsPerMs <= B + sent * (UsPerMs - 1)
  <2>1. cur_time # 0
    BY <1>2, <1>3, PacingBounds
  <2> QED
    BY <2>1, Zenon DEF PacingInv, PaidFor
<1>6. e \in Int /\ UsPerMs * e <= (now - cur_time) + (UsPerMs - 1)
  BY ElapsedBound DEF PacingInv
<1>7. interval * preload \in Int
  <2>1. \A a, b \in Nat : a * b \in Int
    OBVIOUS
  <2> QED
    BY <2>1, PacingBounds
<1> HIDE DEF e
<1>8. n \in Int /\ n <= e + tokens
  BY <1>2, <1>6, <1>7 DEF ntokens, Min2, e
<1>9. B \in Int /\ now - cur_time \in Int
  BY <1>2, <1>4
<1> HIDE DEF n, B
<1>10. ((sent + 1) * interval + (n - interval)) * UsPerMs
         <= B + (now - cur_time) + (sent + 1) * (UsPerMs - 1)
  BY <1>2, <1>5, <1>6, <1>8, <1>9, PacingBounds, PaidArithmetic
<1>11. B + (now - cur_time) = (now - first) + preload * interval * UsPerMs
  BY <1>2, <1>4 DEF B
<1>12. PaidFor'
  <2>1. (sent' * interval + tokens') * UsPerMs
          <= (cur_time' - first') + preload * interval * UsPerMs + sent' * (UsPerMs - 1)
    BY <1>1, <1>10, <1>11 DEF n
  <2> QED
    BY <1>1, <1>2, <2>1 DEF PaidFor
<1>13. tokens' \in Nat
  BY <1>1, <1>8, PacingBounds DEF n
<1>14. PacingType'
  BY <1>1, <1>2, <1>13 DEF PacingType
<1> QED
  BY <1>12, <1>14 DEF PacingInv

(* The invariant of the token bucket holds in every state of pinger.       *)
LEMMA PacingInvariant == PacingSpec => []PacingInv
<1>1. PacingInv /\ [PacingNext]_bucket => PacingInv'
  <2> SUFFICES ASSUME PacingInv, [PacingNext]_bucket PROVE PacingInv'
    OBVIOUS
  <2>1. CASE wait
    BY <2>1, PacingBounds DEF wait, PacingInv, PacingType, PaidFor
  <2>2. CASE pinger_waits \/ UNCHANGED bucket
    BY <2>2 DEF pinger_waits, bucket, PacingInv, PacingType, PaidFor
  <2> QED
    BY <2>1, <2>2, FirstKeeps, PaidKeeps DEF PacingNext
<1> QED
  BY <1>1, InitialPacing, PTL DEF PacingSpec

(* pinger never sends more than preload probes and one per interval of     *)
(* the time passed, except for less than a millisecond a probe that the    *)
(* rounding of its elapsed time can add.                                   *)
THEOREM RateStaysBounded == PacingSpec => []RateBoundRounded
<1>1. PacingInv => RateBoundRounded
  <2> SUFFICES ASSUME PacingInv PROVE RateBoundRounded
    OBVIOUS
  <2>1. /\ now \in Nat /\ cur_time \in Nat /\ tokens \in Nat /\ sent \in Nat /\ first \in Nat
        /\ cur_time <= now
    BY DEF PacingInv, PacingType
  <2> DEFINE P == preload * interval * UsPerMs
             Q == sent * (UsPerMs - 1)
  <2>2. P \in Nat /\ Q \in Nat
    <3>1. \A a, b, c \in Nat : a * b * c \in Nat
      OBVIOUS
    <3>2. \A a \in Nat : \A b \in Nat \ {0} : a * (b - 1) \in Nat
      OBVIOUS
    <3> QED
      BY <2>1, <3>1, <3>2, PacingBounds
  <2>3. CASE sent = 0 /\ first = 0
    <3>1. sent * interval * UsPerMs = 0
      BY <2>3, PacingBounds
    <3> HIDE DEF P, Q
    <3>2. 0 <= (now - first) + P + Q
      BY <2>1, <2>2, <2>3
    <3> QED
      BY <3>1, <3>2 DEF RateBoundRounded, P, Q
  <2>4. CASE (sent * interval + tokens) * UsPerMs <= (cur_time - first) + P + Q
    <3>1. \A s, i, t, d \in Nat : s * i * d <= (s * i + t) * d /\ s * i * d \in Int /\ (s * i + t) * d \in Int
      <4> SUFFICES ASSUME NEW s \in Nat, NEW i \in Nat, NEW t \in Nat, NEW d \in Nat
                   PROVE  s * i * d <= (s * i + t) * d /\ s * i * d \in Int /\ (s * i + t) * d \in Int
        OBVIOUS
      <4>1. PICK p \in Nat : p = s * i
        OBVIOUS
      <4>2. (p + t) * d = p * d + t * d /\ t * d >= 0 /\ p * d \in Int /\ t * d \in Int
        BY <4>1
      <4> QED
        BY <4>1, <4>2
    <3>2. /\ sent * interval * UsPerMs <= (sent * interval + tokens) * UsPerMs
          /\ sent * interval * UsPerMs \in Int /\ (sent * interval + tokens) * UsPerMs \in Int
      BY <2>1, <3>1, PacingBounds
    <3> HIDE DEF P, Q
    <3>3. sent * interval * UsPerMs <= (now - first) + P + Q
      BY <2>1, <2>2, <2>4, <3>2
    <3> QED
      BY <3>3 DEF RateBoundRounded, P, Q
  <2> QED
    BY <2>3, <2>4 DEF PacingInv, PaidFor
<1> QED
  BY <1>1, PacingInvariant, PTL
===============================================================================
