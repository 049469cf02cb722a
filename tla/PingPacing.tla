------------------------------ MODULE PingPacing ------------------------------
(***************************************************************************)
(* The token bucket of pinger (monitor/ping_common.c) that decides when    *)
(* the next probe may be sent.  Time is the wall clock in microseconds, as *)
(* gettimeofday gives it, read as a pair of seconds and microseconds;      *)
(* tokens are milliseconds.  The clock does not step.                      *)
(***************************************************************************)
EXTENDS Integers

CONSTANTS
  UsPerMs,     (* microseconds in a millisecond (1000)                      *)
  MsPerSec,    (* milliseconds in a second (1000)                           *)
  interval,    (* milliseconds between probes                               *)
  preload,     (* probes that may be sent at once                           *)
  MaxTime      (* bound of the model on the clock                           *)

ASSUME PacingAssumption ==
  /\ UsPerMs \in Nat \ {0} /\ MsPerSec \in Nat \ {0}
  /\ interval \in Nat \ {0} /\ preload \in Nat \ {0}
  /\ MaxTime \in Nat

VARIABLES
  now,        (* the clock                                                  *)
  cur_time,   (* the time of the last probe, 0 before the first             *)
  tokens,     (* what is left in the bucket                                 *)
  sent,       (* how many times pinger went on to send_probe (history)      *)
  first       (* the time of the first probe (history)                      *)

bucket == <<now, cur_time, tokens, sent, first>>

UsPerSec == UsPerMs * MsPerSec
tv_sec(t) == t \div UsPerSec
tv_usec(t) == t % UsPerSec

(* The division of C, which rounds towards zero.                           *)
CDiv(a, b) == IF a >= 0 THEN a \div b ELSE -((-a) \div b)

(* The milliseconds from cur_time to t, as pinger computes them.           *)
Elapsed(t) ==
  (tv_sec(t) - tv_sec(cur_time)) * MsPerSec
    + CDiv(tv_usec(t) - tv_usec(cur_time), UsPerMs)

Min2(a, b) == IF a < b THEN a ELSE b

(* The tokens there would be if none were spent, at most preload probes.   *)
ntokens == Min2(Elapsed(now) + tokens, interval * preload)
-------------------------------------------------------------------------------
(* The clock reads any time of its second one (pinger takes a cur_time in  *)
(* second zero for "not started").                                         *)
PacingInit ==
  /\ now \in UsPerSec .. (2 * UsPerSec - 1)
  /\ cur_time = 0 /\ tokens = 0
  /\ sent = 0 /\ first = 0

(* Time passes while the thread waits in poll or recvmsg, which an answer  *)
(* can end at any moment.                                                  *)
wait ==
  /\ now < MaxTime
  /\ now' = now + 1
  /\ UNCHANGED <<cur_time, tokens, sent, first>>

(* The first call: the clock is read and preload - 1 more probes are paid  *)
(* for.                                                                    *)
pinger_first ==
  /\ tv_sec(cur_time) = 0
  /\ cur_time' = now /\ first' = now
  /\ tokens' = interval * (preload - 1)
  /\ sent' = sent + 1
  /\ UNCHANGED now

(* Mutant: the tokens of the probe are not taken.                          *)
pinger_free ==
  /\ tv_sec(cur_time) # 0
  /\ ntokens >= interval
  /\ cur_time' = now
  /\ tokens' = ntokens
  /\ sent' = sent + 1
  /\ UNCHANGED <<now, first>>

(* Enough tokens: one interval of them pays for this probe.                *)
pinger_paid ==
  /\ tv_sec(cur_time) # 0
  /\ ntokens >= interval
  /\ cur_time' = now
  /\ tokens' = ntokens - interval
  /\ sent' = sent + 1
  /\ UNCHANGED <<now, first>>

(* Too few tokens: pinger returns how long to wait and changes nothing.    *)
pinger_waits ==
  /\ tv_sec(cur_time) # 0
  /\ ntokens < interval
  /\ UNCHANGED bucket

PacingNext == wait \/ pinger_first \/ pinger_paid \/ pinger_waits
-------------------------------------------------------------------------------
(* The comment at ping_common.c:648, "Check that packets < rate*time +     *)
(* preload", counted with the probe just sent and in microseconds, with    *)
(* what the code's rounding adds: when the microseconds run backwards      *)
(* across a second the elapsed time is rounded up, which can bring each    *)
(* probe less than a millisecond too early, and never more.                *)
RateBoundRounded ==
  sent * interval * UsPerMs
    <= (now - first) + preload * interval * UsPerMs + sent * (UsPerMs - 1)
===============================================================================
