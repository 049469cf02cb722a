------------------------------ MODULE PingWindow ------------------------------
(***************************************************************************)
(* The bookkeeping of the ping thread: sequence numbers, duplicate         *)
(* detection, acknowledgement and the error counters of                    *)
(* monitor/ping_common.h, monitor/ping_common.c and monitor/ping.c.        *)
(*                                                                         *)
(* On the wire a probe is known only by its number modulo W (2^16).  The   *)
(* network may lose, repeat, delay and reorder the answers: any of the     *)
(* last MaxAge + 1 probes may be answered at any moment, any number of     *)
(* times.  The options are those of the library build: no -q, no -f, no    *)
(* packet count, no deadline.                                              *)
(***************************************************************************)
EXTENDS Integers, FiniteSets

CONSTANTS
  W,           (* how many sequence numbers there are                       *)
  MaxAge,      (* how many newer probes an answer may find sent             *)
  MaxSent,     (* bound of the model on ntransmitted                        *)
  MaxExtra     (* bound of the model on nrepeats and on nerrors             *)

Half == (W \div 2) - 1      \* 0x7FFF

ASSUME WindowAssumption ==
  /\ W \in Nat /\ W % 2 = 0 /\ W >= 4
  /\ MaxAge \in 0 .. Half
  /\ MaxSent \in Nat /\ MaxExtra \in Nat

VARIABLES
  ntransmitted, nreceived, nrepeats, nerrors, acked, pipesize,
  rcvd,             (* rcvd_tbl: the sequence numbers whose bit is set      *)
  working_recverr,  (* errors come through the error queue                  *)
  once,             (* errors met on the raw socket before that, up to 2    *)
  answered,         (* probes that got an echo reply (history)              *)
  worst             (* the largest age of an acknowledged probe, plus 1,    *)
                    (* or -1 (history)                                      *)

counters == <<nreceived, nrepeats, nerrors>>
errorMode == <<working_recverr, once>>
window == <<ntransmitted, nreceived, nrepeats, nerrors, acked, pipesize, rcvd,
          working_recverr, once, answered, worst>>

(* The (__u16) cast, also of a negative difference.                        *)
U16(x) == x % W

(* Probes that may still be answered.                                      *)
Answerable == {n \in 1 .. ntransmitted : ntransmitted - n <= MaxAge}

Max2(a, b) == IF a > b THEN a ELSE b
-------------------------------------------------------------------------------
WindowInit ==
  /\ ntransmitted = 0 /\ nreceived = 0 /\ nrepeats = 0 /\ nerrors = 0
  /\ acked = 0 /\ pipesize = -1 /\ rcvd = {}
  /\ working_recverr = FALSE /\ once = 0
  /\ answered = {} /\ worst = -1
-------------------------------------------------------------------------------
(* The comparison is made in int: (__u16)ntransmitted - acked > 0x7FFF.    *)
Overflowed(nt) == U16(nt) - acked > Half

(* advance_ntransmitted *)
advance_ntransmitted ==
  /\ ntransmitted' = ntransmitted + 1
  /\ acked' = IF Overflowed(ntransmitted + 1) THEN U16(ntransmitted + 2) ELSE acked

(* Mutant: the age is taken in int, not in 16 bits.                        *)
acknowledge_int(n) ==
  LET seq == U16(n)  diff == U16(ntransmitted) - seq
  IN  /\ pipesize' = IF diff <= Half THEN Max2(pipesize, diff + 1) ELSE pipesize
      /\ acked' = IF diff <= Half THEN seq ELSE acked
      /\ worst' = Max2(worst, ntransmitted - n + 1)

(* acknowledge(seq) for the answer to probe n.  The cast in                *)
(* (__u16)(seq - acked) > 0 makes the test true for every other seq, an    *)
(* older one included.                                                     *)
acknowledge(n) ==
  LET seq == U16(n)
      diff == U16(ntransmitted - seq)
  IN  /\ pipesize' = IF diff <= Half THEN Max2(pipesize, diff + 1) ELSE pipesize
      /\ acked' = IF diff <= Half /\ (U16(seq - acked) > 0 \/ Overflowed(ntransmitted))
                    THEN seq ELSE acked
      /\ worst' = Max2(worst, ntransmitted - n + 1)
-------------------------------------------------------------------------------
(* Mutant: the bit of the new sequence number is not cleared.              *)
rcvd_clear_none(seq) == rcvd

rcvd_clear(seq) == rcvd \ {seq}

(* pinger: send_probe clears the bit of the next number and sends.         *)
pinger ==
  /\ ntransmitted < MaxSent
  /\ rcvd' = rcvd_clear(U16(ntransmitted + 1))
  /\ advance_ntransmitted
  /\ UNCHANGED <<pipesize, answered, worst>>
  /\ UNCHANGED counters /\ UNCHANGED errorMode

(* pinger when sendmsg fails (no buffers, no route): the bit is cleared,   *)
(* nothing is counted, and the number is used again next time.             *)
pinger_send_fails ==
  /\ rcvd' = rcvd_clear(U16(ntransmitted + 1))
  /\ UNCHANGED <<ntransmitted, acked, pipesize, answered, worst>>
  /\ UNCHANGED counters /\ UNCHANGED errorMode

(* gather_statistics for an echo reply to probe n: a number whose bit is   *)
(* set was answered before.  parse_reply passes 0 for csfailed, so a reply *)
(* with a bad checksum is counted as any other.                            *)
gather_statistics(n) ==
  /\ n \in Answerable
  /\ acknowledge(n)
  /\ \/ /\ U16(n) \in rcvd /\ nrepeats < MaxExtra
        /\ nrepeats' = nrepeats + 1
        /\ UNCHANGED <<nreceived, rcvd>>
     \/ /\ U16(n) \notin rcvd
        /\ rcvd' = rcvd \cup {U16(n)}
        /\ nreceived' = nreceived + 1
        /\ UNCHANGED nrepeats
  /\ answered' = answered \cup {n}
  /\ UNCHANGED <<ntransmitted, nerrors>> /\ UNCHANGED errorMode

(* receive_error_msg, an ICMP error for probe n from the error queue.      *)
receive_error_msg(n) ==
  /\ n \in Answerable /\ nerrors < MaxExtra
  /\ acknowledge(n)
  /\ working_recverr' = TRUE
  /\ nerrors' = nerrors + 1
  /\ UNCHANGED <<ntransmitted, nreceived, nrepeats, rcvd, once, answered>>

(* receive_error_msg, an error of this host.                               *)
receive_local_error ==
  /\ nerrors < MaxExtra
  /\ nerrors' = nerrors + 1
  /\ UNCHANGED <<ntransmitted, nreceived, nrepeats, acked, pipesize, rcvd,
                 answered, worst>>
  /\ UNCHANGED errorMode

(* parse_reply, an ICMP error for probe n read from the raw socket: left   *)
(* to the error queue when that works, and the first one in any case.      *)
parse_reply_error(n) ==
  /\ n \in Answerable
  /\ acknowledge(n)
  /\ \/ /\ working_recverr
        /\ UNCHANGED <<once, nerrors>>
     \/ /\ ~working_recverr /\ once = 0
        /\ once' = 1
        /\ UNCHANGED nerrors
     \/ /\ ~working_recverr /\ once > 0 /\ nerrors < MaxExtra
        /\ once' = 2
        /\ nerrors' = nerrors + 1
  /\ UNCHANGED <<ntransmitted, nreceived, nrepeats, rcvd, working_recverr, answered>>

WindowNext ==
  \/ pinger \/ pinger_send_fails \/ receive_local_error
  \/ \E n \in 1 .. MaxSent :
       gather_statistics(n) \/ receive_error_msg(n) \/ parse_reply_error(n)
-------------------------------------------------------------------------------
(* The duplicate table is right about every probe that can still be        *)
(* answered, across the wrap of the sequence numbers and failed sends, and *)
(* nreceived, from which finish() prints the packet loss, counts each      *)
(* answered probe once however often it is answered.                       *)
CountsExact ==
  /\ \A n \in Answerable : U16(n) \in rcvd <=> n \in answered
  /\ nreceived = Cardinality(answered) /\ nreceived <= ntransmitted

(* pipesize is the largest number of probes that were out when one of them *)
(* was answered, although it is computed from 16-bit numbers.              *)
PipesizeExact == pipesize = worst
===============================================================================
