------------------------------- MODULE ListEntry -------------------------------
(***************************************************************************)
(* The intrusive doubly linked lists of include/mylist.h, on which the     *)
(* mission list and the feedback list are kept.  Memory is a record m of   *)
(* two functions from addresses to addresses, the Flink and Blink fields   *)
(* of the LIST_ENTRY at each address; an operation maps the memory before  *)
(* the call to the memory after it.                                        *)
(***************************************************************************)
EXTENDS Naturals, Sequences

(* One assignment p->Flink = q, and p->Blink = q.                          *)
SetFlink(m, p, q) == [m EXCEPT !.Flink[p] = q]
SetBlink(m, p, q) == [m EXCEPT !.Blink[p] = q]

InitializeListHead(m, h) == SetFlink(SetBlink(m, h, h), h, h)

IsListEmpty(m, h) == m.Flink[h] = h

(* The memory after RemoveEntryList, and the value it returns.             *)
RemoveEntryList(m, e) ==
  SetBlink(SetFlink(m, m.Blink[e], m.Flink[e]), m.Flink[e], m.Blink[e])

(* Mutant: the entry, not its neighbours, is compared.                     *)
RemoveEntryListResult_self(m, e) == m.Flink[e] = e

RemoveEntryListResult(m, e) == m.Flink[e] = m.Blink[e]

(* Mutant: the new first entry keeps its link to the removed one.          *)
RemoveHeadList_half(m, h) == SetFlink(m, h, m.Flink[m.Flink[h]])

(* The memory after RemoveHeadList; the entry it returns is m.Flink[h].    *)
RemoveHeadList(m, h) ==
  LET flink == m.Flink[m.Flink[h]] IN SetBlink(SetFlink(m, h, flink), flink, h)

(* The memory after RemoveTailList; the entry it returns is m.Blink[h].    *)
RemoveTailList(m, h) ==
  LET blink == m.Blink[m.Blink[h]] IN SetFlink(SetBlink(m, h, blink), blink, h)

(* InsertTailList writes the fields of the entry, then the Flink of the    *)
(* last entry, then the Blink of the head.                                 *)
LinkEntry(m, h, e) == SetBlink(SetFlink(m, e, h), e, m.Blink[h])

InsertTailList(m, h, e) ==
  SetBlink(SetFlink(LinkEntry(m, h, e), m.Blink[h], e), h, e)

InsertHeadList(m, h, e) ==
  LET flink == m.Flink[h]
  IN  SetFlink(SetBlink(SetBlink(SetFlink(m, e, flink), e, h), flink, e), h, e)

(* AppendTailList splices the circle of entries that begins at l, which    *)
(* has no head of its own, to the end of the list of h.                    *)
AppendTailList(m, h, l) ==
  LET m1 == SetFlink(m, m.Blink[h], l)
      m2 == SetBlink(m1, h, m1.Blink[l])
      m3 == SetFlink(m2, m2.Blink[l], h)
  IN  SetBlink(m3, l, m.Blink[h])
--------------------------------------------------------------------------------
(* Position i of the list of h whose entries are s: the head stands before *)
(* the first entry and behind the last one.                                *)
At(h, s, i) == IF i \in 1 .. Len(s) THEN s[i] ELSE h

(* In memory m the list of h consists of the entries s, in this order,     *)
(* walked forwards and backwards.                                          *)
IsChain(m, h, s) ==
  /\ \A i \in 0 .. Len(s) : /\ m.Flink[At(h, s, i)] = At(h, s, i + 1)
                            /\ m.Blink[At(h, s, i + 1)] = At(h, s, i)
  /\ \A i \in 1 .. Len(s) : s[i] # h
  /\ \A i, j \in 1 .. Len(s) : s[i] = s[j] => i = j
================================================================================
