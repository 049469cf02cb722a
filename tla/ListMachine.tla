------------------------------ MODULE ListMachine ------------------------------
(***************************************************************************)
(* Any sequence of the operations of include/mylist.h on several lists     *)
(* that share their entries.  lists says what each list should hold; the   *)
(* memory must agree with it after every call.                             *)
(***************************************************************************)
EXTENDS ListEntry

CONSTANTS
  Heads,     (* addresses of list heads                                     *)
  Entries,   (* addresses of entries                                        *)
  MaxLen     (* bound of the model on the length of a list                  *)

ASSUME ListAssumption == Heads \cap Entries = {} /\ MaxLen \in Nat

VARIABLES
  mem,       (* the Flink and Blink fields                                  *)
  lists      (* the entries of each list, in order                          *)

machine == <<mem, lists>>

Addresses == Heads \cup Entries
Memories == [Flink : [Addresses -> Addresses], Blink : [Addresses -> Addresses]]

Linked == UNION {{lists[h][i] : i \in DOMAIN lists[h]} : h \in Heads}

(* Heads after InitializeListHead, entries pointing anywhere (at           *)
(* themselves, to start with).                                             *)
ListInit ==
  /\ mem = [Flink |-> [a \in Addresses |-> a], Blink |-> [a \in Addresses |-> a]]
  /\ lists = [h \in Heads |-> <<>>]

InsertTail(h, e) ==
  /\ e \notin Linked /\ Len(lists[h]) < MaxLen
  /\ mem' = InsertTailList(mem, h, e)
  /\ lists' = [lists EXCEPT ![h] = Append(@, e)]

InsertHead(h, e) ==
  /\ e \notin Linked /\ Len(lists[h]) < MaxLen
  /\ mem' = InsertHeadList(mem, h, e)
  /\ lists' = [lists EXCEPT ![h] = <<e>> \o @]

(* The callers test IsListEmpty first; on an empty list the entry returned *)
(* would be the head itself.                                               *)
RemoveHead(h) ==
  /\ ~IsListEmpty(mem, h)
  /\ mem' = RemoveHeadList(mem, h)
  /\ lists' = [lists EXCEPT ![h] = Tail(@)]

RemoveTail(h) ==
  /\ ~IsListEmpty(mem, h)
  /\ mem' = RemoveTailList(mem, h)
  /\ lists' = [lists EXCEPT ![h] = SubSeq(@, 1, Len(@) - 1)]

RemoveEntry(h, i) ==
  /\ i \in DOMAIN lists[h]
  /\ mem' = RemoveEntryList(mem, lists[h][i])
  /\ lists' = [lists EXCEPT ![h] = SubSeq(@, 1, i - 1) \o SubSeq(@, i + 1, Len(@))]

(* The entries of l go to h: l is taken out of its own circle first, as    *)
(* AppendTailList wants the entries without their head.                    *)
AppendTail(h, l) ==
  /\ h # l /\ lists[l] # <<>>
  /\ Len(lists[h]) + Len(lists[l]) <= MaxLen
  /\ mem' = InitializeListHead(AppendTailList(RemoveEntryList(mem, l), h, mem.Flink[l]), l)
  /\ lists' = [lists EXCEPT ![h] = @ \o lists[l], ![l] = <<>>]

ListNext ==
  \/ \E h \in Heads, e \in Entries : InsertTail(h, e) \/ InsertHead(h, e)
  \/ \E h \in Heads : RemoveHead(h) \/ RemoveTail(h)
  \/ \E h \in Heads, i \in 1 .. MaxLen : RemoveEntry(h, i)
  \/ \E h, l \in Heads : AppendTail(h, l)

ListSpec == ListInit /\ [][ListNext]_machine
--------------------------------------------------------------------------------
(* After any sequence of calls the Flink and Blink fields spell out        *)
(* exactly the entries put in and not taken out, in both directions: no    *)
(* call disturbs another list or leaves a link to a removed entry.         *)
ListsWellFormed == \A h \in Heads : IsChain(mem, h, lists[h])

(* IsListEmpty, the returned entries and the returned flag tell the truth. *)
ResultsCorrect ==
  \A h \in Heads :
    /\ IsListEmpty(mem, h) <=> lists[h] = <<>>
    /\ lists[h] # <<>> => /\ mem.Flink[h] = lists[h][1]
                          /\ mem.Blink[h] = lists[h][Len(lists[h])]
    /\ \A i \in DOMAIN lists[h] :
         RemoveEntryListResult(mem, lists[h][i]) <=> Len(lists[h]) = 1
================================================================================
