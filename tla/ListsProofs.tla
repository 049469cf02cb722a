------------------------------ MODULE ListsProofs ------------------------------
(***************************************************************************)
(* The lists of include/mylist.h hold exactly what the calls put in them,  *)
(* for any heads, any entries and lists of any length.  ListsWellFormed is *)
(* not inductive by itself: a call on one list leaves another one alone    *)
(* only because no entry is on two lists, which is Disjoint.               *)
(*                                                                         *)
(* The feedback list loses, repeats and reorders nothing, for any number   *)
(* of calls of Feedback, any nodes and any connections.  The inductive     *)
(* invariant adds to QueueSound and Conservation who holds fblock at each  *)
(* point of the two threads, and what the fields are between the two       *)
(* visible writes of InsertTailList.                                       *)
(***************************************************************************)
EXTENDS ListMachine, FeedbackQueue, ListEntryProofs

ListType == mem \in Mem(Addresses) /\ lists \in [Heads -> Seq(Entries)]

Disjoint ==
  \A g, h \in Heads : g # h =>
    \A i \in 1 .. Len(lists[g]), j \in 1 .. Len(lists[h]) : lists[g][i] # lists[h][j]

ListInv == ListType /\ Disjoint /\ ListsWellFormed

(* A list of entries is a list of addresses, its head is no entry, and     *)
(* two lists have no address in common.                                    *)
LEMMA ListsApart ==
  ASSUME ListInv, NEW h \in Heads
  PROVE  /\ h \in Addresses /\ lists[h] \in Seq(Entries) /\ lists[h] \in Seq(Addresses)
         /\ \A e \in Entries : e \in Addresses /\ e # h
         /\ \A g \in Heads : g # h => Apart(h, lists[h], g, lists[g])
<1>1. h \in Addresses /\ lists[h] \in Seq(Entries) /\ lists[h] \in Seq(Addresses)
  BY DEF ListInv, ListType, Addresses
<1>2. \A e \in Entries : e \in Addresses /\ e # h
  BY ListAssumption DEF Addresses
<1>3. ASSUME NEW g \in Heads, g # h PROVE Apart(h, lists[h], g, lists[g])
  <2>1. lists[g] \in Seq(Entries)
    BY DEF ListInv, ListType
  <2>2. \A i \in 1 .. Len(lists[h]) : lists[h][i] # g
    BY <1>1, ListAssumption
  <2>3. \A j \in 1 .. Len(lists[g]) : lists[g][j] # h
    BY <2>1, ListAssumption
  <2>4. \A i \in 1 .. Len(lists[h]), j \in 1 .. Len(lists[g]) : lists[h][i] # lists[g][j]
    BY <1>3, Zenon DEF ListInv, Disjoint
  <2> QED
    BY <1>3, <2>2, <2>3, <2>4, Zenon DEF Apart, Outside
<1> QED
  BY <1>1, <1>2, <1>3

(* A call that changes one list, to one that still shares no entry with    *)
(* the others and leaves their fields alone, keeps the invariant.          *)
LEMMA OneListChanged ==
  ASSUME ListInv, NEW h \in Heads, NEW t \in Seq(Entries),
         lists' = [lists EXCEPT ![h] = t], mem' \in Mem(Addresses), IsChain(mem', h, t),
         \A g \in Heads : g # h => IsChain(mem', g, lists[g]),
         \A g \in Heads : g # h =>
           \A i \in 1 .. Len(t), j \in 1 .. Len(lists[g]) : t[i] # lists[g][j]
  PROVE  ListInv'
<1>1. lists'[h] = t /\ \A g \in Heads : g # h => lists'[g] = lists[g]
  BY DEF ListInv, ListType
<1>2. ListType'
  BY DEF ListInv, ListType, Addresses
<1>3. Disjoint'
  <2> SUFFICES ASSUME NEW f \in Heads, NEW g \in Heads, f # g,
                      NEW i \in 1 .. Len(lists'[f]), NEW j \in 1 .. Len(lists'[g])
               PROVE  lists'[f][i] # lists'[g][j]
    BY DEF Disjoint
  <2>1. CASE f = h
    BY <2>1, <1>1
  <2>2. CASE g = h
    BY <2>2, <1>1
  <2>3. CASE f # h /\ g # h
    BY <2>3, <1>1 DEF ListInv, Disjoint
  <2> QED
    BY <2>1, <2>2, <2>3
<1>4. ListsWellFormed'
  <2>1. \A g \in Heads : IsChain(mem', g, lists'[g])
    BY <1>1
  <2> QED
    BY <2>1 DEF ListsWellFormed
<1> QED
  BY <1>2, <1>3, <1>4 DEF ListInv

(* The entry an insertion takes is on no list.                             *)
LEMMA NotLinked ==
  ASSUME ListInv, NEW e \in Entries, e \notin Linked
  PROVE  \A g \in Heads : \A i \in 1 .. Len(lists[g]) : lists[g][i] # e
BY DEF ListInv, ListType, Linked

--------------------------------------------------------------------------------
(* After InitializeListHead on every head all lists are empty rings, apart *)
(* from each other.                                                        *)
LEMMA InitialLists == ListInit => ListInv
<1> SUFFICES ASSUME ListInit PROVE ListInv
  OBVIOUS
<1>1. ListType
  BY DEF ListInit, ListType, Mem
<1>2. \A h \in Heads : lists[h] = <<>> /\ h \in Addresses
  BY DEF ListInit, Addresses
<1>3. Disjoint
  BY <1>2 DEF Disjoint
<1>4. ASSUME NEW h \in Heads PROVE IsChain(mem, h, <<>>)
  <2>1. mem.Flink[h] = h /\ mem.Blink[h] = h
    BY <1>2 DEF ListInit
  <2> QED
    BY <2>1 DEF IsChain, At
<1> QED
  BY <1>1, <1>2, <1>3, <1>4 DEF ListInv, ListsWellFormed

(* InsertTailList of an entry that is on no list keeps the invariant.      *)
LEMMA InsertTailKeeps ==
  ASSUME ListInv, NEW h \in Heads, NEW e \in Entries, InsertTail(h, e)
  PROVE  ListInv'
<1> DEFINE s == lists[h]
           t == Append(s, e)
<1>1. mem \in Mem(Addresses) /\ IsChain(mem, h, s)
  BY DEF ListInv, ListType, ListsWellFormed
<1>2. \A g \in Heads : \A i \in 1 .. Len(lists[g]) : lists[g][i] # e
  BY NotLinked DEF InsertTail
<1>3. /\ h \in Addresses /\ s \in Seq(Entries) /\ s \in Seq(Addresses) /\ e \in Addresses /\ e # h
      /\ \A g \in Heads : g # h => Apart(h, s, g, lists[g])
  BY ListsApart
<1>4. mem' = InsertTailList(mem, h, e) /\ lists' = [lists EXCEPT ![h] = t]
  BY DEF InsertTail
<1>5. \A i \in 1 .. Len(s) : s[i] # e
  BY <1>2
<1>6. mem' \in Mem(Addresses) /\ IsChain(mem', h, t)
  BY <1>1, <1>3, <1>4, <1>5, InsertTailChain
<1>7. ASSUME NEW g \in Heads, g # h PROVE IsChain(mem', g, lists[g])
  <2>1. IsChain(mem, g, lists[g])
    BY DEF ListInv, ListsWellFormed
  <2>2. g \in Addresses /\ lists[g] \in Seq(Addresses) /\ e # g
    BY ListsApart
  <2>3. \A j \in 1 .. Len(lists[g]) : lists[g][j] # e
    BY <1>2
  <2>4. Apart(h, s, g, lists[g])
    BY <1>3, <1>7
  <2> QED
    BY <1>1, <1>3, <1>4, <1>5, <2>1, <2>2, <2>3, <2>4, InsertTailApart
<1>8. t \in Seq(Entries) /\ \A i \in 1 .. Len(t) : t[i] = e \/ (i \in 1 .. Len(s) /\ t[i] = s[i])
  BY <1>3, AppendProperties
<1>9. ASSUME NEW g \in Heads, g # h, NEW i \in 1 .. Len(t), NEW j \in 1 .. Len(lists[g])
      PROVE  t[i] # lists[g][j]
  <2> HIDE DEF t
  <2> QED
    BY <1>2, <1>8, <1>9 DEF ListInv, Disjoint
<1> HIDE DEF t
<1> QED
  BY <1>4, <1>6, <1>7, <1>8, <1>9, OneListChanged

(* InsertHeadList of an entry that is on no list keeps the invariant.      *)
LEMMA InsertHeadKeeps ==
  ASSUME ListInv, NEW h \in Heads, NEW e \in Entries, InsertHead(h, e)
  PROVE  ListInv'
<1> DEFINE s == lists[h]
           t == <<e>> \o s
<1>1. mem \in Mem(Addresses) /\ IsChain(mem, h, s)
  BY DEF ListInv, ListType, ListsWellFormed
<1>2. \A g \in Heads : \A i \in 1 .. Len(lists[g]) : lists[g][i] # e
  BY NotLinked DEF InsertHead
<1>3. /\ h \in Addresses /\ s \in Seq(Entries) /\ s \in Seq(Addresses) /\ e \in Addresses /\ e # h
      /\ \A g \in Heads : g # h => Apart(h, s, g, lists[g])
  BY ListsApart
<1>4. mem' = InsertHeadList(mem, h, e) /\ lists' = [lists EXCEPT ![h] = t]
  BY DEF InsertHead
<1>5. \A i \in 1 .. Len(s) : s[i] # e
  BY <1>2
<1>6. mem' \in Mem(Addresses) /\ IsChain(mem', h, t)
  BY <1>1, <1>3, <1>4, <1>5, InsertHeadChain
<1>7. ASSUME NEW g \in Heads, g # h PROVE IsChain(mem', g, lists[g])
  <2>1. IsChain(mem, g, lists[g])
    BY DEF ListInv, ListsWellFormed
  <2>2. g \in Addresses /\ lists[g] \in Seq(Addresses) /\ e # g
    BY ListsApart
  <2>3. \A j \in 1 .. Len(lists[g]) : lists[g][j] # e
    BY <1>2
  <2>4. Apart(h, s, g, lists[g])
    BY <1>3, <1>7
  <2> QED
    BY <1>1, <1>3, <1>4, <1>5, <2>1, <2>2, <2>3, <2>4, InsertHeadApart
<1>8. t \in Seq(Entries) /\ \A i \in 1 .. Len(t) : t[i] = e \/ (i - 1 \in 1 .. Len(s) /\ t[i] = s[i - 1])
  BY <1>3
<1>9. ASSUME NEW g \in Heads, g # h, NEW i \in 1 .. Len(t), NEW j \in 1 .. Len(lists[g])
      PROVE  t[i] # lists[g][j]
  <2> HIDE DEF t
  <2> QED
    BY <1>2, <1>8, <1>9, SMTT(30) DEF ListInv, Disjoint
<1> HIDE DEF t
<1> QED
  BY <1>4, <1>6, <1>7, <1>8, <1>9, OneListChanged

(* RemoveEntryList, and through it the two calls that remove at an end.    *)
LEMMA RemoveKeeps ==
  ASSUME ListInv, NEW h \in Heads, NEW i \in 1 .. Len(lists[h]),
         mem' = RemoveEntryList(mem, lists[h][i]),
         lists' = [lists EXCEPT ![h] = Without(lists[h], i)]
  PROVE  ListInv'
<1> DEFINE s == lists[h]
           t == Without(s, i)
<1>1. mem \in Mem(Addresses) /\ IsChain(mem, h, s)
  BY DEF ListInv, ListType, ListsWellFormed
<1>2. /\ h \in Addresses /\ s \in Seq(Entries) /\ s \in Seq(Addresses)
      /\ \A g \in Heads : g # h => Apart(h, s, g, lists[g])
  BY ListsApart
<1>3. mem' \in Mem(Addresses) /\ IsChain(mem', h, t)
  BY <1>1, <1>2, RemoveEntryChain
<1>4. ASSUME NEW g \in Heads, g # h PROVE IsChain(mem', g, lists[g])
  <2>1. IsChain(mem, g, lists[g])
    BY DEF ListInv, ListsWellFormed
  <2>2. g \in Addresses /\ lists[g] \in Seq(Addresses)
    BY ListsApart
  <2>3. Apart(h, s, g, lists[g])
    BY <1>2, <1>4
  <2> QED
    BY <1>1, <1>2, <2>1, <2>2, <2>3, RemoveEntryApart
<1>5. /\ t \in Seq(Entries) /\ Len(t) = Len(s) - 1
      /\ \A j \in 1 .. Len(s) - 1 : t[j] = s[IF j < i THEN j ELSE j + 1]
  BY <1>2, WithoutProperties
<1> HIDE DEF t
<1>6. \A j \in 1 .. Len(t) : \E k \in 1 .. Len(s) : t[j] = s[k]
  <2> SUFFICES ASSUME NEW j \in 1 .. Len(t) PROVE \E k \in 1 .. Len(s) : t[j] = s[k]
    OBVIOUS
  <2> DEFINE k == IF j < i THEN j ELSE j + 1
  <2>1. k \in 1 .. Len(s) /\ j \in 1 .. Len(s) - 1
    BY <1>2, <1>5
  <2>2. t[j] = s[k]
    BY <1>5, <2>1
  <2> QED
    BY <2>1, <2>2
<1>7. ASSUME NEW g \in Heads, g # h, NEW j \in 1 .. Len(t), NEW k \in 1 .. Len(lists[g])
      PROVE  t[j] # lists[g][k]
  <2>1. PICK a \in 1 .. Len(s) : t[j] = s[a]
    BY <1>6, Zenon
  <2>2. lists[h][a] # lists[g][k]
    BY <1>7, <2>1 DEF ListInv, Disjoint
  <2> QED
    BY <2>1, <2>2
<1>8. lists' = [lists EXCEPT ![h] = t]
  BY DEF t
<1>9. t \in Seq(Entries)
  BY <1>5
<1> QED
  BY <1>3, <1>4, <1>7, <1>8, <1>9, OneListChanged, ZenonT(40)

(* RemoveHeadList and RemoveTailList keep the invariant, also on an empty  *)
(* list.                                                                   *)
LEMMA EndsKeep ==
  ASSUME ListInv, NEW h \in Heads, RemoveHead(h) \/ RemoveTail(h)
  PROVE  ListInv'
<1> DEFINE s == lists[h]
<1>1. mem \in Mem(Addresses) /\ IsChain(mem, h, s)
  BY DEF ListInv, ListType, ListsWellFormed
<1>2. h \in Addresses /\ s \in Seq(Addresses)
  BY ListsApart
<1>3. s # <<>>
  BY <1>1, <1>2, ChainResults DEF RemoveHead, RemoveTail
<1>4. 1 \in 1 .. Len(s) /\ Len(s) \in 1 .. Len(s)
  BY <1>2, <1>3
<1>5. CASE RemoveHead(h)
  <2>1. RemoveHeadList(mem, h) = RemoveEntryList(mem, s[1]) /\ Tail(s) = Without(s, 1)
    BY <1>1, <1>2, <1>3, RemoveHeadIsRemoveEntry
  <2>2. mem' = RemoveEntryList(mem, s[1]) /\ lists' = [lists EXCEPT ![h] = Without(s, 1)]
    BY <1>5, <2>1, Zenon DEF RemoveHead
  <2> QED
    BY <1>4, <2>2, RemoveKeeps
<1>6. CASE RemoveTail(h)
  <2>1. /\ RemoveTailList(mem, h) = RemoveEntryList(mem, s[Len(s)])
        /\ SubSeq(s, 1, Len(s) - 1) = Without(s, Len(s))
    BY <1>1, <1>2, <1>3, RemoveTailIsRemoveEntry
  <2>2. mem' = RemoveEntryList(mem, s[Len(s)]) /\ lists' = [lists EXCEPT ![h] = Without(s, Len(s))]
    BY <1>6, <2>1, Zenon DEF RemoveTail
  <2> QED
    BY <1>4, <2>2, RemoveKeeps
<1> QED
  BY <1>5, <1>6

(* AppendTailList of one list to another keeps the invariant.              *)
LEMMA AppendTailKeeps ==
  ASSUME ListInv, NEW h \in Heads, NEW l \in Heads, AppendTail(h, l)
  PROVE  ListInv'
<1> DEFINE s == lists[h]
           u == lists[l]
<1>1. mem \in Mem(Addresses) /\ IsChain(mem, h, s) /\ IsChain(mem, l, u)
  BY DEF ListInv, ListType, ListsWellFormed
<1>2. h # l /\ u # <<>> /\ mem' = Spliced(mem, h, l)
  BY DEF AppendTail, Spliced
<1>3. /\ h \in Addresses /\ s \in Seq(Entries) /\ s \in Seq(Addresses)
      /\ l \in Addresses /\ u \in Seq(Entries) /\ u \in Seq(Addresses)
      /\ \A g \in Heads : /\ g # h => Apart(h, s, g, lists[g])
                          /\ g # l => Apart(l, u, g, lists[g])
  BY ListsApart
<1>4. lists' = [g \in Heads |-> IF g = h THEN s \o u ELSE IF g = l THEN <<>> ELSE lists[g]]
  BY <1>2 DEF AppendTail, ListInv, ListType
<1>5. Apart(h, s, l, u)
  BY <1>2, <1>3
<1>6. /\ mem' \in Mem(Addresses) /\ IsChain(mem', h, s \o u) /\ IsChain(mem', l, <<>>)
  <2>1. /\ \A i \in 1 .. Len(s) : s[i] # l
        /\ \A j \in 1 .. Len(u) : u[j] # h
        /\ \A i \in 1 .. Len(s), j \in 1 .. Len(u) : s[i] # u[j]
    BY <1>5, Zenon DEF Apart, Outside
  <2> QED
    BY <1>1, <1>2, <1>3, <2>1, SplicedChain
<1>7. ASSUME NEW g \in Heads, g # h, g # l PROVE IsChain(mem', g, lists[g])
  <2>1. IsChain(mem, g, lists[g])
    BY DEF ListInv, ListsWellFormed
  <2>2. g \in Addresses /\ lists[g] \in Seq(Addresses)
    BY ListsApart
  <2>3. Apart(h, s, g, lists[g]) /\ Apart(l, u, g, lists[g])
    BY <1>3, <1>7
  <2> QED
    BY <1>1, <1>2, <1>3, <1>5, <2>1, <2>2, <2>3, SplicedApart
<1>8. /\ s \o u \in Seq(Entries)
      /\ \A i \in 1 .. Len(s \o u) : \/ i \in 1 .. Len(s) /\ (s \o u)[i] = s[i]
                                     \/ i - Len(s) \in 1 .. Len(u) /\ (s \o u)[i] = u[i - Len(s)]
  <2>1. Len(s) \in Nat /\ Len(u) \in Nat
    BY <1>3
  <2>2. /\ s \o u \in Seq(Entries) /\ Len(s \o u) = Len(s) + Len(u)
        /\ \A i \in 1 .. Len(s) + Len(u) :
             (s \o u)[i] = IF i <= Len(s) THEN s[i] ELSE u[i - Len(s)]
    BY <1>3, ConcatProperties
  <2>3. \A a, b \in Nat : \A i \in 1 .. a + b :
          (i <= a => i \in 1 .. a) /\ (~(i <= a) => i - a \in 1 .. b)
    OBVIOUS
  <2> HIDE DEF s, u
  <2> QED
    BY <2>1, <2>2, <2>3, Zenon
<1>9. ListType'
  BY <1>4, <1>6, <1>8 DEF ListInv, ListType, Addresses
<1>10. ListsWellFormed'
  <2>1. \A g \in Heads : IsChain(mem', g, lists'[g])
    BY <1>4, <1>6, <1>7
  <2> QED
    BY <2>1 DEF ListsWellFormed
<1>11. ASSUME NEW g \in Heads, g # h, NEW j \in 1 .. Len(lists'[g]), NEW i \in 1 .. Len(lists'[h])
       PROVE  lists'[h][i] # lists'[g][j]
  <2>1. g # l /\ lists'[g] = lists[g] /\ lists'[h] = s \o u
    <3>1. lists'[l] = <<>>
      BY <1>2, <1>4
    <3>2. g # l
      BY <1>11, <3>1
    <3>3. lists'[g] = lists[g] /\ lists'[h] = s \o u
      BY <1>2, <1>4, <1>11, <3>2, Zenon
    <3> QED
      BY <3>2, <3>3
  <2>2. \/ i \in 1 .. Len(s) /\ lists'[h][i] = s[i]
        \/ i - Len(s) \in 1 .. Len(u) /\ lists'[h][i] = u[i - Len(s)]
    BY <1>8, <1>11, <2>1
  <2> QED
    BY <1>11, <2>1, <2>2, Zenon DEF ListInv, Disjoint
<1>12. Disjoint'
  <2> SUFFICES ASSUME NEW f \in Heads, NEW g \in Heads, f # g,
                      NEW i \in 1 .. Len(lists'[f]), NEW j \in 1 .. Len(lists'[g])
               PROVE  lists'[f][i] # lists'[g][j]
    BY DEF Disjoint
  <2>1. CASE f = h \/ g = h
    BY <2>1, <1>11
  <2>2. CASE f # h /\ g # h
    <3>1. f # l /\ g # l
      BY <2>2, <1>4
    <3>2. lists'[f] = lists[f] /\ lists'[g] = lists[g]
      BY <2>2, <3>1, <1>4
    <3> QED
      BY <3>2 DEF ListInv, Disjoint
  <2> QED
    BY <2>1, <2>2
<1> QED
  BY <1>9, <1>10, <1>12 DEF ListInv

--------------------------------------------------------------------------------
(* The invariant holds after any sequence of calls.                        *)
LEMMA ListInvariant == ListSpec => []ListInv
<1>1. ListInit => ListInv
  BY InitialLists
<1>2. ListInv /\ [ListNext]_machine => ListInv'
  <2> SUFFICES ASSUME ListInv, [ListNext]_machine PROVE ListInv'
    OBVIOUS
  <2>1. ASSUME NEW h \in Heads, NEW e \in Entries, InsertTail(h, e) PROVE ListInv'
    BY <2>1, InsertTailKeeps
  <2>2. ASSUME NEW h \in Heads, NEW e \in Entries, InsertHead(h, e) PROVE ListInv'
    BY <2>2, InsertHeadKeeps
  <2>3. ASSUME NEW h \in Heads, RemoveHead(h) \/ RemoveTail(h) PROVE ListInv'
    BY <2>3, EndsKeep
  <2>4. ASSUME NEW h \in Heads, NEW i \in 1 .. MaxLen, RemoveEntry(h, i) PROVE ListInv'
    <3>1. i \in 1 .. Len(lists[h])
      BY <2>4 DEF RemoveEntry, ListInv, ListType
    <3>2. mem' = RemoveEntryList(mem, lists[h][i]) /\ lists' = [lists EXCEPT ![h] = Without(lists[h], i)]
      BY <2>4 DEF RemoveEntry, Without
    <3> QED
      BY <3>1, <3>2, RemoveKeeps
  <2>5. ASSUME NEW h \in Heads, NEW l \in Heads, AppendTail(h, l) PROVE ListInv'
    BY <2>5, AppendTailKeeps
  <2>6. CASE UNCHANGED machine
    BY <2>6 DEF machine, ListInv, ListType, Disjoint, ListsWellFormed
  <2> QED
    BY <2>1, <2>2, <2>3, <2>4, <2>5, <2>6 DEF ListNext
<1> QED
  BY <1>1, <1>2, PTL DEF ListSpec

(* After any sequence of InsertHeadList, InsertTailList, RemoveHeadList,   *)
(* RemoveTailList, RemoveEntryList and AppendTailList on any number of     *)
(* lists, the Flink and Blink fields of every list spell out exactly the   *)
(* entries put in and not taken out.                                       *)
THEOREM ListsStayWellFormed == ListSpec => []ListsWellFormed
<1>1. ListInv => ListsWellFormed
  BY DEF ListInv
<1> QED
  BY <1>1, ListInvariant, PTL

(* Before any call, on any list, IsListEmpty, the entry RemoveHeadList and *)
(* RemoveTailList return and the flag RemoveEntryList returns are right.   *)
THEOREM ResultsStayCorrect == ListSpec => []ResultsCorrect
<1>1. ListInv => ResultsCorrect
  <2> SUFFICES ASSUME ListInv, NEW h \in Heads
               PROVE  /\ IsListEmpty(mem, h) <=> lists[h] = <<>>
                      /\ lists[h] # <<>> => /\ mem.Flink[h] = lists[h][1]
                                            /\ mem.Blink[h] = lists[h][Len(lists[h])]
                      /\ \A i \in DOMAIN lists[h] :
                           RemoveEntryListResult(mem, lists[h][i]) <=> Len(lists[h]) = 1
    BY DEF ResultsCorrect
  <2>1. mem \in Mem(Addresses) /\ IsChain(mem, h, lists[h])
    BY DEF ListInv, ListType, ListsWellFormed
  <2>2. h \in Addresses /\ lists[h] \in Seq(Addresses)
    BY ListsApart
  <2>3. DOMAIN lists[h] = 1 .. Len(lists[h])
    BY <2>2
  <2> QED
    BY <2>1, <2>2, <2>3, ChainResults
<1> QED
  BY <1>1, ListInvariant, PTL
--------------------------------------------------------------------------------
Fed == [i \in DOMAIN fed |-> Wire(fed[i])]
Written == [i \in DOMAIN sent |-> sent[i].msg]
Queued == [i \in DOMAIN chain |-> Wire(data[chain[i]])]

QueueType ==
  /\ m \in Mem(Addr) /\ data \in [Nodes -> Results] /\ free \in SUBSET Nodes
  /\ calls \in 0 .. MaxCalls
  /\ chain \in Seq(Nodes) /\ fed \in Seq(Results) /\ batch \in Seq(Wires)
  /\ sent \in Seq({sent[i] : i \in DOMAIN sent}) /\ Written \in Seq(Wires)
  /\ ppc \in {"idle", "lock", "entry", "prev", "head", "unlock"}
  /\ cpc \in {"poll", "check", "lock", "drain", "write"}

(* The lock is held exactly where the code is between lock and unlock.     *)
LockHeld ==
  fblock = IF ppc \in {"entry", "prev", "head", "unlock"} THEN "ping"
           ELSE IF cpc = "drain" THEN "server" ELSE "none"

Excluded == ~(ppc \in {"entry", "prev", "head", "unlock"} /\ cpc = "drain")

(* The FEEDBACK in hand is allocated, and not linked before InsertTail_prev. *)
NodeInHand ==
  /\ ppc = "idle" => node = NoNode
  /\ ppc # "idle" => node \in Nodes \ free
  /\ ppc \in {"lock", "entry", "prev"} => \A i \in 1 .. Len(chain) : chain[i] # node

ChainAllocated == \A i \in 1 .. Len(chain) : chain[i] \notin free

(* The list is whole, except that its head still names the old last entry  *)
(* between the two visible writes of InsertTailList.                       *)
Links ==
  /\ ppc # "head" => IsChain(m, ListHead, chain)
  /\ ppc = "head" => IsChain(SetBlink(m, ListHead, node), ListHead, chain)
  /\ ppc = "prev" => LinkEntry(m, ListHead, node) = m

QueueInv ==
  /\ QueueType /\ LockHeld /\ Excluded /\ NodeInHand /\ ChainAllocated /\ Links
  /\ Conservation

--------------------------------------------------------------------------------
(* Sequences.                                                              *)

(* One more element at the end.                                            *)
LEMMA AppendLast ==
  ASSUME NEW S, NEW a \in Seq(S), NEW b \in Seq(S), NEW x \in S
  PROVE  a \o Append(b, x) = Append(a \o b, x)
<1> DEFINE l == a \o Append(b, x)
           r == Append(a \o b, x)
<1>1. Len(a) \in Nat /\ Len(b) \in Nat
  OBVIOUS
<1>2. /\ Append(b, x) \in Seq(S) /\ Len(Append(b, x)) = Len(b) + 1
      /\ \A j \in 1 .. Len(b) : Append(b, x)[j] = b[j]
      /\ Append(b, x)[Len(b) + 1] = x
  BY AppendProperties
<1>3. /\ a \o b \in Seq(S) /\ Len(a \o b) = Len(a) + Len(b)
      /\ \A i \in 1 .. Len(a) + Len(b) : (a \o b)[i] = IF i <= Len(a) THEN a[i] ELSE b[i - Len(a)]
  BY ConcatProperties
<1>4. /\ l \in Seq(S) /\ Len(l) = Len(a) + (Len(b) + 1)
      /\ \A i \in 1 .. Len(a) + (Len(b) + 1) :
            l[i] = IF i <= Len(a) THEN a[i] ELSE Append(b, x)[i - Len(a)]
  BY <1>2, ConcatProperties
<1>5. /\ r \in Seq(S) /\ Len(r) = Len(a) + Len(b) + 1
      /\ \A i \in 1 .. Len(a) + Len(b) : r[i] = (a \o b)[i]
      /\ r[Len(a) + Len(b) + 1] = x
  BY <1>3, AppendProperties
<1> HIDE DEF l, r
<1>6. ASSUME NEW i \in 1 .. Len(a) + Len(b) + 1 PROVE l[i] = r[i]
  <2>1. CASE i <= Len(a)
    <3>1. i \in 1 .. Len(a) + Len(b) /\ i \in 1 .. Len(a) + (Len(b) + 1)
      BY <1>1, <2>1
    <3> QED
      BY <1>3, <1>4, <1>5, <2>1, <3>1, Zenon
  <2>2. CASE i > Len(a) /\ i <= Len(a) + Len(b)
    <3>1. i - Len(a) \in 1 .. Len(b)
      BY <1>1, <2>2
    <3> QED
      BY <1>1, <1>2, <1>3, <1>4, <1>5, <2>2, <3>1
  <2>3. CASE i = Len(a) + Len(b) + 1
    BY <1>1, <1>2, <1>4, <1>5, <2>3
  <2> QED
    BY <1>1, <2>1, <2>2, <2>3
<1>7. Len(l) = Len(r) /\ Len(r) = Len(a) + Len(b) + 1
  BY <1>1, <1>4, <1>5
<1>8. l = r
  BY <1>4, <1>5, <1>6, <1>7, SeqEqual
<1> QED
  BY <1>8 DEF l, r

(* The first element of the second part may be counted with the first.     *)
LEMMA ShiftHead ==
  ASSUME NEW S, NEW a \in Seq(S), NEW b \in Seq(S), b # <<>>
  PROVE  Append(a, b[1]) \o Tail(b) = a \o b
<1> DEFINE l == Append(a, b[1]) \o Tail(b)
           r == a \o b
<1>1. Len(a) \in Nat /\ Len(b) \in Nat /\ Len(b) > 0 /\ b[1] \in S
  OBVIOUS
<1>2. /\ Tail(b) \in Seq(S) /\ Len(Tail(b)) = Len(b) - 1
      /\ \A j \in 1 .. Len(b) - 1 : Tail(b)[j] = b[j + 1]
  BY HeadTailProperties
<1>3. /\ Append(a, b[1]) \in Seq(S) /\ Len(Append(a, b[1])) = Len(a) + 1
      /\ \A j \in 1 .. Len(a) : Append(a, b[1])[j] = a[j]
      /\ Append(a, b[1])[Len(a) + 1] = b[1]
  BY <1>1, AppendProperties
<1>4. /\ r \in Seq(S) /\ Len(r) = Len(a) + Len(b)
      /\ \A i \in 1 .. Len(a) + Len(b) : r[i] = IF i <= Len(a) THEN a[i] ELSE b[i - Len(a)]
  BY ConcatProperties
<1> DEFINE c == Append(a, b[1])
           d == Tail(b)
<1> HIDE DEF c, d
<1>5. /\ c \o d \in Seq(S) /\ Len(c \o d) = Len(c) + Len(d)
      /\ \A i \in 1 .. Len(c) + Len(d) : (c \o d)[i] = IF i <= Len(c) THEN c[i] ELSE d[i - Len(c)]
  <2>1. c \in Seq(S) /\ d \in Seq(S)
    BY <1>2, <1>3 DEF c, d
  <2> QED
    BY <2>1, ConcatProperties
<1>6. /\ Len(c) = Len(a) + 1 /\ Len(d) = Len(b) - 1
      /\ \A j \in 1 .. Len(a) : c[j] = a[j]
      /\ c[Len(a) + 1] = b[1]
      /\ \A j \in 1 .. Len(b) - 1 : d[j] = b[j + 1]
  BY <1>2, <1>3 DEF c, d
<1> HIDE DEF r
<1>7. ASSUME NEW i \in 1 .. Len(a) + Len(b) PROVE (c \o d)[i] = r[i]
  <2>1. CASE i <= Len(a)
    BY <1>1, <1>4, <1>5, <1>6, <2>1
  <2>2. CASE i = Len(a) + 1
    BY <1>1, <1>4, <1>5, <1>6, <2>2
  <2>3. CASE i > Len(a) + 1
    <3>1. i - (Len(a) + 1) \in 1 .. Len(b) - 1 /\ (i - (Len(a) + 1)) + 1 = i - Len(a)
      BY <1>1, <2>3
    <3>2. (c \o d)[i] = d[i - (Len(a) + 1)]
      BY <1>1, <1>5, <1>6, <2>3
    <3>3. r[i] = b[i - Len(a)]
      BY <1>1, <1>4, <2>3
    <3> QED
      BY <1>6, <3>1, <3>2, <3>3
  <2>4. \A p \in Nat : \A q \in Nat : p <= q \/ p = q + 1 \/ p > q + 1
    OBVIOUS
  <2>5. i \in Nat
    BY <1>1
  <2> QED
    BY <1>1, <2>1, <2>2, <2>3, <2>4, <2>5, Zenon
<1>8. Len(c \o d) = Len(a) + Len(b) /\ Len(r) = Len(a) + Len(b)
  BY <1>1, <1>4, <1>5, <1>6
<1>9. c \o d = r
  BY <1>4, <1>5, <1>7, <1>8, SeqEqual
<1> QED
  BY <1>9 DEF c, d, r

(* A sequence is the function of its elements.                             *)
LEMMA AsFunction ==
  ASSUME NEW S, NEW s \in Seq(S)
  PROVE  s = [i \in 1 .. Len(s) |-> s[i]]
OBVIOUS

(* The first part of two sequences joined.                                 *)
LEMMA FirstPart ==
  ASSUME NEW S, NEW a \in Seq(S), NEW b \in Seq(S)
  PROVE  SubSeq(a \o b, 1, Len(a)) = a
<1>1. Len(a) \in Nat /\ Len(b) \in Nat
  OBVIOUS
<1>2. /\ a \o b \in Seq(S) /\ Len(a \o b) = Len(a) + Len(b)
      /\ \A i \in 1 .. Len(a) + Len(b) : (a \o b)[i] = IF i <= Len(a) THEN a[i] ELSE b[i - Len(a)]
  BY ConcatProperties
<1> DEFINE c == a \o b
<1> HIDE DEF c
<1>3. /\ SubSeq(c, 1, Len(a)) \in Seq(S) /\ Len(SubSeq(c, 1, Len(a))) = Len(a)
      /\ \A i \in 1 .. Len(a) : SubSeq(c, 1, Len(a))[i] = c[i]
  BY <1>1, <1>2 DEF c
<1>4. \A i \in 1 .. Len(a) : SubSeq(c, 1, Len(a))[i] = a[i]
  BY <1>1, <1>2, <1>3 DEF c
<1>5. SubSeq(c, 1, Len(a)) = a
  BY <1>3, <1>4, SeqEqual
<1> QED
  BY <1>5 DEF c

--------------------------------------------------------------------------------
(* What is sent of a result is one of Wires, and the three sequences that  *)
(* Conservation compares are sequences of them.                            *)
LEMMA WireTypes ==
  ASSUME QueueType
  PROVE  /\ \A r \in Results : Wire(r) \in Wires
         /\ Fed \in Seq(Wires) /\ Len(Fed) = Len(fed)
         /\ Queued \in Seq(Wires) /\ Len(Queued) = Len(chain)
         /\ \A i \in 1 .. Len(chain) : Queued[i] = Wire(data[chain[i]])
<1>1. \A r \in Results : Wire(r) \in Wires
  BY DEF Results, Wire, Wires, Content, Kinds
<1>2. \A i \in 1 .. Len(fed) : Wire(fed[i]) \in Wires
  BY <1>1 DEF QueueType
<1>3. \A i \in 1 .. Len(chain) : Wire(data[chain[i]]) \in Wires
  BY <1>1 DEF QueueType
<1>4. Fed = [i \in 1 .. Len(fed) |-> Wire(fed[i])] /\ Len(fed) \in Nat
  BY DEF QueueType, Fed
<1>5. Queued = [i \in 1 .. Len(chain) |-> Wire(data[chain[i]])] /\ Len(chain) \in Nat
  BY DEF QueueType, Queued
<1> QED
  BY <1>1, <1>2, <1>3, <1>4, <1>5

(* Conservation in terms of the three sequences the proof is about: what   *)
(* ping fed is what was written, then the batch, then the queue.           *)
LEMMA ConservationMeans ==
  Conservation <=> Fed = (Written \o batch) \o Queued
BY DEF Conservation, Fed, Written, Queued

(* The initial state.                                                      *)
LEMMA InitialQueue == Init => QueueInv
<1> SUFFICES ASSUME Init PROVE QueueInv
  OBVIOUS
<1>1. m \in Mem(Addr) /\ m.Flink[ListHead] = ListHead /\ m.Blink[ListHead] = ListHead
  BY DEF Init, Mem, InitializeListHead, SetFlink, SetBlink, Addr
<1>2. IsChain(m, ListHead, chain)
  BY <1>1 DEF Init, IsChain, At
<1>3. QueueType
  <2>1. data \in [Nodes -> Results] /\ calls \in 0 .. MaxCalls
    BY QueueAssumption DEF Init, Results, Kinds
  <2>2. /\ free \in SUBSET Nodes
        /\ chain \in Seq(Nodes) /\ fed \in Seq(Results) /\ batch \in Seq(Wires)
    BY DEF Init
  <2>3. sent \in Seq({sent[i] : i \in DOMAIN sent}) /\ Written \in Seq(Wires)
    BY DEF Init, Written
  <2>4. /\ ppc \in {"idle", "lock", "entry", "prev", "head", "unlock"}
        /\ cpc \in {"poll", "check", "lock", "drain", "write"}
    BY DEF Init
  <2> QED
    BY <1>1, <2>1, <2>2, <2>3, <2>4 DEF QueueType
<1>4. Conservation
  <2>1. Fed = <<>> /\ Written = <<>> /\ Queued = <<>> /\ batch = <<>>
    BY DEF Init, Fed, Written, Queued
  <2> QED
    BY <2>1, ConservationMeans
<1> QED
  BY <1>2, <1>3, <1>4 DEF Init, QueueInv, LockHeld, Excluded, NodeInHand, ChainAllocated, Links

(* A step that touches neither the list, the lock nor Feedback.            *)
LEMMA ElsewhereKeeps ==
  ASSUME QueueInv, UNCHANGED queue, UNCHANGED ping,
         cpc' \in {"poll", "check", "lock", "drain", "write"}, cpc' = "drain" <=> cpc = "drain"
  PROVE  QueueInv'
<1>1. /\ m' = m /\ data' = data /\ free' = free /\ fblock' = fblock /\ batch' = batch
      /\ chain' = chain /\ fed' = fed /\ sent' = sent
      /\ ppc' = ppc /\ node' = node /\ calls' = calls
  BY DEF queue, ping
<1>2. QueueType'
  BY <1>1 DEF QueueInv, QueueType, Written
<1>3. LockHeld' /\ Excluded'
  BY <1>1 DEF QueueInv, LockHeld, Excluded
<1>4. NodeInHand' /\ ChainAllocated' /\ Links' /\ Conservation'
  BY <1>1 DEF QueueInv, NodeInHand, ChainAllocated, Links, Conservation
<1> QED
  BY <1>2, <1>3, <1>4 DEF QueueInv

--------------------------------------------------------------------------------
(* The steps of Feedback.                                                  *)

(* A new FEEDBACK is none of those in the list, so what is queued stays.   *)
LEMMA FeedbackKeeps ==
  ASSUME QueueInv, (\E kind \in Kinds : Feedback(kind)) \/ Feedback_nothing
  PROVE  QueueInv'
<1>1. /\ m' = m /\ fblock' = fblock /\ batch' = batch /\ cpc' = cpc
      /\ chain' = chain /\ fed' = fed /\ sent' = sent /\ ppc = "idle"
      /\ free' \in SUBSET free
  BY DEF Feedback, Feedback_nothing, loop
<1>2. /\ calls' \in 0 .. MaxCalls
  BY QueueAssumption DEF Feedback, Feedback_nothing, QueueInv, QueueType
<1>3. /\ data' \in [Nodes -> Results]
      /\ \A i \in 1 .. Len(chain) : data'[chain[i]] = data[chain[i]]
  <2>1. CASE Feedback_nothing
    BY <2>1 DEF Feedback_nothing, QueueInv, QueueType
  <2>2. ASSUME NEW kind \in Kinds, Feedback(kind) PROVE <1>3!:
    <3>1. PICK n \in free : data' = [data EXCEPT ![n] = [seq |-> calls + 1, kind |-> kind]]
      BY <2>2 DEF Feedback
    <3>2. calls + 1 \in 0 .. MaxCalls
      BY <2>2, <1>2 DEF Feedback
    <3>3. [seq |-> calls + 1, kind |-> kind] \in Results
      BY <3>2 DEF Results
    <3>4. \A i \in 1 .. Len(chain) : chain[i] # n /\ chain[i] \in Nodes
      BY DEF QueueInv, ChainAllocated, QueueType
    <3> QED
      BY <3>1, <3>3, <3>4 DEF QueueInv, QueueType
  <2> QED
    BY <2>1, <2>2
<1>4. /\ ppc' \in {"idle", "lock"} /\ (ppc' = "idle" => node' = NoNode)
      /\ ppc' # "idle" => node' \in free /\ free' = free \ {node'}
  BY <1>1 DEF Feedback, Feedback_nothing, QueueInv, NodeInHand
<1>5. QueueType'
  BY <1>1, <1>2, <1>3, <1>4 DEF QueueInv, QueueType, Written
<1>6. LockHeld' /\ Excluded'
  BY <1>1, <1>4 DEF QueueInv, LockHeld, Excluded
<1>7. NodeInHand' /\ ChainAllocated'
  BY <1>1, <1>4 DEF QueueInv, NodeInHand, ChainAllocated, QueueType
<1>8. Links'
  BY <1>1, <1>4 DEF QueueInv, Links
<1>9. Conservation'
  <2>1. Queued' = Queued
    BY <1>1, <1>3, SMTT(30) DEF Queued, QueueInv, QueueType
  <2>2. Fed' = Fed /\ Written' = Written
    BY <1>1 DEF Fed, Written
  <2> QED
    BY <1>1, <2>1, <2>2, ConservationMeans DEF QueueInv, Conservation, Fed, Written, Queued
<1> QED
  BY <1>5, <1>6, <1>7, <1>8, <1>9 DEF QueueInv

(* Taking and giving back fblock.                                          *)
LEMMA FeedbackLockKeeps ==
  ASSUME QueueInv, Feedback_lock \/ Feedback_unlock
  PROVE  QueueInv'
<1>1. /\ m' = m /\ data' = data /\ free' = free /\ batch' = batch /\ cpc' = cpc
      /\ chain' = chain /\ fed' = fed /\ sent' = sent /\ calls' = calls
  BY DEF Feedback_lock, Feedback_unlock, loop
<1>2. \/ ppc = "lock" /\ ppc' = "entry" /\ node' = node /\ fblock = "none" /\ fblock' = "ping"
      \/ ppc = "unlock" /\ ppc' = "idle" /\ node' = NoNode /\ fblock' = "none"
  BY DEF Feedback_lock, Feedback_unlock
<1>3. QueueType'
  BY <1>1, <1>2 DEF QueueInv, QueueType, Written
<1>4. LockHeld' /\ Excluded'
  BY <1>1, <1>2 DEF QueueInv, LockHeld, Excluded
<1>5. NodeInHand' /\ ChainAllocated'
  BY <1>1, <1>2 DEF QueueInv, NodeInHand, ChainAllocated
<1>6. Links'
  BY <1>1, <1>2 DEF QueueInv, Links
<1>7. Conservation'
  BY <1>1 DEF QueueInv, Conservation
<1> QED
  BY <1>3, <1>4, <1>5, <1>6, <1>7 DEF QueueInv

(* InsertTailList fills the new entry: no field of the list is written,    *)
(* and to fill it again would change nothing.                              *)
LEMMA InsertEntryKeeps ==
  ASSUME QueueInv, InsertTail_entry
  PROVE  QueueInv'
<1>1. /\ data' = data /\ free' = free /\ fblock' = fblock /\ batch' = batch /\ cpc' = cpc
      /\ chain' = chain /\ fed' = fed /\ sent' = sent /\ node' = node /\ calls' = calls
      /\ ppc = "entry" /\ ppc' = "prev" /\ m' = LinkEntry(m, ListHead, node)
  BY DEF InsertTail_entry, loop
<1>2. /\ m \in Mem(Addr) /\ ListHead \in Addr /\ node \in Addr /\ node # ListHead
      /\ chain \in Seq(Addr) /\ IsChain(m, ListHead, chain)
      /\ \A i \in 1 .. Len(chain) : chain[i] # node
  BY <1>1, QueueAssumption DEF QueueInv, QueueType, NodeInHand, Links, Addr
<1>3. /\ m' \in Mem(Addr)
      /\ \A x \in Addr : /\ m'.Flink[x] = IF x = node THEN ListHead ELSE m.Flink[x]
                         /\ m'.Blink[x] = IF x = node THEN m.Blink[ListHead] ELSE m.Blink[x]
  BY <1>1, <1>2 DEF LinkEntry, SetFlink, SetBlink, Mem
<1>4. IsChain(m', ListHead, chain)
  <2>1. Agree(m, m', ListHead, chain)
    BY <1>2, <1>3 DEF Agree
  <2> QED
    BY <1>2, <1>3, <2>1, UntouchedChain
<1>5. LinkEntry(m', ListHead, node) = m'
  <2> DEFINE n == LinkEntry(m', ListHead, node)
  <2>1. m'.Flink[node] = ListHead /\ m'.Blink[node] = m'.Blink[ListHead]
    BY <1>2, <1>3
  <2>2. /\ n \in Mem(Addr)
        /\ n.Flink = [m'.Flink EXCEPT ![node] = ListHead]
        /\ n.Blink = [m'.Blink EXCEPT ![node] = m'.Blink[ListHead]]
    BY <1>2, <1>3 DEF LinkEntry, SetFlink, SetBlink, Mem
  <2> HIDE DEF n
  <2>3. n.Flink = m'.Flink /\ n.Blink = m'.Blink
    BY <1>2, <1>3, <2>1, <2>2 DEF Mem
  <2>4. n = m'
    BY <1>3, <2>2, <2>3 DEF Mem
  <2> QED
    BY <2>4 DEF n
<1>6. QueueType'
  BY <1>1, <1>3 DEF QueueInv, QueueType, Written
<1>7. LockHeld' /\ Excluded'
  BY <1>1 DEF QueueInv, LockHeld, Excluded
<1>8. NodeInHand' /\ ChainAllocated'
  BY <1>1 DEF QueueInv, NodeInHand, ChainAllocated
<1>9. Links'
  BY <1>1, <1>4, <1>5 DEF Links
<1>10. Conservation'
  BY <1>1 DEF QueueInv, Conservation
<1> QED
  BY <1>6, <1>7, <1>8, <1>9, <1>10 DEF QueueInv

(* The entry becomes visible: with the write that is still missing the     *)
(* fields would be those InsertTailList leaves.                            *)
LEMMA InsertPrevKeeps ==
  ASSUME QueueInv, InsertTail_prev
  PROVE  /\ QueueInv'
         /\ Fed' = Append(Fed, Wire(data[node])) /\ Wire(data[node]) \in Wires
         /\ Written' = Written
<1>1. /\ data' = data /\ free' = free /\ fblock' = fblock /\ batch' = batch /\ cpc' = cpc
      /\ sent' = sent /\ node' = node /\ calls' = calls
      /\ ppc = "prev" /\ ppc' = "head" /\ m' = SetFlink(m, m.Blink[ListHead], node)
      /\ chain' = Append(chain, node) /\ fed' = Append(fed, data[node])
  BY DEF InsertTail_prev, loop
<1>2. /\ m \in Mem(Addr) /\ ListHead \in Addr /\ node \in Addr /\ node # ListHead
      /\ chain \in Seq(Addr) /\ chain \in Seq(Nodes) /\ IsChain(m, ListHead, chain)
      /\ \A i \in 1 .. Len(chain) : chain[i] # node
      /\ LinkEntry(m, ListHead, node) = m /\ node \in Nodes /\ node \notin free
  BY <1>1, QueueAssumption DEF QueueInv, QueueType, NodeInHand, Links, Addr
<1>3. SetBlink(m', ListHead, node) = InsertTailList(m, ListHead, node)
  BY <1>1, <1>2 DEF InsertTailList
<1>4. IsChain(SetBlink(m', ListHead, node), ListHead, chain')
  BY <1>1, <1>2, <1>3, InsertTailChain
<1>5. m' \in Mem(Addr)
  BY <1>1, <1>2 DEF SetFlink, Mem
<1>6. /\ chain' \in Seq(Nodes) /\ Len(chain') = Len(chain) + 1
      /\ chain'[Len(chain) + 1] = node
      /\ \A i \in 1 .. Len(chain) : chain'[i] = chain[i]
  BY <1>1, <1>2, AppendProperties
<1>7. /\ data[node] \in Results /\ fed \in Seq(Results) /\ fed' \in Seq(Results)
      /\ Len(fed') = Len(fed) + 1 /\ fed'[Len(fed) + 1] = data[node]
      /\ \A i \in 1 .. Len(fed) : fed'[i] = fed[i]
  <2>1. data[node] \in Results /\ fed \in Seq(Results)
    BY <1>2 DEF QueueInv, QueueType
  <2> QED
    BY <1>1, <2>1, AppendProperties
<1>8. QueueType'
  BY <1>1, <1>5, <1>6, <1>7 DEF QueueInv, QueueType, Written
<1>9. LockHeld' /\ Excluded'
  BY <1>1 DEF QueueInv, LockHeld, Excluded
<1>10. NodeInHand'
  BY <1>1, <1>2 DEF NodeInHand
<1>11. ChainAllocated'
  <2>1. ASSUME NEW i \in 1 .. Len(chain') PROVE chain'[i] \notin free
    <3>1. i \in 1 .. Len(chain) \/ i = Len(chain) + 1
      BY <1>2, <1>6
    <3> QED
      BY <1>2, <1>6, <3>1 DEF QueueInv, ChainAllocated
  <2> QED
    BY <1>1, <2>1 DEF ChainAllocated
<1>12. Links'
  BY <1>1, <1>4 DEF Links
<1>13. Wire(data[node]) \in Wires
  BY <1>7, WireTypes DEF QueueInv
<1>14. Fed' = Append(Fed, Wire(data[node]))
  <2>1. Fed' \in Seq(Wires) /\ Len(Fed') = Len(fed) + 1
    <3>1. Fed' = [i \in 1 .. Len(fed') |-> Wire(fed'[i])]
      BY <1>7 DEF Fed
    <3>2. \A i \in 1 .. Len(fed') : Wire(fed'[i]) \in Wires
      BY <1>7, WireTypes DEF QueueInv
    <3> QED
      BY <1>7, <3>1, <3>2
  <2>2. Fed \in Seq(Wires) /\ Len(Fed) = Len(fed)
    BY WireTypes DEF QueueInv
  <2>3. /\ \A i \in 1 .. Len(fed) : Fed[i] = Wire(fed[i])
        /\ \A i \in 1 .. Len(fed) + 1 : Fed'[i] = Wire(fed'[i])
    BY <1>7 DEF Fed
  <2>4. /\ Append(Fed, Wire(data[node])) \in Seq(Wires)
        /\ Len(Append(Fed, Wire(data[node]))) = Len(fed) + 1
        /\ \A i \in 1 .. Len(fed) : Append(Fed, Wire(data[node]))[i] = Fed[i]
        /\ Append(Fed, Wire(data[node]))[Len(fed) + 1] = Wire(data[node])
    BY <1>13, <2>2, AppendProperties
  <2>5. ASSUME NEW i \in 1 .. Len(fed) + 1 PROVE Fed'[i] = Append(Fed, Wire(data[node]))[i]
    <3>1. i \in 1 .. Len(fed) \/ i = Len(fed) + 1
      BY <1>7
    <3> QED
      BY <1>7, <2>3, <2>4, <3>1
  <2> QED
    BY <2>1, <2>4, <2>5, SeqEqual
<1>15. Queued' = Append(Queued, Wire(data[node]))
  <2>1. Queued' \in Seq(Wires) /\ Len(Queued') = Len(chain) + 1
    <3>1. Queued' = [i \in 1 .. Len(chain') |-> Wire(data[chain'[i]])]
      BY <1>1, <1>6 DEF Queued
    <3>2. \A i \in 1 .. Len(chain') : data[chain'[i]] \in Results
      BY <1>6 DEF QueueInv, QueueType
    <3>3. \A i \in 1 .. Len(chain') : Wire(data[chain'[i]]) \in Wires
      BY <3>2, WireTypes DEF QueueInv
    <3> QED
      BY <1>6, <3>1, <3>3
  <2>2. Queued \in Seq(Wires) /\ Len(Queued) = Len(chain)
    BY WireTypes DEF QueueInv
  <2>3. /\ \A i \in 1 .. Len(chain) : Queued[i] = Wire(data[chain[i]])
        /\ \A i \in 1 .. Len(chain) + 1 : Queued'[i] = Wire(data[chain'[i]])
    BY <1>1, <1>2, <1>6 DEF Queued
  <2>4. /\ Append(Queued, Wire(data[node])) \in Seq(Wires)
        /\ Len(Append(Queued, Wire(data[node]))) = Len(chain) + 1
        /\ \A i \in 1 .. Len(chain) : Append(Queued, Wire(data[node]))[i] = Queued[i]
        /\ Append(Queued, Wire(data[node]))[Len(chain) + 1] = Wire(data[node])
    BY <1>13, <2>2, AppendProperties
  <2>5. ASSUME NEW i \in 1 .. Len(chain) + 1 PROVE Queued'[i] = Append(Queued, Wire(data[node]))[i]
    <3>1. i \in 1 .. Len(chain) \/ i = Len(chain) + 1
      BY <1>2
    <3> QED
      BY <1>6, <2>3, <2>4, <3>1
  <2> QED
    BY <2>1, <2>4, <2>5, SeqEqual
<1>16. Written' = Written
  BY <1>1 DEF Written
<1>17. Conservation'
  <2>1. Written \o batch \in Seq(Wires) /\ Queued \in Seq(Wires)
    BY WireTypes, ConcatProperties DEF QueueInv, QueueType
  <2>2. Fed = (Written \o batch) \o Queued
    BY ConservationMeans DEF QueueInv
  <2>3. Fed' = (Written' \o batch') \o Queued'
    <3>1. PICK w \in Wires : w = Wire(data[node])
      BY <1>13
    <3>2. (Written \o batch) \o Append(Queued, w) = Append((Written \o batch) \o Queued, w)
      BY <2>1, AppendLast
    <3> QED
      BY <1>1, <1>14, <1>15, <1>16, <2>2, <3>1, <3>2
  <2> QED
    BY <2>3 DEF Conservation, Fed, Written, Queued
<1> QED
  BY <1>8, <1>9, <1>10, <1>11, <1>12, <1>13, <1>14, <1>16, <1>17 DEF QueueInv

(* The last write makes the list whole again.                              *)
LEMMA InsertHeadFieldKeeps ==
  ASSUME QueueInv, InsertTail_head
  PROVE  QueueInv'
<1>1. /\ data' = data /\ free' = free /\ fblock' = fblock /\ batch' = batch /\ cpc' = cpc
      /\ chain' = chain /\ fed' = fed /\ sent' = sent /\ node' = node /\ calls' = calls
      /\ ppc = "head" /\ ppc' = "unlock" /\ m' = SetBlink(m, ListHead, node)
  BY DEF InsertTail_head, loop
<1>2. m' \in Mem(Addr)
  BY <1>1 DEF QueueInv, QueueType, NodeInHand, Addr, SetBlink, Mem
<1>3. QueueType'
  BY <1>1, <1>2 DEF QueueInv, QueueType, Written
<1>4. LockHeld' /\ Excluded'
  BY <1>1 DEF QueueInv, LockHeld, Excluded
<1>5. NodeInHand' /\ ChainAllocated'
  BY <1>1 DEF QueueInv, NodeInHand, ChainAllocated
<1>6. Links'
  BY <1>1 DEF QueueInv, Links
<1>7. Conservation'
  BY <1>1 DEF QueueInv, Conservation
<1> QED
  BY <1>3, <1>4, <1>5, <1>6, <1>7 DEF QueueInv

--------------------------------------------------------------------------------
(* The steps of iterate_callback that use the list.                        *)

(* Taking and giving back fblock.                                          *)
LEMMA IterateLockKeeps ==
  ASSUME QueueInv, iterate_lock \/ iterate_unlock
  PROVE  QueueInv'
<1>1. /\ m' = m /\ data' = data /\ free' = free /\ batch' = batch /\ ppc' = ppc
      /\ chain' = chain /\ fed' = fed /\ sent' = sent /\ calls' = calls /\ node' = node
  BY DEF iterate_lock, iterate_unlock, ping
<1>2. \/ cpc = "lock" /\ cpc' = "drain" /\ fblock = "none" /\ fblock' = "server"
      \/ cpc = "drain" /\ cpc' = "write" /\ fblock' = "none"
  BY DEF iterate_lock, iterate_unlock
<1>3. QueueType'
  BY <1>1, <1>2 DEF QueueInv, QueueType, Written
<1>4. LockHeld' /\ Excluded'
  BY <1>1, <1>2 DEF QueueInv, LockHeld, Excluded
<1>5. NodeInHand' /\ ChainAllocated' /\ Links' /\ Conservation'
  BY <1>1 DEF QueueInv, NodeInHand, ChainAllocated, Links, Conservation
<1> QED
  BY <1>3, <1>4, <1>5 DEF QueueInv

(* A turn of the drain loop takes the oldest result, and the entry it      *)
(* frees is linked in no more.                                             *)
LEMMA DrainKeeps ==
  ASSUME QueueInv, iterate_drain
  PROVE  QueueInv'
<1>1. /\ data' = data /\ fblock' = fblock /\ fed' = fed /\ sent' = sent
      /\ cpc' = cpc /\ ppc' = ppc /\ node' = node /\ calls' = calls
      /\ cpc = "drain" /\ ~IsListEmpty(m, ListHead)
      /\ m' = RemoveHeadList(m, ListHead) /\ chain' = Tail(chain)
      /\ batch' = Append(batch, Wire(data[m.Flink[ListHead]]))
      /\ free' = free \cup {m.Flink[ListHead]}
  BY DEF iterate_drain, loop, ping
<1>2. ppc \in {"idle", "lock"}
  BY <1>1 DEF QueueInv, QueueType, Excluded
<1>3. /\ m \in Mem(Addr) /\ ListHead \in Addr /\ chain \in Seq(Addr) /\ chain \in Seq(Nodes)
      /\ IsChain(m, ListHead, chain)
  BY <1>2 DEF QueueInv, QueueType, Links, Addr
<1>4. chain # <<>> /\ m.Flink[ListHead] = chain[1]
  BY <1>1, <1>3, ChainResults
<1>5. Len(chain) \in Nat /\ 1 \in 1 .. Len(chain) /\ chain[1] \in Nodes
  BY <1>3, <1>4
<1>6. m' = RemoveEntryList(m, chain[1]) /\ Tail(chain) = Without(chain, 1)
  BY <1>1, <1>3, <1>4, RemoveHeadIsRemoveEntry
<1>7. m' \in Mem(Addr) /\ IsChain(m', ListHead, chain')
  BY <1>1, <1>3, <1>5, <1>6, RemoveEntryChain
<1>8. /\ chain' \in Seq(Nodes) /\ Len(chain') = Len(chain) - 1
      /\ \A j \in 1 .. Len(chain) - 1 : chain'[j] = chain[j + 1]
  BY <1>1, <1>3, <1>4, HeadTailProperties
<1>9. data[chain[1]] \in Results /\ Wire(data[chain[1]]) \in Wires
  <2>1. data[chain[1]] \in Results
    BY <1>5 DEF QueueInv, QueueType
  <2> QED
    BY <2>1, WireTypes DEF QueueInv
<1>10. QueueType'
  <2>1. batch' \in Seq(Wires)
    BY <1>1, <1>4, <1>9, AppendProperties DEF QueueInv, QueueType
  <2> QED
    BY <1>1, <1>4, <1>5, <1>7, <1>8, <2>1 DEF QueueInv, QueueType, Written
<1>11. LockHeld' /\ Excluded'
  BY <1>1 DEF QueueInv, LockHeld, Excluded
<1>12. \A j \in 1 .. Len(chain') : j + 1 \in 1 .. Len(chain) /\ j + 1 # 1 /\ chain'[j] = chain[j + 1]
  BY <1>5, <1>8
<1>13. \A i \in 1 .. Len(chain) : i # 1 => chain[i] # chain[1]
  BY <1>3, <1>5 DEF IsChain
<1>14. NodeInHand'
  <2>1. ppc # "idle" => node # chain[1] /\ \A i \in 1 .. Len(chain) : chain[i] # node
    BY <1>2, <1>5 DEF QueueInv, NodeInHand
  <2> QED
    BY <1>1, <1>4, <1>12, <2>1 DEF QueueInv, NodeInHand
<1>15. ChainAllocated'
  BY <1>1, <1>4, <1>12, <1>13 DEF QueueInv, ChainAllocated
<1>16. Links'
  BY <1>1, <1>2, <1>7 DEF Links
<1>17. Queued # <<>> /\ Queued[1] = Wire(data[chain[1]]) /\ Queued \in Seq(Wires)
  BY <1>5, WireTypes DEF QueueInv
<1>18. Queued' = Tail(Queued)
  <2>1. /\ Tail(Queued) \in Seq(Wires) /\ Len(Tail(Queued)) = Len(chain) - 1
        /\ \A j \in 1 .. Len(chain) - 1 : Tail(Queued)[j] = Queued[j + 1]
    BY <1>17, WireTypes, HeadTailProperties DEF QueueInv
  <2>2. \A j \in 1 .. Len(chain') : Queued[j + 1] = Wire(data[chain[j + 1]])
    BY <1>12, WireTypes DEF QueueInv
  <2>3. Queued' = [j \in 1 .. Len(chain) - 1 |-> Wire(data[chain[j + 1]])]
    BY <1>1, <1>8 DEF Queued
  <2>4. Tail(Queued) = [j \in 1 .. Len(chain) - 1 |-> Tail(Queued)[j]]
    BY <2>1, AsFunction, Zenon
  <2> QED
    BY <1>8, <2>1, <2>2, <2>3, <2>4
<1>19. Conservation'
  <2>1. Written \in Seq(Wires) /\ batch \in Seq(Wires)
    BY DEF QueueInv, QueueType
  <2>2. Written \o batch \in Seq(Wires)
    BY <2>1, ConcatProperties
  <2>3. PICK w \in Wires : w = Queued[1]
    BY <1>9, <1>17
  <2>4. Append(Written \o batch, w) \o Tail(Queued) = (Written \o batch) \o Queued
    BY <1>17, <2>2, <2>3, ShiftHead
  <2>5. Written \o Append(batch, w) = Append(Written \o batch, w)
    BY <2>1, AppendLast
  <2>6. Fed = (Written \o batch) \o Queued
    BY ConservationMeans DEF QueueInv
  <2>7. Fed' = Fed /\ Written' = Written /\ batch' = Append(batch, w)
    BY <1>1, <1>4, <1>17, <2>3 DEF Fed, Written
  <2>8. Fed' = (Written' \o batch') \o Queued'
    BY <1>18, <2>4, <2>5, <2>6, <2>7
  <2> QED
    BY <2>8 DEF Conservation, Fed, Written, Queued
<1> QED
  BY <1>10, <1>11, <1>14, <1>15, <1>16, <1>19 DEF QueueInv

(* The whole batch is written, in order.                                   *)
LEMMA WriteKeeps ==
  ASSUME QueueInv, iterate_write
  PROVE  QueueInv' /\ Written' = Written \o batch /\ Fed' = Fed
<1> DEFINE R == [i \in DOMAIN batch |-> [conn |-> Head(todo), msg |-> batch[i]]]
           T == {sent[i] : i \in DOMAIN sent} \cup {R[i] : i \in DOMAIN batch}
<1>1. /\ m' = m /\ data' = data /\ free' = free /\ fblock' = fblock /\ ppc' = ppc
      /\ chain' = chain /\ fed' = fed /\ calls' = calls /\ node' = node
      /\ cpc = "write" /\ cpc' = "check" /\ batch' = <<>> /\ sent' = sent \o R
  BY DEF iterate_write, ping
<1>2. Len(batch) \in Nat /\ DOMAIN batch = 1 .. Len(batch)
  BY DEF QueueInv, QueueType
<1>3. sent \in Seq(T) /\ DOMAIN sent = 1 .. Len(sent) /\ Len(sent) \in Nat
  <2>1. sent \in Seq({sent[i] : i \in DOMAIN sent})
    BY DEF QueueInv, QueueType
  <2> QED
    BY <2>1
<1>4. R \in Seq(T) /\ Len(R) = Len(batch) /\ \A i \in 1 .. Len(batch) : R[i].msg = batch[i]
  BY <1>2
<1> HIDE DEF R, T
<1>5. /\ sent' \in Seq(T) /\ Len(sent') = Len(sent) + Len(batch)
      /\ \A i \in 1 .. Len(sent) + Len(batch) :
           sent'[i] = IF i <= Len(sent) THEN sent[i] ELSE R[i - Len(sent)]
  <2>1. sent \in Seq(T) /\ R \in Seq(T)
    BY <1>3, <1>4
  <2>2. /\ sent \o R \in Seq(T) /\ Len(sent \o R) = Len(sent) + Len(R)
        /\ \A i \in 1 .. Len(sent) + Len(R) :
             (sent \o R)[i] = IF i <= Len(sent) THEN sent[i] ELSE R[i - Len(sent)]
    BY <2>1, ConcatProperties, ZenonT(30)
  <2> QED
    BY <1>1, <1>4, <2>2
<1>6. sent' \in Seq({sent'[i] : i \in DOMAIN sent'})
  BY <1>5
<1>7. Written \in Seq(Wires) /\ Len(Written) = Len(sent) /\ batch \in Seq(Wires)
      /\ \A i \in 1 .. Len(sent) : Written[i] = sent[i].msg
  <2>1. Written \in Seq(Wires) /\ batch \in Seq(Wires)
    BY DEF QueueInv, QueueType
  <2>2. Written = [i \in 1 .. Len(sent) |-> sent[i].msg]
    BY <1>3 DEF Written
  <2> QED
    BY <1>3, <2>1, <2>2
<1>8. /\ Written \o batch \in Seq(Wires) /\ Len(Written \o batch) = Len(sent) + Len(batch)
      /\ \A i \in 1 .. Len(sent) + Len(batch) :
           (Written \o batch)[i] = IF i <= Len(sent) THEN Written[i] ELSE batch[i - Len(sent)]
  <2>1. /\ Written \o batch \in Seq(Wires) /\ Len(Written \o batch) = Len(Written) + Len(batch)
        /\ \A i \in 1 .. Len(Written) + Len(batch) :
             (Written \o batch)[i] = IF i <= Len(Written) THEN Written[i] ELSE batch[i - Len(Written)]
    BY <1>7, ConcatProperties
  <2> QED
    BY <1>7, <2>1
<1>9. Written' = [i \in 1 .. Len(sent) + Len(batch) |-> sent'[i].msg]
  BY <1>3, <1>5 DEF Written
<1>10. ASSUME NEW i \in 1 .. Len(sent) + Len(batch) PROVE sent'[i].msg = (Written \o batch)[i]
  <2>1. CASE i <= Len(sent)
    <3>1. i \in 1 .. Len(sent)
      BY <1>2, <1>3, <2>1
    <3> QED
      BY <1>5, <1>7, <1>8, <2>1, <3>1, Zenon
  <2>2. CASE ~(i <= Len(sent))
    <3>1. i - Len(sent) \in 1 .. Len(batch)
      BY <1>2, <1>3, <2>2
    <3> QED
      BY <1>4, <1>5, <1>8, <2>2, <3>1, Zenon
  <2> QED
    BY <2>1, <2>2
<1>11. Written' = Written \o batch
  <2>1. Written \o batch = [i \in 1 .. Len(sent) + Len(batch) |-> (Written \o batch)[i]]
    BY <1>8, AsFunction, Zenon
  <2> QED
    BY <1>9, <1>10, <2>1
<1>12. Fed' = Fed /\ Queued' = Queued
  BY <1>1 DEF Fed, Queued
<1>13. QueueType'
  <2>1. Written' \in Seq(Wires) /\ batch' \in Seq(Wires)
    BY <1>1, <1>8, <1>11
  <2>2. /\ cpc' \in {"poll", "check", "lock", "drain", "write"}
        /\ ppc' \in {"idle", "lock", "entry", "prev", "head", "unlock"}
    BY <1>1 DEF QueueInv, QueueType
  <2>3. /\ m' \in Mem(Addr) /\ data' \in [Nodes -> Results] /\ free' \in SUBSET Nodes
        /\ calls' \in 0 .. MaxCalls /\ chain' \in Seq(Nodes) /\ fed' \in Seq(Results)
    BY <1>1 DEF QueueInv, QueueType
  <2> QED
    BY <1>6, <2>1, <2>2, <2>3 DEF QueueType
<1>14. LockHeld' /\ Excluded'
  BY <1>1 DEF QueueInv, LockHeld, Excluded
<1>15. NodeInHand' /\ ChainAllocated' /\ Links'
  BY <1>1 DEF QueueInv, NodeInHand, ChainAllocated, Links
<1>16. Conservation'
  <2>1. Fed = (Written \o batch) \o Queued
    BY ConservationMeans DEF QueueInv
  <2>2. (Written \o batch) \o <<>> = Written \o batch
    BY <1>8
  <2>3. Fed' = (Written' \o batch') \o Queued'
    BY <1>1, <1>11, <1>12, <2>1, <2>2
  <2> QED
    BY <2>3 DEF Conservation, Fed, Written, Queued
<1> QED
  BY <1>11, <1>12, <1>13, <1>14, <1>15, <1>16 DEF QueueInv

--------------------------------------------------------------------------------
(* The steps of the server thread that leave the list alone.               *)
Elsewhere ==
  \/ \E c \in Conns : accept(c) \/ leave(c) \/ close_conn(c)
  \/ tick \/ timer \/ iterate_skip \/ iterate_enter \/ iterate_done

(* The steps of mongoose and its clients outside of the queue touch        *)
(* neither the queue nor ping's thread, and end no drain.                  *)
LEMMA ElsewhereMeans ==
  ASSUME QueueInv, Elsewhere
  PROVE  /\ UNCHANGED queue /\ UNCHANGED ping
         /\ cpc' \in {"poll", "check", "lock", "drain", "write"}
         /\ cpc' = "drain" <=> cpc = "drain"
<1>1. cpc \in {"poll", "check", "lock", "drain", "write"}
  BY DEF QueueInv, QueueType
<1>2. ASSUME NEW c \in Conns, accept(c) \/ leave(c) \/ close_conn(c)
      PROVE  UNCHANGED queue /\ UNCHANGED ping /\ cpc' = cpc
  BY <1>2 DEF accept, leave, close_conn
<1>3. CASE tick
  BY <1>1, <1>3 DEF tick
<1>4. CASE timer
  BY <1>4 DEF timer
<1>5. CASE iterate_skip \/ iterate_enter \/ iterate_done
  BY <1>5 DEF iterate_skip, iterate_enter, iterate_done
<1> QED
  BY <1>1, <1>2, <1>3, <1>4, <1>5 DEF Elsewhere

(* Every step keeps the invariant.                                         *)
LEMMA QueueStep == QueueInv /\ [Next]_vars => QueueInv'
<1> SUFFICES ASSUME QueueInv, [Next]_vars PROVE QueueInv'
  OBVIOUS
<1>1. CASE (\E kind \in Kinds : Feedback(kind)) \/ Feedback_nothing
  BY <1>1, FeedbackKeeps
<1>2. CASE Feedback_lock \/ Feedback_unlock
  BY <1>2, FeedbackLockKeeps
<1>3. CASE InsertTail_entry
  BY <1>3, InsertEntryKeeps
<1>4. CASE InsertTail_prev
  BY <1>4, InsertPrevKeeps
<1>5. CASE InsertTail_head
  BY <1>5, InsertHeadFieldKeeps
<1>6. CASE Elsewhere
  BY <1>6, ElsewhereMeans, ElsewhereKeeps
<1>7. CASE iterate_lock \/ iterate_unlock
  BY <1>7, IterateLockKeeps
<1>8. CASE iterate_drain
  BY <1>8, DrainKeeps
<1>9. CASE iterate_write
  BY <1>9, WriteKeeps
<1>10. CASE UNCHANGED vars
  <2>1. UNCHANGED queue /\ UNCHANGED ping /\ cpc' = cpc
    BY <1>10 DEF vars, queue, ping
  <2>2. cpc \in {"poll", "check", "lock", "drain", "write"}
    BY DEF QueueInv, QueueType
  <2> QED
    BY <2>1, <2>2, ElsewhereKeeps
<1> QED
  BY <1>1, <1>2, <1>3, <1>4, <1>5, <1>6, <1>7, <1>8, <1>9, <1>10
     DEF Next, PingStep, IterateStep, Elsewhere

(* The queue's invariant holds in every state, whatever ping and the web   *)
(* server interleave.                                                      *)
LEMMA QueueInvariant == Spec => []QueueInv
BY InitialQueue, QueueStep, PTL DEF Spec

(* Although iterate_callback looks at the list without fblock and frees    *)
(* its nodes, the fields spell out the queued results whenever no          *)
(* InsertTailList is under way, and nothing that is linked in or in hand   *)
(* is free.                                                                *)
THEOREM QueueStaysSound == Spec => []QueueSound
<1>1. QueueInv => QueueSound
  <2> SUFFICES ASSUME QueueInv PROVE QueueSound
    OBVIOUS
  <2>1. ppc \notin {"prev", "head"} => IsChain(m, ListHead, chain)
    BY DEF QueueInv, Links
  <2>2. \A i \in DOMAIN chain : chain[i] \notin free
    BY DEF QueueInv, QueueType, ChainAllocated
  <2>3. node \notin free
    BY QueueAssumption DEF QueueInv, QueueType, NodeInHand
  <2> QED
    BY <2>1, <2>2, <2>3 DEF QueueSound
<1> QED
  BY <1>1, QueueInvariant, PTL

(* Every result Feedback linked in is written, in the batch or still       *)
(* queued, once and in order.                                              *)
THEOREM ResultsConserved == Spec => []Conservation
<1>1. QueueInv => Conservation
  BY DEF QueueInv
<1> QED
  BY <1>1, QueueInvariant, PTL

--------------------------------------------------------------------------------
(* Feedback and iterate_callback together implement the first-in first-out *)
(* channel: linking an entry in is Put, writing a batch is Deliver, and    *)
(* every other step changes nothing a client can see.                      *)
THEOREM QueueImplementsChannel == Spec => ImplementsChannel
<1>1. Init => Channel!Init
  BY DEF Init, Channel!Init
<1>2. QueueInv /\ [Next]_vars => [Channel!Next]_(Channel!vars)
  <2> SUFFICES ASSUME QueueInv, [Next]_vars PROVE [Channel!Next]_(Channel!vars)
    OBVIOUS
  <2>1. CASE InsertTail_prev
    <3>1. /\ Fed' = Append(Fed, Wire(data[node])) /\ Wire(data[node]) \in Wires
          /\ Written' = Written
      BY <2>1, InsertPrevKeeps
    <3>2. Channel!Put
      BY <3>1 DEF Channel!Put, Fed, Written
    <3> QED
      BY <3>2 DEF Channel!Next
  <2>2. CASE iterate_write
    <3>1. Written' = Written \o batch /\ Fed' = Fed
      BY <2>2, WriteKeeps
    <3>2. Written \in Seq(Wires) /\ batch \in Seq(Wires) /\ Queued \in Seq(Wires)
      BY WireTypes DEF QueueInv, QueueType
    <3>3. /\ Written \o batch \in Seq(Wires)
          /\ Len(Written \o batch) = Len(Written) + Len(batch)
      BY <3>2, ConcatProperties
    <3>4. Fed = (Written \o batch) \o Queued
      BY ConservationMeans DEF QueueInv
    <3>5. SubSeq(Fed, 1, Len(Written \o batch)) = Written \o batch
      BY <3>2, <3>3, <3>4, FirstPart
    <3>6. Len(Fed) = Len(Written \o batch) + Len(Queued)
      BY <3>2, <3>3, <3>4, ConcatProperties
    <3>7. CASE batch = <<>>
      <4>1. Written' = Written
        BY <3>1, <3>2, <3>7
      <4> QED
        BY <3>1, <4>1 DEF Channel!vars, Fed, Written
    <3>8. CASE batch # <<>>
      <4>1. Len(Written \o batch) \in (Len(Written) + 1) .. Len(Fed)
        BY <3>2, <3>3, <3>6, <3>8
      <4>2. Channel!Deliver
        BY <3>1, <3>5, <4>1 DEF Channel!Deliver, Fed, Written
      <4> QED
        BY <4>2 DEF Channel!Next
    <3> QED
      BY <3>7, <3>8
  <2>3. CASE fed' = fed /\ sent' = sent
    BY <2>3 DEF Channel!vars
  <2>4. CASE Elsewhere
    BY <2>3, <2>4, ElsewhereMeans DEF queue
  <2> QED
    BY <2>1, <2>2, <2>3, <2>4
       DEF Next, PingStep, IterateStep, Elsewhere, vars, Feedback, Feedback_nothing,
           Feedback_lock, InsertTail_entry, InsertTail_head, Feedback_unlock,
           iterate_lock, iterate_drain, iterate_unlock
<1> QED
  BY <1>1, <1>2, QueueInvariant, PTL DEF Spec, ImplementsChannel, Channel!Spec
================================================================================
