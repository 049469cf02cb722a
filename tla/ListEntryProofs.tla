---------------------------- MODULE ListEntryProofs ----------------------------
(***************************************************************************)
(* What the calls of include/mylist.h do to the list they are called on    *)
(* and to every other list, for any set of addresses and any length.       *)
(***************************************************************************)
EXTENDS ListEntry, Integers, SequenceTheorems, TLAPS

(* Memories over the addresses A.                                          *)
Mem(A) == [Flink : [A -> A], Blink : [A -> A]]

(* s without its i-th entry.                                               *)
Without(s, i) == SubSeq(s, 1, i - 1) \o SubSeq(s, i + 1, Len(s))

(* The two memories have the same fields at the head h and the entries s.  *)
Agree(m, n, h, s) ==
  /\ n.Flink[h] = m.Flink[h] /\ n.Blink[h] = m.Blink[h]
  /\ \A i \in 1 .. Len(s) : /\ n.Flink[s[i]] = m.Flink[s[i]]
                            /\ n.Blink[s[i]] = m.Blink[s[i]]

(* A list none of whose fields is written stays the list it was.           *)
LEMMA UntouchedChain ==
  ASSUME NEW A, NEW m \in Mem(A), NEW n \in Mem(A), NEW h \in A, NEW s \in Seq(A),
         IsChain(m, h, s), Agree(m, n, h, s)
  PROVE  IsChain(n, h, s)
BY DEF IsChain, Agree, At

(* SetFlink and SetBlink write one field.                                  *)
LEMMA SetFields ==
  ASSUME NEW A, NEW m \in Mem(A), NEW p \in A, NEW q \in A
  PROVE  /\ SetFlink(m, p, q) \in Mem(A)
         /\ \A x \in A : /\ SetFlink(m, p, q).Flink[x] = IF x = p THEN q ELSE m.Flink[x]
                         /\ SetFlink(m, p, q).Blink[x] = m.Blink[x]
         /\ SetBlink(m, p, q) \in Mem(A)
         /\ \A x \in A : /\ SetBlink(m, p, q).Blink[x] = IF x = p THEN q ELSE m.Blink[x]
                         /\ SetBlink(m, p, q).Flink[x] = m.Flink[x]
BY DEF SetFlink, SetBlink, Mem

(* The Flink and the Blink of an address of a memory are addresses of it.  *)
LEMMA FieldsOf ==
  ASSUME NEW A, NEW m \in Mem(A), NEW p \in A
  PROVE  m.Flink[p] \in A /\ m.Blink[p] \in A
BY DEF Mem

--------------------------------------------------------------------------------
(* InsertTailList.                                                         *)
LEMMA InsertTailFields ==
  ASSUME NEW A, NEW m \in Mem(A), NEW h \in A, NEW e \in A, e # m.Blink[h]
  PROVE  LET n == InsertTailList(m, h, e) IN
         /\ n \in Mem(A)
         /\ \A x \in A :
              /\ n.Flink[x] = IF x = m.Blink[h] THEN e ELSE IF x = e THEN h ELSE m.Flink[x]
              /\ n.Blink[x] = IF x = h THEN e ELSE IF x = e THEN m.Blink[h] ELSE m.Blink[x]
BY DEF InsertTailList, LinkEntry, SetFlink, SetBlink, Mem

(* InsertTailList turns the list s of the head h into s with e at its end, *)
(* when e is not on it.                                                    *)
LEMMA InsertTailChain ==
  ASSUME NEW A, NEW m \in Mem(A), NEW h \in A, NEW s \in Seq(A), IsChain(m, h, s),
         NEW e \in A, e # h, \A i \in 1 .. Len(s) : s[i] # e
  PROVE  /\ InsertTailList(m, h, e) \in Mem(A)
         /\ IsChain(InsertTailList(m, h, e), h, Append(s, e))
<1> DEFINE n == InsertTailList(m, h, e)
           t == Append(s, e)
<1>1. m.Blink[h] = At(h, s, Len(s))
  BY DEF IsChain, At
<1>2. e # m.Blink[h]
  BY <1>1 DEF At
<1>3. /\ n \in Mem(A)
      /\ \A x \in A :
              /\ n.Flink[x] = IF x = m.Blink[h] THEN e ELSE IF x = e THEN h ELSE m.Flink[x]
              /\ n.Blink[x] = IF x = h THEN e ELSE IF x = e THEN m.Blink[h] ELSE m.Blink[x]
  BY <1>2, InsertTailFields
<1>4. /\ Len(t) = Len(s) + 1 /\ t[Len(s) + 1] = e
      /\ \A i \in 1 .. Len(s) : t[i] = s[i]
  BY AppendProperties
<1> HIDE DEF n, t
<1>5. \A i \in 0 .. Len(s) : At(h, t, i) = At(h, s, i) /\ At(h, t, i) \in A
  BY <1>4 DEF At
<1>6. At(h, t, Len(s) + 1) = e /\ At(h, t, Len(s) + 2) = h
  BY <1>4 DEF At
<1>7. \A i \in 0 .. Len(t) : /\ n.Flink[At(h, t, i)] = At(h, t, i + 1)
                             /\ n.Blink[At(h, t, i + 1)] = At(h, t, i)
  <2> SUFFICES ASSUME NEW i \in 0 .. Len(t)
               PROVE  /\ n.Flink[At(h, t, i)] = At(h, t, i + 1)
                      /\ n.Blink[At(h, t, i + 1)] = At(h, t, i)
    OBVIOUS
  <2>1. CASE i < Len(s)
    <3>1. At(h, s, i) # m.Blink[h] /\ At(h, s, i) # e /\ At(h, s, i + 1) # h /\ At(h, s, i + 1) # e
      BY <2>1, <1>1 DEF IsChain, At
    <3>2. m.Flink[At(h, s, i)] = At(h, s, i + 1) /\ m.Blink[At(h, s, i + 1)] = At(h, s, i)
      BY <2>1 DEF IsChain
    <3> QED
      BY <2>1, <3>1, <3>2, <1>3, <1>5
  <2>2. CASE i = Len(s)
    BY <2>2, <1>1, <1>2, <1>3, <1>5, <1>6
  <2>3. CASE i = Len(s) + 1
    BY <2>3, <1>2, <1>3, <1>6
  <2> QED
    BY <2>1, <2>2, <2>3, <1>4
<1>8. /\ \A i \in 1 .. Len(t) : t[i] # h
      /\ \A i, j \in 1 .. Len(t) : t[i] = t[j] => i = j
  BY <1>4, SMTT(30) DEF IsChain
<1>9. QED
  BY <1>3, <1>7, <1>8 DEF IsChain, n, t

--------------------------------------------------------------------------------
(* InsertHeadList.                                                         *)
LEMMA InsertHeadFields ==
  ASSUME NEW A, NEW m \in Mem(A), NEW h \in A, NEW e \in A, e # h, e # m.Flink[h]
  PROVE  LET n == InsertHeadList(m, h, e) IN
         /\ n \in Mem(A)
         /\ \A x \in A :
              /\ n.Flink[x] = IF x = h THEN e ELSE IF x = e THEN m.Flink[h] ELSE m.Flink[x]
              /\ n.Blink[x] = IF x = m.Flink[h] THEN e ELSE IF x = e THEN h ELSE m.Blink[x]
BY DEF InsertHeadList, SetFlink, SetBlink, Mem

(* InsertHeadList turns the list s of the head h into s with e at its      *)
(* front, when e is not on it.                                             *)
LEMMA InsertHeadChain ==
  ASSUME NEW A, NEW m \in Mem(A), NEW h \in A, NEW s \in Seq(A), IsChain(m, h, s),
         NEW e \in A, e # h, \A i \in 1 .. Len(s) : s[i] # e
  PROVE  /\ InsertHeadList(m, h, e) \in Mem(A)
         /\ IsChain(InsertHeadList(m, h, e), h, <<e>> \o s)
<1> DEFINE n == InsertHeadList(m, h, e)
           t == <<e>> \o s
<1>1. m.Flink[h] = At(h, s, 1)
  BY DEF IsChain, At
<1>2. e # m.Flink[h]
  BY <1>1 DEF At
<1>3. /\ n \in Mem(A)
      /\ \A x \in A :
              /\ n.Flink[x] = IF x = h THEN e ELSE IF x = e THEN m.Flink[h] ELSE m.Flink[x]
              /\ n.Blink[x] = IF x = m.Flink[h] THEN e ELSE IF x = e THEN h ELSE m.Blink[x]
  BY <1>2, InsertHeadFields
<1>4. /\ Len(t) = Len(s) + 1 /\ t[1] = e
      /\ \A i \in 1 .. Len(s) : t[i + 1] = s[i]
      /\ \A i \in 2 .. Len(t) : t[i] = s[i - 1]
  OBVIOUS
<1> HIDE DEF n, t
<1>5. \A i \in 1 .. Len(s) + 1 : At(h, t, i + 1) = At(h, s, i) /\ At(h, s, i) \in A
  BY <1>4 DEF At
<1>6. At(h, t, 0) = h /\ At(h, t, 1) = e
  BY <1>4 DEF At
<1>7. \A i \in 0 .. Len(t) : /\ n.Flink[At(h, t, i)] = At(h, t, i + 1)
                             /\ n.Blink[At(h, t, i + 1)] = At(h, t, i)
  <2> SUFFICES ASSUME NEW i \in 0 .. Len(t)
               PROVE  /\ n.Flink[At(h, t, i)] = At(h, t, i + 1)
                      /\ n.Blink[At(h, t, i + 1)] = At(h, t, i)
    OBVIOUS
  <2>1. CASE i > 1
    <3> DEFINE k == i - 1
    <3>1. k \in 1 .. Len(s) /\ i = k + 1
      BY <2>1, <1>4
    <3> HIDE DEF k
    <3>2. At(h, s, k) # h /\ At(h, s, k) # e /\ At(h, s, k + 1) # m.Flink[h] /\ At(h, s, k + 1) # e
      BY <3>1, <1>1 DEF IsChain, At
    <3>3. m.Flink[At(h, s, k)] = At(h, s, k + 1) /\ m.Blink[At(h, s, k + 1)] = At(h, s, k)
      BY <3>1 DEF IsChain
    <3>4. At(h, t, i) = At(h, s, k) /\ At(h, t, i + 1) = At(h, s, k + 1)
      BY <3>1, <1>5
    <3> QED
      BY <3>1, <3>2, <3>3, <3>4, <1>3, <1>5
  <2>2. CASE i = 1
    BY <2>2, <1>1, <1>2, <1>3, <1>5, <1>6
  <2>3. CASE i = 0
    BY <2>3, <1>2, <1>3, <1>6
  <2> QED
    BY <2>1, <2>2, <2>3, <1>4
<1>8. /\ \A i \in 1 .. Len(t) : t[i] # h
      /\ \A i, j \in 1 .. Len(t) : t[i] = t[j] => i = j
  <2>1. \A i \in 1 .. Len(t) : i = 1 \/ (i - 1 \in 1 .. Len(s) /\ t[i] = s[i - 1])
    BY <1>4
  <2>2. \A k \in 1 .. Len(s) : s[k] # h /\ s[k] # e
    BY DEF IsChain
  <2>3. \A k, l \in 1 .. Len(s) : s[k] = s[l] => k = l
    BY DEF IsChain
  <2>4. ASSUME NEW i \in 1 .. Len(t) PROVE t[i] # h
    BY <1>4, <2>1, <2>2
  <2>5. ASSUME NEW i \in 1 .. Len(t), NEW j \in 1 .. Len(t), t[i] = t[j] PROVE i = j
    <3>1. CASE i = 1 \/ j = 1
      BY <3>1, <2>5, <1>4, <2>1, <2>2
    <3>2. CASE i # 1 /\ j # 1
      BY <3>2, <2>5, <1>4, <2>1, <2>3
    <3> QED
      BY <3>1, <3>2
  <2> QED
    BY <2>4, <2>5
<1>9. QED
  BY <1>3, <1>7, <1>8 DEF IsChain, n, t

--------------------------------------------------------------------------------
(* RemoveEntryList, and the two calls that remove the entry at an end.     *)
LEMMA RemoveEntryFields ==
  ASSUME NEW A, NEW m \in Mem(A), NEW e \in A
  PROVE  LET n == RemoveEntryList(m, e) IN
         /\ n \in Mem(A)
         /\ \A x \in A :
              /\ n.Flink[x] = IF x = m.Blink[e] THEN m.Flink[e] ELSE m.Flink[x]
              /\ n.Blink[x] = IF x = m.Flink[e] THEN m.Blink[e] ELSE m.Blink[x]
BY DEF RemoveEntryList, SetFlink, SetBlink, Mem

(* Length and entries of a list that lost its i-th entry.                  *)
LEMMA WithoutProperties ==
  ASSUME NEW A, NEW s \in Seq(A), NEW i \in 1 .. Len(s)
  PROVE  /\ Without(s, i) \in Seq(A)
         /\ Len(Without(s, i)) = Len(s) - 1
         /\ \A j \in 1 .. Len(s) - 1 : Without(s, i)[j] = s[IF j < i THEN j ELSE j + 1]
<1> DEFINE a == SubSeq(s, 1, i - 1)
           b == SubSeq(s, i + 1, Len(s))
<1>1. a \in Seq(A) /\ Len(a) = i - 1 /\ \A j \in 1 .. i - 1 : a[j] = s[j]
  BY SubSeqProperties
<1>2. b \in Seq(A) /\ Len(b) = Len(s) - i /\ \A j \in 1 .. Len(s) - i : b[j] = s[j + i]
  BY SubSeqProperties
<1> HIDE DEF a, b
<1>3. /\ a \o b \in Seq(A) /\ Len(a \o b) = Len(s) - 1
      /\ \A j \in 1 .. Len(s) - 1 : (a \o b)[j] = IF j <= i - 1 THEN a[j] ELSE b[j - (i - 1)]
  <2>1. Len(a) + Len(b) = Len(s) - 1
    BY <1>1, <1>2
  <2>2. /\ a \o b \in Seq(A) /\ Len(a \o b) = Len(a) + Len(b)
        /\ \A j \in 1 .. Len(a) + Len(b) : (a \o b)[j] = IF j <= Len(a) THEN a[j] ELSE b[j - Len(a)]
    BY <1>1, <1>2, ConcatProperties, Zenon
  <2> QED
    BY <2>1, <2>2, <1>1
<1>4. \A j \in 1 .. Len(s) - 1 : (a \o b)[j] = s[IF j < i THEN j ELSE j + 1]
  BY <1>1, <1>2, <1>3
<1> QED
  BY <1>3, <1>4 DEF Without, a, b

(* RemoveEntryList takes the i-th entry out of the list it is on and keeps *)
(* the order of the others.                                                *)
LEMMA RemoveEntryChain ==
  ASSUME NEW A, NEW m \in Mem(A), NEW h \in A, NEW s \in Seq(A), IsChain(m, h, s),
         NEW i \in 1 .. Len(s)
  PROVE  /\ RemoveEntryList(m, s[i]) \in Mem(A)
         /\ IsChain(RemoveEntryList(m, s[i]), h, Without(s, i))
<1> DEFINE n == RemoveEntryList(m, s[i])
           t == Without(s, i)
<1>1. s[i] \in A /\ m.Blink[s[i]] = At(h, s, i - 1) /\ m.Flink[s[i]] = At(h, s, i + 1)
  <2>1. /\ i \in 0 .. Len(s) /\ i - 1 \in 0 .. Len(s) /\ (i - 1) + 1 = i
        /\ At(h, s, i) = s[i] /\ s[i] \in A
    BY DEF At
  <2>2. m.Flink[At(h, s, i)] = At(h, s, i + 1)
    BY <2>1 DEF IsChain
  <2>3. m.Blink[At(h, s, (i - 1) + 1)] = At(h, s, i - 1)
    BY <2>1 DEF IsChain
  <2> QED
    BY <2>1, <2>2, <2>3
<1>2a. PICK e \in A : e = s[i]
  BY <1>1
<1>2b. /\ RemoveEntryList(m, e) \in Mem(A)
       /\ \A x \in A :
              /\ RemoveEntryList(m, e).Flink[x] = IF x = m.Blink[e] THEN m.Flink[e] ELSE m.Flink[x]
              /\ RemoveEntryList(m, e).Blink[x] = IF x = m.Flink[e] THEN m.Blink[e] ELSE m.Blink[x]
  BY RemoveEntryFields
<1>2. /\ n \in Mem(A)
      /\ \A x \in A :
              /\ n.Flink[x] = IF x = At(h, s, i - 1) THEN At(h, s, i + 1) ELSE m.Flink[x]
              /\ n.Blink[x] = IF x = At(h, s, i + 1) THEN At(h, s, i - 1) ELSE m.Blink[x]
  BY <1>1, <1>2a, <1>2b, Zenon
<1>3. /\ t \in Seq(A) /\ Len(t) = Len(s) - 1
      /\ \A j \in 1 .. Len(s) - 1 : t[j] = s[IF j < i THEN j ELSE j + 1]
  BY WithoutProperties
<1> HIDE DEF n, t
<1>4. \A j \in 0 .. Len(s) : At(h, t, j) = At(h, s, IF j < i THEN j ELSE j + 1)
  BY <1>3 DEF At
<1>5. \A j \in 0 .. Len(s) + 1 : At(h, s, j) \in A
  BY DEF At
<1>6. \A j, k \in 0 .. Len(s) : At(h, s, j) = At(h, s, k) => j = k
  BY DEF At, IsChain
<1>7. \A j, k \in 1 .. Len(s) + 1 : At(h, s, j) = At(h, s, k) => j = k
  BY DEF At, IsChain
<1>8. ASSUME NEW j \in 0 .. Len(t)
      PROVE  n.Flink[At(h, t, j)] = At(h, t, j + 1) /\ n.Blink[At(h, t, j + 1)] = At(h, t, j)
  <2>1. CASE j = i - 1
    <3>1. At(h, t, j) = At(h, s, i - 1) /\ At(h, t, j + 1) = At(h, s, i + 1)
      BY <2>1, <1>3, <1>4
    <3> QED
      BY <3>1, <1>2, <1>5
  <2>2. CASE j < i - 1
    <3>1. At(h, t, j) = At(h, s, j) /\ At(h, t, j + 1) = At(h, s, j + 1)
      BY <2>2, <1>3, <1>4
    <3>2. At(h, s, j) # At(h, s, i - 1) /\ At(h, s, j + 1) # At(h, s, i + 1)
      BY <2>2, <1>3, <1>6, <1>7, SMTT(30)
    <3>3. m.Flink[At(h, s, j)] = At(h, s, j + 1) /\ m.Blink[At(h, s, j + 1)] = At(h, s, j)
      BY <1>3 DEF IsChain
    <3> QED
      BY <3>1, <3>2, <3>3, <1>2, <1>3, <1>5
  <2>3. CASE j > i - 1
    <3> DEFINE k == j + 1
    <3>1. k \in 0 .. Len(s) /\ k > i
      BY <2>3, <1>3
    <3>2. At(h, t, j) = At(h, s, k) /\ At(h, t, j + 1) = At(h, s, k + 1)
      BY <2>3, <1>3, <1>4
    <3> HIDE DEF k
    <3>3. At(h, s, k) # At(h, s, i - 1) /\ At(h, s, k + 1) # At(h, s, i + 1)
      BY <3>1, <1>6, <1>7
    <3>4. m.Flink[At(h, s, k)] = At(h, s, k + 1) /\ m.Blink[At(h, s, k + 1)] = At(h, s, k)
      BY <3>1 DEF IsChain
    <3> QED
      BY <3>1, <3>2, <3>3, <3>4, <1>2, <1>5
  <2> QED
    BY <2>1, <2>2, <2>3
<1>9. /\ \A j \in 1 .. Len(t) : t[j] # h
      /\ \A j, k \in 1 .. Len(t) : t[j] = t[k] => j = k
  <2> DEFINE at(j) == IF j < i THEN j ELSE j + 1
  <2>1. \A j \in 1 .. Len(t) : at(j) \in 1 .. Len(s) /\ t[j] = s[at(j)]
    BY <1>3
  <2>2. \A j, k \in 1 .. Len(t) : at(j) = at(k) => j = k
    BY <1>3
  <2>3. (\A k \in 1 .. Len(s) : s[k] # h) /\ (\A k, l \in 1 .. Len(s) : s[k] = s[l] => k = l)
    BY DEF IsChain
  <2> HIDE DEF at
  <2> QED
    BY <2>1, <2>2, <2>3, ZenonT(40)
<1> QED
  BY <1>2, <1>8, <1>9 DEF IsChain, n, t

(* RemoveHeadList on a list that is not empty is RemoveEntryList of its    *)
(* first entry.                                                            *)
LEMMA RemoveHeadIsRemoveEntry ==
  ASSUME NEW A, NEW m \in Mem(A), NEW h \in A, NEW s \in Seq(A), IsChain(m, h, s), s # <<>>
  PROVE  RemoveHeadList(m, h) = RemoveEntryList(m, s[1]) /\ Tail(s) = Without(s, 1)
<1>1. m.Flink[h] = s[1] /\ m.Blink[s[1]] = h
  BY DEF IsChain, At
<1>2. RemoveHeadList(m, h) = RemoveEntryList(m, s[1])
  BY <1>1 DEF RemoveHeadList, RemoveEntryList
<1>3. Tail(s) \in Seq(A) /\ Len(Tail(s)) = Len(s) - 1 /\ \A j \in 1 .. Len(s) - 1 : Tail(s)[j] = s[j + 1]
  BY HeadTailProperties
<1>4. 1 \in 1 .. Len(s)
  OBVIOUS
<1>5. /\ Without(s, 1) \in Seq(A)
      /\ Len(Without(s, 1)) = Len(s) - 1
      /\ \A j \in 1 .. Len(s) - 1 : Without(s, 1)[j] = s[j + 1]
  BY <1>4, WithoutProperties
<1> QED
  BY <1>2, <1>3, <1>5, SeqEqual

(* RemoveTailList on a list that is not empty is RemoveEntryList of its    *)
(* last entry.                                                             *)
LEMMA RemoveTailIsRemoveEntry ==
  ASSUME NEW A, NEW m \in Mem(A), NEW h \in A, NEW s \in Seq(A), IsChain(m, h, s), s # <<>>
  PROVE  /\ RemoveTailList(m, h) = RemoveEntryList(m, s[Len(s)])
         /\ SubSeq(s, 1, Len(s) - 1) = Without(s, Len(s))
<1> DEFINE l == s[Len(s)]
           f == [m EXCEPT !.Flink[m.Blink[l]] = h]
<1>1. m.Blink[h] = l /\ m.Flink[l] = h
  BY DEF IsChain, At
<1>2. RemoveTailList(m, h) = RemoveEntryList(m, l)
  BY <1>1 DEF RemoveTailList, RemoveEntryList, SetFlink, SetBlink, Mem
<1>3. SubSeq(s, 1, Len(s) - 1) = Without(s, Len(s))
  BY DEF Without
<1> QED
  BY <1>2, <1>3

--------------------------------------------------------------------------------
(* The list of l is appended to that of h and l emptied: RemoveEntryList   *)
(* takes the head out, AppendTailList splices, InitializeListHead.         *)
Spliced(m, h, l) ==
  InitializeListHead(AppendTailList(RemoveEntryList(m, l), h, m.Flink[l]), l)

(* The fields that RemoveEntryList, AppendTailList and InitializeListHead  *)
(* leave together, when a list l is appended to a list h.                  *)
LEMMA SplicedFields ==
  ASSUME NEW A, NEW m \in Mem(A), NEW h \in A, NEW l \in A, h # l,
         m.Flink[l] # l, m.Blink[l] # l, m.Flink[l] # h, m.Blink[l] # h,
         m.Blink[h] # m.Blink[l], m.Blink[h] # l, m.Blink[m.Flink[l]] = l
  PROVE  /\ Spliced(m, h, l) \in Mem(A)
         /\ \A x \in A :
              /\ Spliced(m, h, l).Flink[x] =
                   IF x = l THEN l ELSE IF x = m.Blink[l] THEN h
                   ELSE IF x = m.Blink[h] THEN m.Flink[l] ELSE m.Flink[x]
              /\ Spliced(m, h, l).Blink[x] =
                   IF x = l THEN l ELSE IF x = m.Flink[l] THEN m.Blink[h]
                   ELSE IF x = h THEN m.Blink[l] ELSE m.Blink[x]
<1> DEFINE f == m.Flink[l]
           b == m.Blink[l]
           hb == m.Blink[h]
           n == RemoveEntryList(m, l)
           k == AppendTailList(n, h, f)
<1>1. f \in A /\ b \in A /\ hb \in A
  BY DEF Mem
<1>2. /\ n \in Mem(A)
      /\ \A x \in A : /\ n.Flink[x] = IF x = b THEN f ELSE m.Flink[x]
                      /\ n.Blink[x] = IF x = f THEN b ELSE m.Blink[x]
  BY RemoveEntryFields
<1>3. n.Blink[h] = hb /\ n.Blink[f] = b
  BY <1>1, <1>2
<1> HIDE DEF n
<1>4. /\ k \in Mem(A)
      /\ \A x \in A : /\ k.Flink[x] = IF x = b THEN h ELSE IF x = hb THEN f ELSE n.Flink[x]
                      /\ k.Blink[x] = IF x = f THEN hb ELSE IF x = h THEN b ELSE n.Blink[x]
  <2> DEFINE m1 == SetFlink(n, hb, f)
             m2 == SetBlink(m1, h, b)
             m3 == SetFlink(m2, b, h)
             m4 == SetBlink(m3, f, hb)
  <2> HIDE DEF f, b, hb
  <2>1. /\ m4 \in Mem(A)
        /\ \A x \in A : /\ m4.Flink[x] = IF x = b THEN h ELSE IF x = hb THEN f ELSE n.Flink[x]
                        /\ m4.Blink[x] = IF x = f THEN hb ELSE IF x = h THEN b ELSE n.Blink[x]
    BY <1>1, <1>2 DEF SetFlink, SetBlink, Mem
  <2>2. m1.Blink[f] = b
    BY <1>1, <1>2, <1>3 DEF SetFlink, Mem
  <2>3. m2.Blink[f] = b
    BY <1>1, <1>2, <1>3, f # h DEF SetFlink, SetBlink, Mem, f
  <2>4. k = m4
    BY <1>3, <2>2, <2>3 DEF AppendTailList
  <2> QED
    BY <2>1, <2>4
<1> HIDE DEF k, f, b, hb
<1>5. /\ InitializeListHead(k, l) \in Mem(A)
      /\ \A x \in A : /\ InitializeListHead(k, l).Flink[x] = IF x = l THEN l ELSE k.Flink[x]
                      /\ InitializeListHead(k, l).Blink[x] = IF x = l THEN l ELSE k.Blink[x]
  BY <1>4 DEF InitializeListHead, SetFlink, SetBlink, Mem
<1>6. Spliced(m, h, l) = InitializeListHead(k, l)
  BY DEF Spliced, k, n, f
<1>7. \A x \in A : /\ Spliced(m, h, l).Flink[x] = IF x = l THEN l ELSE IF x = b THEN h ELSE IF x = hb THEN f ELSE m.Flink[x]
                  /\ Spliced(m, h, l).Blink[x] = IF x = l THEN l ELSE IF x = f THEN hb ELSE IF x = h THEN b ELSE m.Blink[x]
  BY <1>2, <1>4, <1>5, <1>6
<1> QED
  BY <1>5, <1>6, <1>7, Zenon DEF f, b, hb

(* AppendTailList of a list l that is not empty, with its head taken out   *)
(* before: h heads its own entries followed by those of l, and l is empty. *)
LEMMA SplicedChain ==
  ASSUME NEW A, NEW m \in Mem(A), NEW h \in A, NEW l \in A, h # l,
         NEW s \in Seq(A), NEW u \in Seq(A), IsChain(m, h, s), IsChain(m, l, u), u # <<>>,
         \A i \in 1 .. Len(s) : s[i] # l, \A j \in 1 .. Len(u) : u[j] # h,
         \A i \in 1 .. Len(s), j \in 1 .. Len(u) : s[i] # u[j]
  PROVE  /\ Spliced(m, h, l) \in Mem(A)
         /\ IsChain(Spliced(m, h, l), h, s \o u)
         /\ IsChain(Spliced(m, h, l), l, <<>>)
<1> DEFINE n == Spliced(m, h, l)
           t == s \o u
           a == At(h, s, Len(s))
<1>1. Len(u) \in Nat \ {0} /\ Len(s) \in Nat
  OBVIOUS
<1>2. /\ m.Flink[l] = u[1] /\ m.Blink[l] = u[Len(u)] /\ m.Blink[h] = a
      /\ m.Blink[u[1]] = l
  BY <1>1 DEF IsChain, At
<1>3. a # l /\ a # u[1] /\ a # u[Len(u)] /\ a \in A /\ u[1] \in A /\ u[Len(u)] \in A
  BY <1>1 DEF At
<1>4. u[1] # l /\ u[1] # h /\ u[Len(u)] # l /\ u[Len(u)] # h
  BY <1>1 DEF IsChain
<1>5. /\ n \in Mem(A)
      /\ \A x \in A :
           /\ n.Flink[x] = IF x = l THEN l ELSE IF x = u[Len(u)] THEN h
                           ELSE IF x = a THEN u[1] ELSE m.Flink[x]
           /\ n.Blink[x] = IF x = l THEN l ELSE IF x = u[1] THEN a
                           ELSE IF x = h THEN u[Len(u)] ELSE m.Blink[x]
  <2>1. /\ m.Flink[l] # l /\ m.Blink[l] # l /\ m.Flink[l] # h /\ m.Blink[l] # h
        /\ m.Blink[h] # m.Blink[l] /\ m.Blink[h] # l /\ m.Blink[m.Flink[l]] = l
    BY <1>2, <1>3, <1>4
  <2>2. /\ n \in Mem(A)
        /\ \A x \in A :
             /\ n.Flink[x] = IF x = l THEN l ELSE IF x = m.Blink[l] THEN h
                             ELSE IF x = m.Blink[h] THEN m.Flink[l] ELSE m.Flink[x]
             /\ n.Blink[x] = IF x = l THEN l ELSE IF x = m.Flink[l] THEN m.Blink[h]
                             ELSE IF x = h THEN m.Blink[l] ELSE m.Blink[x]
    BY <2>1, SplicedFields
  <2> HIDE DEF n, a
  <2> QED
    BY <1>2, <2>2, Zenon
<1>6. /\ Len(t) = Len(s) + Len(u)
      /\ \A i \in 1 .. Len(s) : t[i] = s[i]
      /\ \A j \in 1 .. Len(u) : t[Len(s) + j] = u[j]
  BY <1>1
<1> HIDE DEF n, t
<1>7. \A i \in 0 .. Len(s) : At(h, t, i) = At(h, s, i) /\ At(h, s, i) \in A
  BY <1>1, <1>6 DEF At
<1>8. \A j \in 1 .. Len(u) : At(h, t, Len(s) + j) = u[j] /\ u[j] \in A
  BY <1>1, <1>6 DEF At
<1>9. At(h, t, Len(s) + Len(u) + 1) = h
  BY <1>1, <1>6 DEF At
<1>10. ASSUME NEW i \in 0 .. Len(t)
       PROVE  n.Flink[At(h, t, i)] = At(h, t, i + 1) /\ n.Blink[At(h, t, i + 1)] = At(h, t, i)
  <2>1. CASE i < Len(s)
    <3>1. m.Flink[At(h, s, i)] = At(h, s, i + 1) /\ m.Blink[At(h, s, i + 1)] = At(h, s, i)
      BY <2>1, <1>1, <1>6 DEF IsChain
    <3>2. At(h, s, i) # l /\ At(h, s, i) # u[Len(u)] /\ At(h, s, i) # a
      BY <2>1, <1>1, <1>4, <1>6 DEF IsChain, At
    <3>3. At(h, s, i + 1) # l /\ At(h, s, i + 1) # u[1] /\ At(h, s, i + 1) # h
      BY <2>1, <1>1, <1>4, <1>6 DEF IsChain, At
    <3>4. At(h, t, i) = At(h, s, i) /\ At(h, t, i + 1) = At(h, s, i + 1)
          /\ At(h, s, i) \in A /\ At(h, s, i + 1) \in A
      BY <2>1, <1>1, <1>6, <1>7
    <3> HIDE DEF a
    <3> QED
      BY <3>1, <3>2, <3>3, <3>4, <1>5, Zenon
  <2>2. CASE i = Len(s)
    <3>1. At(h, t, i) = a /\ At(h, t, i + 1) = u[1]
      BY <2>2, <1>1, <1>7, <1>8
    <3> HIDE DEF a
    <3> QED
      BY <3>1, <1>3, <1>4, <1>5, Zenon
  <2>3. CASE i > Len(s) /\ i < Len(s) + Len(u)
    <3> DEFINE j == i - Len(s)
    <3>1. j \in 1 .. Len(u) - 1 /\ j + 1 \in 2 .. Len(u) /\ i = Len(s) + j
      BY <2>3, <1>1, <1>6
    <3> HIDE DEF j
    <3>2. At(h, t, i) = u[j] /\ At(h, t, i + 1) = u[j + 1] /\ u[j] \in A /\ u[j + 1] \in A
      BY <3>1, <1>1, <1>8
    <3>3. m.Flink[u[j]] = u[j + 1] /\ m.Blink[u[j + 1]] = u[j]
      <4>1. j \in 0 .. Len(u) /\ At(l, u, j) = u[j] /\ At(l, u, j + 1) = u[j + 1]
        BY <3>1, <1>1 DEF At
      <4> QED
        BY <4>1 DEF IsChain
    <3>4. u[j] # l /\ u[j] # u[Len(u)] /\ u[j] # a
      BY <3>1, <1>1 DEF IsChain, At
    <3>5. u[j + 1] # l /\ u[j + 1] # u[1] /\ u[j + 1] # h
      BY <3>1, <1>1 DEF IsChain
    <3> HIDE DEF a
    <3> QED
      BY <3>2, <3>3, <3>4, <3>5, <1>5, Zenon
  <2>4. CASE i = Len(s) + Len(u)
    <3>1. At(h, t, i) = u[Len(u)] /\ At(h, t, i + 1) = h
      BY <2>4, <1>1, <1>8, <1>9
    <3>2. h # u[1]
      BY <1>4
    <3> HIDE DEF a
    <3> QED
      BY <3>1, <3>2, <1>3, <1>4, <1>5, Zenon
  <2> QED
    BY <2>1, <2>2, <2>3, <2>4, <1>1, <1>6
<1>11. \A i \in 1 .. Len(t) :
         \/ i \in 1 .. Len(s) /\ t[i] = s[i]
         \/ i - Len(s) \in 1 .. Len(u) /\ t[i] = u[i - Len(s)]
  BY <1>1, <1>6
<1>12. ASSUME NEW i \in 1 .. Len(t)
       PROVE  t[i] # h
  <2>1. \A j \in 1 .. Len(s) : s[j] # h
    BY DEF IsChain
  <2> QED
    BY <1>11, <2>1, Zenon
<1>13. ASSUME NEW i \in 1 .. Len(t), NEW j \in 1 .. Len(t), t[i] = t[j]
       PROVE  i = j
  <2>1. \A x, y \in 1 .. Len(s) : s[x] = s[y] => x = y
    BY DEF IsChain
  <2>2. \A x, y \in 1 .. Len(u) : u[x] = u[y] => x = y
    BY DEF IsChain
  <2>3. CASE i \in 1 .. Len(s) /\ t[i] = s[i]
    BY <2>3, <2>1, <1>13, <1>11
  <2>4. CASE i - Len(s) \in 1 .. Len(u) /\ t[i] = u[i - Len(s)]
    <3>1. CASE j \in 1 .. Len(s) /\ t[j] = s[j]
      BY <2>4, <3>1, <1>13
    <3>2. CASE j - Len(s) \in 1 .. Len(u) /\ t[j] = u[j - Len(s)]
      <4>1. i - Len(s) = j - Len(s)
        BY <2>4, <3>2, <2>2, <1>13, Zenon
      <4> QED
        BY <4>1, <1>1
    <3> QED
      BY <3>1, <3>2, <1>11
  <2> QED
    BY <2>3, <2>4, <1>11
<1>14. IsChain(n, h, t)
  BY <1>10, <1>12, <1>13 DEF IsChain
<1>15. IsChain(n, l, <<>>)
  BY <1>5 DEF IsChain, At
<1> QED
  BY <1>5, <1>14, <1>15 DEF n, t

--------------------------------------------------------------------------------
(* What a chain says about its ends and about the neighbours of an entry.  *)
LEMMA ChainResults ==
  ASSUME NEW A, NEW m \in Mem(A), NEW h \in A, NEW s \in Seq(A), IsChain(m, h, s)
  PROVE  /\ IsListEmpty(m, h) <=> s = <<>>
         /\ s # <<>> => m.Flink[h] = s[1] /\ m.Blink[h] = s[Len(s)]
         /\ \A i \in 1 .. Len(s) : RemoveEntryListResult(m, s[i]) <=> Len(s) = 1
<1>1. s # <<>> => m.Flink[h] = s[1] /\ m.Blink[h] = s[Len(s)] /\ s[1] # h
  BY SMTT(30) DEF IsChain, At
<1>2. s = <<>> => m.Flink[h] = h
  BY DEF IsChain, At
<1>3. ASSUME NEW i \in 1 .. Len(s)
      PROVE  RemoveEntryListResult(m, s[i]) <=> Len(s) = 1
  <2>1. m.Flink[s[i]] = At(h, s, i + 1) /\ m.Blink[s[i]] = At(h, s, i - 1)
    BY DEF IsChain, At
  <2>2. CASE i = 1
    <3>1. At(h, s, i - 1) = h /\ (Len(s) = 1 => At(h, s, i + 1) = h)
          /\ (Len(s) # 1 => At(h, s, i + 1) = s[2] /\ 2 \in 1 .. Len(s))
      BY <2>2, Len(s) \in Nat, SMTT(30) DEF At
    <3> QED
      BY <2>1, <3>1 DEF IsChain, RemoveEntryListResult
  <2>3. CASE i # 1
    <3>0. Len(s) \in Nat /\ i \in Nat /\ i > 1 /\ i <= Len(s)
      BY <2>3
    <3>4. i - 1 \in 1 .. Len(s) /\ Len(s) # 1
      <4>1. \A a, b \in Nat : a > 1 /\ a <= b => a - 1 \in 1 .. b /\ b # 1
        OBVIOUS
      <4> QED
        BY <3>0, <4>1
    <3>1. i - 1 \in 1 .. Len(s) /\ At(h, s, i - 1) = s[i - 1] /\ Len(s) # 1
      BY <3>4, Zenon DEF At
    <3>2. At(h, s, i + 1) = h \/ (i + 1 \in 1 .. Len(s) /\ At(h, s, i + 1) = s[i + 1])
      BY DEF At
    <3>3. At(h, s, i + 1) # s[i - 1]
      BY <3>1, <3>2 DEF IsChain
    <3> QED
      BY <2>1, <3>1, <3>3 DEF RemoveEntryListResult
  <2> QED
    BY <2>2, <2>3
<1> QED
  BY <1>1, <1>2, <1>3 DEF IsListEmpty

--------------------------------------------------------------------------------
(* The calls leave every other list alone.  Address x belongs neither to   *)
(* the list of h nor is it the entry e.                                    *)
Outside(x, h, s) == x # h /\ \A i \in 1 .. Len(s) : x # s[i]
Apart(h, s, g, u) == Outside(g, h, s) /\ \A j \in 1 .. Len(u) : Outside(u[j], h, s)

(* An address outside of a list is not named by a field of that list.      *)
LEMMA ChainEnds ==
  ASSUME NEW A, NEW m \in Mem(A), NEW h \in A, NEW s \in Seq(A), IsChain(m, h, s),
         NEW x, Outside(x, h, s)
  PROVE  /\ x # m.Flink[h] /\ x # m.Blink[h]
         /\ \A i \in 1 .. Len(s) : x # m.Flink[s[i]] /\ x # m.Blink[s[i]]
<1>1. m.Flink[h] = At(h, s, 1) /\ m.Blink[h] = At(h, s, Len(s))
  BY DEF IsChain, At
<1>2. \A i \in 1 .. Len(s) : m.Flink[s[i]] = At(h, s, i + 1) /\ m.Blink[s[i]] = At(h, s, i - 1)
  BY DEF IsChain, At
<1>3. \A i : x # At(h, s, i)
  BY DEF At, Outside
<1> QED
  BY <1>1, <1>2, <1>3, Zenon

(* InsertTailList on the list h leaves every list apart from it as it is.  *)
LEMMA InsertTailApart ==
  ASSUME NEW A, NEW m \in Mem(A), NEW h \in A, NEW s \in Seq(A), IsChain(m, h, s),
         NEW e \in A, e # h, \A i \in 1 .. Len(s) : s[i] # e,
         NEW g \in A, NEW u \in Seq(A), IsChain(m, g, u), Apart(h, s, g, u),
         e # g, \A j \in 1 .. Len(u) : u[j] # e
  PROVE  IsChain(InsertTailList(m, h, e), g, u)
<1> DEFINE n == InsertTailList(m, h, e)
<1>0. Outside(e, h, s)
  BY DEF Outside
<1>1. e # m.Blink[h]
  BY <1>0, ChainEnds
<1>2. /\ n \in Mem(A)
      /\ \A x \in A :
              /\ n.Flink[x] = IF x = m.Blink[h] THEN e ELSE IF x = e THEN h ELSE m.Flink[x]
              /\ n.Blink[x] = IF x = h THEN e ELSE IF x = e THEN m.Blink[h] ELSE m.Blink[x]
  BY <1>1, InsertTailFields
<1> HIDE DEF n
<1>3. \A x \in A : Outside(x, h, s) /\ x # e => n.Flink[x] = m.Flink[x] /\ n.Blink[x] = m.Blink[x]
  BY <1>2, ChainEnds, SMTT(30) DEF Outside
<1>4. Agree(m, n, g, u)
  BY <1>3 DEF Agree, Apart
<1> QED
  BY <1>2, <1>4, UntouchedChain DEF n

(* InsertHeadList on the list h leaves every list apart from it as it is.  *)
LEMMA InsertHeadApart ==
  ASSUME NEW A, NEW m \in Mem(A), NEW h \in A, NEW s \in Seq(A), IsChain(m, h, s),
         NEW e \in A, e # h, \A i \in 1 .. Len(s) : s[i] # e,
         NEW g \in A, NEW u \in Seq(A), IsChain(m, g, u), Apart(h, s, g, u),
         e # g, \A j \in 1 .. Len(u) : u[j] # e
  PROVE  IsChain(InsertHeadList(m, h, e), g, u)
<1> DEFINE n == InsertHeadList(m, h, e)
<1>0. Outside(e, h, s)
  BY DEF Outside
<1>1. e # m.Flink[h]
  BY <1>0, ChainEnds
<1>2. /\ n \in Mem(A)
      /\ \A x \in A :
              /\ n.Flink[x] = IF x = h THEN e ELSE IF x = e THEN m.Flink[h] ELSE m.Flink[x]
              /\ n.Blink[x] = IF x = m.Flink[h] THEN e ELSE IF x = e THEN h ELSE m.Blink[x]
  BY <1>1, InsertHeadFields
<1> HIDE DEF n
<1>3. \A x \in A : Outside(x, h, s) /\ x # e => n.Flink[x] = m.Flink[x] /\ n.Blink[x] = m.Blink[x]
  BY <1>2, ChainEnds DEF Outside
<1>4. Agree(m, n, g, u)
  BY <1>3 DEF Agree, Apart
<1> QED
  BY <1>2, <1>4, UntouchedChain DEF n

(* RemoveEntryList of an entry of the list h leaves every list apart from  *)
(* it as it is.                                                            *)
LEMMA RemoveEntryApart ==
  ASSUME NEW A, NEW m \in Mem(A), NEW h \in A, NEW s \in Seq(A), IsChain(m, h, s),
         NEW i \in 1 .. Len(s),
         NEW g \in A, NEW u \in Seq(A), IsChain(m, g, u), Apart(h, s, g, u)
  PROVE  IsChain(RemoveEntryList(m, s[i]), g, u)
<1>1. PICK e \in A : e = s[i]
  OBVIOUS
<1> DEFINE n == RemoveEntryList(m, e)
<1>2. /\ n \in Mem(A)
      /\ \A x \in A :
              /\ n.Flink[x] = IF x = m.Blink[e] THEN m.Flink[e] ELSE m.Flink[x]
              /\ n.Blink[x] = IF x = m.Flink[e] THEN m.Blink[e] ELSE m.Blink[x]
  BY RemoveEntryFields
<1> HIDE DEF n
<1>3. \A x \in A : Outside(x, h, s) => n.Flink[x] = m.Flink[x] /\ n.Blink[x] = m.Blink[x]
  BY <1>1, <1>2, ChainEnds
<1>4. Agree(m, n, g, u)
  BY <1>3 DEF Agree, Apart
<1>5. IsChain(n, g, u)
  BY <1>2, <1>4, UntouchedChain
<1> QED
  BY <1>1, <1>5 DEF n

(* AppendTailList of the list l to the list h leaves every third list as   *)
(* it is.                                                                  *)
LEMMA SplicedApart ==
  ASSUME NEW A, NEW m \in Mem(A), NEW h \in A, NEW l \in A, h # l,
         NEW s \in Seq(A), NEW u \in Seq(A), IsChain(m, h, s), IsChain(m, l, u), u # <<>>,
         Apart(h, s, l, u),
         NEW g \in A, NEW v \in Seq(A), IsChain(m, g, v), Apart(h, s, g, v), Apart(l, u, g, v)
  PROVE  IsChain(Spliced(m, h, l), g, v)
<1> DEFINE n == Spliced(m, h, l)
<1>0. Len(u) \in Nat \ {0} /\ 1 \in 1 .. Len(u) /\ Len(u) \in 1 .. Len(u)
  OBVIOUS
<1>1. m.Flink[l] = u[1] /\ m.Blink[l] = u[Len(u)] /\ m.Blink[u[1]] = l
  BY <1>0 DEF IsChain, At
<1>2. u[1] # l /\ u[Len(u)] # l /\ u[1] # h /\ u[Len(u)] # h
  BY <1>0 DEF Apart, Outside, IsChain
<1>3a. Outside(l, h, s) /\ Outside(u[Len(u)], h, s)
  BY <1>0 DEF Apart
<1>3. m.Blink[h] # l /\ m.Blink[h] # u[Len(u)]
  BY <1>3a, ChainEnds
<1>4. /\ n \in Mem(A)
      /\ \A x \in A :
           /\ n.Flink[x] = IF x = l THEN l ELSE IF x = m.Blink[l] THEN h
                           ELSE IF x = m.Blink[h] THEN m.Flink[l] ELSE m.Flink[x]
           /\ n.Blink[x] = IF x = l THEN l ELSE IF x = m.Flink[l] THEN m.Blink[h]
                           ELSE IF x = h THEN m.Blink[l] ELSE m.Blink[x]
  BY <1>1, <1>2, <1>3, SplicedFields
<1> HIDE DEF n
<1>5. ASSUME NEW x \in A, Outside(x, h, s), Outside(x, l, u)
      PROVE  n.Flink[x] = m.Flink[x] /\ n.Blink[x] = m.Blink[x]
  <2>1. x # h /\ x # l
    BY <1>5 DEF Outside
  <2>2. x # m.Flink[l] /\ x # m.Blink[l] /\ x # m.Blink[h]
    BY <1>5, ChainEnds
  <2> QED
    BY <1>4, <2>1, <2>2
<1>6. Agree(m, n, g, v)
  BY <1>5 DEF Agree, Apart
<1> QED
  BY <1>4, <1>6, UntouchedChain DEF n
================================================================================
