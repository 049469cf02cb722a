-------------------------- MODULE CaptureHandleProofs --------------------------
(***************************************************************************)
(* Handles are sound from pcap_create to pcap_close and to the end of the  *)
(* program: for any number of handles, any options, kernels and devices,   *)
(* and any number of calls that fail.                                      *)
(***************************************************************************)
EXTENDS CaptureHandle, TLAPS

HandleSpec == HandleInit /\ [][HandleNext]_w

(* The fields of a state of the system and of a handle.                    *)
StateFields == {"sys", "hs", "dev", "open", "rings", "maps", "toclose", "looped", "faults", "stage"}
HandleFields ==
  {"st", "pc", "opt", "fd", "sock", "must", "mon", "oldmode", "mem", "ptr", "leaked", "twice", "cleanup",
   "cooked", "version", "frames", "frame_size", "broke", "montype", "wasup"}
Memory == {"source", "device", "mondevice", "oneshot", "buffer", "dlt_list", "fcode"}
SocketsOf(g) == {<<g, "packet">>, <<g, "cooked">>, <<g, "old">>}
Device(promisc, mode, up, mons) == [promisc |-> promisc, mode |-> mode, up |-> up, mons |-> mons]

DeviceTyped(d) == \E p, u \in BOOLEAN, m \in {"managed", "monitor"} : \E n : d = Device(p, m, u, n)
Listed(L) == L \in Seq(Handles) /\ \A i, j \in 1 .. Len(L) : L[i] = L[j] => i = j

Formed(s) ==
  /\ DOMAIN s = StateFields /\ DOMAIN s.hs = Handles
  /\ \A g \in Handles : DOMAIN s.hs[g] = HandleFields
Typed(s) ==
  /\ DeviceTyped(s.dev)
  /\ s.open \in SUBSET UNION {SocketsOf(g) : g \in Handles}
  /\ \A g \in Handles :
       /\ s.hs[g].st # "none" => {"any", "promisc", "rfmon", "buffer_size"} \in SUBSET DOMAIN s.hs[g].opt
       /\ s.hs[g].wasup \in BOOLEAN
  /\ Listed(s.toclose)

(* Activation, before the modes of the device are set and with a socket of *)
(* the handle's own.                                                       *)
Early == {"socket", "mac80211", "monup", "wext", "takedown", "setmode", "bringup"}
Between == {"arptype", "bind", "options"}
Late == {"mmap", "ring", "map", "plain", "flags", "mtu"}
Live(hd) == hd.st \in {"activating", "active"}
Doing(hd, pcs) == hd.st = "activating" /\ hd.pc \in pcs

(* The socket of the any device that is left open.                         *)
Leaves(hd) == hd.opt.any /\ hd.opt.rfmon

(* Every pointer but that of the oneshot buffer points to memory.          *)
Pointers(hd) ==
  ~hd.twice /\ hd.mem \in SUBSET Memory /\ hd.mem \in SUBSET hd.ptr /\ hd.ptr \in SUBSET (hd.mem \cup {"oneshot"})
MemoryOk(hd) ==
  /\ Pointers(hd)
  /\ "oneshot" \in hd.mem <=> Doing(hd, {"ring", "map"}) \/ (hd.st = "active" /\ hd.cleanup = "mmap")
  /\ hd.st \in {"none", "closed"} => hd.mem = {}
  /\ hd.st \in {"created", "failed"} => hd.mem = {"source"}
  /\ Live(hd) => "source" \in hd.mem /\ "device" \in hd.mem
  /\ hd.st = "active" => "buffer" \in hd.mem

(* The handle has to delete a monitor interface whose name is gone.        *)
Lost(hd) == "monif" \in hd.must /\ "mondevice" \notin hd.ptr

(* A handle in monitor mode asked for it, and has lost the name of its     *)
(* interface only if it could not be activated before.                     *)
ModesOk(hd) ==
  /\ hd.oldmode = "managed" 
  /\ hd.must # {} /\ hd.must # {"promisc"} => hd.opt.rfmon
  /\ hd.must \in SUBSET {"promisc", "monif", "rfmon"}
  /\ hd.st \in {"none", "created"} => hd.must = {} /\ ~hd.broke
  /\ hd.st = "failed" => hd.broke
  /\ Doing(hd, Early) => hd.must = {} \/ hd.broke
  /\ Doing(hd, Early \ {"socket"}) => hd.opt.rfmon
  /\ Doing(hd, {"monup"}) => "mondevice" \in hd.ptr
  /\ Live(hd) /\ Lost(hd) => hd.broke

(* own: the open sockets of the handle; rings: those with a ring.          *)
SocketsOk(hd, own, rings) ==
  /\ hd.st \in {"none", "created", "activating", "active", "failed", "closed"}
  /\ ~Live(hd) => hd.fd = None /\ (own = {} \/ (Leaves(hd) /\ hd.st \notin {"none", "created"}))
  /\ hd.st \in {"none", "created", "failed"} => hd.cleanup = "live"
  /\ hd.st = "active" =>
       /\ hd.fd # None /\ own = {hd.fd} /\ hd.cleanup \in {"linux", "mmap"} /\ ~Leaves(hd)
       /\ hd.cleanup = "mmap" => hd.fd \in rings /\ hd.frames > 0
  /\ hd.st = "activating" =>
       /\ hd.cleanup = "linux" /\ hd.pc \in Early \cup Between \cup Late \cup {"old"}
       /\ hd.pc \in {"socket", "old"} => hd.fd = None /\ (own = {} \/ Leaves(hd))
       /\ hd.pc \notin {"socket", "old"} => ~Leaves(hd)
       /\ hd.pc \in Early \ {"socket"} \/ hd.pc \in Between => hd.fd = None /\ own = {hd.sock}
       /\ hd.pc \in Late => hd.fd # None /\ own = {hd.fd}
       /\ hd.pc = "map" => hd.fd \in rings

(* A handle that has to undo something, and only such a handle, is on the  *)
(* list; onList: this one is.                                              *)
ListingOk(hd, onList, looped, g) ==
  /\ onList => looped = g \/ (Live(hd) /\ hd.must # {} /\ ~Doing(hd, Early))
  /\ looped = None /\ Live(hd) /\ ~hd.broke /\ hd.must # {} => onList

OwnedIn(s, g) == s.open \cap SocketsOf(g)
HandleOk(s, g) ==
  /\ MemoryOk(s.hs[g]) /\ ModesOk(s.hs[g]) /\ SocketsOk(s.hs[g], OwnedIn(s, g), s.rings)
  /\ ListingOk(s.hs[g], Contains(s.toclose, g), s.looped, g)
  /\ g \in s.maps <=> s.hs[g].st = "active" /\ s.hs[g].cleanup = "mmap"

(* Who has set a mode of the device will undo it, also at the end.         *)
Undoes(s, g, m) == Live(s.hs[g]) /\ m \in s.hs[g].must /\ (Contains(s.toclose, g) \/ s.looped # None)
SpoiledIn(s) == \E g \in Handles : s.hs[g].broke /\ s.hs[g].opt.rfmon
PromiscUndone(s) == s.dev.promisc => \E g \in Handles : Undoes(s, g, "promisc") /\ s.hs[g].fd # None
MonitorUndone(s) ==
  /\ s.dev.mode = "monitor" => \E g \in Handles : Doing(s.hs[g], {"bringup"}) \/ Undoes(s, g, "rfmon")
  /\ s.dev.up \/ \E g \in Handles : Doing(s.hs[g], {"setmode", "bringup"}) /\ s.hs[g].wasup
  /\ \A n \in s.dev.mons : \E g \in Handles :
       s.hs[g].mon = n /\ "mondevice" \in s.hs[g].ptr /\ (Doing(s.hs[g], {"monup"}) \/ Undoes(s, g, "monif"))
DeviceOk(s) == PromiscUndone(s) /\ (~SpoiledIn(s) => MonitorUndone(s))

(* After the end of the program.                                           *)
EndedClean(s) ==
  /\ s.open = {} /\ s.maps = {} /\ s.toclose = <<>>
  /\ \A g \in Handles : /\ ~s.hs[g].twice
                        /\ s.hs[g].st = "failed" => s.hs[g].mem = {"source"}
                        /\ s.hs[g].st = "closed" => s.hs[g].mem = {}
  /\ ~SpoiledIn(s) => s.dev = Device(FALSE, "managed", TRUE, {})
(* The invariant: what each handle has fits how far it has come, and what  *)
(* is set on the device has a handle that will undo it.                    *)
HandleInv(s) ==
  /\ Formed(s) /\ Typed(s) /\ s.stage \in {"running", "exiting", "ended", "crashed"}
  /\ s.looped \in Handles \cup {None}
  /\ s.stage = "crashed" => SpoiledIn(s)
  /\ s.stage \in {"exiting", "ended"} => s.looped = None /\ \A g \in Handles : s.hs[g].st # "activating"
  /\ s.stage # "ended" => DeviceOk(s) /\ \A g \in Handles : HandleOk(s, g)
  /\ s.stage = "ended" => EndedClean(s)

(* The least number of a set of one number.                                *)
LEMMA MinOfOne ==
  ASSUME NEW k \in Int, NEW S, S = {k}
  PROVE  Min(S) = k
BY DEF Min

(* A list without repetitions has a handle in one place.                   *)
LEMMA PlaceOf ==
  ASSUME NEW L, Listed(L), NEW i \in 1 .. Len(L), NEW g, L[i] = g
  PROVE  LET I == {j \in 1 .. Len(L) : L[j] = g} IN I # {} /\ Min(I) = i
<1>. DEFINE I == {j \in 1 .. Len(L) : L[j] = g}
<1>1. Len(L) \in Nat BY DEF Listed
<1>2. I = {i} BY <1>1 DEF Listed
<1>3. i \in Int BY <1>1
<1>4. Min(I) = i BY <1>2, <1>3, MinOfOne
<1>. QED BY <1>2, <1>4

(* pcap_add_to_pcaps_to_close, for a handle that is not on the list: it is *)
(* now, and the others are as they were.                                   *)
LEMMA ListAdded ==
  ASSUME NEW L, Listed(L), NEW g \in Handles, ~Contains(L, g), NEW M, M = <<g>> \o L
  PROVE  /\ Listed(M) /\ Contains(M, g)
         /\ \A e \in Handles : e # g => (Contains(M, e) <=> Contains(L, e))
<1>1. /\ L \in Seq(Handles) /\ Len(L) \in Nat /\ M \in Seq(Handles) /\ Len(M) = Len(L) + 1
      /\ M[1] = g /\ \A i \in 1 .. Len(L) : M[i + 1] = L[i]
  BY DEF Listed
<1>5. ASSUME NEW i \in 1 .. Len(M), i # 1 PROVE i - 1 \in 1 .. Len(L) /\ M[i] = L[i - 1]
  <2>1. i - 1 \in 1 .. Len(L) /\ (i - 1) + 1 = i BY <1>1, <1>5
  <2>. QED BY <2>1, <1>1
<1>2. ASSUME NEW i \in 1 .. Len(M), NEW j \in 1 .. Len(M), M[i] = M[j] PROVE i = j
  <2>1. CASE i = 1 /\ j # 1 BY <1>1, <1>2, <1>5, <2>1 DEF Contains
  <2>2. CASE j = 1 /\ i # 1 BY <1>1, <1>2, <1>5, <2>2 DEF Contains
  <2>3. CASE j # 1 /\ i # 1
    <3>1. i - 1 \in 1 .. Len(L) /\ j - 1 \in 1 .. Len(L) /\ L[i - 1] = L[j - 1] BY <1>5, <1>2, <2>3
    <3>2. i - 1 = j - 1 BY <3>1 DEF Listed
    <3>. QED BY <3>2, <1>1
  <2>. QED BY <2>1, <2>2, <2>3
<1>3. Contains(M, g) BY <1>1 DEF Contains
<1>4. ASSUME NEW e \in Handles, e # g PROVE Contains(M, e) <=> Contains(L, e)
  <2>1. ASSUME NEW i \in 1 .. Len(L), L[i] = e PROVE Contains(M, e)
    <3>1. i + 1 \in 1 .. Len(M) /\ M[i + 1] = e BY <1>1, <2>1
    <3>. QED BY <3>1 DEF Contains
  <2>2. ASSUME NEW i \in 1 .. Len(M), M[i] = e PROVE Contains(L, e)
    <3>1. i - 1 \in 1 .. Len(L) /\ L[i - 1] = e BY <1>1, <1>4, <1>5, <2>2
    <3>. QED BY <3>1 DEF Contains
  <2>. QED BY <2>1, <2>2 DEF Contains
<1>. QED BY <1>1, <1>2, <1>3, <1>4 DEF Listed

(* The same for a handle that is on it: what lay behind it can no longer   *)
(* be reached.                                                             *)
LEMMA ListLooped ==
  ASSUME NEW L, Listed(L), NEW g \in Handles, Contains(L, g),
         NEW M, M = <<g>> \o SubSeq(L, 1, SelectInSeq(L, LAMBDA x : x = g) - 1)
  PROVE  /\ Listed(M) /\ Contains(M, g)
         /\ \A e \in Handles : e # g => (Contains(M, e) => Contains(L, e))
<1>1. PICK k \in 1 .. Len(L) : L[k] = g BY DEF Contains
<1>2. SelectInSeq(L, LAMBDA x : x = g) = k BY <1>1, PlaceOf DEF SelectInSeq
<1>. DEFINE S == SubSeq(L, 1, k - 1)
<1>3. L \in Seq(Handles) /\ Len(L) \in Nat BY DEF Listed
<1>4. /\ S \in Seq(Handles) /\ Len(S) = k - 1 /\ \A i \in 1 .. Len(S) : S[i] = L[i] /\ i \in 1 .. Len(L)
  BY <1>3
<1>. HIDE DEF S
<1>5. ~Contains(S, g) BY <1>1, <1>3, <1>4 DEF Contains, Listed
<1>6. Listed(S) BY <1>3, <1>4 DEF Listed
<1>7. M = <<g>> \o S BY <1>2 DEF S
<1>8. \A e : Contains(S, e) => Contains(L, e) BY <1>4 DEF Contains
<1>9. /\ Listed(M) /\ Contains(M, g)
      /\ \A e \in Handles : e # g => (Contains(M, e) <=> Contains(S, e))
  BY <1>5, <1>6, <1>7, ListAdded
<1>. QED BY <1>8, <1>9

(* pcap_remove_from_pcaps_to_close: the handle is not on the list, the     *)
(* others are as they were.                                                *)
LEMMA ListRemoved ==
  ASSUME NEW L, Listed(L), NEW g \in Handles, Contains(L, g), NEW M, M = RemoveFirst(L, g)
  PROVE  Listed(M) /\ \A e \in Handles : Contains(M, e) <=> e # g /\ Contains(L, e)
<1>1. PICK k \in 1 .. Len(L) : L[k] = g BY DEF Contains
<1>2. SelectInSeq(L, LAMBDA x : x = g) = k BY <1>1, PlaceOf DEF SelectInSeq
<1>3. L \in Seq(Handles) /\ Len(L) \in Nat BY DEF Listed
<1>4. M = SubSeq(L, 1, k - 1) \o SubSeq(L, k + 1, Len(L)) BY <1>1, <1>2 DEF RemoveFirst, RemoveAt
<1>. DEFINE A == SubSeq(L, 1, k - 1)
            B == SubSeq(L, k + 1, Len(L))
<1>8. A \in Seq(Handles) /\ Len(A) = k - 1 /\ \A i \in 1 .. k - 1 : A[i] = L[i] BY <1>3
<1>9. /\ B \in Seq(Handles) /\ Len(B) = Len(L) - k /\ \A i \in 1 .. Len(L) - k : B[i] = L[k + i]
  BY <1>3
<1>. HIDE DEF A, B
<1>10. M = A \o B BY <1>4 DEF A, B
<1>5. /\ M \in Seq(Handles) /\ Len(M) = Len(L) - 1
      /\ \A i \in 1 .. Len(M) : M[i] = IF i < k THEN L[i] ELSE L[i + 1]
  <2>1. M \in Seq(Handles) /\ Len(M) = Len(L) - 1 BY <1>3, <1>8, <1>9, <1>10
  <2>2. ASSUME NEW i \in 1 .. Len(M) PROVE M[i] = IF i < k THEN L[i] ELSE L[i + 1]
    <3>1. M[i] = IF i <= k - 1 THEN A[i] ELSE B[i - (k - 1)] BY <1>3, <1>8, <1>9, <1>10, <2>1
    <3>2. CASE i < k BY <3>1, <3>2, <1>3, <1>8, <2>1
    <3>3. CASE ~(i < k)
      <4>1. i - (k - 1) \in 1 .. Len(L) - k /\ k + (i - (k - 1)) = i + 1 BY <3>3, <1>3, <2>1
      <4>. QED BY <4>1, <3>1, <3>3, <1>3, <1>9, <2>1
    <3>. QED BY <3>2, <3>3
  <2>. QED BY <2>1, <2>2
<1>6. ASSUME NEW e \in Handles PROVE Contains(M, e) <=> e # g /\ Contains(L, e)
  <2>1. ASSUME NEW i \in 1 .. Len(M), M[i] = e PROVE e # g /\ Contains(L, e)
    <3>1. CASE i < k BY <2>1, <3>1, <1>1, <1>3, <1>5 DEF Contains, Listed
    <3>2. CASE ~(i < k)
      <4>1. i + 1 \in 1 .. Len(L) /\ L[i + 1] = e /\ i + 1 # k BY <2>1, <3>2, <1>3, <1>5
      <4>. QED BY <4>1, <1>1, <1>3 DEF Contains, Listed
    <3>. QED BY <3>1, <3>2
  <2>2. ASSUME NEW i \in 1 .. Len(L), L[i] = e, e # g PROVE Contains(M, e)
    <3>1. CASE i < k BY <2>2, <3>1, <1>1, <1>3, <1>5 DEF Contains
    <3>2. CASE ~(i < k)
      <4>1. i - 1 \in 1 .. Len(M) /\ M[i - 1] = L[i] BY <2>2, <3>2, <1>1, <1>3, <1>5
      <4>. QED BY <4>1, <2>2 DEF Contains
    <3>. QED BY <3>1, <3>2
  <2>. QED BY <2>1, <2>2 DEF Contains
<1>7. ASSUME NEW i \in 1 .. Len(M), NEW j \in 1 .. Len(M), M[i] = M[j] PROVE i = j
  <2>. DEFINE at(x) == IF x < k THEN x ELSE x + 1
  <2>1. at(i) \in 1 .. Len(L) /\ at(j) \in 1 .. Len(L) /\ L[at(i)] = L[at(j)] BY <1>7, <1>3, <1>5
  <2>2. at(i) = at(j) BY <2>1 DEF Listed
  <2>. QED BY <2>2, <1>3, <1>5
<1>. QED BY <1>5, <1>6, <1>7 DEF Listed

(* Records that differ in some fields only, and states that differ in some *)
(* fields of one handle and some parts besides.                            *)
Same(a, b, F) == DOMAIN b = DOMAIN a /\ \A f \in DOMAIN a \ F : b[f] = a[f]
Differ(s, t, g, F, G) ==
  /\ Formed(t) /\ \A p \in StateFields \ (G \cup {"hs"}) : t[p] = s[p]
  /\ \A e \in Handles : e # g => t.hs[e] = s.hs[e]
  /\ \A f \in HandleFields \ F : t.hs[g][f] = s.hs[g][f]

(* Two steps of one handle change what one or the other changes.           *)
LEMMA DifferTwice ==
  ASSUME NEW s, NEW t, NEW u, NEW g \in Handles, NEW F, NEW G, NEW F2, NEW G2,
         Differ(s, t, g, F, G), Differ(t, u, g, F2, G2)
  PROVE  Differ(s, u, g, F \cup F2, G \cup G2)
BY DEF Differ

(* What each part of an operation changes: memory is allocated,            *)
LEMMA AllocDoes ==
  ASSUME NEW s, Formed(s), NEW g \in Handles, NEW x, NEW t, t = Alloc(s, g, x)
  PROVE  /\ Differ(s, t, g, {"mem", "ptr", "leaked"}, {})
         /\ t.hs[g].mem = s.hs[g].mem \cup {x} /\ t.hs[g].ptr = s.hs[g].ptr \cup {x}
         /\ x \notin s.hs[g].mem => t.hs[g].leaked = s.hs[g].leaked
         /\ t.hs[g].leaked \in SUBSET (s.hs[g].leaked \cup {<<x, s.hs[g].pc>>})
<1>. DEFINE lost == IF x \in s.hs[g].mem THEN {<<x, s.hs[g].pc>>} ELSE {}
            r == [s.hs[g] EXCEPT !.mem = @ \cup {x}, !.ptr = @ \cup {x}, !.leaked = @ \cup lost]
<1>1. t = [s EXCEPT !.hs[g] = r] BY DEF Alloc
<1>2. lost \in SUBSET {<<x, s.hs[g].pc>>} /\ (x \notin s.hs[g].mem => lost = {}) OBVIOUS
<1>. HIDE DEF lost
<1>3. DOMAIN s.hs[g] = HandleFields BY DEF Formed
<1>4. /\ Same(s.hs[g], r, {"mem", "ptr", "leaked"}) /\ r.mem = s.hs[g].mem \cup {x}
      /\ r.ptr = s.hs[g].ptr \cup {x} /\ r.leaked = s.hs[g].leaked \cup lost
  BY <1>3 DEF HandleFields, Same
<1>. HIDE DEF r
<1>5. Differ(s, t, g, {"mem", "ptr", "leaked"}, {}) /\ t.hs[g] = r
  BY <1>1, <1>3, <1>4 DEF Formed, HandleFields, StateFields, Differ, Same
<1>. QED BY <1>2, <1>4, <1>5

(* the activation goes on,                                                 *)
LEMMA GoDoes ==
  ASSUME NEW s, Formed(s), NEW g \in Handles, NEW pc, NEW t, t = Go(s, g, pc)
  PROVE  Differ(s, t, g, {"pc"}, {}) /\ t.hs[g].pc = pc
BY DEF Formed, Go, HandleFields, StateFields, Differ

(* a call fails,                                                           *)
LEMMA FailingDoes ==
  ASSUME NEW s, Formed(s), NEW g \in Handles, NEW t, t = Failing(s)
  PROVE  Differ(s, t, g, {}, {"faults"})
BY DEF Formed, Failing, HandleFields, StateFields, Differ

(* a socket is closed,                                                     *)
LEMMA CloseSocketDoes ==
  ASSUME NEW s, Formed(s), NEW g \in Handles, NEW sock, NEW t, t = CloseSocket(s, sock)
  PROVE  Differ(s, t, g, {}, {"open", "rings"}) /\ t.open = s.open \ {sock} /\ t.rings = s.rings \ {sock}
BY DEF Formed, CloseSocket, HandleFields, StateFields, Differ

(* a socket is opened,                                                     *)
LEMMA OpenSocketDoes ==
  ASSUME NEW s, Formed(s), NEW g \in Handles, NEW kind, NEW t, t = OpenSocket(s, g, kind)
  PROVE  /\ Differ(s, t, g, {"sock"}, {"open"})
         /\ t.open = s.open \cup {<<g, kind>>} /\ t.hs[g].sock = <<g, kind>>
BY DEF Formed, OpenSocket, HandleFields, StateFields, Differ

(* memory is freed and its pointer kept,                                   *)
LEMMA FreeOnlyDoes ==
  ASSUME NEW s, Formed(s), NEW g \in Handles, NEW x, ~s.hs[g].twice, x \in s.hs[g].mem,
         NEW t, t = FreeOnly(s, g, x)
  PROVE  /\ Differ(s, t, g, {"mem", "twice"}, {}) /\ ~t.hs[g].twice
         /\ t.hs[g].mem = s.hs[g].mem \ {x}
<1>1. /\ Differ(s, t, g, {"mem", "twice"}, {}) /\ t.hs[g].mem = s.hs[g].mem \ {x}
      /\ t.hs[g].twice = (s.hs[g].twice \/ x \notin s.hs[g].mem)
  BY DEF FreeOnly, Formed, HandleFields, StateFields, Differ
<1>2. ~t.hs[g].twice BY <1>1, Zenon
<1>. QED BY <1>1, <1>2

(* memory is freed and its pointer cleared, and nothing is freed twice,    *)
LEMMA FreeDoes ==
  ASSUME NEW s, Formed(s), NEW g \in Handles, NEW x, Pointers(s.hs[g]), x # "oneshot" \/ x \in s.hs[g].mem,
         NEW t, t = Free(s, g, x)
  PROVE  /\ Differ(s, t, g, {"mem", "ptr", "twice"}, {})
         /\ Pointers(t.hs[g]) /\ t.hs[g].mem = s.hs[g].mem \ {x} /\ t.hs[g].ptr = s.hs[g].ptr \ {x}
<1>1. CASE x \notin s.hs[g].ptr
  <2>1. t = s BY <1>1 DEF Free
  <2>2. s.hs[g].mem \ {x} = s.hs[g].mem /\ s.hs[g].ptr \ {x} = s.hs[g].ptr
    BY <1>1 DEF Pointers
  <2>. QED BY <2>1, <2>2 DEF Differ
<1>2. CASE x \in s.hs[g].ptr
  <2>. DEFINE u == FreeOnly(s, g, x)
  <2>1. x \in s.hs[g].mem /\ ~s.hs[g].twice BY <1>2 DEF Pointers
  <2>2. Differ(s, u, g, {"mem", "twice"}, {}) /\ ~u.hs[g].twice /\ u.hs[g].mem = s.hs[g].mem \ {x}
    BY <2>1, FreeOnlyDoes
  <2>3. t = [u EXCEPT !.hs[g].ptr = @ \ {x}] BY <1>2 DEF Free
  <2>. HIDE DEF u
  <2>4. Formed(u) /\ u.hs[g].ptr = s.hs[g].ptr BY <2>2 DEF Differ, HandleFields
  <2>5. Differ(u, t, g, {"ptr"}, {}) /\ t.hs[g].ptr = u.hs[g].ptr \ {x}
    BY <2>3, <2>4 DEF Formed, HandleFields, StateFields, Differ
  <2>6. t.hs[g].mem = u.hs[g].mem /\ t.hs[g].twice = u.hs[g].twice BY <2>5 DEF Differ, HandleFields
  <2>7. ~t.hs[g].twice BY <2>2, <2>6
  <2>8. Differ(s, t, g, {"mem", "ptr", "twice"}, {}) BY <2>2, <2>5, DifferTwice DEF Differ
  <2>. QED BY <2>2, <2>4, <2>5, <2>6, <2>7, <2>8 DEF Pointers
<1>. QED BY <1>1, <1>2

(* a handle is put on the list of handles to close,                        *)
LEMMA AddDoes ==
  ASSUME NEW s, Formed(s), Listed(s.toclose), NEW g \in Handles, NEW t, t = pcap_add_to_pcaps_to_close(s, g)
  PROVE  /\ Differ(s, t, g, {}, {"toclose", "looped"}) /\ Listed(t.toclose) /\ Contains(t.toclose, g)
         /\ \A e \in Handles : e # g => (Contains(t.toclose, e) => Contains(s.toclose, e))
         /\ Contains(s.toclose, g) => t.looped = g
         /\ ~Contains(s.toclose, g) =>
              t.looped = s.looped /\ \A e \in Handles : e # g => (Contains(t.toclose, e) <=> Contains(s.toclose, e))
<1>1. CASE Contains(s.toclose, g)
  <2>. DEFINE L == <<g>> \o SubSeq(s.toclose, 1, SelectInSeq(s.toclose, LAMBDA x : x = g) - 1)
  <2>1. Listed(L) /\ Contains(L, g) /\ \A e \in Handles : e # g => (Contains(L, e) => Contains(s.toclose, e))
    BY <1>1, ListLooped
  <2>2. t = [s EXCEPT !.toclose = L, !.looped = g] BY <1>1 DEF pcap_add_to_pcaps_to_close
  <2>. HIDE DEF L
  <2>3. Differ(s, t, g, {}, {"toclose", "looped"}) /\ t.toclose = L /\ t.looped = g
    BY <2>2 DEF Formed, HandleFields, StateFields, Differ
  <2>. QED BY <1>1, <2>1, <2>3
<1>2. CASE ~Contains(s.toclose, g)
  <2>1. t = [s EXCEPT !.toclose = <<g>> \o @] BY <1>2 DEF pcap_add_to_pcaps_to_close
  <2>2. /\ Differ(s, t, g, {}, {"toclose", "looped"}) /\ t.toclose = <<g>> \o s.toclose /\ t.looped = s.looped
    BY <2>1 DEF Formed, HandleFields, StateFields, Differ
  <2>. QED BY <1>2, <2>2, ListAdded
<1>. QED BY <1>1, <1>2

(* and is taken out of it, unless the list leads back to it.               *)
LEMMA RemoveDoes ==
  ASSUME NEW s, Formed(s), Listed(s.toclose), NEW g \in Handles, NEW t, t = pcap_remove_from_pcaps_to_close(s, g)
  PROVE  /\ Differ(s, t, g, {}, {"toclose"}) /\ Listed(t.toclose)
         /\ \A e \in Handles : e # g => (Contains(t.toclose, e) <=> Contains(s.toclose, e))
         /\ Contains(t.toclose, g) => s.looped = g
<1>1. CASE s.looped # g /\ Contains(s.toclose, g)
  <2>1. t = [s EXCEPT !.toclose = RemoveFirst(@, g)] BY <1>1 DEF pcap_remove_from_pcaps_to_close
  <2>2. Differ(s, t, g, {}, {"toclose"}) /\ t.toclose = RemoveFirst(s.toclose, g)
    BY <2>1 DEF Formed, HandleFields, StateFields, Differ
  <2>. QED BY <1>1, <2>2, ListRemoved
<1>2. CASE ~(s.looped # g /\ Contains(s.toclose, g))
  <2>1. t = s BY <1>2 DEF pcap_remove_from_pcaps_to_close
  <2>. QED BY <1>2, <2>1 DEF Differ
<1>. QED BY <1>1, <1>2

(* The device is put back as the handle has to, if it has a socket.        *)
Restored(d, e, hd) ==
  /\ DeviceTyped(e) /\ e.up = d.up
  /\ e.promisc => d.promisc /\ (hd.fd = None \/ "promisc" \notin hd.must)
  /\ e.mode = "monitor" => d.mode = "monitor" /\ (hd.fd = None \/ "rfmon" \notin hd.must \/ Lost(hd))
  /\ e.mons \in SUBSET d.mons
  /\ hd.fd # None /\ "monif" \in hd.must /\ "mondevice" \in hd.ptr => hd.mon \notin e.mons

(* The program ends when the handle has lost the name of its interface.    *)
StageAfter(s, hd) == IF Lost(hd) THEN "crashed" ELSE s.stage

(* RestoreDevice undoes what the handle has set, and nothing else.         *)
LEMMA RestoreDoes ==
  ASSUME NEW s, Formed(s), DeviceTyped(s.dev), NEW g \in Handles, s.hs[g].oldmode = "managed",
         NEW t, t = RestoreDevice(s, g)
  PROVE  /\ Differ(s, t, g, {}, {"dev", "stage"}) /\ Restored(s.dev, t.dev, s.hs[g])
         /\ t.stage = StageAfter(s, s.hs[g])
<1>1. PICK p \in BOOLEAN, u \in BOOLEAN, m \in {"managed", "monitor"} : \E n : s.dev = Device(p, m, u, n)
  BY DEF DeviceTyped
<1>2. PICK n : s.dev = Device(p, m, u, n) BY <1>1
<1>. DEFINE hd == s.hs[g]
            p2 == IF hd.fd # None /\ "promisc" \in hd.must THEN FALSE ELSE p
            n2 == IF hd.fd # None /\ "monif" \in hd.must /\ ~Lost(hd) THEN n \ {hd.mon} ELSE n
            m2 == IF hd.fd # None /\ "rfmon" \in hd.must /\ ~Lost(hd) THEN hd.oldmode ELSE m
            z == StageAfter(s, hd)
<1>3. s.dev.promisc = p /\ s.dev.mode = m /\ s.dev.up = u /\ s.dev.mons = n BY <1>2 DEF Device
<1>. DEFINE d2 == Device(p2, m2, u, n2)
<1>4. t = [s EXCEPT !.stage = z, !.dev = d2] BY <1>3, Zenon DEF RestoreDevice, Device, StageAfter, Lost
<1>5. p2 \in BOOLEAN /\ m2 \in {"managed", "monitor"} OBVIOUS
<1>6. (p2 => p /\ (hd.fd = None \/ "promisc" \notin hd.must)) OBVIOUS
<1>7. m2 = "monitor" => m = "monitor" /\ (hd.fd = None \/ "rfmon" \notin hd.must \/ Lost(hd)) OBVIOUS
<1>8. /\ n2 \in SUBSET n
      /\ hd.fd # None /\ "monif" \in hd.must /\ "mondevice" \in hd.ptr => hd.mon \notin n2
  BY DEF Lost
<1>13. z = StageAfter(s, hd) OBVIOUS
<1>. HIDE DEF p2, n2, m2, z
<1>11. d2 = Device(p2, m2, u, n2) OBVIOUS
<1>. HIDE DEF d2
<1>12. Differ(s, t, g, {}, {"dev", "stage"}) /\ t.dev = d2 /\ t.stage = z
  BY <1>4 DEF Formed, HandleFields, StateFields, Differ
<1>9. Differ(s, t, g, {}, {"dev", "stage"}) /\ t.dev = Device(p2, m2, u, n2) /\ t.stage = StageAfter(s, hd)
  BY <1>11, <1>12, <1>13
<1>10. t.dev.promisc = p2 /\ t.dev.mode = m2 /\ t.dev.up = u /\ t.dev.mons = n2 BY <1>9 DEF Device
<1>. QED BY <1>3, <1>5, <1>6, <1>7, <1>8, <1>9, <1>10 DEF Restored, DeviceTyped

(* pcap_cleanup_live_common frees the buffer, the list of link types and   *)
(* the filter, and closes the socket.                                      *)
LEMMA LiveCleanupDoes ==
  ASSUME NEW s, Formed(s), NEW g \in Handles, Pointers(s.hs[g]), NEW t, t = pcap_cleanup_live_common(s, g)
  PROVE  /\ Differ(s, t, g, {"mem", "ptr", "twice", "fd"}, {"open", "rings"})
         /\ Pointers(t.hs[g]) /\ t.hs[g].mem = s.hs[g].mem \ {"buffer", "dlt_list", "fcode"} /\ t.hs[g].fd = None
         /\ t.open = s.open \ ({s.hs[g].fd} \ {None}) /\ t.rings = s.rings \ ({s.hs[g].fd} \ {None})
<1>. DEFINE a == Free(s, g, "buffer")
            b == Free(a, g, "dlt_list")
            c == Free(b, g, "fcode")
            F == {"mem", "ptr", "twice"}
<1>1. Differ(s, a, g, F, {}) /\ Pointers(a.hs[g]) /\ a.hs[g].mem = s.hs[g].mem \ {"buffer"} BY FreeDoes
<1>2. Differ(a, b, g, F, {}) /\ Pointers(b.hs[g]) /\ b.hs[g].mem = a.hs[g].mem \ {"dlt_list"}
  <2>1. Formed(a) BY <1>1 DEF Differ
  <2>. QED BY <1>1, <2>1, FreeDoes
<1>3. Differ(b, c, g, F, {}) /\ Pointers(c.hs[g]) /\ c.hs[g].mem = b.hs[g].mem \ {"fcode"}
  <2>1. Formed(b) BY <1>2 DEF Differ
  <2>. QED BY <1>2, <2>1, FreeDoes
<1>4. t = IF c.hs[g].fd = None THEN c ELSE [CloseSocket(c, c.hs[g].fd) EXCEPT !.hs[g].fd = None]
  BY DEF pcap_cleanup_live_common
<1>. HIDE DEF a, b, c
<1>5. Differ(s, c, g, F, {}) /\ c.hs[g].mem = s.hs[g].mem \ {"buffer", "dlt_list", "fcode"}
  <2>1. Differ(s, b, g, F \cup F, {} \cup {}) BY <1>1, <1>2, DifferTwice
  <2>2. Differ(s, c, g, F \cup F, {} \cup {}) BY <2>1, <1>3, DifferTwice
  <2>3. F \cup F = F /\ {} \cup {} = {} OBVIOUS
  <2>4. Differ(s, c, g, F, {}) BY <2>2, <2>3
  <2>. QED BY <2>4, <1>1, <1>2, <1>3
<1>6. c.hs[g].fd = s.hs[g].fd /\ c.open = s.open /\ c.rings = s.rings /\ Formed(c)
  BY <1>5 DEF Differ, HandleFields, StateFields
<1>7. CASE s.hs[g].fd = None
  <2>1. t = c /\ {s.hs[g].fd} \ {None} = {} BY <1>4, <1>6, <1>7
  <2>. QED BY <2>1, <1>3, <1>5, <1>6, <1>7 DEF Differ
<1>8. CASE s.hs[g].fd # None
  <2>. DEFINE k == s.hs[g].fd
              d == CloseSocket(c, k)
  <2>1. t = [d EXCEPT !.hs[g].fd = None] BY <1>4, <1>6, <1>8
  <2>2. Differ(c, d, g, {}, {"open", "rings"}) /\ d.open = c.open \ {k} /\ d.rings = c.rings \ {k}
    BY <1>6, CloseSocketDoes
  <2>. HIDE DEF d
  <2>3. Formed(d) BY <2>2 DEF Differ
  <2>4. Differ(d, t, g, {"fd"}, {}) /\ t.hs[g].fd = None
    BY <2>1, <2>3 DEF Formed, HandleFields, StateFields, Differ
  <2>5. /\ d.hs[g].mem = c.hs[g].mem /\ d.hs[g].ptr = c.hs[g].ptr /\ d.hs[g].twice = c.hs[g].twice
        /\ t.hs[g].mem = d.hs[g].mem /\ t.hs[g].ptr = d.hs[g].ptr /\ t.hs[g].twice = d.hs[g].twice
        /\ t.open = d.open /\ t.rings = d.rings
    BY <2>2, <2>4 DEF Differ, HandleFields, StateFields
  <2>6. Differ(s, t, g, {"mem", "ptr", "twice", "fd"}, {"open", "rings"})
    BY <1>5, <2>2, <2>4 DEF Differ
  <2>7. {k} \ {None} = {k} BY <1>8
  <2>8. ~t.hs[g].twice BY <2>5, <1>3 DEF Pointers
  <2>9. Pointers(t.hs[g]) BY <2>5, <2>8, <1>3 DEF Pointers
  <2>. QED BY <2>2, <2>4, <2>5, <2>6, <2>7, <2>9, <1>5, <1>6
<1>. QED BY <1>7, <1>8

(* What closing leaves of the lists: the others stay, the handle goes.     *)
OffList(s, t, g) ==
  /\ Listed(t.toclose) /\ \A e \in Handles : e # g => (Contains(t.toclose, e) <=> Contains(s.toclose, e))
  /\ Contains(t.toclose, g) => s.looped = g

(* pcap_cleanup_linux restores the device, takes the handle out of the     *)
(* list, and gives its memory and socket back.                             *)
LEMMA CleanupDoes ==
  ASSUME NEW s, Formed(s), NEW g \in Handles, Pointers(s.hs[g]), Listed(s.toclose), DeviceTyped(s.dev),
         s.hs[g].oldmode = "managed", Contains(s.toclose, g) => s.looped = g \/ s.hs[g].must # {},
         NEW t, t = pcap_cleanup_linux(s, g)
  PROVE  /\ Differ(s, t, g, {"mem", "ptr", "twice", "fd"}, {"open", "rings", "dev", "toclose", "stage"})
         /\ Pointers(t.hs[g]) /\ t.hs[g].fd = None /\ t.stage = StageAfter(s, s.hs[g])
         /\ t.hs[g].mem = s.hs[g].mem \ {"mondevice", "device", "buffer", "dlt_list", "fcode"}
         /\ t.open = s.open \ ({s.hs[g].fd} \ {None}) /\ t.rings = s.rings \ ({s.hs[g].fd} \ {None})
         /\ OffList(s, t, g) /\ Restored(s.dev, t.dev, s.hs[g])
<1>. DEFINE r == RestoreDevice(s, g)
            a == IF s.hs[g].must = {} THEN s ELSE pcap_remove_from_pcaps_to_close(r, g)
            b == Free(a, g, "mondevice")
            c == Free(b, g, "device")
            F == {"mem", "ptr", "twice"}
<1>1. t = pcap_cleanup_live_common(c, g) BY DEF pcap_cleanup_linux
<1>2. /\ Differ(s, a, g, {}, {"dev", "toclose", "stage"}) /\ OffList(s, a, g) /\ Restored(s.dev, a.dev, s.hs[g])
      /\ a.stage = StageAfter(s, s.hs[g])
  <2>1. CASE s.hs[g].must = {}
    <3>1. a = s /\ s.stage = StageAfter(s, s.hs[g]) BY <2>1 DEF StageAfter, Lost
    <3>2. Restored(s.dev, s.dev, s.hs[g]) BY <2>1 DEF Restored
    <3>. QED BY <2>1, <3>1, <3>2 DEF Differ, OffList
  <2>2. CASE s.hs[g].must # {}
    <3>1. /\ Differ(s, r, g, {}, {"dev", "stage"}) /\ Restored(s.dev, r.dev, s.hs[g])
          /\ r.stage = StageAfter(s, s.hs[g])
      BY RestoreDoes
    <3>. HIDE DEF r
    <3>2. Formed(r) /\ r.toclose = s.toclose /\ r.looped = s.looped BY <3>1 DEF Differ, StateFields
    <3>3. a = pcap_remove_from_pcaps_to_close(r, g) BY <2>2
    <3>. HIDE DEF a
    <3>4. /\ Differ(r, a, g, {}, {"toclose"}) /\ Listed(a.toclose)
          /\ \A e \in Handles : e # g => (Contains(a.toclose, e) <=> Contains(r.toclose, e))
          /\ Contains(a.toclose, g) => r.looped = g
      BY <3>2, <3>3, RemoveDoes
    <3>5. Differ(s, a, g, {}, {"dev", "toclose", "stage"}) BY <3>1, <3>4 DEF Differ
    <3>6. a.dev = r.dev /\ a.stage = r.stage BY <3>4 DEF Differ, StateFields
    <3>. QED BY <3>1, <3>2, <3>4, <3>5, <3>6 DEF OffList
  <2>. QED BY <2>1, <2>2
<1>. HIDE DEF a
<1>3. Formed(a) /\ a.hs[g].mem = s.hs[g].mem /\ a.hs[g].ptr = s.hs[g].ptr /\ a.hs[g].twice = s.hs[g].twice
  BY <1>2 DEF Differ, HandleFields
<1>4. ~a.hs[g].twice BY <1>3 DEF Pointers
<1>5. Pointers(a.hs[g]) BY <1>3, <1>4 DEF Pointers
<1>6. Differ(a, b, g, F, {}) /\ Pointers(b.hs[g]) /\ b.hs[g].mem = a.hs[g].mem \ {"mondevice"}
  BY <1>3, <1>5, FreeDoes
<1>. HIDE DEF b
<1>7. Formed(b) BY <1>6 DEF Differ
<1>8. Differ(b, c, g, F, {}) /\ Pointers(c.hs[g]) /\ c.hs[g].mem = b.hs[g].mem \ {"device"}
  BY <1>6, <1>7, FreeDoes
<1>. HIDE DEF c
<1>9. Formed(c) BY <1>8 DEF Differ
<1>10. /\ Differ(c, t, g, {"mem", "ptr", "twice", "fd"}, {"open", "rings"})
       /\ Pointers(t.hs[g]) /\ t.hs[g].mem = c.hs[g].mem \ {"buffer", "dlt_list", "fcode"} /\ t.hs[g].fd = None
       /\ t.open = c.open \ ({c.hs[g].fd} \ {None}) /\ t.rings = c.rings \ ({c.hs[g].fd} \ {None})
  BY <1>1, <1>8, <1>9, LiveCleanupDoes
<1>. DEFINE G == {"dev", "toclose", "stage"}
<1>11. Differ(s, c, g, F, G)
  <2>1. Differ(s, b, g, {} \cup F, G \cup {}) BY <1>2, <1>6, DifferTwice
  <2>2. Differ(s, c, g, ({} \cup F) \cup F, (G \cup {}) \cup {}) BY <2>1, <1>8, DifferTwice
  <2>3. ({} \cup F) \cup F = F /\ (G \cup {}) \cup {} = G OBVIOUS
  <2>. QED BY <2>2, <2>3
<1>12. c.open = s.open /\ c.rings = s.rings /\ c.hs[g].fd = s.hs[g].fd BY <1>11 DEF Differ, HandleFields, StateFields
<1>13. t.toclose = c.toclose /\ c.toclose = b.toclose /\ b.toclose = a.toclose
  BY <1>6, <1>8, <1>10 DEF Differ, StateFields
<1>14. /\ t.dev = c.dev /\ c.dev = b.dev /\ b.dev = a.dev
       /\ t.stage = c.stage /\ c.stage = b.stage /\ b.stage = a.stage
  BY <1>6, <1>8, <1>10 DEF Differ, StateFields
<1>15. Differ(s, t, g, {"mem", "ptr", "twice", "fd"}, {"open", "rings", "dev", "toclose", "stage"})
  <2>1. Differ(s, t, g, F \cup {"mem", "ptr", "twice", "fd"}, G \cup {"open", "rings"})
    BY <1>10, <1>11, DifferTwice
  <2>2. /\ F \cup {"mem", "ptr", "twice", "fd"} = {"mem", "ptr", "twice", "fd"}
        /\ G \cup {"open", "rings"} = {"open", "rings", "dev", "toclose", "stage"}
    OBVIOUS
  <2>. QED BY <2>1, <2>2
<1>16. t.hs[g].mem = s.hs[g].mem \ {"mondevice", "device", "buffer", "dlt_list", "fcode"}
  BY <1>3, <1>6, <1>8, <1>10
<1>17. OffList(s, t, g) BY <1>2, <1>13 DEF OffList
<1>. QED BY <1>2, <1>10, <1>12, <1>14, <1>15, <1>16, <1>17

(* A step of one handle leaves the others alone, also on the list, as long *)
(* as that is one.                                                         *)
Others(s, t, g) ==
  /\ \A e \in Handles : e # g =>
       /\ t.hs[e] = s.hs[e] /\ (e \in t.maps <=> e \in s.maps)
       /\ \A k \in SocketsOf(e) : (k \in t.open <=> k \in s.open) /\ (k \in t.rings <=> k \in s.rings)
       /\ Contains(t.toclose, e) => Contains(s.toclose, e)
       /\ t.looped = None /\ Contains(s.toclose, e) => Contains(t.toclose, e)
  /\ t.looped = s.looped \/ (s.looped = None /\ t.looped = g)

(* Two steps of one handle leave the others alone.                         *)
LEMMA OthersTwice ==
  ASSUME NEW s, NEW t, NEW u, NEW g \in Handles, Others(s, t, g), Others(t, u, g)
  PROVE  Others(s, u, g)
BY DEF Others

(* What holds of another handle still does.                                *)
LEMMA OthersOk ==
  ASSUME NEW s, NEW t, NEW g \in Handles, Others(s, t, g), NEW e \in Handles, e # g, HandleOk(s, e)
  PROVE  HandleOk(t, e)
<1>1. t.hs[e] = s.hs[e] BY DEF Others
<1>2. OwnedIn(t, e) = OwnedIn(s, e) BY DEF Others, OwnedIn
<1>3. SocketsOk(s.hs[e], OwnedIn(s, e), t.rings)
  <2>1. \A k \in OwnedIn(s, e) : k \in t.rings <=> k \in s.rings BY DEF Others, OwnedIn
  <2>2. SocketsOk(s.hs[e], OwnedIn(s, e), s.rings) BY DEF HandleOk
  <2>. QED BY <2>1, <2>2 DEF SocketsOk, Late
<1>4. ListingOk(s.hs[e], Contains(t.toclose, e), t.looped, e)
  <2>1. e # None BY HandleAssumption
  <2>. QED BY <2>1 DEF HandleOk, Others, ListingOk
<1>. QED BY <1>1, <1>2, <1>3, <1>4 DEF HandleOk, Others

(* Another handle that will undo a mode still will.                        *)
LEMMA OthersUndo ==
  ASSUME NEW s, NEW t, NEW g \in Handles, Others(s, t, g), NEW e \in Handles, e # g, NEW m, Undoes(s, e, m)
  PROVE  Undoes(t, e, m)
BY DEF Others, Undoes

(* No socket is of two handles.                                            *)
LEMMA Disjoint ==
  ASSUME NEW e, NEW g, e # g
  PROVE  SocketsOf(e) \cap SocketsOf(g) = {}
BY DEF SocketsOf

(* How such a step can change the open sockets, the rings and the maps.    *)
OwnOnly(s, t, g) ==
  /\ \A k : k \notin SocketsOf(g) => (k \in t.open <=> k \in s.open) /\ (k \in t.rings <=> k \in s.rings)
  /\ \A e \in Handles : e # g => (e \in t.maps <=> e \in s.maps)
ListKept(s, t) == t.toclose = s.toclose /\ t.looped = s.looped

(* A step that leaves the list and the others' sockets as they are leaves  *)
(* the others alone.                                                       *)
LEMMA QuietOthers ==
  ASSUME NEW s, NEW t, NEW g \in Handles, NEW F, NEW G, Differ(s, t, g, F, G), OwnOnly(s, t, g), ListKept(s, t)
  PROVE  Others(s, t, g)
<1>1. ASSUME NEW e \in Handles, e # g, NEW k \in SocketsOf(e)
      PROVE  (k \in t.open <=> k \in s.open) /\ (k \in t.rings <=> k \in s.rings)
  <2>1. k \notin SocketsOf(g) BY <1>1, Disjoint
  <2>. QED BY <2>1 DEF OwnOnly
<1>. QED BY <1>1 DEF Others, Differ, OwnOnly, ListKept

(* A step of one handle.                                                   *)
LEMMA StepOk ==
  ASSUME NEW s, NEW t, NEW g \in Handles, HandleInv(s), Formed(t), DeviceTyped(t.dev), Listed(t.toclose),
         t.open \in SUBSET UNION {SocketsOf(e) : e \in Handles},
         t.hs[g].st # "none" => {"any", "promisc", "rfmon", "buffer_size"} \in SUBSET DOMAIN t.hs[g].opt,
         t.hs[g].wasup \in BOOLEAN,
         s.stage \in {"running", "exiting"}, t.stage = s.stage \/ (t.stage = "crashed" /\ SpoiledIn(t)),
         Others(s, t, g),
         s.stage = "running" \/ (t.looped = None /\ t.hs[g].st # "activating"),
         HandleOk(t, g), DeviceOk(t)
  PROVE  HandleInv(t)
<1>1. ASSUME NEW e \in Handles PROVE HandleOk(t, e)
  <2>1. CASE e = g BY <2>1
  <2>2. CASE e # g BY <2>2, OthersOk DEF HandleInv
  <2>. QED BY <2>1, <2>2
<1>2. t.looped \in Handles \cup {None} BY DEF HandleInv, Others
<1>3. Typed(t) BY DEF HandleInv, Typed, Others
<1>4. t.stage \in {"exiting", "ended"} => t.looped = None /\ \A e \in Handles : t.hs[e].st # "activating"
  BY DEF HandleInv, Others
<1>. QED BY <1>1, <1>2, <1>3, <1>4 DEF HandleInv

(* A monitor mode that failed is not forgotten.                            *)
LEMMA StillSpoiled ==
  ASSUME NEW s, NEW t, NEW g \in Handles, Others(s, t, g), ~SpoiledIn(t),
         s.hs[g].broke /\ s.hs[g].opt.rfmon => t.hs[g].broke /\ t.hs[g].opt.rfmon
  PROVE  ~SpoiledIn(s)
BY DEF SpoiledIn, Others

(* The device stays as it is and the handle keeps its duties.              *)
LEMMA QuietDevice ==
  ASSUME NEW s, NEW t, NEW g \in Handles, DeviceOk(s), Others(s, t, g), t.dev = s.dev,
         s.hs[g].broke /\ s.hs[g].opt.rfmon => t.hs[g].broke /\ t.hs[g].opt.rfmon,
         ~Doing(s.hs[g], {"monup", "setmode", "bringup"}),
         \A m : Undoes(s, g, m) =>
                  /\ Undoes(t, g, m) /\ t.hs[g].mon = s.hs[g].mon
                  /\ "mondevice" \in s.hs[g].ptr => "mondevice" \in t.hs[g].ptr
                  /\ s.hs[g].fd # None => t.hs[g].fd # None
  PROVE  DeviceOk(t)
<1>1. PromiscUndone(t)
  <2>1. SUFFICES ASSUME t.dev.promisc PROVE \E e \in Handles : Undoes(t, e, "promisc") /\ t.hs[e].fd # None
    BY DEF PromiscUndone
  <2>2. PICK e \in Handles : Undoes(s, e, "promisc") /\ s.hs[e].fd # None BY <2>1 DEF DeviceOk, PromiscUndone
  <2>3. CASE e = g BY <2>2, <2>3
  <2>4. CASE e # g
    <3>1. Undoes(t, e, "promisc") BY <2>2, <2>4, OthersUndo
    <3>2. t.hs[e].fd # None BY <2>2, <2>4 DEF Others
    <3>. QED BY <3>1, <3>2
  <2>. QED BY <2>3, <2>4
<1>2. ASSUME ~SpoiledIn(t) PROVE MonitorUndone(t)
  <2>1. MonitorUndone(s) BY <1>2, StillSpoiled DEF DeviceOk
  <2>2. ASSUME t.dev.mode = "monitor"
        PROVE  \E e \in Handles : Doing(t.hs[e], {"bringup"}) \/ Undoes(t, e, "rfmon")
    <3>1. PICK e \in Handles : Doing(s.hs[e], {"bringup"}) \/ Undoes(s, e, "rfmon")
      BY <2>1, <2>2 DEF MonitorUndone
    <3>2. CASE e = g BY <3>1, <3>2 DEF Doing
    <3>3. CASE e # g BY <3>1, <3>3, OthersUndo DEF Others
    <3>. QED BY <3>2, <3>3
  <2>3. t.dev.up \/ \E e \in Handles : Doing(t.hs[e], {"setmode", "bringup"}) /\ t.hs[e].wasup
    <3>1. CASE t.dev.up BY <3>1
    <3>2. CASE ~t.dev.up
      <4>1. PICK e \in Handles : Doing(s.hs[e], {"setmode", "bringup"}) /\ s.hs[e].wasup
        BY <2>1, <3>2 DEF MonitorUndone
      <4>2. e # g BY <4>1 DEF Doing
      <4>. QED BY <4>1, <4>2 DEF Others
    <3>. QED BY <3>1, <3>2
  <2>4. ASSUME NEW n \in t.dev.mons
        PROVE  \E e \in Handles : t.hs[e].mon = n /\ "mondevice" \in t.hs[e].ptr
                                  /\ (Doing(t.hs[e], {"monup"}) \/ Undoes(t, e, "monif"))
    <3>1. PICK e \in Handles : s.hs[e].mon = n /\ "mondevice" \in s.hs[e].ptr
                               /\ (Doing(s.hs[e], {"monup"}) \/ Undoes(s, e, "monif"))
      BY <2>1 DEF MonitorUndone
    <3>2. CASE e = g BY <3>1, <3>2 DEF Doing
    <3>3. CASE e # g BY <3>1, <3>3, OthersUndo DEF Others
    <3>. QED BY <3>2, <3>3
  <2>. QED BY <2>2, <2>3, <2>4 DEF MonitorUndone
<1>. QED BY <1>1, <1>2 DEF DeviceOk



(* A handle that could not be activated is as pcap_activate leaves it.     *)
LEMMA NotActivatedDoes ==
  ASSUME NEW s, Formed(s), NEW g \in Handles, NEW t, t = NotActivated(s, g)
  PROVE  /\ Differ(s, t, g, {"st", "pc", "cleanup", "sock", "broke"}, {})
         /\ t.hs[g].st = "failed" /\ t.hs[g].cleanup = "live" /\ t.hs[g].broke
<1>. DEFINE r == [s.hs[g] EXCEPT !.st = "failed", !.pc = None, !.cleanup = "live", !.sock = None, !.broke = TRUE]
<1>1. t = [s EXCEPT !.hs[g] = r] BY DEF NotActivated
<1>2. DOMAIN s.hs[g] = HandleFields BY DEF Formed
<1>3. /\ Same(s.hs[g], r, {"st", "pc", "cleanup", "sock", "broke"})
      /\ r.st = "failed" /\ r.cleanup = "live" /\ r.broke
  BY <1>2 DEF HandleFields, Same
<1>. HIDE DEF r
<1>4. Differ(s, t, g, {"st", "pc", "cleanup", "sock", "broke"}, {}) /\ t.hs[g] = r
  BY <1>1, <1>3 DEF Formed, HandleFields, StateFields, Differ, Same
<1>. QED BY <1>3, <1>4

(* An activation can be given up here.                                     *)
GivesUp(s, g) ==
  /\ Formed(s) /\ Typed(s) /\ s.stage = "running"
  /\ s.hs[g].st = "activating" /\ Pointers(s.hs[g])
  /\ "oneshot" \notin s.hs[g].mem /\ "source" \in s.hs[g].mem
  /\ s.hs[g].oldmode = "managed" /\ s.hs[g].must \in SUBSET {"promisc", "monif", "rfmon"}
  /\ (s.hs[g].must # {} /\ s.hs[g].must # {"promisc"}) \/ Doing(s.hs[g], {"monup", "setmode", "bringup"}) =>
       s.hs[g].opt.rfmon
  /\ g \notin s.maps /\ (Contains(s.toclose, g) => s.looped = g \/ s.hs[g].must # {})
  /\ PromiscUndone(s) /\ (s.hs[g].opt.rfmon \/ SpoiledIn(s) \/ MonitorUndone(s))
(* With a socket of the handle's own or none; with one that is not yet.    *)
Failable(s, g) ==
  /\ GivesUp(s, g) /\ (s.hs[g].fd = None \/ s.hs[g].fd \in SocketsOf(g))
  /\ OwnedIn(s, g) \in SUBSET {s.hs[g].fd} \/ Leaves(s.hs[g])
Closable(s, g) ==
  /\ GivesUp(s, g) /\ s.hs[g].fd = None /\ s.hs[g].sock \in SocketsOf(g)
  /\ OwnedIn(s, g) \in SUBSET {s.hs[g].sock}

(* pcap_activate_linux gives up: the handle has no memory but its name and *)
(* no socket.                                                              *)
LEMMA FailDoes ==
  ASSUME NEW s, NEW g \in Handles, Failable(s, g), NEW t, t = Fail(s, g)
  PROVE  /\ Differ(s, t, g, {"mem", "ptr", "twice", "fd", "st", "pc", "cleanup", "sock", "broke"},
                   {"open", "rings", "dev", "toclose", "stage"})
         /\ Pointers(t.hs[g]) /\ t.hs[g].fd = None /\ t.hs[g].mem = {"source"}
         /\ t.hs[g].st = "failed" /\ t.hs[g].cleanup = "live" /\ t.hs[g].broke /\ t.stage = StageAfter(s, s.hs[g])
         /\ t.open = s.open \ ({s.hs[g].fd} \ {None}) /\ t.rings = s.rings \ ({s.hs[g].fd} \ {None})
         /\ OffList(s, t, g) /\ Restored(s.dev, t.dev, s.hs[g])
<1>. DEFINE u == pcap_cleanup_linux(s, g)
<1>1. /\ Differ(s, u, g, {"mem", "ptr", "twice", "fd"}, {"open", "rings", "dev", "toclose", "stage"})
      /\ Pointers(u.hs[g]) /\ u.hs[g].fd = None /\ u.stage = StageAfter(s, s.hs[g])
      /\ u.hs[g].mem = s.hs[g].mem \ {"mondevice", "device", "buffer", "dlt_list", "fcode"}
      /\ u.open = s.open \ ({s.hs[g].fd} \ {None}) /\ u.rings = s.rings \ ({s.hs[g].fd} \ {None})
      /\ OffList(s, u, g) /\ Restored(s.dev, u.dev, s.hs[g])
  BY CleanupDoes DEF Failable, GivesUp, Typed
<1>2. t = NotActivated(u, g) BY DEF Fail
<1>. HIDE DEF u
<1>3. /\ Differ(u, t, g, {"st", "pc", "cleanup", "sock", "broke"}, {})
      /\ t.hs[g].st = "failed" /\ t.hs[g].cleanup = "live" /\ t.hs[g].broke
  <2>1. Formed(u) BY <1>1 DEF Differ
  <2>. QED BY <1>2, <2>1, NotActivatedDoes
<1>4. /\ t.hs[g].mem = u.hs[g].mem /\ t.hs[g].ptr = u.hs[g].ptr /\ t.hs[g].twice = u.hs[g].twice
      /\ t.hs[g].fd = u.hs[g].fd /\ t.open = u.open /\ t.rings = u.rings /\ t.toclose = u.toclose /\ t.dev = u.dev
      /\ t.stage = u.stage
  BY <1>3 DEF Differ, HandleFields, StateFields
<1>5. ~t.hs[g].twice BY <1>1, <1>4 DEF Pointers
<1>6. Pointers(t.hs[g]) BY <1>1, <1>4, <1>5 DEF Pointers
<1>7. u.hs[g].mem = {"source"} BY <1>1 DEF Failable, GivesUp, Pointers, Memory
<1>8. Differ(s, t, g, {"mem", "ptr", "twice", "fd", "st", "pc", "cleanup", "sock", "broke"},
             {"open", "rings", "dev", "toclose", "stage"})
  BY <1>1, <1>3 DEF Differ
<1>9. OffList(s, t, g) BY <1>1, <1>4 DEF OffList
<1>. QED BY <1>1, <1>3, <1>4, <1>6, <1>7, <1>8, <1>9

(* It leaves the others alone.                                             *)
LEMMA FailOthers ==
  ASSUME NEW s, NEW g \in Handles, Failable(s, g), NEW t, t = Fail(s, g)
  PROVE  Others(s, t, g)
<1>. DEFINE F == {"mem", "ptr", "twice", "fd", "st", "pc", "cleanup", "sock", "broke"}
            G == {"open", "rings", "dev", "toclose", "stage"}
<1>1. Differ(s, t, g, F, G) /\ t.open = s.open \ ({s.hs[g].fd} \ {None})
      /\ t.rings = s.rings \ ({s.hs[g].fd} \ {None}) /\ OffList(s, t, g)
  BY FailDoes
<1>2. t.maps = s.maps /\ t.looped = s.looped BY <1>1 DEF Differ, StateFields
<1>3. \A e \in Handles : e # g => t.hs[e] = s.hs[e] BY <1>1 DEF Differ
<1>4. ASSUME NEW e \in Handles, e # g, NEW k \in SocketsOf(e)
      PROVE  (k \in t.open <=> k \in s.open) /\ (k \in t.rings <=> k \in s.rings)
  <2>1. k \notin SocketsOf(g) BY <1>4, Disjoint
  <2>2. k \notin {s.hs[g].fd} \ {None} BY <2>1 DEF Failable
  <2>. QED BY <2>2, <1>1
<1>. QED BY <1>1, <1>2, <1>3, <1>4 DEF Others, OffList

(* The device after a handle was given up or closed: what it had to undo   *)
(* is undone.                                                              *)
LEMMA FailDevice ==
  ASSUME NEW s, NEW g \in Handles, Failable(s, g), NEW t, t = Fail(s, g)
  PROVE  DeviceOk(t)
<1>1. /\ Restored(s.dev, t.dev, s.hs[g]) /\ t.hs[g].broke /\ Others(s, t, g)
      /\ Differ(s, t, g, {"mem", "ptr", "twice", "fd", "st", "pc", "cleanup", "sock", "broke"},
                {"open", "rings", "dev", "toclose", "stage"})
  BY FailDoes, FailOthers
<1>2. t.hs[g].opt = s.hs[g].opt BY <1>1 DEF Differ, HandleFields
<1>3. PromiscUndone(t)
  <2>1. SUFFICES ASSUME t.dev.promisc PROVE \E e \in Handles : Undoes(t, e, "promisc") /\ t.hs[e].fd # None
    BY DEF PromiscUndone
  <2>2. s.dev.promisc /\ (s.hs[g].fd = None \/ "promisc" \notin s.hs[g].must) BY <1>1, <2>1 DEF Restored
  <2>3. PICK e \in Handles : Undoes(s, e, "promisc") /\ s.hs[e].fd # None
    BY <2>2 DEF Failable, GivesUp, PromiscUndone
  <2>4. e # g BY <2>2, <2>3 DEF Undoes
  <2>5. Undoes(t, e, "promisc") BY <2>3, <2>4, <1>1, OthersUndo
  <2>. QED BY <2>3, <2>4, <2>5, <1>1 DEF Others
<1>4. ASSUME ~SpoiledIn(t) PROVE MonitorUndone(t)
  <2>1. ~s.hs[g].opt.rfmon BY <1>1, <1>2, <1>4 DEF SpoiledIn
  <2>2. ~SpoiledIn(s) BY <1>1, <1>4, <2>1, StillSpoiled
  <2>3. MonitorUndone(s) BY <2>1, <2>2 DEF Failable, GivesUp
  <2>4. /\ "rfmon" \notin s.hs[g].must /\ "monif" \notin s.hs[g].must
        /\ ~Doing(s.hs[g], {"monup", "setmode", "bringup"})
    BY <2>1 DEF Failable, GivesUp
  <2>5. ASSUME t.dev.mode = "monitor"
        PROVE  \E e \in Handles : Doing(t.hs[e], {"bringup"}) \/ Undoes(t, e, "rfmon")
    <3>1. s.dev.mode = "monitor" BY <2>5, <1>1 DEF Restored
    <3>2. PICK e \in Handles : Doing(s.hs[e], {"bringup"}) \/ Undoes(s, e, "rfmon")
      BY <2>3, <3>1 DEF MonitorUndone
    <3>3. e # g BY <3>2, <2>4 DEF Doing, Undoes
    <3>. QED BY <3>2, <3>3, <1>1, OthersUndo DEF Others
  <2>6. t.dev.up \/ \E e \in Handles : Doing(t.hs[e], {"setmode", "bringup"}) /\ t.hs[e].wasup
    <3>1. t.dev.up = s.dev.up BY <1>1 DEF Restored
    <3>2. CASE s.dev.up BY <3>1, <3>2
    <3>3. CASE ~s.dev.up
      <4>1. PICK e \in Handles : Doing(s.hs[e], {"setmode", "bringup"}) /\ s.hs[e].wasup
        BY <2>3, <3>3 DEF MonitorUndone
      <4>2. e # g BY <4>1, <2>4 DEF Doing
      <4>. QED BY <4>1, <4>2, <1>1 DEF Others
    <3>. QED BY <3>2, <3>3
  <2>7. ASSUME NEW n \in t.dev.mons
        PROVE  \E e \in Handles : t.hs[e].mon = n /\ "mondevice" \in t.hs[e].ptr
                                  /\ (Doing(t.hs[e], {"monup"}) \/ Undoes(t, e, "monif"))
    <3>1. n \in s.dev.mons BY <2>7, <1>1 DEF Restored
    <3>2. PICK e \in Handles : s.hs[e].mon = n /\ "mondevice" \in s.hs[e].ptr
                               /\ (Doing(s.hs[e], {"monup"}) \/ Undoes(s, e, "monif"))
      BY <2>3, <3>1 DEF MonitorUndone
    <3>3. e # g BY <3>2, <2>4 DEF Doing, Undoes
    <3>4. t.hs[e] = s.hs[e] BY <3>3, <1>1 DEF Others
    <3>5. Undoes(s, e, "monif") => Undoes(t, e, "monif") BY <3>3, <1>1, OthersUndo
    <3>. QED BY <3>2, <3>4, <3>5
  <2>. QED BY <2>5, <2>6, <2>7 DEF MonitorUndone
<1>. QED BY <1>3, <1>4 DEF DeviceOk

(* It keeps the invariant.                                                 *)
LEMMA FailKeeps ==
  ASSUME NEW r, NEW s, NEW g \in Handles, HandleInv(r), r.stage = "running", Others(r, s, g), Failable(s, g),
         NEW t, t = Fail(s, g)
  PROVE  HandleInv(t)
<1>. DEFINE hd == s.hs[g]
            F == {"mem", "ptr", "twice", "fd", "st", "pc", "cleanup", "sock", "broke"}
            G == {"open", "rings", "dev", "toclose", "stage"}
<1>1. /\ Differ(s, t, g, F, G)
      /\ Pointers(t.hs[g]) /\ t.hs[g].fd = None /\ t.hs[g].mem = {"source"}
      /\ t.hs[g].st = "failed" /\ t.hs[g].cleanup = "live" /\ t.hs[g].broke /\ t.stage = StageAfter(s, s.hs[g])
      /\ t.open = s.open \ ({s.hs[g].fd} \ {None}) /\ t.rings = s.rings \ ({s.hs[g].fd} \ {None})
      /\ OffList(s, t, g) /\ Restored(s.dev, t.dev, s.hs[g])
  BY FailDoes
<1>2. /\ Formed(t) /\ t.hs[g].opt = s.hs[g].opt /\ t.hs[g].must = s.hs[g].must /\ t.hs[g].oldmode = s.hs[g].oldmode
      /\ t.hs[g].wasup = s.hs[g].wasup /\ t.maps = s.maps /\ t.looped = s.looped
  BY <1>1 DEF Differ, HandleFields, StateFields
<1>3. Others(r, t, g) BY FailOthers, OthersTwice
<1>4. MemoryOk(t.hs[g]) BY <1>1 DEF MemoryOk, Live, Doing
<1>5. ModesOk(t.hs[g]) BY <1>1, <1>2 DEF ModesOk, Doing, Live, Failable, GivesUp
<1>6. SocketsOk(t.hs[g], OwnedIn(t, g), t.rings)
  <2>1. OwnedIn(t, g) = {} \/ Leaves(t.hs[g])
    <3>1. CASE Leaves(s.hs[g]) BY <3>1, <1>2 DEF Leaves
    <3>2. CASE OwnedIn(s, g) \in SUBSET {s.hs[g].fd}
      <4>1. None \notin SocketsOf(g) BY HandleAssumption DEF SocketsOf
      <4>. QED BY <3>2, <4>1, <1>1 DEF OwnedIn
    <3>. QED BY <3>1, <3>2 DEF Failable
  <2>. QED BY <2>1, <1>1 DEF SocketsOk, Live
<1>7. ListingOk(t.hs[g], Contains(t.toclose, g), t.looped, g)
  BY <1>1, <1>2 DEF ListingOk, OffList, Live
<1>8. g \notin t.maps BY <1>2 DEF Failable, GivesUp
<1>9. HandleOk(t, g) BY <1>1, <1>4, <1>5, <1>6, <1>7, <1>8 DEF HandleOk
<1>10. DeviceOk(t) BY FailDevice
<1>11. t.open \in SUBSET UNION {SocketsOf(e) : e \in Handles} BY <1>1 DEF Failable, GivesUp, Typed
<1>12. {"any", "promisc", "rfmon", "buffer_size"} \in SUBSET DOMAIN t.hs[g].opt /\ t.hs[g].wasup \in BOOLEAN
  BY <1>2 DEF Failable, GivesUp, Typed
<1>13. DeviceTyped(t.dev) /\ Listed(t.toclose) BY <1>1 DEF Restored, OffList
<1>14. t.stage = r.stage \/ (t.stage = "crashed" /\ SpoiledIn(t))
  <2>1. CASE Lost(s.hs[g])
    <3>1. s.hs[g].opt.rfmon BY <2>1 DEF Lost, Failable, GivesUp
    <3>2. SpoiledIn(t) BY <3>1, <1>1, <1>2 DEF SpoiledIn
    <3>. QED BY <2>1, <3>2, <1>1 DEF StageAfter
  <2>2. CASE ~Lost(s.hs[g]) BY <2>2, <1>1 DEF StageAfter, Failable, GivesUp
  <2>. QED BY <2>1, <2>2
<1>. QED BY <1>2, <1>3, <1>9, <1>10, <1>11, <1>12, <1>13, <1>14, StepOk

(* Only memory and sockets of the handle, and for one that asked for       *)
(* monitor mode the device, differ.                                        *)
Near(r, s, g) ==
  /\ Formed(s) /\ s.toclose = r.toclose /\ s.looped = r.looped /\ s.stage = r.stage /\ OwnOnly(r, s, g)
  /\ \A e \in Handles : e # g => s.hs[e] = r.hs[e]
  /\ \A f \in {"st", "pc", "opt", "must", "mon", "oldmode", "broke", "wasup"} : s.hs[g][f] = r.hs[g][f]
  /\ r.hs[g].fd # None => s.hs[g].fd = r.hs[g].fd
  /\ "mondevice" \in r.hs[g].ptr => "mondevice" \in s.hs[g].ptr
  /\ s.dev = r.dev \/ (r.hs[g].opt.rfmon /\ DeviceTyped(s.dev) /\ s.dev.promisc = r.dev.promisc)
Memories(s, g) ==
  Pointers(s.hs[g]) /\ "oneshot" \notin s.hs[g].mem /\ "source" \in s.hs[g].mem /\ g \notin s.maps

(* What a handle has to undo, and how far it has come, are the same in     *)
(* such a state.                                                           *)
LEMMA NearFields ==
  ASSUME NEW r, NEW s, NEW g \in Handles, Near(r, s, g)
  PROVE  /\ s.hs[g].st = r.hs[g].st /\ s.hs[g].pc = r.hs[g].pc /\ s.hs[g].opt = r.hs[g].opt
         /\ s.hs[g].must = r.hs[g].must /\ s.hs[g].mon = r.hs[g].mon /\ s.hs[g].oldmode = r.hs[g].oldmode
         /\ s.hs[g].broke = r.hs[g].broke /\ s.hs[g].wasup = r.hs[g].wasup
BY DEF Near

(* The sockets stay sockets of handles.                                    *)
LEMMA OpenTyped ==
  ASSUME NEW s, NEW t, NEW g \in Handles, Typed(s), OwnOnly(s, t, g)
  PROVE  t.open \in SUBSET UNION {SocketsOf(e) : e \in Handles}
BY DEF Typed, OwnOnly

(* In such a state the activation can be given up.                         *)
LEMMA GivesUpNear ==
  ASSUME NEW r, NEW s, NEW g \in Handles, HandleInv(r), r.stage = "running", r.hs[g].st = "activating",
         Near(r, s, g), Memories(s, g)
  PROVE  GivesUp(s, g) /\ Others(r, s, g)
<1>1. HandleOk(r, g) /\ DeviceOk(r) BY DEF HandleInv
<1>2. Others(r, s, g)
  <2>1. ASSUME NEW e \in Handles, e # g, NEW k \in SocketsOf(e)
        PROVE  (k \in s.open <=> k \in r.open) /\ (k \in s.rings <=> k \in r.rings)
    <3>1. k \notin SocketsOf(g) BY <2>1, Disjoint
    <3>. QED BY <3>1 DEF Near, OwnOnly
  <2>. QED BY <2>1 DEF Others, Near, OwnOnly
<1>3. Typed(s)
  <2>1. s.open \in SUBSET UNION {SocketsOf(e) : e \in Handles} BY OpenTyped DEF HandleInv, Near
  <2>2. \A e \in Handles : s.hs[e].opt = r.hs[e].opt /\ s.hs[e].st = r.hs[e].st /\ s.hs[e].wasup = r.hs[e].wasup
    BY NearFields DEF Near
  <2>. QED BY <2>1, <2>2 DEF Typed, Near, HandleInv
<1>4. PromiscUndone(s)
  <2>1. SUFFICES ASSUME s.dev.promisc PROVE \E e \in Handles : Undoes(s, e, "promisc") /\ s.hs[e].fd # None
    BY DEF PromiscUndone
  <2>2. PICK e \in Handles : Undoes(r, e, "promisc") /\ r.hs[e].fd # None
    BY <2>1, <1>1 DEF Near, DeviceOk, PromiscUndone
  <2>3. CASE e = g
    <3>1. s.hs[g].fd # None BY <2>2, <2>3 DEF Near
    <3>2. Undoes(s, g, "promisc") BY <2>2, <2>3, NearFields DEF Undoes, Live, Near
    <3>. QED BY <3>1, <3>2
  <2>4. CASE e # g BY <2>2, <2>4, <1>2, OthersUndo DEF Others
  <2>. QED BY <2>3, <2>4
<1>5. s.hs[g].opt.rfmon \/ SpoiledIn(s) \/ MonitorUndone(s)
  <2>1. SUFFICES ASSUME ~s.hs[g].opt.rfmon, ~SpoiledIn(s) PROVE MonitorUndone(s) OBVIOUS
  <2>2. ~SpoiledIn(r) BY <2>1, <1>2, NearFields, StillSpoiled
  <2>3. MonitorUndone(r) /\ s.dev = r.dev BY <1>1, <2>1, <2>2, NearFields DEF DeviceOk, Near
  <2>4. \A e \in Handles : Doing(r.hs[e], {"bringup"}) => Doing(s.hs[e], {"bringup"})
    BY NearFields DEF Doing, Near
  <2>5. \A e \in Handles : Doing(r.hs[e], {"setmode", "bringup"}) /\ r.hs[e].wasup =>
                             Doing(s.hs[e], {"setmode", "bringup"}) /\ s.hs[e].wasup
    BY NearFields DEF Doing, Near
  <2>6. \A e \in Handles, m \in {"rfmon", "monif"} : Undoes(r, e, m) => Undoes(s, e, m)
    BY NearFields DEF Undoes, Live, Near
  <2>7. \A e \in Handles : /\ s.hs[e].mon = r.hs[e].mon
                           /\ "mondevice" \in r.hs[e].ptr => "mondevice" \in s.hs[e].ptr
                           /\ Doing(r.hs[e], {"monup"}) => Doing(s.hs[e], {"monup"})
    BY NearFields DEF Doing, Near
  <2>. QED BY <2>3, <2>4, <2>5, <2>6, <2>7 DEF MonitorUndone
<1>6. /\ s.hs[g].oldmode = "managed" /\ s.hs[g].must \in SUBSET {"promisc", "monif", "rfmon"}
      /\ s.hs[g].must # {} /\ s.hs[g].must # {"promisc"} => s.hs[g].opt.rfmon
      /\ Doing(s.hs[g], {"monup", "setmode", "bringup"}) => s.hs[g].opt.rfmon
  BY <1>1, NearFields DEF HandleOk, ModesOk, Doing, Early
<1>7. Contains(s.toclose, g) => s.looped = g \/ s.hs[g].must # {}
  BY <1>1, NearFields DEF HandleOk, ListingOk, Near
<1>. QED BY <1>2, <1>3, <1>4, <1>5, <1>6, <1>7, NearFields DEF GivesUp, Near, Memories

(* Giving up after changes to memory and sockets of the handle keeps the   *)
(* invariant,                                                              *)
LEMMA FailAfter ==
  ASSUME NEW r, NEW s, NEW g \in Handles, HandleInv(r), r.stage = "running", r.hs[g].st = "activating",
         Near(r, s, g), Memories(s, g), s.hs[g].fd = None \/ s.hs[g].fd \in SocketsOf(g),
         OwnedIn(s, g) \in SUBSET {s.hs[g].fd} \/ Leaves(s.hs[g])
  PROVE  HandleInv(Fail(s, g))
<1>1. GivesUp(s, g) /\ Others(r, s, g) BY GivesUpNear
<1>2. Failable(s, g) BY <1>1 DEF Failable
<1>. QED BY <1>1, <1>2, FailKeeps

(* and so it does with a socket that is not yet the handle's, which is     *)
(* closed first.                                                           *)
LEMMA CloseFailAfter ==
  ASSUME NEW r, NEW s, NEW g \in Handles, HandleInv(r), r.stage = "running", r.hs[g].st = "activating",
         Near(r, s, g), Memories(s, g), s.hs[g].fd = None, s.hs[g].sock \in SocketsOf(g),
         OwnedIn(s, g) \in SUBSET {s.hs[g].sock}
  PROVE  HandleInv(CloseAndFail(s, g))
<1>. DEFINE c == CloseSocket(s, s.hs[g].sock)
<1>1. CloseAndFail(s, g) = Fail(c, g) BY DEF CloseAndFail
<1>2. /\ Differ(s, c, g, {}, {"open", "rings"})
      /\ c.open = s.open \ {s.hs[g].sock} /\ c.rings = s.rings \ {s.hs[g].sock}
  BY CloseSocketDoes DEF Near
<1>. HIDE DEF c
<1>3. Formed(c) /\ \A f \in HandleFields : c.hs[g][f] = s.hs[g][f] BY <1>2 DEF Differ
<1>4. /\ c.hs[g].fd = s.hs[g].fd /\ c.hs[g].mem = s.hs[g].mem /\ c.hs[g].ptr = s.hs[g].ptr
      /\ c.hs[g].twice = s.hs[g].twice
      /\ \A f \in {"st", "pc", "opt", "must", "mon", "oldmode", "broke", "wasup"} : c.hs[g][f] = s.hs[g][f]
  BY <1>3 DEF HandleFields
<1>5. c.toclose = s.toclose /\ c.looped = s.looped /\ c.stage = s.stage /\ c.maps = s.maps /\ c.dev = s.dev
  BY <1>2 DEF Differ, StateFields
<1>6. OwnOnly(r, c, g) BY <1>2, <1>5 DEF OwnOnly, Near
<1>7. Near(r, c, g)
  <2>1. \A e \in Handles : e # g => c.hs[e] = r.hs[e] BY <1>2 DEF Near, Differ
  <2>. QED BY <2>1, <1>3, <1>4, <1>5, <1>6 DEF Near
<1>8. Memories(c, g)
  <2>1. ~c.hs[g].twice BY <1>4 DEF Memories, Pointers
  <2>. QED BY <2>1, <1>4, <1>5 DEF Memories, Pointers
<1>9. OwnedIn(c, g) = {} BY <1>2 DEF OwnedIn
<1>. QED BY <1>1, <1>4, <1>7, <1>8, <1>9, FailAfter

(* Giving up while the device is set or the socket is bound.               *)
LEMMA ClosedHere ==
  ASSUME NEW r, NEW s, NEW g \in Handles, HandleInv(r), r.stage = "running", r.hs[g].st = "activating",
         r.hs[g].pc \in (Early \ {"socket"}) \cup Between, Differ(r, s, g, {}, {"faults", "dev"}),
         s.dev = r.dev \/ (r.hs[g].opt.rfmon /\ DeviceTyped(s.dev) /\ s.dev.promisc = r.dev.promisc)
  PROVE  HandleInv(CloseAndFail(s, g))
<1>1. HandleOk(r, g) BY DEF HandleInv
<1>2. /\ s.hs[g].fd = r.hs[g].fd /\ s.hs[g].sock = r.hs[g].sock /\ s.hs[g].mem = r.hs[g].mem
      /\ s.hs[g].ptr = r.hs[g].ptr /\ s.hs[g].twice = r.hs[g].twice
      /\ \A f \in {"st", "pc", "opt", "must", "mon", "oldmode", "broke", "wasup"} : s.hs[g][f] = r.hs[g][f]
  BY DEF Differ, HandleFields
<1>3. /\ s.toclose = r.toclose /\ s.looped = r.looped /\ s.stage = r.stage /\ s.maps = r.maps
      /\ s.open = r.open /\ s.rings = r.rings
  BY DEF Differ, StateFields
<1>4. Near(r, s, g) BY <1>2, <1>3 DEF Near, Differ, OwnOnly
<1>5. Memories(s, g)
  <2>1. ~s.hs[g].twice BY <1>1, <1>2 DEF HandleOk, MemoryOk, Pointers
  <2>2. Pointers(s.hs[g]) BY <1>1, <1>2, <2>1 DEF HandleOk, MemoryOk, Pointers
  <2>. QED BY <1>1, <1>2, <1>3, <2>2 DEF HandleOk, MemoryOk, Memories, Doing, Live, Early, Between
<1>6. r.hs[g].fd = None /\ OwnedIn(r, g) = {r.hs[g].sock} BY <1>1 DEF HandleOk, SocketsOk
<1>7. s.hs[g].sock \in SocketsOf(g) /\ OwnedIn(s, g) = {s.hs[g].sock} BY <1>2, <1>3, <1>6 DEF OwnedIn
<1>. QED BY <1>2, <1>4, <1>5, <1>6, <1>7, CloseFailAfter

(* Giving up before a socket is open, or when it is the handle's.          *)
LEMMA FailsHere ==
  ASSUME NEW r, NEW s, NEW g \in Handles, HandleInv(r), r.stage = "running", r.hs[g].st = "activating",
         r.hs[g].pc \in {"socket", "old"} \cup (Late \ {"ring", "map"}), Differ(r, s, g, {}, {"faults"})
  PROVE  HandleInv(Fail(s, g))
<1>1. HandleOk(r, g) BY DEF HandleInv
<1>2. /\ s.hs[g].fd = r.hs[g].fd /\ s.hs[g].mem = r.hs[g].mem /\ s.hs[g].opt = r.hs[g].opt
      /\ s.hs[g].ptr = r.hs[g].ptr /\ s.hs[g].twice = r.hs[g].twice
      /\ \A f \in {"st", "pc", "opt", "must", "mon", "oldmode", "broke", "wasup"} : s.hs[g][f] = r.hs[g][f]
  BY DEF Differ, HandleFields
<1>3. /\ s.toclose = r.toclose /\ s.looped = r.looped /\ s.stage = r.stage /\ s.maps = r.maps
      /\ s.open = r.open /\ s.rings = r.rings /\ s.dev = r.dev
  BY DEF Differ, StateFields
<1>4. Near(r, s, g) BY <1>2, <1>3 DEF Near, Differ, OwnOnly
<1>5. Memories(s, g)
  <2>1. ~s.hs[g].twice BY <1>1, <1>2 DEF HandleOk, MemoryOk, Pointers
  <2>2. Pointers(s.hs[g]) BY <1>1, <1>2, <2>1 DEF HandleOk, MemoryOk, Pointers
  <2>. QED BY <1>1, <1>2, <1>3, <2>2 DEF HandleOk, MemoryOk, Memories, Doing, Live, Late
<1>6. \/ r.hs[g].fd = None /\ (OwnedIn(r, g) = {} \/ Leaves(r.hs[g]))
      \/ OwnedIn(r, g) = {r.hs[g].fd}
  BY <1>1 DEF HandleOk, SocketsOk
<1>7. OwnedIn(s, g) = OwnedIn(r, g) /\ (Leaves(r.hs[g]) => Leaves(s.hs[g])) BY <1>2, <1>3 DEF OwnedIn, Leaves
<1>8. s.hs[g].fd = None \/ s.hs[g].fd \in SocketsOf(g) BY <1>2, <1>6 DEF OwnedIn
<1>9. OwnedIn(s, g) \in SUBSET {s.hs[g].fd} \/ Leaves(s.hs[g]) BY <1>2, <1>6, <1>7
<1>. QED BY <1>4, <1>5, <1>8, <1>9, FailAfter

(* The handle goes on, the device stays as it is and the handle's duties   *)
(* stay.                                                                   *)
Carries(r, t, g) ==
  /\ Formed(t) /\ t.toclose = r.toclose /\ t.looped = r.looped /\ t.stage = r.stage /\ t.dev = r.dev
  /\ OwnOnly(r, t, g) /\ \A e \in Handles : e # g => t.hs[e] = r.hs[e]
  /\ t.hs[g].must = r.hs[g].must /\ t.hs[g].broke = r.hs[g].broke /\ t.hs[g].mon = r.hs[g].mon
  /\ t.hs[g].wasup = r.hs[g].wasup /\ t.hs[g].opt.any = r.hs[g].opt.any /\ t.hs[g].opt.rfmon = r.hs[g].opt.rfmon
  /\ {"any", "promisc", "rfmon", "buffer_size"} \in SUBSET DOMAIN t.hs[g].opt
  /\ r.hs[g].fd # None => t.hs[g].fd # None
  /\ "mondevice" \in r.hs[g].ptr => "mondevice" \in t.hs[g].ptr

(* A handle that goes on keeps the invariant, if it is sound itself.       *)
LEMMA GoesOn ==
  ASSUME NEW r, NEW t, NEW g \in Handles, HandleInv(r), r.stage = "running",
         ~Doing(r.hs[g], {"monup", "setmode", "bringup"}), Carries(r, t, g), Live(t.hs[g]), HandleOk(t, g)
  PROVE  HandleInv(t)
<1>1. Others(r, t, g)
  <2>1. ASSUME NEW e \in Handles, e # g, NEW k \in SocketsOf(e)
        PROVE  (k \in t.open <=> k \in r.open) /\ (k \in t.rings <=> k \in r.rings)
    <3>1. k \notin SocketsOf(g) BY <2>1, Disjoint
    <3>. QED BY <3>1 DEF Carries, OwnOnly
  <2>. QED BY <2>1 DEF Others, Carries, OwnOnly
<1>2. \A m : Undoes(r, g, m) => Undoes(t, g, m) BY DEF Undoes, Carries
<1>3. r.hs[g].broke /\ r.hs[g].opt.rfmon => t.hs[g].broke /\ t.hs[g].opt.rfmon BY DEF Carries
<1>4. DeviceOk(t)
  <2>1. DeviceOk(r) /\ t.dev = r.dev BY DEF HandleInv, Carries
  <2>. QED BY <1>1, <1>2, <1>3, <2>1, QuietDevice DEF Carries
<1>5. t.open \in SUBSET UNION {SocketsOf(e) : e \in Handles} BY OpenTyped DEF HandleInv, Carries
<1>6. DeviceTyped(t.dev) /\ Listed(t.toclose) BY DEF HandleInv, Typed, Carries
<1>7. /\ Formed(t) /\ t.stage = r.stage
      /\ {"any", "promisc", "rfmon", "buffer_size"} \in SUBSET DOMAIN t.hs[g].opt /\ t.hs[g].wasup \in BOOLEAN
  BY DEF Carries, HandleInv, Typed
<1>. QED BY <1>1, <1>4, <1>5, <1>6, <1>7, StepOk

(* A handle that goes on with its activation.                              *)
LEMMA StaysActivating ==
  ASSUME NEW r, NEW t, NEW g \in Handles, HandleInv(r), r.stage = "running", r.hs[g].st = "activating",
         r.hs[g].pc \notin {"monup", "setmode", "bringup"}, Carries(r, t, g),
         t.hs[g].st = "activating", t.hs[g].cleanup = "linux", t.hs[g].oldmode = "managed",
         Pointers(t.hs[g]), "source" \in t.hs[g].mem, "device" \in t.hs[g].mem,
         "oneshot" \in t.hs[g].mem <=> t.hs[g].pc \in {"ring", "map"}, g \notin t.maps,
         t.hs[g].pc \in (Early \cup Between \cup Late \cup {"old"}) \ {"monup"},
         t.hs[g].pc \in Early => r.hs[g].pc \in Early /\ (t.hs[g].pc # "socket" => r.hs[g].opt.rfmon),
         t.hs[g].pc \notin {"socket", "old"} => ~Leaves(r.hs[g]),
         t.hs[g].pc \in {"socket", "old"} => t.hs[g].fd = None /\ (OwnedIn(t, g) = {} \/ Leaves(r.hs[g])),
         t.hs[g].pc \in (Early \ {"socket"}) \cup Between => t.hs[g].fd = None /\ OwnedIn(t, g) = {t.hs[g].sock},
         t.hs[g].pc \in Late => t.hs[g].fd # None /\ OwnedIn(t, g) = {t.hs[g].fd},
         t.hs[g].pc = "map" => t.hs[g].fd \in t.rings
  PROVE  HandleInv(t)
<1>1. HandleOk(r, g) BY DEF HandleInv
<1>2. Leaves(t.hs[g]) <=> Leaves(r.hs[g]) BY DEF Leaves, Carries
<1>3. MemoryOk(t.hs[g]) BY DEF MemoryOk, Doing, Live
<1>4. ModesOk(t.hs[g]) BY <1>1 DEF HandleOk, ModesOk, Carries, Doing, Early, Live, Lost
<1>5. SocketsOk(t.hs[g], OwnedIn(t, g), t.rings) BY <1>2 DEF SocketsOk, Live
<1>6. ListingOk(t.hs[g], Contains(t.toclose, g), t.looped, g)
  BY <1>1 DEF HandleOk, ListingOk, Carries, Live, Doing
<1>7. HandleOk(t, g) BY <1>3, <1>4, <1>5, <1>6 DEF HandleOk
<1>8. Live(t.hs[g]) /\ ~Doing(r.hs[g], {"monup", "setmode", "bringup"}) BY DEF Live, Doing
<1>. QED BY <1>7, <1>8, GoesOn

(* A handle whose activation ends.                                         *)
LEMMA BecomesActive ==
  ASSUME NEW r, NEW t, NEW g \in Handles, HandleInv(r), r.stage = "running", r.hs[g].st = "activating",
         r.hs[g].pc \in Late, Carries(r, t, g),
         t.hs[g].st = "active", t.hs[g].cleanup \in {"linux", "mmap"}, t.hs[g].oldmode = "managed",
         Pointers(t.hs[g]), {"source", "device", "buffer"} \in SUBSET t.hs[g].mem,
         "oneshot" \in t.hs[g].mem <=> t.hs[g].cleanup = "mmap", g \in t.maps <=> t.hs[g].cleanup = "mmap",
         t.hs[g].fd # None, OwnedIn(t, g) = {t.hs[g].fd},
         t.hs[g].cleanup = "mmap" => t.hs[g].fd \in t.rings /\ t.hs[g].frames > 0
  PROVE  HandleInv(t)
<1>1. HandleOk(r, g) BY DEF HandleInv
<1>2. ~Leaves(t.hs[g])
  <2>1. ~Leaves(r.hs[g]) BY <1>1 DEF HandleOk, SocketsOk, Late
  <2>. QED BY <2>1 DEF Leaves, Carries
<1>3. MemoryOk(t.hs[g]) BY DEF MemoryOk, Doing, Live
<1>4. ModesOk(t.hs[g]) BY <1>1 DEF HandleOk, ModesOk, Carries, Doing, Live, Lost
<1>5. SocketsOk(t.hs[g], OwnedIn(t, g), t.rings) BY <1>2 DEF SocketsOk, Live
<1>6. ListingOk(t.hs[g], Contains(t.toclose, g), t.looped, g)
  BY <1>1 DEF HandleOk, ListingOk, Carries, Live, Doing
<1>7. HandleOk(t, g) BY <1>3, <1>4, <1>5, <1>6 DEF HandleOk
<1>8. Live(t.hs[g]) /\ ~Doing(r.hs[g], {"monup", "setmode", "bringup"}) BY DEF Live, Doing, Late
<1>. QED BY <1>7, <1>8, GoesOn

(* What is known of a handle during its activation.                        *)
LEMMA ActivatingFacts ==
  ASSUME NEW r, NEW g \in Handles, HandleInv(r), r.stage = "running", r.hs[g].st = "activating"
  PROVE  /\ Formed(r) /\ Typed(r) /\ HandleOk(r, g) /\ DeviceOk(r) /\ g \notin r.maps
         /\ {"any", "promisc", "rfmon", "buffer_size"} \in SUBSET DOMAIN r.hs[g].opt
         /\ r.hs[g].cleanup = "linux" /\ r.hs[g].oldmode = "managed"
         /\ Pointers(r.hs[g]) /\ "source" \in r.hs[g].mem /\ "device" \in r.hs[g].mem
         /\ "oneshot" \in r.hs[g].mem <=> r.hs[g].pc \in {"ring", "map"}
         /\ r.hs[g].pc \in {"socket", "old"} => r.hs[g].fd = None /\ (OwnedIn(r, g) = {} \/ Leaves(r.hs[g]))
         /\ r.hs[g].pc \notin {"socket", "old"} => ~Leaves(r.hs[g])
         /\ r.hs[g].pc \in (Early \ {"socket"}) \cup Between =>
              /\ r.hs[g].fd = None /\ OwnedIn(r, g) = {r.hs[g].sock} /\ r.hs[g].sock \in SocketsOf(g)
         /\ r.hs[g].pc \in Late => r.hs[g].fd # None /\ OwnedIn(r, g) = {r.hs[g].fd} /\ r.hs[g].fd \in SocketsOf(g)
<1>1. Formed(r) /\ Typed(r) /\ HandleOk(r, g) /\ DeviceOk(r) BY DEF HandleInv
<1>2. g \notin r.maps BY <1>1 DEF HandleOk
<1>3. {"any", "promisc", "rfmon", "buffer_size"} \in SUBSET DOMAIN r.hs[g].opt BY <1>1 DEF Typed
<1>4. /\ Pointers(r.hs[g]) /\ "source" \in r.hs[g].mem /\ "device" \in r.hs[g].mem
      /\ "oneshot" \in r.hs[g].mem <=> r.hs[g].pc \in {"ring", "map"}
  BY <1>1 DEF HandleOk, MemoryOk, Live, Doing
<1>5. r.hs[g].oldmode = "managed" BY <1>1 DEF HandleOk, ModesOk
<1>6. SocketsOk(r.hs[g], OwnedIn(r, g), r.rings) BY <1>1 DEF HandleOk
<1>7. /\ r.hs[g].cleanup = "linux"
      /\ r.hs[g].pc \in {"socket", "old"} => r.hs[g].fd = None /\ (OwnedIn(r, g) = {} \/ Leaves(r.hs[g]))
      /\ r.hs[g].pc \notin {"socket", "old"} => ~Leaves(r.hs[g])
      /\ r.hs[g].pc \in (Early \ {"socket"}) \cup Between => r.hs[g].fd = None /\ OwnedIn(r, g) = {r.hs[g].sock}
      /\ r.hs[g].pc \in Late => r.hs[g].fd # None /\ OwnedIn(r, g) = {r.hs[g].fd}
  BY <1>6 DEF SocketsOk
<1>8. OwnedIn(r, g) \in SUBSET SocketsOf(g) BY DEF OwnedIn
<1>. QED BY <1>1, <1>2, <1>3, <1>4, <1>5, <1>7, <1>8

(* Only the place in the activation differs.                               *)
LEMMA Moves ==
  ASSUME NEW r, NEW g \in Handles, HandleInv(r), r.stage = "running", r.hs[g].st = "activating",
         r.hs[g].pc \notin {"monup", "setmode", "bringup"}, NEW pc,
         pc \in (Early \cup Between \cup Late) \ {"socket", "monup", "ring", "map"},
         r.hs[g].pc \notin {"socket", "old", "ring", "map"},
         pc \in Early => r.hs[g].pc \in Early /\ r.hs[g].opt.rfmon,
         pc \in Late <=> r.hs[g].pc \in Late
  PROVE  HandleInv(Go(r, g, pc))
<1>. DEFINE t == Go(r, g, pc)
<1>1. Formed(r) BY ActivatingFacts
<1>2. Differ(r, t, g, {"pc"}, {}) /\ t.hs[g].pc = pc BY <1>1, GoDoes
<1>. HIDE DEF t
<1>3. /\ t.hs[g].st = r.hs[g].st /\ t.hs[g].cleanup = r.hs[g].cleanup /\ t.hs[g].oldmode = r.hs[g].oldmode
      /\ t.hs[g].mem = r.hs[g].mem /\ t.hs[g].ptr = r.hs[g].ptr /\ t.hs[g].twice = r.hs[g].twice
      /\ t.hs[g].fd = r.hs[g].fd /\ t.hs[g].sock = r.hs[g].sock /\ t.hs[g].opt = r.hs[g].opt
      /\ t.hs[g].must = r.hs[g].must /\ t.hs[g].broke = r.hs[g].broke /\ t.hs[g].mon = r.hs[g].mon
      /\ t.hs[g].wasup = r.hs[g].wasup
  BY <1>2 DEF Differ, HandleFields
<1>4. /\ t.toclose = r.toclose /\ t.looped = r.looped /\ t.stage = r.stage /\ t.dev = r.dev
      /\ t.open = r.open /\ t.rings = r.rings /\ t.maps = r.maps
  BY <1>2 DEF Differ, StateFields
<1>5. Carries(r, t, g) BY <1>2, <1>3, <1>4, ActivatingFacts DEF Carries, OwnOnly, Differ
<1>6. Pointers(t.hs[g])
  <2>1. ~t.hs[g].twice BY <1>3, ActivatingFacts DEF Pointers
  <2>. QED BY <1>3, <2>1, ActivatingFacts DEF Pointers
<1>7. OwnedIn(t, g) = OwnedIn(r, g) BY <1>4 DEF OwnedIn
<1>8. r.hs[g].pc \in Early \cup Between \cup Late \cup {"old"} BY ActivatingFacts DEF HandleOk, SocketsOk
<1>9. /\ pc \in (Early \ {"socket"}) \cup Between => r.hs[g].pc \in (Early \ {"socket"}) \cup Between
      /\ pc \in Early \cup Between \cup Late \cup {"old"} /\ pc \notin {"socket", "old", "ring", "map", "monup"}
  BY <1>8 DEF Early, Between, Late
<1>10. t.hs[g].pc \in (Early \ {"socket"}) \cup Between => t.hs[g].fd = None /\ OwnedIn(t, g) = {t.hs[g].sock}
  BY <1>2, <1>3, <1>7, <1>9, ActivatingFacts
<1>11. t.hs[g].pc \in Late => t.hs[g].fd # None /\ OwnedIn(t, g) = {t.hs[g].fd}
  BY <1>2, <1>3, <1>7, ActivatingFacts
<1>12. ~Leaves(r.hs[g]) /\ g \notin t.maps /\ "source" \in t.hs[g].mem /\ "device" \in t.hs[g].mem
  BY <1>3, <1>4, ActivatingFacts
<1>13. t.hs[g].st = "activating" /\ t.hs[g].cleanup = "linux" /\ t.hs[g].oldmode = "managed"
  BY <1>3, ActivatingFacts
<1>14. "oneshot" \in t.hs[g].mem <=> t.hs[g].pc \in {"ring", "map"} BY <1>2, <1>3, <1>9, ActivatingFacts
<1>. QED BY <1>2, <1>5, <1>6, <1>9, <1>10, <1>11, <1>12, <1>13, <1>14, StaysActivating DEF t

(* activate_old: the size of the buffer is taken from the MTU.             *)
LEMMA OldBufferKeeps ==
  ASSUME NEW g \in Handles, HandleInv(w), w.stage = "running", OldBuffer(g)
  PROVE  HandleInv(w')
<1>1. w.hs[g].st = "activating" /\ w.hs[g].pc = "mtu" BY DEF OldBuffer, In
<1>2. CASE w' = Go(w, g, "plain") BY <1>1, <1>2, Moves DEF Early, Between, Late
<1>3. CASE w' = Fail(Failing(w), g)
  <2>1. Differ(w, Failing(w), g, {}, {"faults"}) BY <1>1, FailingDoes, ActivatingFacts
  <2>. QED BY <1>1, <1>3, <2>1, FailsHere DEF Late
<1>. QED BY <1>2, <1>3 DEF OldBuffer

(* The handle is active.                                                   *)
LEMMA ActivatedDoes ==
  ASSUME NEW s, Formed(s), NEW g \in Handles, NEW t, t = Activated(s, g)
  PROVE  Differ(s, t, g, {"st", "pc", "sock"}, {}) /\ t.hs[g].st = "active"
<1>. DEFINE r == [s.hs[g] EXCEPT !.st = "active", !.pc = None, !.sock = None]
<1>1. t = [s EXCEPT !.hs[g] = r] BY DEF Activated
<1>2. DOMAIN s.hs[g] = HandleFields BY DEF Formed
<1>3. Same(s.hs[g], r, {"st", "pc", "sock"}) /\ r.st = "active" BY <1>2 DEF HandleFields, Same
<1>. HIDE DEF r
<1>4. Differ(s, t, g, {"st", "pc", "sock"}, {}) /\ t.hs[g] = r
  BY <1>1, <1>3 DEF Formed, HandleFields, StateFields, Differ, Same
<1>. QED BY <1>3, <1>4

(* Allocated memory has a pointer to it.                                   *)
LEMMA AllocPointers ==
  ASSUME NEW s, Formed(s), NEW g \in Handles, Pointers(s.hs[g]), NEW x \in Memory, NEW t, t = Alloc(s, g, x)
  PROVE  Pointers(t.hs[g])
<1>1. /\ Differ(s, t, g, {"mem", "ptr", "leaked"}, {})
      /\ t.hs[g].mem = s.hs[g].mem \cup {x} /\ t.hs[g].ptr = s.hs[g].ptr \cup {x}
  BY AllocDoes
<1>2. t.hs[g].twice = s.hs[g].twice BY <1>1 DEF Differ, HandleFields
<1>3. ~t.hs[g].twice BY <1>2 DEF Pointers
<1>. QED BY <1>1, <1>3 DEF Pointers

(* The pointers depend on memory and pointers only.                        *)
LEMMA PointersSame ==
  ASSUME NEW a, NEW b, Pointers(a), b.mem = a.mem, b.ptr = a.ptr, b.twice = a.twice
  PROVE  Pointers(b)
<1>1. ~b.twice BY DEF Pointers
<1>. QED BY <1>1 DEF Pointers

(* The fields and parts that a step without a word to the device changes.  *)
LEMMA CarriesOn ==
  ASSUME NEW r, NEW t, NEW g \in Handles, NEW F, NEW G, HandleInv(r), r.stage = "running",
         r.hs[g].st = "activating", Differ(r, t, g, F, G), OwnOnly(r, t, g),
         F \in SUBSET {"pc", "fd", "sock", "mem", "ptr", "leaked", "twice", "cooked", "version", "frames", "frame_size",
                       "montype", "oldmode", "st", "cleanup"},
         G \in SUBSET {"open", "rings", "maps", "faults"},
         r.hs[g].fd # None => t.hs[g].fd # None,
         "mondevice" \in r.hs[g].ptr => "mondevice" \in t.hs[g].ptr
  PROVE  Carries(r, t, g)
<1>1. /\ t.hs[g].opt = r.hs[g].opt /\ t.hs[g].must = r.hs[g].must /\ t.hs[g].broke = r.hs[g].broke
      /\ t.hs[g].mon = r.hs[g].mon /\ t.hs[g].wasup = r.hs[g].wasup
  BY DEF Differ, HandleFields
<1>2. t.toclose = r.toclose /\ t.looped = r.looped /\ t.stage = r.stage /\ t.dev = r.dev
  BY DEF Differ, StateFields
<1>. QED BY <1>1, <1>2, ActivatingFacts DEF Carries, Differ

(* Each step of an activation keeps the invariant: a handle without a ring *)
(* gets its buffer,                                                        *)
LEMMA PlainSocketKeeps ==
  ASSUME NEW g \in Handles, HandleInv(w), w.stage = "running", PlainSocket(g)
  PROVE  HandleInv(w')
<1>1. w.hs[g].st = "activating" /\ w.hs[g].pc = "plain" BY DEF PlainSocket, In
<1>2. CASE w' = Activated(Alloc(w, g, "buffer"), g)
  <2>. DEFINE s == Alloc(w, g, "buffer")
              t == Activated(s, g)
  <2>1. /\ Differ(w, s, g, {"mem", "ptr", "leaked"}, {}) /\ Pointers(s.hs[g])
        /\ s.hs[g].mem = w.hs[g].mem \cup {"buffer"} /\ s.hs[g].ptr = w.hs[g].ptr \cup {"buffer"}
    BY <1>1, ActivatingFacts, AllocDoes, AllocPointers DEF Memory
  <2>. HIDE DEF s
  <2>2. Differ(s, t, g, {"st", "pc", "sock"}, {}) /\ t.hs[g].st = "active"
    <3>1. Formed(s) BY <2>1 DEF Differ
    <3>. QED BY <3>1, ActivatedDoes
  <2>. HIDE DEF t
  <2>3. t.hs[g].mem = s.hs[g].mem /\ t.hs[g].ptr = s.hs[g].ptr /\ t.hs[g].twice = s.hs[g].twice
    BY <2>2 DEF Differ, HandleFields
  <2>4. /\ t.hs[g].fd = w.hs[g].fd /\ t.hs[g].cleanup = w.hs[g].cleanup /\ t.hs[g].oldmode = w.hs[g].oldmode
        /\ t.open = w.open /\ t.rings = w.rings /\ t.maps = w.maps
    BY <2>1, <2>2 DEF Differ, HandleFields, StateFields
  <2>5. Differ(w, t, g, {"mem", "ptr", "leaked", "st", "pc", "sock"}, {}) BY <2>1, <2>2 DEF Differ
  <2>6. OwnOnly(w, t, g) BY <2>4 DEF OwnOnly
  <2>7. Carries(w, t, g) BY <1>1, <2>1, <2>3, <2>4, <2>5, <2>6, CarriesOn
  <2>8. Pointers(t.hs[g]) BY <2>1, <2>3, PointersSame
  <2>9. OwnedIn(t, g) = OwnedIn(w, g) BY <2>4 DEF OwnedIn
  <2>. QED BY <1>1, <1>2, <2>1, <2>2, <2>3, <2>4, <2>7, <2>8, <2>9, ActivatingFacts, BecomesActive DEF Late, t, s
<1>3. CASE w' = Fail(Failing(w), g)
  <2>1. Differ(w, Failing(w), g, {}, {"faults"}) BY <1>1, FailingDoes, ActivatingFacts
  <2>. QED BY <1>1, <1>3, <2>1, FailsHere DEF Late
<1>. QED BY <1>2, <1>3 DEF PlainSocket

(* the socket is bound (iface_bind),                                       *)
LEMMA BindKeeps ==
  ASSUME NEW g \in Handles, HandleInv(w), w.stage = "running", Bind(g)
  PROVE  HandleInv(w')
<1>1. w.hs[g].st = "activating" /\ w.hs[g].pc = "bind" BY DEF Bind, In
<1>2. CASE w' = Go(w, g, "options") BY <1>1, <1>2, Moves DEF Early, Between, Late
<1>. DEFINE s == Failing(w)
<1>3. Differ(w, s, g, {}, {"faults"}) BY <1>1, FailingDoes, ActivatingFacts
<1>. HIDE DEF s
<1>4. CASE w' = CloseAndFail(s, g)
  <2>1. Differ(w, s, g, {}, {"faults", "dev"}) /\ s.dev = w.dev BY <1>3 DEF Differ, StateFields
  <2>. QED BY <1>1, <1>4, <2>1, ClosedHere DEF Between
<1>5. CASE w' = Go(CloseSocket(s, w.hs[g].sock), g, "old")
  <2>. DEFINE c == CloseSocket(s, w.hs[g].sock)
              t == Go(c, g, "old")
  <2>1. /\ Differ(s, c, g, {}, {"open", "rings"})
        /\ c.open = s.open \ {w.hs[g].sock} /\ c.rings = s.rings \ {w.hs[g].sock}
    <3>1. Formed(s) BY <1>3 DEF Differ
    <3>. QED BY <3>1, CloseSocketDoes
  <2>. HIDE DEF c
  <2>2. Differ(c, t, g, {"pc"}, {}) /\ t.hs[g].pc = "old"
    <3>1. Formed(c) BY <2>1 DEF Differ
    <3>. QED BY <3>1, GoDoes
  <2>. HIDE DEF t
  <2>3. Differ(w, t, g, {"pc"}, {"open", "rings", "faults"}) BY <1>3, <2>1, <2>2 DEF Differ
  <2>4. /\ t.hs[g].fd = w.hs[g].fd /\ t.hs[g].cleanup = w.hs[g].cleanup /\ t.hs[g].oldmode = w.hs[g].oldmode
        /\ t.hs[g].mem = w.hs[g].mem /\ t.hs[g].ptr = w.hs[g].ptr /\ t.hs[g].twice = w.hs[g].twice
        /\ t.hs[g].st = w.hs[g].st
    BY <2>3 DEF Differ, HandleFields
  <2>5. t.open = w.open \ {w.hs[g].sock} /\ t.rings = w.rings \ {w.hs[g].sock} /\ t.maps = w.maps
    BY <1>3, <2>1, <2>2 DEF Differ, StateFields
  <2>6. w.hs[g].sock \in SocketsOf(g) /\ OwnedIn(w, g) = {w.hs[g].sock} BY <1>1, ActivatingFacts DEF Between
  <2>7. OwnOnly(w, t, g) /\ OwnedIn(t, g) = {} BY <2>5, <2>6 DEF OwnOnly, OwnedIn
  <2>8. Carries(w, t, g) BY <1>1, <2>3, <2>4, <2>7, CarriesOn
  <2>9. Pointers(t.hs[g]) BY <1>1, <2>4, ActivatingFacts, PointersSame
  <2>10. t.hs[g].pc \in (Early \cup Between \cup Late \cup {"old"}) \ {"monup"} /\ "old" \notin Early \cup Between \cup Late
    BY <2>2 DEF Early, Between, Late
  <2>11. w.hs[g].fd = None BY <1>1, ActivatingFacts DEF Between
  <2>12. /\ t.hs[g].st = "activating" /\ t.hs[g].cleanup = "linux" /\ t.hs[g].oldmode = "managed"
         /\ "source" \in t.hs[g].mem /\ "device" \in t.hs[g].mem /\ "oneshot" \notin t.hs[g].mem /\ g \notin t.maps
    BY <1>1, <2>4, <2>5, ActivatingFacts
  <2>13. HandleInv(t) BY <1>1, <2>2, <2>4, <2>7, <2>8, <2>9, <2>10, <2>11, <2>12, StaysActivating
  <2>. QED BY <1>5, <2>13 DEF t, c
<1>. QED BY <1>2, <1>4, <1>5 DEF Bind, s

(* promiscuous membership and the options of the socket are set            *)
(* (activate_new),                                                         *)
LEMMA SocketOptionsKeeps ==
  ASSUME NEW g \in Handles, HandleInv(w), w.stage = "running", SocketOptions(g)
  PROVE  HandleInv(w')
<1>1. w.hs[g].st = "activating" /\ w.hs[g].pc = "options" BY DEF SocketOptions, In
<1>. DEFINE o == [w EXCEPT !.hs[g].fd = w.hs[g].sock, !.hs[g].sock = None]
<1>7. Formed(w) BY DEF HandleInv
<1>2. Differ(w, o, g, {"fd", "sock"}, {}) /\ o.hs[g].fd = w.hs[g].sock
  BY <1>7 DEF Formed, HandleFields, StateFields, Differ
<1>. HIDE DEF o
<1>3. /\ w.hs[g].sock \in SocketsOf(g) /\ w.hs[g].sock # None /\ OwnedIn(w, g) = {w.hs[g].sock}
      /\ w.hs[g].fd = None /\ ~Leaves(w.hs[g]) /\ Formed(o)
  <2>1. None \notin SocketsOf(g) BY HandleAssumption DEF SocketsOf
  <2>. QED BY <1>1, <1>2, <2>1, ActivatingFacts DEF Between, Differ
<1>4. CASE w' = Go(o, g, "mmap")
  <2>. DEFINE t == Go(o, g, "mmap")
  <2>1. Differ(o, t, g, {"pc"}, {}) /\ t.hs[g].pc = "mmap" BY <1>3, GoDoes
  <2>. HIDE DEF t
  <2>2. Differ(w, t, g, {"fd", "sock", "pc"}, {}) BY <1>2, <2>1 DEF Differ
  <2>3. /\ t.hs[g].cleanup = w.hs[g].cleanup /\ t.hs[g].oldmode = w.hs[g].oldmode /\ t.hs[g].st = w.hs[g].st
        /\ t.hs[g].mem = w.hs[g].mem /\ t.hs[g].ptr = w.hs[g].ptr /\ t.hs[g].twice = w.hs[g].twice
        /\ t.open = w.open /\ t.rings = w.rings /\ t.maps = w.maps
    BY <2>2 DEF Differ, HandleFields, StateFields
  <2>4. t.hs[g].fd = w.hs[g].sock BY <1>2, <2>1 DEF Differ, HandleFields
  <2>5. OwnOnly(w, t, g) /\ OwnedIn(t, g) = OwnedIn(w, g) BY <2>3 DEF OwnOnly, OwnedIn
  <2>6. Carries(w, t, g) BY <1>1, <1>3, <2>2, <2>3, <2>4, <2>5, CarriesOn
  <2>7. Pointers(t.hs[g]) BY <1>1, <2>3, ActivatingFacts, PointersSame
  <2>8. t.hs[g].pc \in Late /\ "mmap" \notin Early \cup Between BY <2>1 DEF Early, Between, Late
  <2>9. /\ t.hs[g].st = "activating" /\ t.hs[g].cleanup = "linux" /\ t.hs[g].oldmode = "managed"
        /\ "source" \in t.hs[g].mem /\ "device" \in t.hs[g].mem /\ "oneshot" \notin t.hs[g].mem /\ g \notin t.maps
    BY <1>1, <2>3, ActivatingFacts
  <2>10. HandleInv(t) BY <1>1, <1>3, <2>1, <2>4, <2>5, <2>6, <2>7, <2>8, <2>9, StaysActivating
  <2>. QED BY <1>4, <2>10 DEF t
<1>5. CASE w' = CloseAndFail(Failing(w), g)
  <2>1. Differ(w, Failing(w), g, {}, {"faults"}) BY <1>1, FailingDoes, ActivatingFacts
  <2>2. Differ(w, Failing(w), g, {}, {"faults", "dev"}) /\ Failing(w).dev = w.dev BY <2>1 DEF Differ, StateFields
  <2>. QED BY <1>1, <1>5, <2>2, ClosedHere DEF Between
<1>6. CASE w' = Fail(Failing(o), g)
  <2>. DEFINE s == Failing(o)
  <2>1. Differ(o, s, g, {}, {"faults"}) BY <1>3, FailingDoes
  <2>. HIDE DEF s
  <2>2. Differ(w, s, g, {"fd", "sock"}, {"faults"}) BY <1>2, <2>1 DEF Differ
  <2>3. /\ s.hs[g].mem = w.hs[g].mem /\ s.hs[g].ptr = w.hs[g].ptr /\ s.hs[g].twice = w.hs[g].twice
        /\ \A f \in {"st", "pc", "opt", "must", "mon", "oldmode", "broke", "wasup"} : s.hs[g][f] = w.hs[g][f]
    BY <2>2 DEF Differ, HandleFields
  <2>4. /\ s.toclose = w.toclose /\ s.looped = w.looped /\ s.stage = w.stage /\ s.maps = w.maps
        /\ s.open = w.open /\ s.rings = w.rings /\ s.dev = w.dev
    BY <2>2 DEF Differ, StateFields
  <2>5. s.hs[g].fd = w.hs[g].sock BY <1>2, <2>1 DEF Differ, HandleFields
  <2>6. Near(w, s, g) BY <1>3, <2>2, <2>3, <2>4 DEF Near, Differ, OwnOnly
  <2>7. Memories(s, g)
    <3>1. Pointers(s.hs[g]) BY <1>1, <2>3, ActivatingFacts, PointersSame
    <3>. QED BY <1>1, <2>3, <2>4, <3>1, ActivatingFacts DEF Memories
  <2>8. OwnedIn(s, g) = {s.hs[g].fd} BY <1>3, <2>4, <2>5 DEF OwnedIn
  <2>9. HandleInv(Fail(s, g)) BY <1>1, <1>3, <2>5, <2>6, <2>7, <2>8, FailAfter
  <2>. QED BY <1>6, <2>9 DEF s
<1>. QED BY <1>4, <1>5, <1>6 DEF SocketOptions, o

(* The oneshot buffer is freed, but not its pointer.                       *)
LEMMA OneshotFreed ==
  ASSUME NEW s, Formed(s), NEW g \in Handles, Pointers(s.hs[g]), "oneshot" \in s.hs[g].mem,
         NEW t, t = FreeOnly(s, g, "oneshot")
  PROVE  /\ Differ(s, t, g, {"mem", "twice"}, {}) /\ Pointers(t.hs[g])
         /\ t.hs[g].mem = s.hs[g].mem \ {"oneshot"} /\ t.hs[g].ptr = s.hs[g].ptr
<1>1. Differ(s, t, g, {"mem", "twice"}, {}) /\ ~t.hs[g].twice /\ t.hs[g].mem = s.hs[g].mem \ {"oneshot"}
  <2>1. ~s.hs[g].twice BY DEF Pointers
  <2>. QED BY <2>1, FreeOnlyDoes
<1>2. t.hs[g].ptr = s.hs[g].ptr BY <1>1 DEF Differ, HandleFields
<1>. QED BY <1>1, <1>2 DEF Pointers

(* A way out of the setting up of a ring: only the memory differs.         *)
LEMMA RingRefused ==
  ASSUME NEW r, NEW s, NEW g \in Handles, HandleInv(r), r.stage = "running", r.hs[g].st = "activating",
         r.hs[g].pc \in Late, Differ(r, s, g, {"mem", "ptr", "leaked", "twice"}, {"faults", "rings", "maps"}),
         OwnOnly(r, s, g), g \notin s.maps,
         Pointers(s.hs[g]), s.hs[g].mem = r.hs[g].mem \ {"oneshot"}, r.hs[g].ptr \in SUBSET s.hs[g].ptr
  PROVE  HandleInv(Fail(s, g))
<1>1. /\ s.hs[g].fd = r.hs[g].fd
      /\ \A f \in {"st", "pc", "opt", "must", "mon", "oldmode", "broke", "wasup"} : s.hs[g][f] = r.hs[g][f]
  BY DEF Differ, HandleFields
<1>2. /\ s.toclose = r.toclose /\ s.looped = r.looped /\ s.stage = r.stage /\ s.open = r.open /\ s.dev = r.dev
  BY DEF Differ, StateFields
<1>3. Near(r, s, g) BY <1>1, <1>2 DEF Near, Differ
<1>4. Memories(s, g) BY ActivatingFacts DEF Memories
<1>5. OwnedIn(s, g) = {s.hs[g].fd} /\ s.hs[g].fd \in SocketsOf(g)
  BY <1>1, <1>2, ActivatingFacts DEF OwnedIn
<1>. QED BY <1>3, <1>4, <1>5, FailAfter

(* the oneshot buffer is allocated and the ring sized (activate_mmap),     *)
LEMMA PrepareSocketKeeps ==
  ASSUME NEW g \in Handles, HandleInv(w), w.stage = "running", PrepareSocket(g)
  PROVE  HandleInv(w')
<1>1. w.hs[g].st = "activating" /\ w.hs[g].pc = "mmap" BY DEF PrepareSocket, In
<1>2. Formed(w) BY DEF HandleInv
<1>3. CASE w' = Fail(Failing(w), g)
  <2>1. Differ(w, Failing(w), g, {}, {"faults"}) BY <1>2, FailingDoes
  <2>. QED BY <1>1, <1>3, <2>1, FailsHere DEF Late
<1>. DEFINE s == Alloc(w, g, "oneshot")
<1>4. /\ Differ(w, s, g, {"mem", "ptr", "leaked"}, {}) /\ Pointers(s.hs[g])
      /\ s.hs[g].mem = w.hs[g].mem \cup {"oneshot"} /\ s.hs[g].ptr = w.hs[g].ptr \cup {"oneshot"}
  BY <1>1, ActivatingFacts, AllocDoes, AllocPointers DEF Memory
<1>. HIDE DEF s
<1>5. Formed(s) BY <1>4 DEF Differ
<1>6. CASE w' = Fail(FreeOnly(Failing(s), g, "oneshot"), g)
  <2>. DEFINE a == Failing(s)
              b == FreeOnly(a, g, "oneshot")
  <2>1. Differ(s, a, g, {}, {"faults"}) BY <1>5, FailingDoes
  <2>. HIDE DEF a
  <2>2. /\ Formed(a) /\ a.hs[g].mem = s.hs[g].mem /\ a.hs[g].ptr = s.hs[g].ptr /\ a.hs[g].twice = s.hs[g].twice
    BY <2>1 DEF Differ, HandleFields
  <2>3. Pointers(a.hs[g]) BY <1>4, <2>2, PointersSame
  <2>4. /\ Differ(a, b, g, {"mem", "twice"}, {}) /\ Pointers(b.hs[g])
        /\ b.hs[g].mem = a.hs[g].mem \ {"oneshot"} /\ b.hs[g].ptr = a.hs[g].ptr
    BY <1>4, <2>2, <2>3, OneshotFreed
  <2>. HIDE DEF b
  <2>5. Differ(w, b, g, {"mem", "ptr", "leaked", "twice"}, {"faults"}) BY <1>4, <2>1, <2>4 DEF Differ
  <2>10. Differ(w, b, g, {"mem", "ptr", "leaked", "twice"}, {"faults", "rings", "maps"}) BY <2>5 DEF Differ
  <2>6. b.open = w.open /\ b.rings = w.rings /\ b.maps = w.maps BY <2>5 DEF Differ, StateFields
  <2>7. OwnOnly(w, b, g) /\ g \notin b.maps BY <1>1, <2>6, ActivatingFacts DEF OwnOnly
  <2>8. b.hs[g].mem = w.hs[g].mem \ {"oneshot"} /\ w.hs[g].ptr \in SUBSET b.hs[g].ptr BY <1>4, <2>2, <2>4
  <2>9. HandleInv(Fail(b, g)) BY <1>1, <2>4, <2>10, <2>7, <2>8, RingRefused DEF Late
  <2>. QED BY <1>6, <2>9 DEF b, a
<1>7. ASSUME NEW version, NEW buffer, NEW size, w' = Go(SizeRing(s, g, version, buffer, size), g, "ring")
      PROVE  HandleInv(w')
  <2>. DEFINE opt == [s.hs[g].opt EXCEPT !.buffer_size = buffer]
              frames == buffer \div size
              r == [s.hs[g] EXCEPT !.opt = opt, !.version = version, !.frame_size = size, !.frames = frames]
              a == [s EXCEPT !.hs[g] = r]
              t == Go(a, g, "ring")
              F == {"opt", "version", "frame_size", "frames"}
  <2>1. /\ opt.any = w.hs[g].opt.any /\ opt.rfmon = w.hs[g].opt.rfmon
        /\ {"any", "promisc", "rfmon", "buffer_size"} \in SUBSET DOMAIN opt
    <3>1. {"any", "promisc", "rfmon", "buffer_size"} \in SUBSET DOMAIN w.hs[g].opt BY <1>1, ActivatingFacts
    <3>2. s.hs[g].opt = w.hs[g].opt BY <1>4 DEF Differ, HandleFields
    <3>. QED BY <3>1, <3>2
  <2>16. SizeRing(s, g, version, buffer, size) = a BY DEF SizeRing
  <2>. HIDE DEF opt, frames
  <2>2. Same(s.hs[g], r, F) /\ r.opt = opt BY <1>5 DEF Same, Formed, HandleFields
  <2>. HIDE DEF r
  <2>3. Differ(s, a, g, F, {}) /\ a.hs[g] = r
    BY <1>5, <2>2 DEF Formed, HandleFields, StateFields, Differ, Same
  <2>. HIDE DEF a
  <2>4. Differ(a, t, g, {"pc"}, {}) /\ t.hs[g].pc = "ring"
    <3>1. Formed(a) BY <2>3 DEF Differ
    <3>. QED BY <3>1, GoDoes
  <2>. HIDE DEF t
  <2>5. Differ(w, t, g, {"mem", "ptr", "leaked", "pc"} \cup F, {}) BY <1>4, <2>3, <2>4 DEF Differ
  <2>6. /\ t.hs[g].st = w.hs[g].st /\ t.hs[g].cleanup = w.hs[g].cleanup /\ t.hs[g].oldmode = w.hs[g].oldmode
        /\ t.hs[g].fd = w.hs[g].fd /\ t.hs[g].must = w.hs[g].must /\ t.hs[g].broke = w.hs[g].broke
        /\ t.hs[g].mon = w.hs[g].mon /\ t.hs[g].wasup = w.hs[g].wasup
    BY <2>5 DEF Differ, HandleFields
  <2>7. t.hs[g].mem = s.hs[g].mem /\ t.hs[g].ptr = s.hs[g].ptr /\ t.hs[g].twice = s.hs[g].twice
    BY <2>3, <2>4 DEF Differ, HandleFields
  <2>8. t.hs[g].opt = opt BY <2>2, <2>3, <2>4 DEF Differ, HandleFields
  <2>9. /\ t.toclose = w.toclose /\ t.looped = w.looped /\ t.stage = w.stage /\ t.dev = w.dev
        /\ t.open = w.open /\ t.rings = w.rings /\ t.maps = w.maps
    BY <2>5 DEF Differ, StateFields
  <2>10. OwnOnly(w, t, g) /\ OwnedIn(t, g) = OwnedIn(w, g) BY <2>9 DEF OwnOnly, OwnedIn
  <2>11. Carries(w, t, g) BY <1>4, <2>1, <2>5, <2>6, <2>7, <2>8, <2>9, <2>10 DEF Carries, Differ
  <2>12. Pointers(t.hs[g]) BY <1>4, <2>7, PointersSame
  <2>13. t.hs[g].pc \in Late /\ "ring" \notin Early \cup Between /\ w.hs[g].pc \in Late
    BY <1>1, <2>4 DEF Early, Between, Late
  <2>14. /\ t.hs[g].st = "activating" /\ t.hs[g].cleanup = "linux" /\ t.hs[g].oldmode = "managed"
         /\ "source" \in t.hs[g].mem /\ "device" \in t.hs[g].mem /\ "oneshot" \in t.hs[g].mem /\ g \notin t.maps
         /\ t.hs[g].fd # None /\ OwnedIn(t, g) = {t.hs[g].fd} /\ ~Leaves(w.hs[g])
    BY <1>1, <1>4, <2>6, <2>7, <2>9, <2>10, <2>13, ActivatingFacts
  <2>15. HandleInv(t) BY <1>1, <2>4, <2>11, <2>12, <2>13, <2>14, StaysActivating
  <2>. QED BY <1>7, <2>15, <2>16 DEF t
<1>. QED BY <1>3, <1>6, <1>7 DEF PrepareSocket, s

(* the ring is asked for, with fewer frames as long as memory is short     *)
(* (create_ring),                                                          *)
LEMMA CreateRingKeeps ==
  ASSUME NEW g \in Handles, HandleInv(w), w.stage = "running", CreateRing(g)
  PROVE  HandleInv(w')
<1>1. /\ w.hs[g].st = "activating" /\ w.hs[g].pc = "ring" /\ w.hs[g].pc \in Late
      /\ {"plain", "ring", "map"} \in SUBSET Late /\ {"plain", "ring", "map"} \cap (Early \cup Between) = {}
  BY DEF CreateRing, In, Early, Between, Late
<1>2. Formed(w) BY DEF HandleInv
<1>. DEFINE x == FreeOnly(w, g, "oneshot")
<1>3. /\ Differ(w, x, g, {"mem", "twice"}, {}) /\ Pointers(x.hs[g])
      /\ x.hs[g].mem = w.hs[g].mem \ {"oneshot"} /\ x.hs[g].ptr = w.hs[g].ptr
  BY <1>1, ActivatingFacts, OneshotFreed
<1>. HIDE DEF x
<1>4. Formed(x) BY <1>3 DEF Differ
<1>5. ASSUME NEW frames, w' = [Failing(w) EXCEPT !.hs[g].frames = frames] PROVE HandleInv(w')
  <2>. DEFINE a == Failing(w)
              t == [a EXCEPT !.hs[g].frames = frames]
  <2>1. Differ(w, a, g, {}, {"faults"}) BY <1>2, FailingDoes
  <2>. HIDE DEF a
  <2>2. Formed(a) BY <2>1 DEF Differ
  <2>3. Differ(a, t, g, {"frames"}, {}) BY <2>2 DEF Formed, HandleFields, StateFields, Differ
  <2>. HIDE DEF t
  <2>4. Differ(w, t, g, {"frames"}, {"faults"}) BY <2>1, <2>3 DEF Differ
  <2>5. /\ t.hs[g].st = w.hs[g].st /\ t.hs[g].cleanup = w.hs[g].cleanup /\ t.hs[g].oldmode = w.hs[g].oldmode
        /\ t.hs[g].fd = w.hs[g].fd /\ t.hs[g].pc = w.hs[g].pc
        /\ t.hs[g].mem = w.hs[g].mem /\ t.hs[g].ptr = w.hs[g].ptr /\ t.hs[g].twice = w.hs[g].twice
    BY <2>4 DEF Differ, HandleFields
  <2>6. t.open = w.open /\ t.rings = w.rings /\ t.maps = w.maps BY <2>4 DEF Differ, StateFields
  <2>7. OwnOnly(w, t, g) /\ OwnedIn(t, g) = OwnedIn(w, g) BY <2>6 DEF OwnOnly, OwnedIn
  <2>8. Carries(w, t, g) BY <1>1, <2>4, <2>5, <2>7, CarriesOn
  <2>9. Pointers(t.hs[g]) BY <1>1, <2>5, ActivatingFacts, PointersSame
  <2>10. /\ t.hs[g].st = "activating" /\ t.hs[g].cleanup = "linux" /\ t.hs[g].oldmode = "managed"
         /\ "source" \in t.hs[g].mem /\ "device" \in t.hs[g].mem /\ "oneshot" \in t.hs[g].mem /\ g \notin t.maps
         /\ t.hs[g].fd # None /\ OwnedIn(t, g) = {t.hs[g].fd} /\ ~Leaves(w.hs[g])
    BY <1>1, <2>5, <2>6, <2>7, ActivatingFacts
  <2>11. HandleInv(t) BY <1>1, <2>5, <2>8, <2>9, <2>10, StaysActivating
  <2>. QED BY <1>5, <2>11 DEF t, a
<1>6. CASE w' = Go(x, g, "plain")
  <2>. DEFINE t == Go(x, g, "plain")
  <2>1. Differ(x, t, g, {"pc"}, {}) /\ t.hs[g].pc = "plain" BY <1>4, GoDoes
  <2>. HIDE DEF t
  <2>2. Differ(w, t, g, {"mem", "twice", "pc"}, {}) BY <1>3, <2>1 DEF Differ
  <2>3. /\ t.hs[g].st = w.hs[g].st /\ t.hs[g].cleanup = w.hs[g].cleanup /\ t.hs[g].oldmode = w.hs[g].oldmode
        /\ t.hs[g].fd = w.hs[g].fd
    BY <2>2 DEF Differ, HandleFields
  <2>4. t.hs[g].mem = x.hs[g].mem /\ t.hs[g].ptr = x.hs[g].ptr /\ t.hs[g].twice = x.hs[g].twice
    BY <2>1 DEF Differ, HandleFields
  <2>5. t.open = w.open /\ t.rings = w.rings /\ t.maps = w.maps BY <2>2 DEF Differ, StateFields
  <2>6. OwnOnly(w, t, g) /\ OwnedIn(t, g) = OwnedIn(w, g) BY <2>5 DEF OwnOnly, OwnedIn
  <2>7. Carries(w, t, g) BY <1>1, <1>3, <2>2, <2>3, <2>4, <2>6, CarriesOn
  <2>8. Pointers(t.hs[g]) BY <1>3, <2>4, PointersSame
  <2>9. /\ t.hs[g].st = "activating" /\ t.hs[g].cleanup = "linux" /\ t.hs[g].oldmode = "managed"
        /\ "source" \in t.hs[g].mem /\ "device" \in t.hs[g].mem /\ "oneshot" \notin t.hs[g].mem /\ g \notin t.maps
        /\ t.hs[g].fd # None /\ OwnedIn(t, g) = {t.hs[g].fd} /\ ~Leaves(w.hs[g])
    BY <1>1, <1>3, <2>3, <2>4, <2>5, <2>6, ActivatingFacts
  <2>10. HandleInv(t) BY <1>1, <2>1, <2>7, <2>8, <2>9, StaysActivating
  <2>. QED BY <1>6, <2>10 DEF t
<1>7. CASE w' = Fail(Failing(x), g)
  <2>. DEFINE b == Failing(x)
  <2>1. Differ(x, b, g, {}, {"faults"}) BY <1>4, FailingDoes
  <2>. HIDE DEF b
  <2>2. Differ(w, b, g, {"mem", "twice"}, {"faults"}) BY <1>3, <2>1 DEF Differ
  <2>8. Differ(w, b, g, {"mem", "ptr", "leaked", "twice"}, {"faults", "rings", "maps"}) BY <2>2 DEF Differ
  <2>3. b.hs[g].mem = x.hs[g].mem /\ b.hs[g].ptr = x.hs[g].ptr /\ b.hs[g].twice = x.hs[g].twice
    BY <2>1 DEF Differ, HandleFields
  <2>4. b.open = w.open /\ b.rings = w.rings /\ b.maps = w.maps BY <2>2 DEF Differ, StateFields
  <2>5. OwnOnly(w, b, g) /\ g \notin b.maps BY <1>1, <2>4, ActivatingFacts DEF OwnOnly
  <2>6. Pointers(b.hs[g]) BY <1>3, <2>3, PointersSame
  <2>7. HandleInv(Fail(b, g)) BY <1>1, <1>3, <2>8, <2>3, <2>5, <2>6, RingRefused
  <2>. QED BY <1>7, <2>7 DEF b
<1>8. ASSUME NEW frames, w' = Go([w EXCEPT !.hs[g].frames = frames, !.rings = @ \cup {w.hs[g].fd}], g, "map")
      PROVE  HandleInv(w')
  <2>. DEFINE a == [w EXCEPT !.hs[g].frames = frames, !.rings = @ \cup {w.hs[g].fd}]
              t == Go(a, g, "map")
  <2>1. Differ(w, a, g, {"frames"}, {"rings"}) /\ a.rings = w.rings \cup {w.hs[g].fd}
    BY <1>2 DEF Formed, HandleFields, StateFields, Differ
  <2>. HIDE DEF a
  <2>2. Differ(a, t, g, {"pc"}, {}) /\ t.hs[g].pc = "map"
    <3>1. Formed(a) BY <2>1 DEF Differ
    <3>. QED BY <3>1, GoDoes
  <2>. HIDE DEF t
  <2>3. Differ(w, t, g, {"frames", "pc"}, {"rings"}) BY <2>1, <2>2 DEF Differ
  <2>4. /\ t.hs[g].st = w.hs[g].st /\ t.hs[g].cleanup = w.hs[g].cleanup /\ t.hs[g].oldmode = w.hs[g].oldmode
        /\ t.hs[g].fd = w.hs[g].fd
        /\ t.hs[g].mem = w.hs[g].mem /\ t.hs[g].ptr = w.hs[g].ptr /\ t.hs[g].twice = w.hs[g].twice
    BY <2>3 DEF Differ, HandleFields
  <2>5. t.open = w.open /\ t.rings = w.rings \cup {w.hs[g].fd} /\ t.maps = w.maps
    BY <2>1, <2>2 DEF Differ, StateFields
  <2>6. w.hs[g].fd \in SocketsOf(g) BY <1>1, ActivatingFacts
  <2>7. OwnOnly(w, t, g) /\ OwnedIn(t, g) = OwnedIn(w, g) BY <2>5, <2>6 DEF OwnOnly, OwnedIn
  <2>8. Carries(w, t, g) BY <1>1, <2>3, <2>4, <2>7, CarriesOn
  <2>9. Pointers(t.hs[g]) BY <1>1, <2>4, ActivatingFacts, PointersSame
  <2>10. /\ t.hs[g].st = "activating" /\ t.hs[g].cleanup = "linux" /\ t.hs[g].oldmode = "managed"
         /\ "source" \in t.hs[g].mem /\ "device" \in t.hs[g].mem /\ "oneshot" \in t.hs[g].mem /\ g \notin t.maps
         /\ t.hs[g].fd # None /\ OwnedIn(t, g) = {t.hs[g].fd} /\ ~Leaves(w.hs[g]) /\ t.hs[g].fd \in t.rings
    BY <1>1, <2>4, <2>5, <2>7, ActivatingFacts
  <2>11. HandleInv(t) BY <1>1, <2>2, <2>8, <2>9, <2>10, StaysActivating
  <2>. QED BY <1>8, <2>11 DEF t, a
<1>. QED BY <1>5, <1>6, <1>7, <1>8 DEF CreateRing, x

(* destroy_ring gives ring and mapping back.                               *)
LEMMA DestroyDoes ==
  ASSUME NEW s, Formed(s), NEW g \in Handles, NEW t, t = destroy_ring(s, g)
  PROVE  Differ(s, t, g, {}, {"rings", "maps"}) /\ t.rings = s.rings \ {s.hs[g].fd} /\ t.maps = s.maps \ {g}
BY DEF destroy_ring, Formed, HandleFields, StateFields, Differ

(* The ring cannot be mapped, or its table of frames cannot be filled.     *)
LEMMA MapRefused ==
  ASSUME NEW r, NEW s, NEW g \in Handles, HandleInv(r), r.stage = "running", r.hs[g].st = "activating",
         r.hs[g].pc = "map", Differ(r, s, g, {}, {"faults", "maps"}),
         \A e \in Handles : e # g => (e \in s.maps <=> e \in r.maps)
  PROVE  HandleInv(Fail(FreeOnly(destroy_ring(s, g), g, "oneshot"), g))
<1>. DEFINE a == destroy_ring(s, g)
            b == FreeOnly(a, g, "oneshot")
<1>1. Formed(s) BY DEF Differ
<1>2. Differ(s, a, g, {}, {"rings", "maps"}) /\ a.rings = s.rings \ {s.hs[g].fd} /\ a.maps = s.maps \ {g}
  BY <1>1, DestroyDoes
<1>. HIDE DEF a
<1>3. Differ(r, a, g, {}, {"faults", "rings", "maps"}) BY <1>2 DEF Differ
<1>4. /\ Formed(a) /\ a.hs[g].mem = r.hs[g].mem /\ a.hs[g].ptr = r.hs[g].ptr /\ a.hs[g].twice = r.hs[g].twice
  BY <1>3 DEF Differ, HandleFields
<1>5. Pointers(a.hs[g]) BY <1>4, ActivatingFacts, PointersSame
<1>6. /\ Differ(a, b, g, {"mem", "twice"}, {}) /\ Pointers(b.hs[g])
      /\ b.hs[g].mem = a.hs[g].mem \ {"oneshot"} /\ b.hs[g].ptr = a.hs[g].ptr
  <2>1. "oneshot" \in a.hs[g].mem BY <1>4, ActivatingFacts
  <2>. QED BY <1>4, <1>5, <2>1, OneshotFreed
<1>. HIDE DEF b
<1>7. Differ(r, b, g, {"mem", "ptr", "leaked", "twice"}, {"faults", "rings", "maps"}) BY <1>3, <1>6 DEF Differ
<1>8. b.open = r.open /\ b.rings = a.rings /\ b.maps = a.maps /\ s.rings = r.rings /\ s.hs[g].fd = r.hs[g].fd
  BY <1>3, <1>6 DEF Differ, StateFields, HandleFields
<1>9. r.hs[g].fd \in SocketsOf(g) /\ r.hs[g].pc \in Late BY ActivatingFacts DEF Late
<1>10. OwnOnly(r, b, g) /\ g \notin b.maps BY <1>2, <1>8, <1>9 DEF OwnOnly
<1>11. HandleInv(Fail(b, g)) BY <1>4, <1>6, <1>7, <1>9, <1>10, RingRefused
<1>. QED BY <1>11 DEF b, a

(* The ring is mapped, and the handle will be closed by the ring from now  *)
(* on (create_ring).                                                       *)
LEMMA MapRingKeeps ==
  ASSUME NEW g \in Handles, HandleInv(w), w.stage = "running", MapRing(g)
  PROVE  HandleInv(w')
<1>1. w.hs[g].st = "activating" /\ w.hs[g].pc = "map" /\ w.hs[g].pc \in Late BY DEF MapRing, In, Late
<1>2. Formed(w) BY DEF HandleInv
<1>3. CASE /\ w.hs[g].frames > 0
           /\ w' = Activated(Alloc([w EXCEPT !.maps = @ \cup {g}, !.hs[g].cleanup = "mmap"], g, "buffer"), g)
  <2>. DEFINE a == [w EXCEPT !.maps = @ \cup {g}, !.hs[g].cleanup = "mmap"]
              s == Alloc(a, g, "buffer")
              t == Activated(s, g)
  <2>1. Differ(w, a, g, {"cleanup"}, {"maps"}) /\ a.maps = w.maps \cup {g} /\ a.hs[g].cleanup = "mmap"
    BY <1>2 DEF Formed, HandleFields, StateFields, Differ
  <2>. HIDE DEF a
  <2>2. Formed(a) /\ a.hs[g].mem = w.hs[g].mem /\ a.hs[g].ptr = w.hs[g].ptr /\ a.hs[g].twice = w.hs[g].twice
    BY <2>1 DEF Differ, HandleFields
  <2>3. Pointers(a.hs[g]) BY <1>1, <2>2, ActivatingFacts, PointersSame
  <2>4. /\ Differ(a, s, g, {"mem", "ptr", "leaked"}, {}) /\ Pointers(s.hs[g])
        /\ s.hs[g].mem = a.hs[g].mem \cup {"buffer"} /\ s.hs[g].ptr = a.hs[g].ptr \cup {"buffer"}
    BY <2>2, <2>3, AllocDoes, AllocPointers DEF Memory
  <2>. HIDE DEF s
  <2>5. Differ(s, t, g, {"st", "pc", "sock"}, {}) /\ t.hs[g].st = "active"
    <3>1. Formed(s) BY <2>4 DEF Differ
    <3>. QED BY <3>1, ActivatedDoes
  <2>. HIDE DEF t
  <2>6. t.hs[g].mem = s.hs[g].mem /\ t.hs[g].ptr = s.hs[g].ptr /\ t.hs[g].twice = s.hs[g].twice
    BY <2>5 DEF Differ, HandleFields
  <2>7. /\ t.hs[g].fd = w.hs[g].fd /\ t.hs[g].oldmode = w.hs[g].oldmode /\ t.hs[g].frames = w.hs[g].frames
        /\ t.hs[g].cleanup = "mmap" /\ t.open = w.open /\ t.rings = w.rings /\ t.maps = w.maps \cup {g}
    BY <2>1, <2>4, <2>5 DEF Differ, HandleFields, StateFields
  <2>8. Differ(w, t, g, {"cleanup", "mem", "ptr", "leaked", "st", "pc", "sock"}, {"maps"}) BY <2>1, <2>4, <2>5 DEF Differ
  <2>9. OwnOnly(w, t, g) /\ OwnedIn(t, g) = OwnedIn(w, g) BY <2>7 DEF OwnOnly, OwnedIn
  <2>10. Carries(w, t, g) BY <1>1, <2>2, <2>4, <2>6, <2>7, <2>8, <2>9, CarriesOn
  <2>11. Pointers(t.hs[g]) BY <2>4, <2>6, PointersSame
  <2>12. w.hs[g].fd \in w.rings BY <1>1, ActivatingFacts DEF HandleOk, SocketsOk
  <2>13. /\ {"source", "device", "buffer"} \in SUBSET t.hs[g].mem /\ "oneshot" \in t.hs[g].mem
         /\ t.hs[g].fd # None /\ OwnedIn(t, g) = {t.hs[g].fd} /\ t.hs[g].oldmode = "managed"
    BY <1>1, <2>2, <2>4, <2>6, <2>7, <2>9, ActivatingFacts
  <2>14. HandleInv(t) BY <1>1, <1>3, <2>5, <2>7, <2>10, <2>11, <2>12, <2>13, BecomesActive
  <2>. QED BY <1>3, <2>14 DEF t, s, a
<1>4. CASE w' = Fail(FreeOnly(destroy_ring(w, g), g, "oneshot"), g)
  <2>1. Differ(w, w, g, {}, {"faults", "maps"}) BY <1>2 DEF Differ
  <2>. QED BY <1>1, <1>4, <2>1, MapRefused
<1>. DEFINE s == Failing(w)
<1>5. Differ(w, s, g, {}, {"faults"}) BY <1>2, FailingDoes
<1>. HIDE DEF s
<1>6. Formed(s) /\ s.maps = w.maps BY <1>5 DEF Differ, StateFields
<1>7. CASE w' = Fail(FreeOnly(destroy_ring(s, g), g, "oneshot"), g)
  <2>1. Differ(w, s, g, {}, {"faults", "maps"}) BY <1>5 DEF Differ
  <2>. QED BY <1>1, <1>6, <1>7, <2>1, MapRefused
<1>8. CASE w' = Fail(FreeOnly(destroy_ring([s EXCEPT !.maps = @ \cup {g}], g), g, "oneshot"), g)
  <2>. DEFINE a == [s EXCEPT !.maps = @ \cup {g}]
  <2>1. Differ(s, a, g, {}, {"maps"}) /\ a.maps = s.maps \cup {g}
    BY <1>6 DEF Formed, HandleFields, StateFields, Differ
  <2>. HIDE DEF a
  <2>2. Differ(w, a, g, {}, {"faults", "maps"}) BY <1>5, <2>1 DEF Differ
  <2>3. \A e \in Handles : e # g => (e \in a.maps <=> e \in w.maps) BY <1>6, <2>1
  <2>4. HandleInv(Fail(FreeOnly(destroy_ring(a, g), g, "oneshot"), g)) BY <1>1, <2>2, <2>3, MapRefused
  <2>. QED BY <1>8, <2>4 DEF a
<1>. QED BY <1>3, <1>4, <1>7, <1>8 DEF MapRing, s

(* A socket is opened.                                                     *)
LEMMA Opened ==
  ASSUME NEW s, Formed(s), NEW g \in Handles, NEW kind \in {"packet", "cooked", "old"},
         NEW t, t = OpenSocket(s, g, kind)
  PROVE  /\ Differ(s, t, g, {"sock"}, {"open"}) /\ OwnOnly(s, t, g) /\ t.open = s.open \cup {t.hs[g].sock}
         /\ OwnedIn(t, g) = OwnedIn(s, g) \cup {t.hs[g].sock}
         /\ t.hs[g].sock \in SocketsOf(g) /\ t.hs[g].sock # None
<1>1. /\ Differ(s, t, g, {"sock"}, {"open"}) /\ t.open = s.open \cup {<<g, kind>>} /\ t.hs[g].sock = <<g, kind>>
  BY OpenSocketDoes
<1>2. t.rings = s.rings /\ t.maps = s.maps BY <1>1 DEF Differ, StateFields
<1>3. <<g, kind>> \in SocketsOf(g) BY DEF SocketsOf
<1>4. <<g, kind>> # None BY HandleAssumption
<1>. QED BY <1>1, <1>2, <1>3, <1>4 DEF OwnOnly, OwnedIn

(* The handle goes on with its activation, with these of its fields changed. *)
LEMMA Resumes ==
  ASSUME NEW r, NEW t, NEW g \in Handles, HandleInv(r), r.stage = "running", r.hs[g].st = "activating",
         r.hs[g].pc \notin {"monup", "setmode", "bringup"}, NEW F, NEW G, Differ(r, t, g, F, G), OwnOnly(r, t, g),
         F \in SUBSET {"pc", "fd", "sock", "mem", "ptr", "leaked", "twice", "cooked", "montype"},
         G \in SUBSET {"open", "rings", "faults"},
         Pointers(t.hs[g]), {"source", "device"} \in SUBSET t.hs[g].mem, "oneshot" \notin t.hs[g].mem,
         r.hs[g].fd # None => t.hs[g].fd # None,
         "mondevice" \in r.hs[g].ptr => "mondevice" \in t.hs[g].ptr,
         t.hs[g].pc \in (Early \cup Between \cup Late \cup {"old"}) \ {"socket", "monup", "ring", "map"},
         t.hs[g].pc \in Early => r.hs[g].pc \in Early /\ r.hs[g].opt.rfmon,
         t.hs[g].pc # "old" => ~Leaves(r.hs[g]),
         t.hs[g].pc = "old" => t.hs[g].fd = None /\ (OwnedIn(t, g) = {} \/ Leaves(r.hs[g])),
         t.hs[g].pc \in Early \cup Between => t.hs[g].fd = None /\ OwnedIn(t, g) = {t.hs[g].sock},
         t.hs[g].pc \in Late => t.hs[g].fd # None /\ OwnedIn(t, g) = {t.hs[g].fd}
  PROVE  HandleInv(t)
<1>1. /\ t.hs[g].st = r.hs[g].st /\ t.hs[g].cleanup = r.hs[g].cleanup /\ t.hs[g].oldmode = r.hs[g].oldmode
      /\ t.maps = r.maps
  BY DEF Differ, HandleFields, StateFields
<1>2. Carries(r, t, g) BY CarriesOn
<1>3. /\ t.hs[g].st = "activating" /\ t.hs[g].cleanup = "linux" /\ t.hs[g].oldmode = "managed" /\ g \notin t.maps
  BY <1>1, ActivatingFacts
<1>. QED BY <1>2, <1>3, StaysActivating

(* The handle is set to cooked mode.                                       *)
LEMMA CookedDoes ==
  ASSUME NEW s, Formed(s), NEW g \in Handles, NEW c, NEW t, t = [s EXCEPT !.hs[g].cooked = c]
  PROVE  Differ(s, t, g, {"cooked"}, {})
BY DEF Formed, HandleFields, StateFields, Differ

(* The socket is opened, and kept open on the any device that cannot be    *)
(* monitored (activate_new).                                               *)
LEMMA OpenSocketKeeps ==
  ASSUME NEW g \in Handles, HandleInv(w), w.stage = "running", Socket(g)
  PROVE  HandleInv(w')
<1>1. w.hs[g].st = "activating" /\ w.hs[g].pc = "socket" BY DEF Socket, In
<1>2. Formed(w) BY DEF HandleInv
<1>. DEFINE way == IF Opt(g).any THEN "cooked" ELSE "packet"
            s == OpenSocket(w, g, way)
<1>3. way \in {"packet", "cooked", "old"} OBVIOUS
<1>. HIDE DEF way
<1>4. /\ Differ(w, s, g, {"sock"}, {"open"}) /\ OwnOnly(w, s, g)
      /\ OwnedIn(s, g) = OwnedIn(w, g) \cup {s.hs[g].sock}
  BY <1>2, <1>3, Opened
<1>. HIDE DEF s
<1>5. /\ w.hs[g].fd = None /\ (OwnedIn(w, g) = {} \/ Leaves(w.hs[g])) /\ Formed(s) /\ Pointers(w.hs[g])
      /\ {"source", "device"} \in SUBSET w.hs[g].mem /\ "oneshot" \notin w.hs[g].mem /\ g \notin w.maps
  BY <1>1, <1>4, ActivatingFacts DEF Differ
<1>6. /\ s.hs[g].fd = w.hs[g].fd /\ s.hs[g].mem = w.hs[g].mem /\ s.hs[g].ptr = w.hs[g].ptr
      /\ s.hs[g].twice = w.hs[g].twice /\ s.hs[g].opt = w.hs[g].opt
      /\ \A f \in {"st", "pc", "opt", "must", "mon", "oldmode", "broke", "wasup"} : s.hs[g][f] = w.hs[g][f]
  BY <1>4 DEF Differ, HandleFields
<1>7. CASE Leaves(w.hs[g]) /\ w' = Fail(s, g)
  <2>1. s.toclose = w.toclose /\ s.looped = w.looped /\ s.stage = w.stage /\ s.dev = w.dev /\ s.maps = w.maps
    BY <1>4 DEF Differ, StateFields
  <2>2. Near(w, s, g) BY <1>4, <1>6, <2>1 DEF Near, Differ
  <2>3. Memories(s, g)
    <3>1. Pointers(s.hs[g]) BY <1>5, <1>6, PointersSame
    <3>. QED BY <1>5, <1>6, <2>1, <3>1 DEF Memories
  <2>4. Leaves(s.hs[g]) BY <1>6, <1>7 DEF Leaves
  <2>. QED BY <1>1, <1>5, <1>6, <1>7, <2>2, <2>3, <2>4, FailAfter
<1>8. ASSUME NEW u, NEW pc \in {"options", "mac80211", "arptype"}, w' = Go(u, g, pc), ~Leaves(w.hs[g]),
             pc = "mac80211" => w.hs[g].opt.rfmon, Differ(s, u, g, {"cooked"}, {})
      PROVE  HandleInv(w')
  <2>. DEFINE t == Go(u, g, pc)
  <2>1. Differ(u, t, g, {"pc"}, {}) /\ t.hs[g].pc = pc
    <3>1. Formed(u) BY <1>8 DEF Differ
    <3>. QED BY <3>1, GoDoes
  <2>. HIDE DEF t
  <2>2. Differ(w, t, g, {"sock", "cooked", "pc"}, {"open"}) BY <1>4, <1>8, <2>1 DEF Differ
  <2>3. Differ(s, t, g, {"cooked", "pc"}, {}) BY <1>8, <2>1 DEF Differ
  <2>4. /\ t.hs[g].sock = s.hs[g].sock /\ t.hs[g].fd = s.hs[g].fd /\ t.hs[g].mem = s.hs[g].mem
        /\ t.hs[g].ptr = s.hs[g].ptr /\ t.hs[g].twice = s.hs[g].twice
        /\ t.open = s.open /\ t.rings = s.rings /\ t.maps = s.maps
    BY <2>3 DEF Differ, HandleFields, StateFields
  <2>5. OwnOnly(w, t, g) /\ OwnedIn(t, g) = {t.hs[g].sock} BY <1>4, <1>5, <1>8, <2>4 DEF OwnOnly, OwnedIn
  <2>6. Pointers(t.hs[g]) BY <1>5, <1>6, <2>4, PointersSame
  <2>7. pc \in (Early \ {"socket", "monup"}) \cup Between /\ pc \notin Late /\ (pc \in Early => pc = "mac80211")
        /\ w.hs[g].pc \in Early
    BY <1>1, <1>8 DEF Early, Between, Late
  <2>8. /\ t.hs[g].pc # "old" /\ t.hs[g].pc \notin {"ring", "map"} /\ t.hs[g].fd = None
        /\ {"source", "device"} \in SUBSET t.hs[g].mem /\ "oneshot" \notin t.hs[g].mem
        /\ "mondevice" \in w.hs[g].ptr => "mondevice" \in t.hs[g].ptr
    BY <1>5, <1>6, <1>8, <2>1, <2>4
  <2>9. HandleInv(t) BY <1>1, <1>5, <1>8, <2>1, <2>2, <2>5, <2>6, <2>7, <2>8, Resumes
  <2>. QED BY <1>8, <2>9 DEF t
<1>9. CASE w' = Go(w, g, "old")
  <2>. DEFINE t == Go(w, g, "old")
  <2>1. Differ(w, t, g, {"pc"}, {}) /\ t.hs[g].pc = "old" BY <1>2, GoDoes
  <2>. HIDE DEF t
  <2>2. /\ t.hs[g].fd = w.hs[g].fd /\ t.hs[g].mem = w.hs[g].mem
        /\ t.hs[g].ptr = w.hs[g].ptr /\ t.hs[g].twice = w.hs[g].twice
        /\ t.open = w.open /\ t.rings = w.rings /\ t.maps = w.maps
    BY <2>1 DEF Differ, HandleFields, StateFields
  <2>3. OwnOnly(w, t, g) /\ OwnedIn(t, g) = OwnedIn(w, g) BY <2>2 DEF OwnOnly, OwnedIn
  <2>4. Pointers(t.hs[g]) BY <1>5, <2>2, PointersSame
  <2>5. "old" \notin Early \cup Between \cup Late BY DEF Early, Between, Late
  <2>6. HandleInv(t) BY <1>1, <1>5, <2>1, <2>2, <2>3, <2>4, <2>5, Resumes
  <2>. QED BY <1>9, <2>6 DEF t
<1>10. CASE w' = Fail(Failing(w), g)
  <2>1. Differ(w, Failing(w), g, {}, {"faults"}) BY <1>2, FailingDoes
  <2>. QED BY <1>1, <1>10, <2>1, FailsHere
<1>11. CASE /\ Opt(g).any
            /\ w' = IF Opt(g).rfmon THEN Fail(s, g) ELSE Go([s EXCEPT !.hs[g].cooked = TRUE], g, "options")
  <2>1. CASE Opt(g).rfmon BY <1>7, <1>11, <2>1 DEF Opt, Leaves
  <2>2. CASE ~Opt(g).rfmon
    <3>. DEFINE u == [s EXCEPT !.hs[g].cooked = TRUE]
    <3>1. Differ(s, u, g, {"cooked"}, {}) BY <1>5, CookedDoes
    <3>. HIDE DEF u
    <3>2. w' = Go(u, g, "options") /\ ~Leaves(w.hs[g]) BY <1>11, <2>2 DEF u, Leaves, Opt
    <3>. QED BY <1>8, <3>1, <3>2
  <2>. QED BY <2>1, <2>2
<1>12. CASE ~Opt(g).any /\ w' = Go(s, g, IF Opt(g).rfmon THEN "mac80211" ELSE "arptype")
  <2>1. Differ(s, s, g, {"cooked"}, {}) BY <1>5 DEF Differ
  <2>2. ~Leaves(w.hs[g]) BY <1>12 DEF Opt, Leaves
  <2>3. CASE Opt(g).rfmon
    <3>1. w' = Go(s, g, "mac80211") /\ w.hs[g].opt.rfmon BY <1>12, <2>3 DEF Opt
    <3>. QED BY <1>8, <2>1, <2>2, <3>1
  <2>4. CASE ~Opt(g).rfmon
    <3>1. w' = Go(s, g, "arptype") BY <1>12, <2>4
    <3>. QED BY <1>8, <2>1, <2>2, <3>1
  <2>. QED BY <2>3, <2>4
<1>. QED BY <1>9, <1>10, <1>11, <1>12 DEF Socket, s, way

(* The activation is given up, with these of the handle's fields changed.  *)
LEMMA GivenUp ==
  ASSUME NEW r, NEW x, NEW g \in Handles, HandleInv(r), r.stage = "running", r.hs[g].st = "activating",
         NEW F, NEW G, Differ(r, x, g, F, G), OwnOnly(r, x, g),
         F \in SUBSET {"fd", "sock", "mem", "ptr", "leaked", "twice", "cooked"}, G \in SUBSET {"open", "rings", "faults"},
         Pointers(x.hs[g]), "source" \in x.hs[g].mem, "oneshot" \notin x.hs[g].mem,
         r.hs[g].fd = None, "mondevice" \in r.hs[g].ptr => "mondevice" \in x.hs[g].ptr,
         x.hs[g].fd = None \/ x.hs[g].fd \in SocketsOf(g),
         OwnedIn(x, g) \in SUBSET {x.hs[g].fd} \/ Leaves(r.hs[g])
  PROVE  HandleInv(Fail(x, g))
<1>1. \A f \in {"st", "pc", "opt", "must", "mon", "oldmode", "broke", "wasup"} : x.hs[g][f] = r.hs[g][f]
  BY DEF Differ, HandleFields
<1>2. x.toclose = r.toclose /\ x.looped = r.looped /\ x.stage = r.stage /\ x.dev = r.dev /\ x.maps = r.maps
  BY DEF Differ, StateFields
<1>3. Near(r, x, g) BY <1>1, <1>2 DEF Near, Differ
<1>4. Memories(x, g) BY <1>2, ActivatingFacts DEF Memories
<1>5. x.hs[g].opt = r.hs[g].opt BY <1>1
<1>6. OwnedIn(x, g) \in SUBSET {x.hs[g].fd} \/ Leaves(x.hs[g]) BY <1>5 DEF Leaves
<1>. QED BY <1>3, <1>4, <1>6, FailAfter

(* The list of link types, for the hardware that has one.                  *)
LEMMA LinkTypesDo ==
  ASSUME NEW s, Formed(s), NEW g \in Handles, Pointers(s.hs[g]), NEW c,
         NEW t, t = IF c THEN Alloc(s, g, "dlt_list") ELSE s
  PROVE  /\ Differ(s, t, g, {"mem", "ptr", "leaked"}, {}) /\ Pointers(t.hs[g])
         /\ s.hs[g].mem \in SUBSET t.hs[g].mem /\ s.hs[g].ptr \in SUBSET t.hs[g].ptr
         /\ "oneshot" \in t.hs[g].mem => "oneshot" \in s.hs[g].mem
<1>1. CASE c
  <2>1. t = Alloc(s, g, "dlt_list") BY <1>1
  <2>2. /\ Differ(s, t, g, {"mem", "ptr", "leaked"}, {}) /\ t.hs[g].mem = s.hs[g].mem \cup {"dlt_list"}
        /\ t.hs[g].ptr = s.hs[g].ptr \cup {"dlt_list"}
    BY <2>1, AllocDoes
  <2>3. Pointers(t.hs[g]) BY <2>1, AllocPointers DEF Memory
  <2>. QED BY <2>2, <2>3
<1>2. CASE ~c
  <2>1. t = s BY <1>2
  <2>. QED BY <2>1 DEF Differ
<1>. QED BY <1>1, <1>2

(* The old kind of socket is the handle's at once.                         *)
OldOwned(s, g, k) == [s EXCEPT !.hs[g] = [@ EXCEPT !.fd = k, !.sock = None, !.cooked = FALSE]]

(* The fields of the handle with the old kind of socket.                   *)
LEMMA OldOwnedDoes ==
  ASSUME NEW s, Formed(s), NEW g \in Handles, NEW k, NEW t, t = OldOwned(s, g, k)
  PROVE  Differ(s, t, g, {"fd", "sock", "cooked"}, {}) /\ t.hs[g].fd = k
<1>. DEFINE r == [s.hs[g] EXCEPT !.fd = k, !.sock = None, !.cooked = FALSE]
<1>1. t = [s EXCEPT !.hs[g] = r] BY DEF OldOwned
<1>2. Same(s.hs[g], r, {"fd", "sock", "cooked"}) /\ r.fd = k BY DEF Same, Formed, HandleFields
<1>. HIDE DEF r
<1>3. Differ(s, t, g, {"fd", "sock", "cooked"}, {}) /\ t.hs[g] = r
  BY <1>1, <1>2 DEF Formed, HandleFields, StateFields, Differ, Same
<1>. QED BY <1>2, <1>3

(* The old kind of socket, opened.                                         *)
LEMMA OldSocketDoes ==
  ASSUME NEW s, Formed(s), NEW g \in Handles, NEW k, k = <<g, "old">>, NEW t, t = OldOwned(OpenSocket(s, g, "old"), g, k)
  PROVE  /\ Differ(s, t, g, {"fd", "sock", "cooked"}, {"open"}) /\ OwnOnly(s, t, g)
         /\ OwnedIn(t, g) = OwnedIn(s, g) \cup {t.hs[g].fd} /\ t.hs[g].fd \in SocketsOf(g) /\ t.hs[g].fd # None
<1>. DEFINE a == OpenSocket(s, g, "old")
<1>1. t = OldOwned(a, g, k) OBVIOUS
<1>2. Differ(s, a, g, {"sock"}, {"open"}) /\ a.open = s.open \cup {k} BY OpenSocketDoes
<1>3. k \in SocketsOf(g) /\ k # None BY HandleAssumption DEF SocketsOf
<1>. HIDE DEF a
<1>4. Formed(a) BY <1>2 DEF Differ
<1>6. Differ(a, t, g, {"fd", "sock", "cooked"}, {}) /\ t.hs[g].fd = k BY <1>1, <1>4, OldOwnedDoes
<1>7. Differ(s, t, g, {"fd", "sock", "cooked"}, {"open"}) BY <1>2, <1>6 DEF Differ
<1>8. t.open = s.open \cup {k} /\ t.rings = s.rings /\ t.maps = s.maps BY <1>2, <1>6 DEF Differ, StateFields
<1>. QED BY <1>3, <1>6, <1>7, <1>8 DEF OwnOnly, OwnedIn

(* A kernel with the old kind of socket only (activate_old).               *)
LEMMA OldActivationKeeps ==
  ASSUME NEW g \in Handles, HandleInv(w), w.stage = "running", activate_old(g)
  PROVE  HandleInv(w')
<1>1. w.hs[g].st = "activating" /\ w.hs[g].pc = "old" BY DEF activate_old, In
<1>2. Formed(w) BY DEF HandleInv
<1>. DEFINE s == [OpenSocket(w, g, "old") EXCEPT
                    !.hs[g] = [@ EXCEPT !.fd = <<g, "old">>, !.sock = None, !.cooked = FALSE]]
<1>3. /\ Differ(w, s, g, {"fd", "sock", "cooked"}, {"open"}) /\ OwnOnly(w, s, g)
      /\ OwnedIn(s, g) = OwnedIn(w, g) \cup {s.hs[g].fd} /\ s.hs[g].fd \in SocketsOf(g) /\ s.hs[g].fd # None
  <2>. DEFINE k == <<g, "old">>
  <2>1. s = OldOwned(OpenSocket(w, g, "old"), g, k) BY DEF OldOwned
  <2>2. k = <<g, "old">> OBVIOUS
  <2>. HIDE DEF s, k
  <2>. QED BY <1>2, <2>1, <2>2, OldSocketDoes
<1>. HIDE DEF s
<1>4. /\ w.hs[g].fd = None /\ (OwnedIn(w, g) = {} \/ Leaves(w.hs[g])) /\ Formed(s) /\ Pointers(w.hs[g])
      /\ {"source", "device"} \in SUBSET w.hs[g].mem /\ "oneshot" \notin w.hs[g].mem
  BY <1>1, <1>3, ActivatingFacts DEF Differ
<1>5. s.hs[g].mem = w.hs[g].mem /\ s.hs[g].ptr = w.hs[g].ptr /\ s.hs[g].twice = w.hs[g].twice
  BY <1>3 DEF Differ, HandleFields
<1>6. Pointers(s.hs[g]) BY <1>4, <1>5, PointersSame
<1>7. CASE w' = Fail(Failing(w), g)
  <2>1. Differ(w, Failing(w), g, {}, {"faults"}) BY <1>2, FailingDoes
  <2>. QED BY <1>1, <1>7, <2>1, FailsHere
<1>8. ASSUME NEW x, w' = Fail(x, g), Differ(s, x, g, {"mem", "ptr", "leaked"}, {"faults"}), Pointers(x.hs[g]),
             s.hs[g].mem \in SUBSET x.hs[g].mem, s.hs[g].ptr \in SUBSET x.hs[g].ptr,
             "oneshot" \in x.hs[g].mem => "oneshot" \in s.hs[g].mem
      PROVE  HandleInv(w')
  <2>1. Differ(w, x, g, {"fd", "sock", "cooked", "mem", "ptr", "leaked"}, {"open", "faults"}) BY <1>3, <1>8 DEF Differ
  <2>2. x.hs[g].fd = s.hs[g].fd /\ x.open = s.open /\ x.rings = s.rings /\ x.maps = s.maps
    BY <1>8 DEF Differ, HandleFields, StateFields
  <2>3. OwnOnly(w, x, g) /\ OwnedIn(x, g) = OwnedIn(w, g) \cup {x.hs[g].fd} BY <1>3, <2>2 DEF OwnOnly, OwnedIn
  <2>4. OwnedIn(x, g) \in SUBSET {x.hs[g].fd} \/ Leaves(w.hs[g]) BY <1>4, <2>3
  <2>5. /\ "source" \in x.hs[g].mem /\ "oneshot" \notin x.hs[g].mem /\ x.hs[g].fd \in SocketsOf(g)
        /\ "mondevice" \in w.hs[g].ptr => "mondevice" \in x.hs[g].ptr
    BY <1>3, <1>4, <1>5, <1>8, <2>2
  <2>6. HandleInv(Fail(x, g)) BY <1>1, <1>4, <1>8, <2>1, <2>3, <2>4, <2>5, GivenUp
  <2>. QED BY <1>8, <2>6
<1>9. CASE w' = Fail(s, g)
  <2>1. Differ(s, s, g, {"mem", "ptr", "leaked"}, {"faults"}) BY <1>4 DEF Differ
  <2>. QED BY <1>6, <1>8, <1>9, <2>1
<1>10. CASE w' = Fail(Failing(s), g)
  <2>. DEFINE x == Failing(s)
  <2>1. Differ(s, x, g, {}, {"faults"}) BY <1>4, FailingDoes
  <2>. HIDE DEF x
  <2>2. Differ(s, x, g, {"mem", "ptr", "leaked"}, {"faults"}) BY <2>1 DEF Differ
  <2>3. x.hs[g].mem = s.hs[g].mem /\ x.hs[g].ptr = s.hs[g].ptr /\ x.hs[g].twice = s.hs[g].twice
    BY <2>1 DEF Differ, HandleFields
  <2>4. Pointers(x.hs[g]) BY <1>6, <2>3, PointersSame
  <2>5. w' = Fail(x, g) BY <1>10 DEF x
  <2>. QED BY <1>8, <2>2, <2>3, <2>4, <2>5
<1>11. ASSUME NEW c, NEW x, x = IF c THEN Alloc(s, g, "dlt_list") ELSE s, ~Opt(g).any,
              NEW pc \in {"flags", "mtu"}, w' = Fail(x, g) \/ w' = Go(x, g, pc)
       PROVE  HandleInv(w')
  <2>1. /\ Differ(s, x, g, {"mem", "ptr", "leaked"}, {}) /\ Pointers(x.hs[g])
        /\ s.hs[g].mem \in SUBSET x.hs[g].mem /\ s.hs[g].ptr \in SUBSET x.hs[g].ptr
        /\ "oneshot" \in x.hs[g].mem => "oneshot" \in s.hs[g].mem
    BY <1>4, <1>6, <1>11, LinkTypesDo
  <2>2. Differ(s, x, g, {"mem", "ptr", "leaked"}, {"faults"}) BY <2>1 DEF Differ
  <2>3. CASE w' = Fail(x, g) BY <1>8, <2>1, <2>2, <2>3
  <2>4. CASE w' = Go(x, g, pc)
    <3>. DEFINE t == Go(x, g, pc)
    <3>1. Differ(x, t, g, {"pc"}, {}) /\ t.hs[g].pc = pc
      <4>1. Formed(x) BY <2>1 DEF Differ
      <4>. QED BY <4>1, GoDoes
    <3>. HIDE DEF t
    <3>2. Differ(s, t, g, {"mem", "ptr", "leaked", "pc"}, {}) BY <2>1, <3>1 DEF Differ
    <3>3. Differ(w, t, g, {"fd", "sock", "cooked", "mem", "ptr", "leaked", "pc"}, {"open"}) BY <1>3, <3>2 DEF Differ
    <3>4. t.hs[g].fd = s.hs[g].fd /\ t.open = s.open /\ t.rings = s.rings /\ t.maps = s.maps
      BY <3>2 DEF Differ, HandleFields, StateFields
    <3>5. t.hs[g].mem = x.hs[g].mem /\ t.hs[g].ptr = x.hs[g].ptr /\ t.hs[g].twice = x.hs[g].twice
      BY <3>1 DEF Differ, HandleFields
    <3>6. ~Leaves(w.hs[g]) BY <1>11 DEF Opt, Leaves
    <3>7. OwnOnly(w, t, g) /\ OwnedIn(t, g) = {t.hs[g].fd} BY <1>3, <1>4, <3>4, <3>6 DEF OwnOnly, OwnedIn
    <3>8. Pointers(t.hs[g]) BY <2>1, <3>5, PointersSame
    <3>9. pc \in Late \ {"ring", "map"} /\ pc \notin Early \cup Between \cup {"old", "socket", "monup"}
      BY <1>11 DEF Early, Between, Late
    <3>10. /\ {"source", "device"} \in SUBSET t.hs[g].mem /\ "oneshot" \notin t.hs[g].mem /\ t.hs[g].fd # None
           /\ "mondevice" \in w.hs[g].ptr => "mondevice" \in t.hs[g].ptr
      BY <1>3, <1>4, <1>5, <2>1, <3>4, <3>5
    <3>11. HandleInv(t) BY <1>1, <1>4, <3>1, <3>3, <3>6, <3>7, <3>8, <3>9, <3>10, Resumes
    <3>. QED BY <2>4, <3>11 DEF t
  <2>. QED BY <1>11, <2>3, <2>4
<1>12. CASE /\ ~Opt(g).any
            /\ \E arptype \in w.sys.arptypes :
               LET t == IF HasDltList(arptype) THEN Alloc(s, g, "dlt_list") ELSE s
               IN w' = IF map_arphrd_to_dlt(arptype, FALSE) = None THEN Fail(t, g)
                       ELSE Go(t, g, IF Opt(g).promisc THEN "flags" ELSE "mtu")
  <2>1. PICK arptype \in w.sys.arptypes :
               LET t == IF HasDltList(arptype) THEN Alloc(s, g, "dlt_list") ELSE s
               IN w' = IF map_arphrd_to_dlt(arptype, FALSE) = None THEN Fail(t, g)
                       ELSE Go(t, g, IF Opt(g).promisc THEN "flags" ELSE "mtu")
    BY <1>12
  <2>. DEFINE x == IF HasDltList(arptype) THEN Alloc(s, g, "dlt_list") ELSE s
              pc == IF Opt(g).promisc THEN "flags" ELSE "mtu"
  <2>2. w' = Fail(x, g) \/ w' = Go(x, g, pc) BY <2>1
  <2>3. pc \in {"flags", "mtu"} OBVIOUS
  <2>. HIDE DEF pc
  <2>. QED BY <1>11, <1>12, <2>2, <2>3
<1>. QED BY <1>7, <1>9, <1>10, <1>12 DEF activate_old, s

(* The kind of hardware is looked at, and the socket opened anew in cooked *)
(* mode where it has to be (activate_new).                                 *)
LEMMA ArptypeKeeps ==
  ASSUME NEW g \in Handles, HandleInv(w), w.stage = "running", Arptype(g)
  PROVE  HandleInv(w')
<1>1. /\ w.hs[g].st = "activating" /\ w.hs[g].pc = "arptype" /\ w.hs[g].pc \in Between
      /\ "bind" \in Between /\ "bind" \notin Early \cup Late
  BY DEF Arptype, In, Early, Between, Late
<1>2. Formed(w) BY DEF HandleInv
<1>3. /\ w.hs[g].fd = None /\ OwnedIn(w, g) = {w.hs[g].sock} /\ w.hs[g].sock \in SocketsOf(g) /\ ~Leaves(w.hs[g])
      /\ Pointers(w.hs[g]) /\ {"source", "device"} \in SUBSET w.hs[g].mem /\ "oneshot" \notin w.hs[g].mem
  BY <1>1, ActivatingFacts
<1>4. CASE w' = CloseAndFail(Failing(w), g)
  <2>1. Differ(w, Failing(w), g, {}, {"faults"}) BY <1>2, FailingDoes
  <2>2. Differ(w, Failing(w), g, {}, {"faults", "dev"}) /\ Failing(w).dev = w.dev BY <2>1 DEF Differ, StateFields
  <2>. QED BY <1>1, <1>4, <2>2, ClosedHere
<1>. DEFINE F == {"sock", "mem", "ptr", "leaked", "twice", "cooked"}
            G == {"open", "rings"}
<1>5. ASSUME NEW u, w' = Go(u, g, "bind"), Differ(w, u, g, F, G), OwnOnly(w, u, g),
             Pointers(u.hs[g]), {"source", "device"} \in SUBSET u.hs[g].mem, "oneshot" \notin u.hs[g].mem,
             "mondevice" \in w.hs[g].ptr => "mondevice" \in u.hs[g].ptr, OwnedIn(u, g) = {u.hs[g].sock}
      PROVE  HandleInv(w')
  <2>. DEFINE t == Go(u, g, "bind")
  <2>1. Differ(u, t, g, {"pc"}, {}) /\ t.hs[g].pc = "bind"
    <3>1. Formed(u) BY <1>5 DEF Differ
    <3>. QED BY <3>1, GoDoes
  <2>. HIDE DEF t
  <2>2. Differ(w, t, g, F \cup {"pc"}, G) /\ t.hs[g].fd = w.hs[g].fd
    <3>1. Differ(w, t, g, F \cup {"pc"}, G \cup {}) BY <1>5, <2>1, DifferTwice
    <3>2. G \cup {} = G OBVIOUS
    <3>3. Differ(w, t, g, F \cup {"pc"}, G) BY <3>1, <3>2
    <3>. QED BY <1>5, <3>3 DEF Differ, HandleFields
  <2>3. /\ t.hs[g].sock = u.hs[g].sock /\ t.hs[g].mem = u.hs[g].mem /\ t.hs[g].ptr = u.hs[g].ptr
        /\ t.hs[g].twice = u.hs[g].twice /\ t.open = u.open /\ t.rings = u.rings /\ t.maps = u.maps
    BY <2>1 DEF Differ, HandleFields, StateFields
  <2>4. OwnOnly(w, t, g) /\ OwnedIn(t, g) = {t.hs[g].sock} BY <1>5, <2>3 DEF OwnOnly, OwnedIn
  <2>5. Pointers(t.hs[g]) BY <1>5, <2>3, PointersSame
  <2>6. /\ {"source", "device"} \in SUBSET t.hs[g].mem /\ "oneshot" \notin t.hs[g].mem /\ t.hs[g].fd = None
        /\ "mondevice" \in w.hs[g].ptr => "mondevice" \in t.hs[g].ptr
    BY <1>3, <1>5, <2>2, <2>3
  <2>7. /\ F \cup {"pc"} \in SUBSET {"pc", "fd", "sock", "mem", "ptr", "leaked", "twice", "cooked", "montype"}
        /\ G \in SUBSET {"open", "rings", "faults"}
    OBVIOUS
  <2>8. HandleInv(t) BY <1>1, <1>3, <1>5, <2>1, <2>2, <2>4, <2>5, <2>6, <2>7, Resumes
  <2>. QED BY <1>5, <2>8 DEF t
<1>6. ASSUME NEW arptype \in w.sys.arptypes, NEW s, s = IF HasDltList(arptype) THEN Alloc(w, g, "dlt_list") ELSE w,
             NEW closed, closed = CloseSocket(s, s.hs[g].sock),
             \/ w' = Go(s, g, "bind")
             \/ w' = Go(Free([OpenSocket(closed, g, "cooked") EXCEPT !.hs[g].cooked = TRUE], g, "dlt_list"), g, "bind")
             \/ w' = Fail(Failing(closed), g)
      PROVE  HandleInv(w')
  <2>1. /\ Differ(w, s, g, {"mem", "ptr", "leaked"}, {}) /\ Pointers(s.hs[g])
        /\ w.hs[g].mem \in SUBSET s.hs[g].mem /\ w.hs[g].ptr \in SUBSET s.hs[g].ptr
        /\ "oneshot" \in s.hs[g].mem => "oneshot" \in w.hs[g].mem
    BY <1>2, <1>3, <1>6, LinkTypesDo
  <2>2. /\ Formed(s) /\ s.hs[g].sock = w.hs[g].sock /\ s.hs[g].fd = w.hs[g].fd
        /\ s.open = w.open /\ s.rings = w.rings /\ s.maps = w.maps
    BY <2>1 DEF Differ, HandleFields, StateFields
  <2>3. OwnOnly(w, s, g) /\ OwnedIn(s, g) = {s.hs[g].sock} BY <1>3, <2>2 DEF OwnOnly, OwnedIn
  <2>4. CASE w' = Go(s, g, "bind")
    <3>1. Differ(w, s, g, F, G) BY <2>1 DEF Differ
    <3>2. /\ {"source", "device"} \in SUBSET s.hs[g].mem /\ "oneshot" \notin s.hs[g].mem
          /\ "mondevice" \in w.hs[g].ptr => "mondevice" \in s.hs[g].ptr
      BY <1>3, <2>1
    <3>. QED BY <1>5, <2>1, <2>3, <2>4, <3>1, <3>2
  <2>5. /\ Differ(s, closed, g, {}, {"open", "rings"})
        /\ closed.open = s.open \ {s.hs[g].sock} /\ closed.rings = s.rings \ {s.hs[g].sock}
    <3>1. closed = CloseSocket(s, s.hs[g].sock) BY <1>6
    <3>. QED BY <3>1, <2>2, CloseSocketDoes
  <2>6. Differ(w, closed, g, {"mem", "ptr", "leaked"}, {"open", "rings"}) BY <2>1, <2>5 DEF Differ
  <2>7. /\ Formed(closed) /\ closed.hs[g].mem = s.hs[g].mem /\ closed.hs[g].ptr = s.hs[g].ptr
        /\ closed.hs[g].twice = s.hs[g].twice /\ closed.hs[g].fd = s.hs[g].fd /\ closed.maps = s.maps
    BY <2>5 DEF Differ, HandleFields, StateFields
  <2>8. OwnOnly(w, closed, g) /\ OwnedIn(closed, g) = {}
    BY <1>3, <2>2, <2>3, <2>5, <2>7 DEF OwnOnly, OwnedIn
  <2>9. Pointers(closed.hs[g]) BY <2>1, <2>7, PointersSame
  <2>10. CASE w' = Fail(Failing(closed), g)
    <3>. DEFINE x == Failing(closed)
    <3>1. Differ(closed, x, g, {}, {"faults"}) BY <2>7, FailingDoes
    <3>. HIDE DEF x
    <3>2. Differ(w, x, g, {"mem", "ptr", "leaked"}, {"open", "rings", "faults"}) BY <2>6, <3>1 DEF Differ
    <3>3. /\ x.hs[g].mem = closed.hs[g].mem /\ x.hs[g].ptr = closed.hs[g].ptr /\ x.hs[g].fd = closed.hs[g].fd
          /\ x.hs[g].twice = closed.hs[g].twice
          /\ x.open = closed.open /\ x.rings = closed.rings /\ x.maps = closed.maps
      BY <3>1 DEF Differ, HandleFields, StateFields
    <3>4. OwnOnly(w, x, g) /\ OwnedIn(x, g) = {} BY <2>8, <3>3 DEF OwnOnly, OwnedIn
    <3>5. Pointers(x.hs[g]) BY <2>9, <3>3, PointersSame
    <3>6. /\ "source" \in x.hs[g].mem /\ "oneshot" \notin x.hs[g].mem /\ x.hs[g].fd = None
          /\ "mondevice" \in w.hs[g].ptr => "mondevice" \in x.hs[g].ptr
      BY <1>3, <2>1, <2>2, <2>7, <3>3
    <3>7. HandleInv(Fail(x, g)) BY <1>1, <1>3, <3>2, <3>4, <3>5, <3>6, GivenUp
    <3>. QED BY <2>10, <3>7 DEF x
  <2>11. CASE w' = Go(Free([OpenSocket(closed, g, "cooked") EXCEPT !.hs[g].cooked = TRUE], g, "dlt_list"), g, "bind")
    <3>. DEFINE a == OpenSocket(closed, g, "cooked")
                b == [a EXCEPT !.hs[g].cooked = TRUE]
                c == Free(b, g, "dlt_list")
    <3>1. /\ Differ(closed, a, g, {"sock"}, {"open"}) /\ OwnOnly(closed, a, g)
          /\ OwnedIn(a, g) = OwnedIn(closed, g) \cup {a.hs[g].sock}
      BY <2>7, Opened
    <3>. HIDE DEF a
    <3>2. Differ(a, b, g, {"cooked"}, {})
      <4>1. Formed(a) BY <3>1 DEF Differ
      <4>. QED BY <4>1, CookedDoes
    <3>. HIDE DEF b
    <3>3. Differ(closed, b, g, {"sock", "cooked"}, {"open"}) BY <3>1, <3>2 DEF Differ
    <3>4. /\ b.hs[g].mem = closed.hs[g].mem /\ b.hs[g].ptr = closed.hs[g].ptr
          /\ b.hs[g].twice = closed.hs[g].twice /\ Formed(b)
      BY <3>3 DEF Differ, HandleFields
    <3>5. Pointers(b.hs[g]) BY <2>9, <3>4, PointersSame
    <3>6. /\ Differ(b, c, g, {"mem", "ptr", "twice"}, {}) /\ Pointers(c.hs[g])
          /\ c.hs[g].mem = b.hs[g].mem \ {"dlt_list"} /\ c.hs[g].ptr = b.hs[g].ptr \ {"dlt_list"}
      BY <3>4, <3>5, FreeDoes
    <3>. HIDE DEF c
    <3>7. Differ(w, c, g, {"sock", "mem", "ptr", "leaked", "twice", "cooked"}, {"open", "rings"})
      BY <2>6, <3>3, <3>6 DEF Differ
    <3>8. /\ c.hs[g].sock = a.hs[g].sock /\ c.open = a.open /\ c.rings = a.rings /\ c.maps = a.maps
      BY <3>2, <3>6 DEF Differ, HandleFields, StateFields
    <3>9. OwnOnly(w, c, g) /\ OwnedIn(c, g) = {c.hs[g].sock} BY <2>8, <3>1, <3>8 DEF OwnOnly, OwnedIn
    <3>10. /\ {"source", "device"} \in SUBSET c.hs[g].mem /\ "oneshot" \notin c.hs[g].mem
           /\ "mondevice" \in w.hs[g].ptr => "mondevice" \in c.hs[g].ptr
      BY <1>3, <2>1, <2>7, <3>4, <3>6
    <3>11. w' = Go(c, g, "bind") BY <2>11 DEF c, b, a
    <3>. QED BY <1>5, <3>6, <3>7, <3>9, <3>10, <3>11
  <2>. QED BY <1>6, <2>4, <2>10, <2>11
<1>. QED BY <1>4, <1>6 DEF Arptype

(* One of the settings of the device is changed.                           *)
WithMons(d, x) == [d EXCEPT !.mons = x]
WithMode(d, x) == [d EXCEPT !.mode = x]
WithUp(d, x) == [d EXCEPT !.up = x]
WithPromisc(d, x) == [d EXCEPT !.promisc = x]

(* The settings of a device,                                               *)
LEMMA DeviceParts ==
  ASSUME NEW d, DeviceTyped(d)
  PROVE  /\ d = Device(d.promisc, d.mode, d.up, d.mons)
         /\ d.promisc \in BOOLEAN /\ d.up \in BOOLEAN /\ d.mode \in {"managed", "monitor"}
<1>1. PICK p \in BOOLEAN, u \in BOOLEAN, m \in {"managed", "monitor"} : \E n : d = Device(p, m, u, n)
  BY DEF DeviceTyped
<1>2. PICK n : d = Device(p, m, u, n) BY <1>1
<1>3. d.promisc = p /\ d.mode = m /\ d.up = u /\ d.mons = n BY <1>2 DEF Device
<1>. QED BY <1>2, <1>3

(* and a device with these settings.                                       *)
LEMMA DeviceBuilt ==
  ASSUME NEW p \in BOOLEAN, NEW m \in {"managed", "monitor"}, NEW u \in BOOLEAN, NEW n,
         NEW e, e = Device(p, m, u, n)
  PROVE  DeviceTyped(e) /\ e.promisc = p /\ e.mode = m /\ e.up = u /\ e.mons = n
<1>1. DeviceTyped(e) BY DEF DeviceTyped
<1>. QED BY <1>1 DEF Device

(* Each setting is changed alone: the interfaces added to monitor,         *)
LEMMA MonsFields ==
  ASSUME NEW d, DeviceTyped(d), NEW x, NEW e, e = WithMons(d, x)
  PROVE  DeviceTyped(e) /\ e.mons = x /\ e.promisc = d.promisc /\ e.mode = d.mode /\ e.up = d.up
<1>1. /\ d = Device(d.promisc, d.mode, d.up, d.mons)
      /\ d.promisc \in BOOLEAN /\ d.up \in BOOLEAN /\ d.mode \in {"managed", "monitor"}
  BY DeviceParts
<1>2. e = Device(d.promisc, d.mode, d.up, x) BY <1>1 DEF WithMons, Device
<1>. QED BY <1>1, <1>2, DeviceBuilt

(* the mode,                                                               *)
LEMMA ModeFields ==
  ASSUME NEW d, DeviceTyped(d), NEW e, e = WithMode(d, "monitor")
  PROVE  DeviceTyped(e) /\ e.mode = "monitor" /\ e.promisc = d.promisc /\ e.mons = d.mons /\ e.up = d.up
<1>1. /\ d = Device(d.promisc, d.mode, d.up, d.mons)
      /\ d.promisc \in BOOLEAN /\ d.up \in BOOLEAN /\ d.mode \in {"managed", "monitor"}
  BY DeviceParts
<1>2. e = Device(d.promisc, "monitor", d.up, d.mons) BY <1>1 DEF WithMode, Device
<1>. QED BY <1>1, <1>2, DeviceBuilt

(* whether it is up,                                                       *)
LEMMA UpFields ==
  ASSUME NEW d, DeviceTyped(d), NEW x \in BOOLEAN, NEW e, e = WithUp(d, x)
  PROVE  DeviceTyped(e) /\ e.up = x /\ e.promisc = d.promisc /\ e.mons = d.mons /\ e.mode = d.mode
<1>1. /\ d = Device(d.promisc, d.mode, d.up, d.mons)
      /\ d.promisc \in BOOLEAN /\ d.up \in BOOLEAN /\ d.mode \in {"managed", "monitor"}
  BY DeviceParts
<1>2. e = Device(d.promisc, d.mode, x, d.mons) BY <1>1 DEF WithUp, Device
<1>. QED BY <1>1, <1>2, DeviceBuilt

(* and promiscuous mode.                                                   *)
LEMMA PromiscFields ==
  ASSUME NEW d, DeviceTyped(d), NEW x \in BOOLEAN, NEW e, e = WithPromisc(d, x)
  PROVE  DeviceTyped(e) /\ e.promisc = x /\ e.up = d.up /\ e.mons = d.mons /\ e.mode = d.mode
<1>1. /\ d = Device(d.promisc, d.mode, d.up, d.mons)
      /\ d.promisc \in BOOLEAN /\ d.up \in BOOLEAN /\ d.mode \in {"managed", "monitor"}
  BY DeviceParts
<1>2. e = Device(x, d.mode, d.up, d.mons) BY <1>1 DEF WithPromisc, Device
<1>. QED BY <1>1, <1>2, DeviceBuilt

(* Who will undo what is set: the handle itself, or another one as before. *)
HasPromisc(s, g) == Undoes(s, g, "promisc") /\ s.hs[g].fd # None
HasMode(s, g) == Doing(s.hs[g], {"bringup"}) \/ Undoes(s, g, "rfmon")
HasDown(s, g) == Doing(s.hs[g], {"setmode", "bringup"}) /\ s.hs[g].wasup
HasMon(s, g, n) ==
  s.hs[g].mon = n /\ "mondevice" \in s.hs[g].ptr /\ (Doing(s.hs[g], {"monup"}) \/ Undoes(s, g, "monif"))

(* The device stays one that somebody sets back, if what a step sets has   *)
(* somebody that will.                                                     *)
LEMMA DeviceStep ==
  ASSUME NEW r, NEW t, NEW g \in Handles, DeviceOk(r), Others(r, t, g),
         r.hs[g].broke /\ r.hs[g].opt.rfmon => t.hs[g].broke /\ t.hs[g].opt.rfmon,
         t.dev.promisc => (r.dev.promisc /\ ~HasPromisc(r, g)) \/ HasPromisc(t, g),
         ~SpoiledIn(t) =>
           /\ t.dev.mode = "monitor" => (r.dev.mode = "monitor" /\ ~HasMode(r, g)) \/ HasMode(t, g)
           /\ t.dev.up \/ (~r.dev.up /\ ~HasDown(r, g)) \/ HasDown(t, g)
           /\ \A n \in t.dev.mons : (n \in r.dev.mons /\ ~HasMon(r, g, n)) \/ HasMon(t, g, n)
  PROVE  DeviceOk(t)
<1>1. PromiscUndone(t)
  <2>1. SUFFICES ASSUME t.dev.promisc PROVE \E e \in Handles : Undoes(t, e, "promisc") /\ t.hs[e].fd # None
    BY DEF PromiscUndone
  <2>2. CASE HasPromisc(t, g) BY <2>2 DEF HasPromisc
  <2>3. CASE r.dev.promisc /\ ~HasPromisc(r, g)
    <3>1. PICK e \in Handles : Undoes(r, e, "promisc") /\ r.hs[e].fd # None BY <2>3 DEF DeviceOk, PromiscUndone
    <3>2. e # g BY <2>3, <3>1 DEF HasPromisc
    <3>. QED BY <3>1, <3>2, OthersUndo DEF Others
  <2>. QED BY <2>1, <2>2, <2>3
<1>2. ASSUME ~SpoiledIn(t) PROVE MonitorUndone(t)
  <2>1. MonitorUndone(r) BY <1>2, StillSpoiled DEF DeviceOk
  <2>2. ASSUME t.dev.mode = "monitor"
        PROVE  \E e \in Handles : Doing(t.hs[e], {"bringup"}) \/ Undoes(t, e, "rfmon")
    <3>1. CASE HasMode(t, g) BY <3>1 DEF HasMode
    <3>2. CASE r.dev.mode = "monitor" /\ ~HasMode(r, g)
      <4>1. PICK e \in Handles : Doing(r.hs[e], {"bringup"}) \/ Undoes(r, e, "rfmon")
        BY <2>1, <3>2 DEF MonitorUndone
      <4>2. e # g BY <3>2, <4>1 DEF HasMode
      <4>. QED BY <4>1, <4>2, OthersUndo DEF Others
    <3>. QED BY <1>2, <2>2, <3>1, <3>2
  <2>3. t.dev.up \/ \E e \in Handles : Doing(t.hs[e], {"setmode", "bringup"}) /\ t.hs[e].wasup
    <3>1. CASE t.dev.up BY <3>1
    <3>2. CASE HasDown(t, g) BY <3>2 DEF HasDown
    <3>3. CASE ~r.dev.up /\ ~HasDown(r, g)
      <4>1. PICK e \in Handles : Doing(r.hs[e], {"setmode", "bringup"}) /\ r.hs[e].wasup
        BY <2>1, <3>3 DEF MonitorUndone
      <4>2. e # g BY <3>3, <4>1 DEF HasDown
      <4>. QED BY <4>1, <4>2 DEF Others
    <3>. QED BY <1>2, <3>1, <3>2, <3>3
  <2>4. ASSUME NEW n \in t.dev.mons
        PROVE  \E e \in Handles : t.hs[e].mon = n /\ "mondevice" \in t.hs[e].ptr
                                  /\ (Doing(t.hs[e], {"monup"}) \/ Undoes(t, e, "monif"))
    <3>1. CASE HasMon(t, g, n) BY <3>1 DEF HasMon
    <3>2. CASE n \in r.dev.mons /\ ~HasMon(r, g, n)
      <4>1. PICK e \in Handles : r.hs[e].mon = n /\ "mondevice" \in r.hs[e].ptr
                                 /\ (Doing(r.hs[e], {"monup"}) \/ Undoes(r, e, "monif"))
        BY <2>1, <3>2 DEF MonitorUndone
      <4>2. e # g BY <3>2, <4>1 DEF HasMon
      <4>. QED BY <4>1, <4>2, OthersUndo DEF Others
    <3>. QED BY <1>2, <2>4, <3>1, <3>2
  <2>. QED BY <2>2, <2>3, <2>4 DEF MonitorUndone
<1>. QED BY <1>1, <1>2 DEF DeviceOk

(* The activation of a handle goes on after it set the device.             *)
LEMMA SetsDevice ==
  ASSUME NEW r, NEW t, NEW g \in Handles, HandleInv(r), r.stage = "running", r.hs[g].st = "activating",
         NEW F, NEW G, Differ(r, t, g, F, G), Others(r, t, g),
         F \in SUBSET {"pc", "must", "mon", "mem", "ptr", "leaked", "montype", "oldmode", "wasup"},
         G \in SUBSET {"dev", "toclose", "looped", "faults"},
         r.hs[g].pc \in (Early \ {"socket"}) \cup {"flags"},
         t.hs[g].pc \in {"monup", "takedown", "setmode", "bringup", "arptype", "mtu"},
         t.hs[g].pc = "mtu" <=> r.hs[g].pc = "flags",
         Pointers(t.hs[g]), r.hs[g].mem \in SUBSET t.hs[g].mem, "oneshot" \notin t.hs[g].mem,
         t.hs[g].oldmode = "managed", t.hs[g].wasup \in BOOLEAN,
         t.hs[g].must \in SUBSET {"promisc", "monif", "rfmon"},
         t.hs[g].must # {} /\ t.hs[g].must # {"promisc"} => r.hs[g].opt.rfmon,
         t.hs[g].pc \in Early => t.hs[g].must = {} \/ r.hs[g].broke,
         t.hs[g].pc = "monup" => "mondevice" \in t.hs[g].ptr,
         "monif" \in t.hs[g].must => "monif" \in r.hs[g].must \/ "mondevice" \in t.hs[g].ptr,
         ListingOk(t.hs[g], Contains(t.toclose, g), t.looped, g),
         DeviceTyped(t.dev), Listed(t.toclose), DeviceOk(t)
  PROVE  HandleInv(t)
<1>1. HandleOk(r, g) BY DEF HandleInv
<1>2. /\ t.hs[g].st = r.hs[g].st /\ t.hs[g].opt = r.hs[g].opt /\ t.hs[g].cleanup = r.hs[g].cleanup
      /\ t.hs[g].fd = r.hs[g].fd /\ t.hs[g].sock = r.hs[g].sock /\ t.hs[g].broke = r.hs[g].broke
  BY DEF Differ, HandleFields
<1>3. t.open = r.open /\ t.rings = r.rings /\ t.maps = r.maps /\ t.stage = r.stage /\ Formed(t)
  BY DEF Differ, StateFields
<1>4. OwnedIn(t, g) = OwnedIn(r, g) /\ (Leaves(t.hs[g]) <=> Leaves(r.hs[g])) BY <1>2, <1>3 DEF OwnedIn, Leaves
<1>5. /\ r.hs[g].cleanup = "linux" /\ g \notin r.maps /\ "source" \in r.hs[g].mem /\ "device" \in r.hs[g].mem
      /\ {"any", "promisc", "rfmon", "buffer_size"} \in SUBSET DOMAIN r.hs[g].opt
  BY ActivatingFacts
<1>6. /\ t.hs[g].pc \in Early \cup Between \cup Late /\ t.hs[g].pc \notin {"socket", "old", "ring", "map"}
      /\ t.hs[g].pc \in Late <=> r.hs[g].pc \in Late
      /\ r.hs[g].pc \notin {"socket", "old"}
      /\ r.hs[g].pc \in Late \/ r.hs[g].pc \in Early \ {"socket"}
      /\ t.hs[g].pc \in Early => r.hs[g].pc \in Early \ {"socket"}
  BY DEF Early, Between, Late
<1>7. MemoryOk(t.hs[g]) BY <1>2, <1>5, <1>6 DEF MemoryOk, Doing, Live
<1>8. ModesOk(t.hs[g])
  <2>1. t.hs[g].pc \in Early => r.hs[g].opt.rfmon BY <1>1, <1>6 DEF HandleOk, ModesOk, Doing
  <2>2. "mondevice" \in r.hs[g].ptr => "mondevice" \in t.hs[g].ptr
    BY <1>1 DEF HandleOk, MemoryOk, Pointers
  <2>3. Lost(t.hs[g]) => t.hs[g].broke BY <1>1, <1>2, <2>2 DEF HandleOk, ModesOk, Lost, Live
  <2>. QED BY <1>2, <2>1, <2>3 DEF ModesOk, Doing
<1>9. SocketsOk(t.hs[g], OwnedIn(t, g), t.rings)
  <2>1. /\ ~Leaves(r.hs[g])
        /\ t.hs[g].pc \notin Late => r.hs[g].fd = None /\ OwnedIn(r, g) = {r.hs[g].sock}
        /\ t.hs[g].pc \in Late => r.hs[g].fd # None /\ OwnedIn(r, g) = {r.hs[g].fd}
    BY <1>6, ActivatingFacts
  <2>2. t.hs[g].pc \in Early \cup Between => t.hs[g].pc \notin Late BY DEF Early, Between, Late
  <2>. QED BY <1>2, <1>3, <1>4, <1>5, <1>6, <2>1, <2>2 DEF SocketsOk, Live
<1>10. HandleOk(t, g) BY <1>2, <1>3, <1>5, <1>7, <1>8, <1>9 DEF HandleOk
<1>11. t.open \in SUBSET UNION {SocketsOf(e) : e \in Handles} BY <1>3 DEF HandleInv, Typed
<1>. QED BY <1>2, <1>3, <1>5, <1>10, <1>11, StepOk

(* The handle has something to undo now, and is put on the list for it.    *)
Lists(s, g, m, pc) == Go(pcap_add_to_pcaps_to_close([s EXCEPT !.hs[g].must = @ \cup {m}], g), g, pc)

(* What that changes.                                                      *)
LEMMA ListsDoes ==
  ASSUME NEW s, Formed(s), Listed(s.toclose), NEW g \in Handles, NEW m, NEW pc, NEW t, t = Lists(s, g, m, pc)
  PROVE  /\ Differ(s, t, g, {"must", "pc"}, {"toclose", "looped"})
         /\ t.hs[g].must = s.hs[g].must \cup {m} /\ t.hs[g].pc = pc
         /\ Listed(t.toclose) /\ Contains(t.toclose, g)
         /\ \A e \in Handles : e # g => (Contains(t.toclose, e) => Contains(s.toclose, e))
         /\ Contains(s.toclose, g) => t.looped = g
         /\ ~Contains(s.toclose, g) =>
              t.looped = s.looped /\ \A e \in Handles : e # g => (Contains(t.toclose, e) <=> Contains(s.toclose, e))
<1>. DEFINE a == [s EXCEPT !.hs[g].must = @ \cup {m}]
            b == pcap_add_to_pcaps_to_close(a, g)
<1>1. Differ(s, a, g, {"must"}, {}) /\ a.hs[g].must = s.hs[g].must \cup {m}
  BY DEF Formed, HandleFields, StateFields, Differ
<1>2. t = Go(b, g, pc) BY DEF Lists
<1>. HIDE DEF a
<1>3. Formed(a) /\ a.toclose = s.toclose /\ a.looped = s.looped BY <1>1 DEF Differ, StateFields
<1>4. /\ Differ(a, b, g, {}, {"toclose", "looped"}) /\ Listed(b.toclose) /\ Contains(b.toclose, g)
      /\ \A e \in Handles : e # g => (Contains(b.toclose, e) => Contains(a.toclose, e))
      /\ Contains(a.toclose, g) => b.looped = g
      /\ ~Contains(a.toclose, g) =>
           b.looped = a.looped /\ \A e \in Handles : e # g => (Contains(b.toclose, e) <=> Contains(a.toclose, e))
  BY <1>3, AddDoes
<1>. HIDE DEF b
<1>5. Differ(b, t, g, {"pc"}, {}) /\ t.hs[g].pc = pc
  <2>1. Formed(b) BY <1>4 DEF Differ
  <2>. QED BY <1>2, <2>1, GoDoes
<1>6. t.toclose = b.toclose /\ t.looped = b.looped /\ t.hs[g].must = b.hs[g].must /\ b.hs[g].must = a.hs[g].must
  BY <1>4, <1>5 DEF Differ, StateFields, HandleFields
<1>7. Differ(s, t, g, {"must", "pc"}, {"toclose", "looped"}) BY <1>1, <1>4, <1>5 DEF Differ
<1>. QED BY <1>1, <1>3, <1>4, <1>5, <1>6, <1>7

(* It keeps the invariant: at once with the mode the handle gets the duty  *)
(* to undo it.                                                             *)
LEMMA ListsKeeps ==
  ASSUME NEW r, NEW x, NEW g \in Handles, HandleInv(r), r.stage = "running", r.hs[g].st = "activating",
         r.looped \in {None, g}, r.hs[g].pc \in (Early \ {"socket"}) \cup {"flags"},
         Differ(r, x, g, {"montype", "oldmode"}, {"dev"}), x.hs[g].oldmode = "managed", DeviceTyped(x.dev),
         NEW m \in {"promisc", "monif", "rfmon"}, NEW pc \in {"arptype", "mtu"},
         m = "promisc" <=> r.hs[g].pc = "flags", pc = "mtu" <=> r.hs[g].pc = "flags",
         x.dev.promisc => r.dev.promisc \/ m = "promisc",
         x.dev.mode = "monitor" => r.dev.mode = "monitor" \/ m = "rfmon", r.hs[g].pc = "bringup" => m = "rfmon",
         x.dev.up \/ (~r.dev.up /\ ~HasDown(r, g)),
         x.dev.mons = r.dev.mons, r.hs[g].pc = "monup" <=> m = "monif"
  PROVE  HandleInv(Lists(x, g, m, pc))
<1>. DEFINE t == Lists(x, g, m, pc)
<1>1. /\ Formed(x) /\ x.toclose = r.toclose /\ x.looped = r.looped /\ x.stage = r.stage /\ x.open = r.open
      /\ x.rings = r.rings /\ x.maps = r.maps
  BY DEF Differ, StateFields
<1>2. /\ x.hs[g].must = r.hs[g].must /\ x.hs[g].mem = r.hs[g].mem /\ x.hs[g].ptr = r.hs[g].ptr
      /\ x.hs[g].twice = r.hs[g].twice /\ x.hs[g].wasup = r.hs[g].wasup /\ x.hs[g].mon = r.hs[g].mon
      /\ x.hs[g].st = r.hs[g].st /\ x.hs[g].fd = r.hs[g].fd /\ x.hs[g].opt = r.hs[g].opt
      /\ x.hs[g].broke = r.hs[g].broke
  BY DEF Differ, HandleFields
<1>3. Listed(x.toclose) BY <1>1 DEF HandleInv, Typed
<1>4. /\ Differ(x, t, g, {"must", "pc"}, {"toclose", "looped"})
      /\ t.hs[g].must = x.hs[g].must \cup {m} /\ t.hs[g].pc = pc
      /\ Listed(t.toclose) /\ Contains(t.toclose, g)
      /\ \A e \in Handles : e # g => (Contains(t.toclose, e) => Contains(x.toclose, e))
      /\ Contains(x.toclose, g) => t.looped = g
      /\ ~Contains(x.toclose, g) =>
           t.looped = x.looped /\ \A e \in Handles : e # g => (Contains(t.toclose, e) <=> Contains(x.toclose, e))
  BY <1>1, <1>3, ListsDoes
<1>. HIDE DEF t
<1>5. Differ(r, t, g, {"montype", "oldmode", "must", "pc"}, {"dev", "toclose", "looped"}) BY <1>4 DEF Differ
<1>6. /\ t.hs[g].mem = r.hs[g].mem /\ t.hs[g].ptr = r.hs[g].ptr
      /\ t.hs[g].twice = r.hs[g].twice /\ t.hs[g].wasup = r.hs[g].wasup /\ t.hs[g].mon = r.hs[g].mon
      /\ t.hs[g].st = r.hs[g].st /\ t.hs[g].fd = r.hs[g].fd /\ t.hs[g].opt = r.hs[g].opt
      /\ t.hs[g].broke = r.hs[g].broke
  BY <1>5 DEF Differ, HandleFields
<1>7. t.open = r.open /\ t.rings = r.rings /\ t.maps = r.maps BY <1>5 DEF Differ, StateFields
<1>8. t.hs[g].oldmode = x.hs[g].oldmode /\ t.dev = x.dev BY <1>4 DEF Differ, HandleFields, StateFields
<1>9. Others(r, t, g)
  <2>1. g # None BY HandleAssumption
  <2>2. \A e \in Handles : e # g => t.hs[e] = r.hs[e] BY <1>5 DEF Differ
  <2>. QED BY <1>1, <1>4, <1>7, <2>1, <2>2 DEF Others
<1>10. \A d : Undoes(r, g, d) \/ d = m => Undoes(t, g, d) BY <1>2, <1>4, <1>6 DEF Undoes, Live
<1>11. /\ r.hs[g].pc \in Early \ {"socket"} => r.hs[g].opt.rfmon
       /\ r.hs[g].must # {} /\ r.hs[g].must # {"promisc"} => r.hs[g].opt.rfmon
       /\ r.hs[g].must \in SUBSET {"promisc", "monif", "rfmon"}
  BY ActivatingFacts DEF HandleOk, ModesOk, Doing
<1>12. DeviceOk(t)
  <2>1. t.dev.promisc => (r.dev.promisc /\ ~HasPromisc(r, g)) \/ HasPromisc(t, g)
    <3>1. HasPromisc(r, g) => HasPromisc(t, g) BY <1>6, <1>10 DEF HasPromisc
    <3>2. m = "promisc" => HasPromisc(t, g)
      <4>1. m = "promisc" => r.hs[g].fd # None BY ActivatingFacts DEF Late
      <4>. QED BY <1>6, <1>10, <4>1 DEF HasPromisc
    <3>. QED BY <1>8, <3>1, <3>2
  <2>2. t.dev.mode = "monitor" => (r.dev.mode = "monitor" /\ ~HasMode(r, g)) \/ HasMode(t, g)
    <3>1. HasMode(r, g) => HasMode(t, g) BY <1>10 DEF HasMode, Doing
    <3>2. m = "rfmon" => HasMode(t, g) BY <1>10 DEF HasMode
    <3>. QED BY <1>8, <3>1, <3>2
  <2>3. t.dev.up \/ (~r.dev.up /\ ~HasDown(r, g)) \/ HasDown(t, g) BY <1>8
  <2>4. ASSUME NEW n \in t.dev.mons PROVE (n \in r.dev.mons /\ ~HasMon(r, g, n)) \/ HasMon(t, g, n)
    <3>1. HasMon(r, g, n) => HasMon(t, g, n) BY <1>6, <1>10 DEF HasMon, Doing
    <3>. QED BY <1>8, <2>4, <3>1
  <2>5. DeviceOk(r) BY DEF HandleInv
  <2>. QED BY <1>6, <1>9, <2>1, <2>2, <2>3, <2>4, <2>5, DeviceStep
<1>13. "arptype" \notin Early /\ "mtu" \notin Early /\ "flags" \notin Early BY DEF Early
<1>14. /\ t.hs[g].must \in SUBSET {"promisc", "monif", "rfmon"}
       /\ t.hs[g].must # {} /\ t.hs[g].must # {"promisc"} => r.hs[g].opt.rfmon
  <2>1. CASE r.hs[g].pc = "flags" BY <1>2, <1>4, <1>11, <2>1
  <2>2. CASE r.hs[g].pc \in Early \ {"socket"} BY <1>2, <1>4, <1>11, <2>2
  <2>. QED BY <2>1, <2>2
<1>15. ListingOk(t.hs[g], Contains(t.toclose, g), t.looped, g)
  BY <1>4, <1>6, <1>13 DEF ListingOk, Live, Doing
<1>16. Pointers(t.hs[g]) BY <1>6, ActivatingFacts, PointersSame
<1>17. "oneshot" \notin t.hs[g].mem /\ r.hs[g].mem \in SUBSET t.hs[g].mem /\ t.hs[g].wasup \in BOOLEAN
  BY <1>6, ActivatingFacts DEF Early, HandleInv, Typed
<1>24. "monif" \in t.hs[g].must => "monif" \in r.hs[g].must \/ "mondevice" \in t.hs[g].ptr
  BY <1>2, <1>4, <1>6, ActivatingFacts DEF HandleOk, ModesOk, Doing
<1>18. t.hs[g].pc \notin Early /\ t.hs[g].pc # "monup" BY <1>4, <1>13
<1>19. DeviceTyped(t.dev) /\ t.hs[g].oldmode = "managed" BY <1>8
<1>20. /\ t.hs[g].pc \in {"monup", "takedown", "setmode", "bringup", "arptype", "mtu"}
       /\ t.hs[g].pc = "mtu" <=> r.hs[g].pc = "flags"
  BY <1>4
<1>21. Listed(t.toclose) BY <1>4
<1>22. /\ {"montype", "oldmode", "must", "pc"} \in
            SUBSET {"pc", "must", "mon", "mem", "ptr", "leaked", "montype", "oldmode", "wasup"}
       /\ {"dev", "toclose", "looped"} \in SUBSET {"dev", "toclose", "looped", "faults"}
  OBVIOUS
<1>23. HandleInv(t)
  BY <1>5, <1>9, <1>12, <1>14, <1>15, <1>16, <1>17, <1>18, <1>19, <1>20, <1>21, <1>22, <1>24, SetsDevice
<1>. QED BY <1>23 DEF t

(* The device is set on the way to monitor mode, and the handle has        *)
(* nothing to undo yet.                                                    *)
LEMMA SetsQuietly ==
  ASSUME NEW r, NEW t, NEW g \in Handles, HandleInv(r), r.stage = "running", r.hs[g].st = "activating",
         r.hs[g].pc \in Early \ {"socket"}, NEW F, Differ(r, t, g, F, {"dev"}),
         F \in SUBSET {"pc", "mon", "mem", "ptr", "leaked", "montype", "oldmode", "wasup"},
         t.hs[g].pc \in {"monup", "takedown", "setmode", "bringup"},
         Pointers(t.hs[g]), r.hs[g].mem \in SUBSET t.hs[g].mem, "oneshot" \notin t.hs[g].mem,
         t.hs[g].oldmode = "managed", t.hs[g].wasup \in BOOLEAN,
         t.hs[g].pc = "monup" => "mondevice" \in t.hs[g].ptr,
         DeviceTyped(t.dev), t.dev.promisc = r.dev.promisc,
         t.dev.mode = "monitor" => (r.dev.mode = "monitor" /\ r.hs[g].pc # "bringup") \/ t.hs[g].pc = "bringup",
         t.dev.up \/ (~r.dev.up /\ ~HasDown(r, g)) \/ HasDown(t, g),
         \A n \in t.dev.mons : (n \in r.dev.mons /\ r.hs[g].pc # "monup") \/ (t.hs[g].pc = "monup" /\ t.hs[g].mon = n)
  PROVE  HandleInv(t)
<1>1. /\ t.hs[g].must = r.hs[g].must /\ t.hs[g].st = r.hs[g].st /\ t.hs[g].opt = r.hs[g].opt
      /\ t.hs[g].broke = r.hs[g].broke /\ t.hs[g].fd = r.hs[g].fd
  BY DEF Differ, HandleFields
<1>2. /\ t.open = r.open /\ t.rings = r.rings /\ t.maps = r.maps /\ t.toclose = r.toclose /\ t.looped = r.looped
  BY DEF Differ, StateFields
<1>3. Others(r, t, g) BY <1>2, QuietOthers DEF OwnOnly, ListKept
<1>4. /\ r.hs[g].opt.rfmon /\ (r.hs[g].must = {} \/ r.hs[g].broke)
      /\ r.hs[g].must # {} /\ r.hs[g].must # {"promisc"} => r.hs[g].opt.rfmon
      /\ r.hs[g].must \in SUBSET {"promisc", "monif", "rfmon"} /\ r.hs[g].fd = None
  BY ActivatingFacts DEF HandleOk, ModesOk, Doing
<1>5. Contains(r.toclose, g) => r.looped = g BY ActivatingFacts DEF HandleOk, ListingOk, Doing
<1>6. DeviceOk(t)
  <2>1. t.dev.promisc => (r.dev.promisc /\ ~HasPromisc(r, g)) \/ HasPromisc(t, g) BY <1>4 DEF HasPromisc
  <2>2. ASSUME ~SpoiledIn(t)
        PROVE  /\ t.dev.mode = "monitor" => (r.dev.mode = "monitor" /\ ~HasMode(r, g)) \/ HasMode(t, g)
               /\ t.dev.up \/ (~r.dev.up /\ ~HasDown(r, g)) \/ HasDown(t, g)
               /\ \A n \in t.dev.mons : (n \in r.dev.mons /\ ~HasMon(r, g, n)) \/ HasMon(t, g, n)
    <3>1. r.hs[g].must = {} BY <1>1, <1>4, <2>2 DEF SpoiledIn
    <3>2. \A d : ~Undoes(r, g, d) BY <3>1 DEF Undoes
    <3>3. HasMode(r, g) => r.hs[g].pc = "bringup" BY <3>2 DEF HasMode, Doing
    <3>4. t.hs[g].pc = "bringup" => HasMode(t, g) BY <1>1 DEF HasMode, Doing
    <3>5. \A n : HasMon(r, g, n) => r.hs[g].pc = "monup" BY <3>2 DEF HasMon, Doing
    <3>6. \A n : t.hs[g].pc = "monup" /\ t.hs[g].mon = n => HasMon(t, g, n) BY <1>1 DEF HasMon, Doing
    <3>. QED BY <3>3, <3>4, <3>5, <3>6
  <2>3. DeviceOk(r) BY DEF HandleInv
  <2>. QED BY <1>1, <1>3, <2>1, <2>2, <2>3, DeviceStep
<1>7. ListingOk(t.hs[g], Contains(t.toclose, g), t.looped, g) BY <1>1, <1>2, <1>4, <1>5 DEF ListingOk
<1>8. Listed(t.toclose) BY <1>2 DEF HandleInv, Typed
<1>9. r.hs[g].pc # "flags" /\ t.hs[g].pc # "mtu" BY DEF Early
<1>. QED BY <1>1, <1>3, <1>4, <1>6, <1>7, <1>8, <1>9, SetsDevice

(* Giving up there, also when it is a call that fails.                     *)
LEMMA ClosedFailing ==
  ASSUME NEW r, NEW g \in Handles, HandleInv(r), r.stage = "running", r.hs[g].st = "activating",
         r.hs[g].pc \in (Early \ {"socket"}) \cup Between
  PROVE  HandleInv(CloseAndFail(r, g)) /\ HandleInv(CloseAndFail(Failing(r), g))
<1>1. Formed(r) BY DEF HandleInv
<1>2. Differ(r, r, g, {}, {"faults", "dev"}) BY <1>1 DEF Differ
<1>3. Differ(r, Failing(r), g, {}, {"faults"}) BY <1>1, FailingDoes
<1>4. Differ(r, Failing(r), g, {}, {"faults", "dev"}) /\ Failing(r).dev = r.dev BY <1>3 DEF Differ, StateFields
<1>. QED BY <1>2, <1>4, ClosedHere

(* What is known of a handle on its way to monitor mode.                   *)
LEMMA MonitorFacts ==
  ASSUME NEW r, NEW g \in Handles, HandleInv(r), r.stage = "running", r.hs[g].st = "activating",
         r.hs[g].pc \in Early \ {"socket"}
  PROVE  /\ Formed(r) /\ DeviceTyped(r.dev) /\ r.hs[g].opt.rfmon /\ r.hs[g].wasup \in BOOLEAN
         /\ r.hs[g].oldmode = "managed" /\ Pointers(r.hs[g]) /\ "oneshot" \notin r.hs[g].mem
         /\ r.dev.mode \in {"managed", "monitor"} /\ r.dev.up \in BOOLEAN
<1>1. r.hs[g].opt.rfmon BY ActivatingFacts DEF HandleOk, ModesOk, Doing
<1>2. DeviceTyped(r.dev) /\ r.hs[g].wasup \in BOOLEAN BY DEF HandleInv, Typed
<1>3. r.hs[g].pc \notin {"ring", "map"} BY DEF Early
<1>4. r.dev.mode \in {"managed", "monitor"} /\ r.dev.up \in BOOLEAN BY <1>2 DEF DeviceTyped, Device
<1>. QED BY <1>1, <1>2, <1>3, <1>4, ActivatingFacts

(* enter_rfmon_mode_mac80211 adds an interface,                            *)
LEMMA AddMonitorInterfaceKeeps ==
  ASSUME NEW g \in Handles, HandleInv(w), w.stage = "running", AddMonitorInterface(g)
  PROVE  HandleInv(w')
<1>1. w.hs[g].st = "activating" /\ w.hs[g].pc = "mac80211" /\ w.hs[g].pc \in Early \ {"socket"}
  BY DEF AddMonitorInterface, In, Early
<1>2. CASE w' = Go(w, g, "wext")
  <2>1. w.hs[g].opt.rfmon BY <1>1, MonitorFacts
  <2>. QED BY <1>1, <1>2, <2>1, Moves DEF Early, Between, Late
<1>3. CASE w' = CloseAndFail(Failing(w), g) BY <1>1, <1>3, ClosedFailing
<1>4. ASSUME NEW n, w' = Go(Alloc([w EXCEPT !.dev.mons = @ \cup {n}, !.hs[g].mon = n], g, "mondevice"), g, "monup")
      PROVE  HandleInv(w')
  <2>. DEFINE s == [w EXCEPT !.dev.mons = @ \cup {n}, !.hs[g].mon = n]
              a == Alloc(s, g, "mondevice")
              t == Go(a, g, "monup")
              d == WithMons(w.dev, w.dev.mons \cup {n})
  <2>0. Formed(w) BY DEF HandleInv
  <2>1. Differ(w, s, g, {"mon"}, {"dev"}) /\ s.hs[g].mon = n /\ s.dev = d
    BY <2>0 DEF Formed, HandleFields, StateFields, Differ, WithMons
  <2>. HIDE DEF s
  <2>2. s.hs[g].mem = w.hs[g].mem /\ s.hs[g].ptr = w.hs[g].ptr /\ s.hs[g].twice = w.hs[g].twice /\ Formed(s)
    BY <2>1 DEF Differ, HandleFields
  <2>3. Pointers(s.hs[g]) BY <1>1, <2>2, MonitorFacts, PointersSame
  <2>4. /\ Differ(s, a, g, {"mem", "ptr", "leaked"}, {}) /\ Pointers(a.hs[g])
        /\ a.hs[g].mem = s.hs[g].mem \cup {"mondevice"} /\ a.hs[g].ptr = s.hs[g].ptr \cup {"mondevice"}
    BY <2>2, <2>3, AllocDoes, AllocPointers DEF Memory
  <2>. HIDE DEF a
  <2>5. Differ(a, t, g, {"pc"}, {}) /\ t.hs[g].pc = "monup"
    <3>1. Formed(a) BY <2>4 DEF Differ
    <3>. QED BY <3>1, GoDoes
  <2>. HIDE DEF t
  <2>6. Differ(w, t, g, {"mon", "mem", "ptr", "leaked", "pc"}, {"dev"}) BY <2>1, <2>4, <2>5 DEF Differ
  <2>7. t.hs[g].mem = a.hs[g].mem /\ t.hs[g].ptr = a.hs[g].ptr /\ t.hs[g].twice = a.hs[g].twice
    BY <2>5 DEF Differ, HandleFields
  <2>8. t.hs[g].mon = s.hs[g].mon /\ t.dev = s.dev BY <2>4, <2>5 DEF Differ, HandleFields, StateFields
  <2>9. t.hs[g].oldmode = w.hs[g].oldmode /\ t.hs[g].wasup = w.hs[g].wasup BY <2>6 DEF Differ, HandleFields
  <2>10. /\ DeviceTyped(d) /\ d.mons = w.dev.mons \cup {n} /\ d.promisc = w.dev.promisc /\ d.mode = w.dev.mode
         /\ d.up = w.dev.up
    <3>1. DeviceTyped(w.dev) BY <1>1, MonitorFacts
    <3>. QED BY <3>1, MonsFields
  <2>. HIDE DEF d
  <2>11. Pointers(t.hs[g]) BY <2>4, <2>7, PointersSame
  <2>12. /\ w.hs[g].mem \in SUBSET t.hs[g].mem /\ "oneshot" \notin t.hs[g].mem /\ "mondevice" \in t.hs[g].ptr
         /\ t.hs[g].oldmode = "managed" /\ t.hs[g].wasup \in BOOLEAN
    BY <1>1, <2>2, <2>4, <2>7, <2>9, MonitorFacts
  <2>13. /\ t.dev.promisc = w.dev.promisc /\ DeviceTyped(t.dev)
         /\ t.dev.mode = "monitor" => w.dev.mode = "monitor" /\ w.hs[g].pc # "bringup"
         /\ t.dev.up \/ (~w.dev.up /\ ~HasDown(w, g))
         /\ \A k \in t.dev.mons : (k \in w.dev.mons /\ w.hs[g].pc # "monup") \/ (t.hs[g].pc = "monup" /\ t.hs[g].mon = k)
    BY <1>1, <2>1, <2>5, <2>8, <2>10 DEF HasDown, Doing
  <2>14. HandleInv(t) BY <1>1, <2>5, <2>6, <2>11, <2>12, <2>13, SetsQuietly
  <2>. QED BY <1>4, <2>14 DEF t, a, s
<1>. QED BY <1>2, <1>3, <1>4 DEF AddMonitorInterface

(* brings it up and puts the handle on the list;                           *)
LEMMA BringUpMonitorInterfaceKeeps ==
  ASSUME NEW g \in Handles, HandleInv(w), w.stage = "running", w.looped \in {None, g}, BringUpMonitorInterface(g)
  PROVE  HandleInv(w')
<1>1. w.hs[g].st = "activating" /\ w.hs[g].pc = "monup" /\ w.hs[g].pc \in Early \ {"socket"}
  BY DEF BringUpMonitorInterface, In, Early
<1>2. Formed(w) /\ DeviceTyped(w.dev) /\ w.hs[g].opt.rfmon /\ w.hs[g].oldmode = "managed" BY <1>1, MonitorFacts
<1>3. CASE w' = Go(pcap_add_to_pcaps_to_close([w EXCEPT !.hs[g].must = @ \cup {"monif"}], g), g, "arptype")
  <2>1. w' = Lists(w, g, "monif", "arptype") BY <1>3 DEF Lists
  <2>2. Differ(w, w, g, {"montype", "oldmode"}, {"dev"}) BY <1>2 DEF Differ
  <2>3. w.dev.up \/ (~w.dev.up /\ ~HasDown(w, g)) BY <1>1 DEF HasDown, Doing
  <2>4. HandleInv(Lists(w, g, "monif", "arptype")) BY <1>1, <1>2, <2>2, <2>3, ListsKeeps
  <2>. QED BY <2>1, <2>4
<1>4. CASE w' = CloseAndFail(Failing(w), g) BY <1>1, <1>4, ClosedFailing
<1>5. CASE w' = CloseAndFail([Failing(w) EXCEPT !.dev.mons = @ \ {w.hs[g].mon}], g)
  <2>. DEFINE a == Failing(w)
              x == [a EXCEPT !.dev.mons = @ \ {w.hs[g].mon}]
              d == WithMons(a.dev, a.dev.mons \ {w.hs[g].mon})
  <2>1. Differ(w, a, g, {}, {"faults"}) BY <1>2, FailingDoes
  <2>. HIDE DEF a
  <2>2. Formed(a) /\ a.dev = w.dev BY <2>1 DEF Differ, StateFields
  <2>3. Differ(a, x, g, {}, {"dev"}) /\ x.dev = d
    BY <2>2 DEF Formed, HandleFields, StateFields, Differ, WithMons
  <2>. HIDE DEF x
  <2>4. DeviceTyped(d) /\ d.promisc = a.dev.promisc BY <1>2, <2>2, MonsFields
  <2>5. Differ(w, x, g, {}, {"faults", "dev"}) BY <2>1, <2>3 DEF Differ
  <2>6. HandleInv(CloseAndFail(x, g)) BY <1>1, <1>2, <2>2, <2>3, <2>4, <2>5, ClosedHere
  <2>. QED BY <1>5, <2>6 DEF x, a
<1>. QED BY <1>3, <1>4, <1>5 DEF BringUpMonitorInterface

(* enter_rfmon_mode_wext looks at the mode and at the private calls of the *)
(* driver,                                                                 *)
LEMMA EnterMonitorModeKeeps ==
  ASSUME NEW g \in Handles, HandleInv(w), w.stage = "running", w.looped \in {None, g}, EnterMonitorMode(g)
  PROVE  HandleInv(w')
<1>1. w.hs[g].st = "activating" /\ w.hs[g].pc = "wext" /\ w.hs[g].pc \in Early \ {"socket"}
  BY DEF EnterMonitorMode, In, Early
<1>2. /\ Formed(w) /\ DeviceTyped(w.dev) /\ w.hs[g].opt.rfmon /\ w.dev.mode \in {"managed", "monitor"}
      /\ w.hs[g].wasup \in BOOLEAN /\ Pointers(w.hs[g]) /\ "oneshot" \notin w.hs[g].mem
  BY <1>1, MonitorFacts
<1>3. CASE w' = CloseAndFail(w, g) BY <1>1, <1>3, ClosedFailing
<1>4. CASE w' = CloseAndFail(Failing(w), g) BY <1>1, <1>4, ClosedFailing
<1>5. CASE w' = Go(w, g, "arptype") BY <1>1, <1>5, Moves DEF Early, Between, Late
<1>6. ASSUME NEW montype, NEW s, s = [w EXCEPT !.hs[g].montype = montype, !.hs[g].oldmode = w.dev.mode],
             w.dev.mode # "monitor",
             w' = Go(s, g, "takedown") \/ w' = MustLeaveMonitorMode([s EXCEPT !.dev.mode = "monitor"], g)
      PROVE  HandleInv(w')
  <2>1. Differ(w, s, g, {"montype", "oldmode"}, {}) /\ s.hs[g].oldmode = w.dev.mode
    BY <1>2, <1>6 DEF Formed, HandleFields, StateFields, Differ
  <2>2. Formed(s) /\ s.hs[g].oldmode = "managed" /\ s.dev = w.dev BY <1>2, <1>6, <2>1 DEF Differ, StateFields
  <2>3. CASE w' = Go(s, g, "takedown")
    <3>. DEFINE t == Go(s, g, "takedown")
    <3>1. Differ(s, t, g, {"pc"}, {}) /\ t.hs[g].pc = "takedown" BY <2>2, GoDoes
    <3>. HIDE DEF t
    <3>2. Differ(w, t, g, {"montype", "oldmode", "pc"}, {"dev"}) BY <2>1, <3>1 DEF Differ
    <3>3. /\ t.hs[g].mem = w.hs[g].mem /\ t.hs[g].ptr = w.hs[g].ptr /\ t.hs[g].twice = w.hs[g].twice
          /\ t.hs[g].wasup = w.hs[g].wasup
      BY <3>2 DEF Differ, HandleFields
    <3>4. t.hs[g].oldmode = s.hs[g].oldmode /\ t.dev = s.dev BY <3>1 DEF Differ, HandleFields, StateFields
    <3>5. Pointers(t.hs[g]) BY <1>2, <3>3, PointersSame
    <3>6. w.dev.up \/ (~w.dev.up /\ ~HasDown(w, g)) BY <1>1 DEF HasDown, Doing
    <3>7. /\ t.dev.up \/ (~w.dev.up /\ ~HasDown(w, g)) \/ HasDown(t, g)
          /\ \A n \in t.dev.mons : (n \in w.dev.mons /\ w.hs[g].pc # "monup") \/ (t.hs[g].pc = "monup" /\ t.hs[g].mon = n)
          /\ t.dev.promisc = w.dev.promisc /\ DeviceTyped(t.dev) /\ t.dev.mode # "monitor"
      BY <1>1, <1>2, <1>6, <2>2, <3>4, <3>6
    <3>8. /\ w.hs[g].mem \in SUBSET t.hs[g].mem /\ "oneshot" \notin t.hs[g].mem /\ t.hs[g].oldmode = "managed"
          /\ t.hs[g].wasup \in BOOLEAN
      BY <1>2, <2>2, <3>3, <3>4
    <3>9. HandleInv(t) BY <1>1, <3>1, <3>2, <3>5, <3>7, <3>8, SetsQuietly
    <3>. QED BY <2>3, <3>9 DEF t
  <2>4. CASE w' = MustLeaveMonitorMode([s EXCEPT !.dev.mode = "monitor"], g)
    <3>. DEFINE x == [s EXCEPT !.dev.mode = "monitor"]
                d == WithMode(s.dev, "monitor")
    <3>1. Differ(s, x, g, {}, {"dev"}) /\ x.dev = d
      BY <2>2 DEF Formed, HandleFields, StateFields, Differ, WithMode
    <3>2. w' = Lists(x, g, "rfmon", "arptype") BY <2>4 DEF MustLeaveMonitorMode, Lists
    <3>. HIDE DEF x
    <3>3. DeviceTyped(d) /\ d.promisc = s.dev.promisc /\ d.mons = s.dev.mons /\ d.up = s.dev.up
      BY <1>2, <2>2, ModeFields
    <3>. HIDE DEF d
    <3>4. Differ(w, x, g, {"montype", "oldmode"}, {"dev"}) BY <2>1, <3>1 DEF Differ
    <3>5. x.hs[g].oldmode = s.hs[g].oldmode BY <3>1 DEF Differ, HandleFields
    <3>6. w.dev.up \/ (~w.dev.up /\ ~HasDown(w, g)) BY <1>1 DEF HasDown, Doing
    <3>7. /\ x.dev.up \/ (~w.dev.up /\ ~HasDown(w, g))
          /\ x.dev.promisc = w.dev.promisc /\ x.dev.mons = w.dev.mons /\ DeviceTyped(x.dev) /\ x.hs[g].oldmode = "managed"
      BY <2>2, <3>1, <3>3, <3>5, <3>6
    <3>8. HandleInv(Lists(x, g, "rfmon", "arptype")) BY <1>1, <3>4, <3>7, ListsKeeps
    <3>. QED BY <3>2, <3>8
  <2>. QED BY <1>6, <2>3, <2>4
<1>. QED BY <1>3, <1>4, <1>5, <1>6 DEF EnterMonitorMode

(* takes the device down,                                                  *)
LEMMA TakeDownKeeps ==
  ASSUME NEW g \in Handles, HandleInv(w), w.stage = "running", TakeDown(g)
  PROVE  HandleInv(w')
<1>1. w.hs[g].st = "activating" /\ w.hs[g].pc = "takedown" /\ w.hs[g].pc \in Early \ {"socket"}
  BY DEF TakeDown, In, Early
<1>2. CASE w' = CloseAndFail(Failing(w), g) BY <1>1, <1>2, ClosedFailing
<1>3. CASE w' = Go([w EXCEPT !.hs[g].wasup = w.dev.up, !.dev.up = FALSE], g, "setmode")
  <2>. DEFINE s == [w EXCEPT !.hs[g].wasup = w.dev.up, !.dev.up = FALSE]
              t == Go(s, g, "setmode")
              d == WithUp(w.dev, FALSE)
  <2>0. Formed(w) BY DEF HandleInv
  <2>1. Differ(w, s, g, {"wasup"}, {"dev"}) /\ s.hs[g].wasup = w.dev.up /\ s.dev = d
    BY <2>0 DEF Formed, HandleFields, StateFields, Differ, WithUp
  <2>. HIDE DEF s
  <2>2. Differ(s, t, g, {"pc"}, {}) /\ t.hs[g].pc = "setmode"
    <3>1. Formed(s) BY <2>1 DEF Differ
    <3>. QED BY <3>1, GoDoes
  <2>. HIDE DEF t
  <2>3. Differ(w, t, g, {"wasup", "pc"}, {"dev"}) BY <2>1, <2>2 DEF Differ
  <2>4. /\ t.hs[g].mem = w.hs[g].mem /\ t.hs[g].ptr = w.hs[g].ptr /\ t.hs[g].twice = w.hs[g].twice
        /\ t.hs[g].oldmode = w.hs[g].oldmode /\ t.hs[g].st = w.hs[g].st
    BY <2>3 DEF Differ, HandleFields
  <2>5. t.hs[g].wasup = s.hs[g].wasup /\ t.dev = s.dev BY <2>2 DEF Differ, HandleFields, StateFields
  <2>6. DeviceTyped(w.dev) BY <1>1, MonitorFacts
  <2>7. DeviceTyped(d) /\ d.promisc = w.dev.promisc /\ d.mons = w.dev.mons /\ d.mode = w.dev.mode
    BY <2>6, UpFields
  <2>. HIDE DEF d
  <2>8. Pointers(t.hs[g]) BY <1>1, <2>4, MonitorFacts, PointersSame
  <2>9. (~w.dev.up /\ ~HasDown(w, g)) \/ HasDown(t, g) BY <1>1, <2>1, <2>2, <2>4, <2>5 DEF HasDown, Doing
  <2>10. /\ w.hs[g].mem \in SUBSET t.hs[g].mem /\ "oneshot" \notin t.hs[g].mem /\ t.hs[g].oldmode = "managed"
         /\ t.hs[g].wasup \in BOOLEAN
    BY <1>1, <2>1, <2>4, <2>5, MonitorFacts
  <2>11. /\ \A n \in t.dev.mons : n \in w.dev.mons /\ w.hs[g].pc # "monup"
         /\ t.dev.promisc = w.dev.promisc /\ DeviceTyped(t.dev)
         /\ t.dev.mode = "monitor" => w.dev.mode = "monitor" /\ w.hs[g].pc # "bringup"
    BY <1>1, <2>1, <2>5, <2>7
  <2>12. HandleInv(t) BY <1>1, <2>2, <2>3, <2>8, <2>9, <2>10, <2>11, SetsQuietly
  <2>. QED BY <1>3, <2>12 DEF t, s
<1>. QED BY <1>2, <1>3 DEF TakeDown

(* sets the mode                                                           *)
LEMMA SetModeKeeps ==
  ASSUME NEW g \in Handles, HandleInv(w), w.stage = "running", SetMode(g)
  PROVE  HandleInv(w')
<1>1. w.hs[g].st = "activating" /\ w.hs[g].pc = "setmode" /\ w.hs[g].pc \in Early \ {"socket"}
  BY DEF SetMode, In, Early
<1>2. Formed(w) /\ DeviceTyped(w.dev) /\ w.hs[g].opt.rfmon /\ w.hs[g].wasup \in BOOLEAN BY <1>1, MonitorFacts
<1>3. CASE w' = CloseAndFail(Failing(w), g) BY <1>1, <1>3, ClosedFailing
<1>4. CASE w' = CloseAndFail([Failing(w) EXCEPT !.dev.up = w.hs[g].wasup], g)
  <2>. DEFINE a == Failing(w)
              x == [a EXCEPT !.dev.up = w.hs[g].wasup]
              d == WithUp(a.dev, w.hs[g].wasup)
  <2>1. Differ(w, a, g, {}, {"faults"}) BY <1>2, FailingDoes
  <2>. HIDE DEF a
  <2>2. Formed(a) /\ a.dev = w.dev BY <2>1 DEF Differ, StateFields
  <2>3. Differ(a, x, g, {}, {"dev"}) /\ x.dev = d
    BY <2>2 DEF Formed, HandleFields, StateFields, Differ, WithUp
  <2>. HIDE DEF x
  <2>4. DeviceTyped(d) /\ d.promisc = a.dev.promisc BY <1>2, <2>2, UpFields
  <2>5. Differ(w, x, g, {}, {"faults", "dev"}) BY <2>1, <2>3 DEF Differ
  <2>6. HandleInv(CloseAndFail(x, g)) BY <1>1, <1>2, <2>2, <2>3, <2>4, <2>5, ClosedHere
  <2>. QED BY <1>4, <2>6 DEF x, a
<1>5. CASE w' = Go([w EXCEPT !.dev.mode = "monitor"], g, "bringup")
  <2>. DEFINE s == [w EXCEPT !.dev.mode = "monitor"]
              t == Go(s, g, "bringup")
              d == WithMode(w.dev, "monitor")
  <2>1. Differ(w, s, g, {}, {"dev"}) /\ s.dev = d
    BY <1>2 DEF Formed, HandleFields, StateFields, Differ, WithMode
  <2>. HIDE DEF s
  <2>2. Differ(s, t, g, {"pc"}, {}) /\ t.hs[g].pc = "bringup"
    <3>1. Formed(s) BY <2>1 DEF Differ
    <3>. QED BY <3>1, GoDoes
  <2>. HIDE DEF t
  <2>3. Differ(w, t, g, {"pc"}, {"dev"}) BY <2>1, <2>2 DEF Differ
  <2>4. /\ t.hs[g].mem = w.hs[g].mem /\ t.hs[g].ptr = w.hs[g].ptr /\ t.hs[g].twice = w.hs[g].twice
        /\ t.hs[g].oldmode = w.hs[g].oldmode /\ t.hs[g].st = w.hs[g].st /\ t.hs[g].wasup = w.hs[g].wasup
    BY <2>3 DEF Differ, HandleFields
  <2>5. t.dev = s.dev BY <2>2 DEF Differ, StateFields
  <2>6. DeviceTyped(d) /\ d.promisc = w.dev.promisc /\ d.mons = w.dev.mons /\ d.up = w.dev.up
    BY <1>2, ModeFields
  <2>. HIDE DEF d
  <2>7. Pointers(t.hs[g]) BY <1>1, <2>4, MonitorFacts, PointersSame
  <2>8. t.dev.up \/ (~w.dev.up /\ ~HasDown(w, g)) \/ HasDown(t, g)
    <3>1. HasDown(w, g) => HasDown(t, g) BY <2>2, <2>4 DEF HasDown, Doing
    <3>. QED BY <2>1, <2>5, <2>6, <3>1
  <2>9. /\ w.hs[g].mem \in SUBSET t.hs[g].mem /\ "oneshot" \notin t.hs[g].mem /\ t.hs[g].oldmode = "managed"
        /\ t.hs[g].wasup \in BOOLEAN
    BY <1>1, <2>4, MonitorFacts
  <2>10. /\ \A n \in t.dev.mons : n \in w.dev.mons /\ w.hs[g].pc # "monup"
         /\ t.dev.promisc = w.dev.promisc /\ DeviceTyped(t.dev)
    BY <1>1, <2>1, <2>5, <2>6
  <2>11. HandleInv(t) BY <1>1, <2>2, <2>3, <2>7, <2>8, <2>9, <2>10, SetsQuietly
  <2>. QED BY <1>5, <2>11 DEF t, s
<1>. QED BY <1>3, <1>4, <1>5 DEF SetMode

(* and brings the device up again.                                         *)
LEMMA BringUpKeeps ==
  ASSUME NEW g \in Handles, HandleInv(w), w.stage = "running", w.looped \in {None, g}, BringUp(g)
  PROVE  HandleInv(w')
<1>1. w.hs[g].st = "activating" /\ w.hs[g].pc = "bringup" /\ w.hs[g].pc \in Early \ {"socket"}
  BY DEF BringUp, In, Early
<1>2. Formed(w) /\ DeviceTyped(w.dev) /\ w.hs[g].oldmode = "managed" BY <1>1, MonitorFacts
<1>3. CASE w' = CloseAndFail(Failing(w), g) BY <1>1, <1>3, ClosedFailing
<1>4. CASE w' = MustLeaveMonitorMode([w EXCEPT !.dev.up = @ \/ w.hs[g].wasup], g)
  <2>. DEFINE u == w.dev.up \/ w.hs[g].wasup
              x == [w EXCEPT !.dev.up = u]
              d == WithUp(w.dev, u)
  <2>1. w' = Lists(x, g, "rfmon", "arptype") BY <1>4 DEF MustLeaveMonitorMode, Lists
  <2>2. u \in BOOLEAN /\ (w.dev.up \/ w.hs[g].wasup => u) BY Zenon
  <2>. HIDE DEF u
  <2>3. Differ(w, x, g, {}, {"dev"}) /\ x.dev = d
    BY <1>2 DEF Formed, HandleFields, StateFields, Differ, WithUp
  <2>. HIDE DEF x
  <2>4. /\ DeviceTyped(d) /\ d.promisc = w.dev.promisc /\ d.mons = w.dev.mons /\ d.mode = w.dev.mode /\ d.up = u
    BY <1>2, <2>2, UpFields
  <2>. HIDE DEF d
  <2>5. Differ(w, x, g, {"montype", "oldmode"}, {"dev"}) BY <2>3 DEF Differ
  <2>6. x.hs[g].oldmode = "managed" BY <1>2, <2>3 DEF Differ, HandleFields
  <2>7. x.dev.up \/ (~w.dev.up /\ ~HasDown(w, g)) BY <2>2, <2>3, <2>4 DEF HasDown
  <2>8. /\ x.dev.promisc = w.dev.promisc /\ x.dev.mons = w.dev.mons /\ DeviceTyped(x.dev) BY <2>3, <2>4
  <2>9. HandleInv(Lists(x, g, "rfmon", "arptype")) BY <1>1, <2>5, <2>6, <2>7, <2>8, ListsKeeps
  <2>. QED BY <2>1, <2>9
<1>. QED BY <1>3, <1>4 DEF BringUp

(* activate_old sets promiscuous mode on the device, where it was not set. *)
LEMMA OldPromiscuousKeeps ==
  ASSUME NEW g \in Handles, HandleInv(w), w.stage = "running", w.looped \in {None, g}, OldPromiscuous(g)
  PROVE  HandleInv(w')
<1>1. w.hs[g].st = "activating" /\ w.hs[g].pc = "flags" BY DEF OldPromiscuous, In
<1>2. Formed(w) /\ DeviceTyped(w.dev) /\ w.hs[g].oldmode = "managed" BY <1>1, ActivatingFacts DEF Typed
<1>3. CASE w' = Go(w, g, "mtu") BY <1>1, <1>3, Moves DEF Early, Between, Late
<1>4. CASE w' = Fail(Failing(w), g)
  <2>1. Differ(w, Failing(w), g, {}, {"faults"}) BY <1>2, FailingDoes
  <2>. QED BY <1>1, <1>4, <2>1, FailsHere DEF Late
<1>5. CASE w' = Go(pcap_add_to_pcaps_to_close([w EXCEPT !.dev.promisc = TRUE, !.hs[g].must = @ \cup {"promisc"}], g),
                   g, "mtu")
  <2>. DEFINE x == [w EXCEPT !.dev.promisc = TRUE]
              d == WithPromisc(w.dev, TRUE)
  <2>1. w' = Lists(x, g, "promisc", "mtu")
    <3>1. [x EXCEPT !.hs[g].must = @ \cup {"promisc"}]
           = [w EXCEPT !.dev.promisc = TRUE, !.hs[g].must = @ \cup {"promisc"}]
      BY <1>2 DEF Formed, StateFields, HandleFields
    <3>. QED BY <1>5, <3>1 DEF Lists
  <2>2. Differ(w, x, g, {}, {"dev"}) /\ x.dev = d
    BY <1>2 DEF Formed, HandleFields, StateFields, Differ, WithPromisc
  <2>. HIDE DEF x
  <2>3. DeviceTyped(d) /\ d.mons = w.dev.mons /\ d.mode = w.dev.mode /\ d.up = w.dev.up
    <3>1. PICK b \in BOOLEAN : b = TRUE OBVIOUS
    <3>2. d = WithPromisc(w.dev, b) BY <3>1
    <3>. HIDE DEF d
    <3>. QED BY <1>2, <3>2, PromiscFields
  <2>. HIDE DEF d
  <2>4. Differ(w, x, g, {"montype", "oldmode"}, {"dev"}) BY <2>2 DEF Differ
  <2>5. x.hs[g].oldmode = "managed" BY <1>2, <2>2 DEF Differ, HandleFields
  <2>6. w.dev.up \/ (~w.dev.up /\ ~HasDown(w, g)) BY <1>1 DEF HasDown, Doing
  <2>7. /\ x.dev.up \/ (~w.dev.up /\ ~HasDown(w, g))
        /\ x.dev.mons = w.dev.mons /\ x.dev.mode = w.dev.mode /\ DeviceTyped(x.dev)
    BY <2>2, <2>3, <2>6
  <2>8. HandleInv(Lists(x, g, "promisc", "mtu")) BY <1>1, <2>4, <2>5, <2>7, ListsKeeps
  <2>. QED BY <2>1, <2>8
<1>. QED BY <1>3, <1>4, <1>5 DEF OldPromiscuous

(* A step of a handle that was not live.                                   *)
LEMMA Starts ==
  ASSUME NEW r, NEW t, NEW g \in Handles, HandleInv(r), r.stage = "running", ~Live(r.hs[g]), NEW F,
         Differ(r, t, g, F, {"faults"}), F \in SUBSET (HandleFields \ {"wasup"}), HandleOk(t, g),
         {"any", "promisc", "rfmon", "buffer_size"} \in SUBSET DOMAIN t.hs[g].opt,
         r.hs[g].broke /\ r.hs[g].opt.rfmon => t.hs[g].broke /\ t.hs[g].opt.rfmon
  PROVE  HandleInv(t)
<1>1. /\ t.open = r.open /\ t.rings = r.rings /\ t.maps = r.maps /\ t.toclose = r.toclose /\ t.looped = r.looped
      /\ t.dev = r.dev /\ t.stage = r.stage /\ Formed(t)
  BY DEF Differ, StateFields
<1>2. t.hs[g].wasup = r.hs[g].wasup BY DEF Differ, HandleFields
<1>3. Others(r, t, g) BY <1>1, QuietOthers DEF OwnOnly, ListKept
<1>4. DeviceOk(t)
  <2>1. DeviceOk(r) BY DEF HandleInv
  <2>2. (\A m : ~Undoes(r, g, m)) /\ ~Doing(r.hs[g], {"monup", "setmode", "bringup"}) BY DEF Undoes, Doing, Live
  <2>. QED BY <1>1, <1>3, <2>1, <2>2, QuietDevice
<1>5. /\ t.open \in SUBSET UNION {SocketsOf(e) : e \in Handles} /\ DeviceTyped(t.dev) /\ Listed(t.toclose)
      /\ t.hs[g].wasup \in BOOLEAN
  BY <1>1, <1>2 DEF HandleInv, Typed
<1>. QED BY <1>1, <1>3, <1>4, <1>5, StepOk

(* What is known of a handle that is not live.                             *)
LEMMA IdleFacts ==
  ASSUME NEW r, NEW g \in Handles, HandleInv(r), r.stage # "ended", ~Live(r.hs[g])
  PROVE  /\ Formed(r) /\ HandleOk(r, g) /\ g \notin r.maps /\ Pointers(r.hs[g]) /\ r.hs[g].fd = None
         /\ r.hs[g].oldmode = "managed"
         /\ Contains(r.toclose, g) => r.looped = g
<1>1. Formed(r) /\ HandleOk(r, g) BY DEF HandleInv
<1>2. g \notin r.maps BY <1>1 DEF HandleOk, Live
<1>3. Pointers(r.hs[g]) BY <1>1 DEF HandleOk, MemoryOk
<1>4. r.hs[g].fd = None BY <1>1 DEF HandleOk, SocketsOk
<1>5. r.hs[g].oldmode = "managed" BY <1>1 DEF HandleOk, ModesOk
<1>6. Contains(r.toclose, g) => r.looped = g BY <1>1 DEF HandleOk, ListingOk
<1>. QED BY <1>1, <1>2, <1>3, <1>4, <1>5, <1>6

(* pcap_create makes a handle.                                             *)
LEMMA CreateKeeps ==
  ASSUME NEW g \in Handles, HandleInv(w), w.stage = "running", pcap_create(g)
  PROVE  HandleInv(w')
<1>1. w.hs[g].st = "none" BY DEF pcap_create
<1>2. PICK opt \in Options : w' = Alloc([w EXCEPT !.hs[g].st = "created", !.hs[g].opt = opt], g, "source")
  BY DEF pcap_create
<1>3. {"any", "promisc", "rfmon", "buffer_size"} \in SUBSET DOMAIN opt BY HandleAssumption
<1>. DEFINE s == [w EXCEPT !.hs[g].st = "created", !.hs[g].opt = opt]
            t == Alloc(s, g, "source")
<1>4. Formed(w) BY DEF HandleInv
<1>5. Differ(w, s, g, {"st", "opt"}, {}) /\ s.hs[g].st = "created" /\ s.hs[g].opt = opt
  BY <1>4 DEF Formed, HandleFields, StateFields, Differ
<1>. HIDE DEF s
<1>6. Formed(s) /\ s.hs[g].mem = w.hs[g].mem /\ s.hs[g].ptr = w.hs[g].ptr /\ s.hs[g].twice = w.hs[g].twice
  BY <1>5 DEF Differ, HandleFields
<1>7. /\ ~Live(w.hs[g]) /\ HandleOk(w, g) /\ g \notin w.maps /\ Pointers(w.hs[g]) /\ w.hs[g].fd = None
      /\ w.hs[g].oldmode = "managed" /\ (Contains(w.toclose, g) => w.looped = g)
  <2>1. ~Live(w.hs[g]) BY <1>1 DEF Live
  <2>. QED BY <2>1, IdleFacts
<1>8. Pointers(s.hs[g]) BY <1>6, <1>7, PointersSame
<1>9. /\ Differ(s, t, g, {"mem", "ptr", "leaked"}, {}) /\ Pointers(t.hs[g])
      /\ t.hs[g].mem = s.hs[g].mem \cup {"source"} /\ t.hs[g].ptr = s.hs[g].ptr \cup {"source"}
  BY <1>6, <1>8, AllocDoes, AllocPointers DEF Memory
<1>. HIDE DEF t
<1>10. Differ(w, t, g, {"st", "opt", "mem", "ptr", "leaked"}, {"faults"}) BY <1>5, <1>9 DEF Differ
<1>11. /\ t.hs[g].must = w.hs[g].must /\ t.hs[g].broke = w.hs[g].broke /\ t.hs[g].oldmode = w.hs[g].oldmode
       /\ t.hs[g].fd = w.hs[g].fd /\ t.hs[g].cleanup = w.hs[g].cleanup
       /\ t.open = w.open /\ t.maps = w.maps /\ t.toclose = w.toclose /\ t.looped = w.looped
  BY <1>10 DEF Differ, HandleFields, StateFields
<1>12. t.hs[g].st = "created" /\ t.hs[g].opt = opt BY <1>5, <1>9 DEF Differ, HandleFields
<1>13. w.hs[g].mem = {} /\ w.hs[g].must = {} /\ ~w.hs[g].broke /\ w.hs[g].cleanup = "live" /\ OwnedIn(w, g) = {}
  BY <1>1, <1>7 DEF HandleOk, MemoryOk, ModesOk, SocketsOk, Live
<1>14. HandleOk(t, g)
  <2>1. MemoryOk(t.hs[g]) BY <1>6, <1>9, <1>12, <1>13 DEF MemoryOk, Doing, Live
  <2>2. ModesOk(t.hs[g]) BY <1>7, <1>11, <1>12, <1>13 DEF ModesOk, Doing, Live, Lost
  <2>3. SocketsOk(t.hs[g], OwnedIn(t, g), t.rings)
    <3>1. OwnedIn(t, g) = {} BY <1>11, <1>13 DEF OwnedIn
    <3>. QED BY <3>1, <1>7, <1>11, <1>12, <1>13 DEF SocketsOk, Live
  <2>4. ListingOk(t.hs[g], Contains(t.toclose, g), t.looped, g) BY <1>7, <1>11, <1>12 DEF ListingOk, Live
  <2>. QED BY <2>1, <2>2, <2>3, <2>4, <1>7, <1>11, <1>12 DEF HandleOk
<1>15. {"st", "opt", "mem", "ptr", "leaked"} \in SUBSET (HandleFields \ {"wasup"}) BY DEF HandleFields
<1>16. HandleInv(t) BY <1>3, <1>7, <1>10, <1>12, <1>13, <1>14, <1>15, Starts
<1>. QED BY <1>2, <1>16 DEF t, s

(* A handle is being activated.                                            *)
Activating(s, g, opt) == [s EXCEPT !.hs[g] = [@ EXCEPT !.st = "activating", !.cleanup = "linux", !.opt = opt]]

(* What that changes.                                                      *)
LEMMA ActivatingDoes ==
  ASSUME NEW s, Formed(s), NEW g \in Handles, NEW opt, NEW t, t = Activating(s, g, opt)
  PROVE  /\ Differ(s, t, g, {"st", "cleanup", "opt"}, {})
         /\ t.hs[g].st = "activating" /\ t.hs[g].cleanup = "linux" /\ t.hs[g].opt = opt
<1>. DEFINE r == [s.hs[g] EXCEPT !.st = "activating", !.cleanup = "linux", !.opt = opt]
<1>1. t = [s EXCEPT !.hs[g] = r] BY DEF Activating
<1>2. DOMAIN s.hs[g] = HandleFields BY DEF Formed
<1>3. Same(s.hs[g], r, {"st", "cleanup", "opt"}) /\ r.st = "activating" /\ r.cleanup = "linux" /\ r.opt = opt
  BY <1>2 DEF HandleFields, Same
<1>. HIDE DEF r
<1>4. Differ(s, t, g, {"st", "cleanup", "opt"}, {}) /\ t.hs[g] = r
  BY <1>1, <1>3 DEF Formed, HandleFields, StateFields, Differ, Same
<1>. QED BY <1>3, <1>4

(* pcap_activate begins, or is refused.                                    *)
LEMMA ActivateKeeps ==
  ASSUME NEW g \in Handles, HandleInv(w), w.stage = "running", pcap_activate(g)
  PROVE  HandleInv(w')
<1>1. w.hs[g].st \in {"created", "failed"} BY DEF pcap_activate
<1>. DEFINE opt == [Opt(g) EXCEPT !.promisc = @ /\ ~Opt(g).any]
            s == Activating(w, g, opt)
<1>2. \/ w' = Go(Alloc(s, g, "device"), g, "socket")
      \/ w' = NotActivated(Failing(s), g)
  BY DEF pcap_activate, Activating
<1>3. Formed(w) BY DEF HandleInv
<1>4. /\ {"any", "promisc", "rfmon", "buffer_size"} \in SUBSET DOMAIN opt
      /\ opt.any = w.hs[g].opt.any /\ opt.rfmon = w.hs[g].opt.rfmon
  <2>1. {"any", "promisc", "rfmon", "buffer_size"} \in SUBSET DOMAIN w.hs[g].opt BY <1>1 DEF HandleInv, Typed
  <2>. QED BY <2>1 DEF Opt
<1>. HIDE DEF opt
<1>5. /\ Differ(w, s, g, {"st", "cleanup", "opt"}, {})
      /\ s.hs[g].st = "activating" /\ s.hs[g].cleanup = "linux" /\ s.hs[g].opt = opt
  BY <1>3, ActivatingDoes
<1>. HIDE DEF s
<1>6. Formed(s) /\ s.hs[g].mem = w.hs[g].mem /\ s.hs[g].ptr = w.hs[g].ptr /\ s.hs[g].twice = w.hs[g].twice
  BY <1>5 DEF Differ, HandleFields
<1>7. /\ ~Live(w.hs[g]) /\ HandleOk(w, g) /\ g \notin w.maps /\ Pointers(w.hs[g]) /\ w.hs[g].fd = None
      /\ w.hs[g].oldmode = "managed" /\ (Contains(w.toclose, g) => w.looped = g)
  <2>1. ~Live(w.hs[g]) BY <1>1 DEF Live
  <2>. QED BY <2>1, IdleFacts
<1>8. Pointers(s.hs[g]) BY <1>6, <1>7, PointersSame
<1>9. /\ w.hs[g].mem = {"source"} /\ (w.hs[g].must = {} \/ w.hs[g].broke)
      /\ OwnedIn(w, g) = {} \/ Leaves(w.hs[g])
      /\ w.hs[g].must # {} /\ w.hs[g].must # {"promisc"} => w.hs[g].opt.rfmon
      /\ w.hs[g].must \in SUBSET {"promisc", "monif", "rfmon"}
  BY <1>1, <1>7 DEF HandleOk, MemoryOk, ModesOk, SocketsOk, Live
<1>10. ASSUME NEW t, NEW F, Differ(w, t, g, F, {"faults"}),
              F \in SUBSET {"st", "pc", "cleanup", "sock", "broke", "opt", "mem", "ptr", "leaked"},
              Pointers(t.hs[g]), t.hs[g].opt = opt, w.hs[g].broke => t.hs[g].broke,
              \/ /\ t.hs[g].st = "activating" /\ t.hs[g].pc = "socket" /\ t.hs[g].cleanup = "linux"
                 /\ t.hs[g].mem = {"source", "device"} /\ t.hs[g].broke = w.hs[g].broke
              \/ /\ t.hs[g].st = "failed" /\ t.hs[g].cleanup = "live" /\ t.hs[g].mem = {"source"} /\ t.hs[g].broke
       PROVE  HandleInv(t)
  <2>1. /\ t.hs[g].must = w.hs[g].must /\ t.hs[g].oldmode = w.hs[g].oldmode /\ t.hs[g].fd = w.hs[g].fd
        /\ t.open = w.open /\ t.maps = w.maps /\ t.toclose = w.toclose /\ t.looped = w.looped
    BY <1>10 DEF Differ, HandleFields, StateFields
  <2>2. MemoryOk(t.hs[g]) BY <1>10 DEF MemoryOk, Doing, Live
  <2>3. "socket" \in Early BY DEF Early
  <2>4. ModesOk(t.hs[g]) BY <1>4, <1>7, <1>9, <1>10, <2>1, <2>3 DEF ModesOk, Doing, Live, Lost
  <2>5. OwnedIn(t, g) = {} \/ Leaves(t.hs[g]) BY <1>4, <1>9, <1>10, <2>1 DEF OwnedIn, Leaves
  <2>6. "socket" \notin Between \cup Late BY DEF Between, Late
  <2>7. SocketsOk(t.hs[g], OwnedIn(t, g), t.rings)
    BY <1>7, <1>10, <2>1, <2>3, <2>5, <2>6 DEF SocketsOk, Live
  <2>8. ListingOk(t.hs[g], Contains(t.toclose, g), t.looped, g) BY <1>7, <1>9, <1>10, <2>1 DEF ListingOk, Live
  <2>9. HandleOk(t, g) BY <1>7, <1>10, <2>1, <2>2, <2>4, <2>7, <2>8 DEF HandleOk
  <2>10. F \in SUBSET (HandleFields \ {"wasup"}) BY <1>10 DEF HandleFields
  <2>. QED BY <1>4, <1>7, <1>10, <2>9, <2>10, Starts
<1>11. CASE w' = Go(Alloc(s, g, "device"), g, "socket")
  <2>. DEFINE a == Alloc(s, g, "device")
              t == Go(a, g, "socket")
  <2>1. /\ Differ(s, a, g, {"mem", "ptr", "leaked"}, {}) /\ Pointers(a.hs[g]) /\ a.hs[g].mem = s.hs[g].mem \cup {"device"}
    BY <1>6, <1>8, AllocDoes, AllocPointers DEF Memory
  <2>. HIDE DEF a
  <2>2. Differ(a, t, g, {"pc"}, {}) /\ t.hs[g].pc = "socket"
    <3>1. Formed(a) BY <2>1 DEF Differ
    <3>. QED BY <3>1, GoDoes
  <2>. HIDE DEF t
  <2>3. Differ(w, t, g, {"st", "cleanup", "opt", "mem", "ptr", "leaked", "pc"}, {"faults"}) BY <1>5, <2>1, <2>2 DEF Differ
  <2>4. t.hs[g].mem = a.hs[g].mem /\ t.hs[g].ptr = a.hs[g].ptr /\ t.hs[g].twice = a.hs[g].twice
    BY <2>2 DEF Differ, HandleFields
  <2>5. t.hs[g].st = "activating" /\ t.hs[g].cleanup = "linux" /\ t.hs[g].opt = opt /\ t.hs[g].broke = w.hs[g].broke
    BY <1>5, <2>1, <2>2 DEF Differ, HandleFields
  <2>6. Pointers(t.hs[g]) BY <2>1, <2>4, PointersSame
  <2>7. t.hs[g].mem = {"source", "device"} BY <1>6, <1>9, <2>1, <2>4
  <2>8. HandleInv(t) BY <1>10, <2>2, <2>3, <2>5, <2>6, <2>7
  <2>. QED BY <1>11, <2>8 DEF t, a
<1>12. CASE w' = NotActivated(Failing(s), g)
  <2>. DEFINE a == Failing(s)
              t == NotActivated(a, g)
  <2>1. Differ(s, a, g, {}, {"faults"}) BY <1>6, FailingDoes
  <2>. HIDE DEF a
  <2>2. /\ Differ(a, t, g, {"st", "pc", "cleanup", "sock", "broke"}, {})
        /\ t.hs[g].st = "failed" /\ t.hs[g].cleanup = "live" /\ t.hs[g].broke
    <3>1. Formed(a) BY <2>1 DEF Differ
    <3>. QED BY <3>1, NotActivatedDoes
  <2>. HIDE DEF t
  <2>3. Differ(w, t, g, {"st", "cleanup", "opt", "pc", "sock", "broke"}, {"faults"}) BY <1>5, <2>1, <2>2 DEF Differ
  <2>4. t.hs[g].mem = w.hs[g].mem /\ t.hs[g].ptr = w.hs[g].ptr /\ t.hs[g].twice = w.hs[g].twice
    BY <2>3 DEF Differ, HandleFields
  <2>5. t.hs[g].opt = opt BY <1>5, <2>1, <2>2 DEF Differ, HandleFields
  <2>6. Pointers(t.hs[g]) BY <1>7, <2>4, PointersSame
  <2>7. HandleInv(t) BY <1>9, <1>10, <2>2, <2>3, <2>4, <2>5, <2>6
  <2>. QED BY <1>12, <2>7 DEF t, a
<1>. QED BY <1>2, <1>11, <1>12

(* A filter is set on an active handle.                                    *)
LEMMA InstallKeeps ==
  ASSUME NEW g \in Handles, HandleInv(w), w.stage = "running", Install(g)
  PROVE  HandleInv(w')
<1>1. w.hs[g].st = "active" /\ w' = Alloc(w, g, "fcode") BY DEF Install
<1>. DEFINE t == Alloc(w, g, "fcode")
<1>2. Formed(w) /\ HandleOk(w, g) BY DEF HandleInv
<1>3. Pointers(w.hs[g]) BY <1>2 DEF HandleOk, MemoryOk
<1>4. /\ Differ(w, t, g, {"mem", "ptr", "leaked"}, {}) /\ Pointers(t.hs[g])
      /\ t.hs[g].mem = w.hs[g].mem \cup {"fcode"} /\ t.hs[g].ptr = w.hs[g].ptr \cup {"fcode"}
  BY <1>2, <1>3, AllocDoes, AllocPointers DEF Memory
<1>. HIDE DEF t
<1>5. /\ t.hs[g].must = w.hs[g].must /\ t.hs[g].broke = w.hs[g].broke /\ t.hs[g].oldmode = w.hs[g].oldmode
      /\ t.hs[g].fd = w.hs[g].fd /\ t.hs[g].cleanup = w.hs[g].cleanup /\ t.hs[g].st = w.hs[g].st
      /\ t.hs[g].opt = w.hs[g].opt /\ t.hs[g].mon = w.hs[g].mon /\ t.hs[g].wasup = w.hs[g].wasup
      /\ t.hs[g].frames = w.hs[g].frames
  BY <1>4 DEF Differ, HandleFields
<1>6. /\ t.open = w.open /\ t.rings = w.rings /\ t.maps = w.maps /\ t.toclose = w.toclose /\ t.looped = w.looped
      /\ t.dev = w.dev /\ t.stage = w.stage
  BY <1>4 DEF Differ, StateFields
<1>7. {"any", "promisc", "rfmon", "buffer_size"} \in SUBSET DOMAIN w.hs[g].opt BY <1>1 DEF HandleInv, Typed
<1>8. Carries(w, t, g) BY <1>4, <1>5, <1>6, <1>7 DEF Carries, OwnOnly, Differ
<1>9. HandleOk(t, g)
  <2>1. MemoryOk(t.hs[g]) BY <1>1, <1>2, <1>4, <1>5 DEF HandleOk, MemoryOk, Doing, Live
  <2>2. ModesOk(t.hs[g]) BY <1>1, <1>2, <1>4, <1>5 DEF HandleOk, ModesOk, Doing, Live, Lost
  <2>3. OwnedIn(t, g) = OwnedIn(w, g) /\ (Leaves(t.hs[g]) <=> Leaves(w.hs[g])) BY <1>5, <1>6 DEF OwnedIn, Leaves
  <2>4. SocketsOk(t.hs[g], OwnedIn(t, g), t.rings) BY <1>1, <1>2, <1>5, <1>6, <2>3 DEF HandleOk, SocketsOk, Live
  <2>5. ListingOk(t.hs[g], Contains(t.toclose, g), t.looped, g)
    BY <1>1, <1>2, <1>5, <1>6 DEF HandleOk, ListingOk, Live, Doing
  <2>. QED BY <1>2, <1>5, <1>6, <2>1, <2>2, <2>4, <2>5 DEF HandleOk
<1>10. Live(t.hs[g]) /\ ~Doing(w.hs[g], {"monup", "setmode", "bringup"}) BY <1>1, <1>5 DEF Live, Doing
<1>11. HandleInv(t) BY <1>8, <1>9, <1>10, GoesOn
<1>. QED BY <1>1, <1>11 DEF t

(* What the handle had is given back, up to the handle itself.             *)
Emptied(r, t, g) ==
  /\ Pointers(t.hs[g]) /\ t.hs[g].mem = {} /\ t.hs[g].fd = None
  /\ t.open = r.open \ ({r.hs[g].fd} \ {None})
  /\ \A k : k \notin SocketsOf(g) => (k \in t.rings <=> k \in r.rings)
  /\ t.maps = r.maps \ {g} /\ OffList(r, t, g) /\ Restored(r.dev, t.dev, r.hs[g])
  /\ t.stage = r.stage \/ (t.stage = "crashed" /\ r.hs[g].st = "active" /\ Lost(r.hs[g]))
GivenBack == {"mem", "ptr", "twice", "fd"}
Parts == {"open", "rings", "maps", "dev", "toclose", "stage"}

(* A handle that can be closed.                                            *)
LEMMA ClosableFacts ==
  ASSUME NEW r, NEW g \in Handles, HandleInv(r), r.stage \in {"running", "exiting"},
         r.hs[g].st \in {"created", "failed", "active"}
  PROVE  /\ Formed(r) /\ Typed(r) /\ HandleOk(r, g) /\ DeviceOk(r) /\ Pointers(r.hs[g]) /\ r.hs[g].oldmode = "managed"
         /\ r.hs[g].st # "active" =>
              /\ r.hs[g].cleanup = "live" /\ r.hs[g].mem = {"source"} /\ r.hs[g].fd = None /\ g \notin r.maps
              /\ Contains(r.toclose, g) => r.looped = g
              /\ OwnedIn(r, g) = {} \/ (Leaves(r.hs[g]) /\ r.hs[g].st # "created")
         /\ r.hs[g].st = "active" =>
              /\ r.hs[g].cleanup \in {"linux", "mmap"} /\ (g \in r.maps <=> r.hs[g].cleanup = "mmap")
              /\ "oneshot" \in r.hs[g].mem <=> r.hs[g].cleanup = "mmap"
              /\ r.hs[g].fd # None /\ OwnedIn(r, g) = {r.hs[g].fd} /\ r.hs[g].fd \in SocketsOf(g)
              /\ Contains(r.toclose, g) => r.looped = g \/ r.hs[g].must # {}
<1>1. Formed(r) /\ Typed(r) /\ HandleOk(r, g) /\ DeviceOk(r) BY DEF HandleInv
<1>2. Pointers(r.hs[g]) BY <1>1 DEF HandleOk, MemoryOk
<1>3. r.hs[g].oldmode = "managed" BY <1>1 DEF HandleOk, ModesOk
<1>4. ASSUME r.hs[g].st # "active"
      PROVE  /\ r.hs[g].cleanup = "live" /\ r.hs[g].mem = {"source"} /\ r.hs[g].fd = None /\ g \notin r.maps
             /\ Contains(r.toclose, g) => r.looped = g
             /\ OwnedIn(r, g) = {} \/ (Leaves(r.hs[g]) /\ r.hs[g].st # "created")
  <2>1. ~Live(r.hs[g]) BY <1>4 DEF Live
  <2>2. r.hs[g].mem = {"source"} BY <1>1, <1>4 DEF HandleOk, MemoryOk
  <2>3. r.hs[g].cleanup = "live" BY <1>1, <1>4 DEF HandleOk, SocketsOk
  <2>4. OwnedIn(r, g) = {} \/ (Leaves(r.hs[g]) /\ r.hs[g].st # "created") BY <1>1, <2>1 DEF HandleOk, SocketsOk
  <2>. QED BY <2>1, <2>2, <2>3, <2>4, IdleFacts
<1>5. ASSUME r.hs[g].st = "active"
      PROVE  /\ r.hs[g].cleanup \in {"linux", "mmap"} /\ (g \in r.maps <=> r.hs[g].cleanup = "mmap")
             /\ "oneshot" \in r.hs[g].mem <=> r.hs[g].cleanup = "mmap"
             /\ r.hs[g].fd # None /\ OwnedIn(r, g) = {r.hs[g].fd} /\ r.hs[g].fd \in SocketsOf(g)
             /\ Contains(r.toclose, g) => r.looped = g \/ r.hs[g].must # {}
  <2>1. /\ r.hs[g].cleanup \in {"linux", "mmap"} /\ r.hs[g].fd # None /\ OwnedIn(r, g) = {r.hs[g].fd}
    BY <1>1, <1>5 DEF HandleOk, SocketsOk
  <2>2. "oneshot" \in r.hs[g].mem <=> r.hs[g].cleanup = "mmap" BY <1>1, <1>5 DEF HandleOk, MemoryOk, Doing
  <2>3. g \in r.maps <=> r.hs[g].cleanup = "mmap" BY <1>1, <1>5 DEF HandleOk
  <2>4. Contains(r.toclose, g) => r.looped = g \/ r.hs[g].must # {} BY <1>1 DEF HandleOk, ListingOk
  <2>5. r.hs[g].fd \in SocketsOf(g) BY <2>1 DEF OwnedIn
  <2>. QED BY <2>1, <2>2, <2>3, <2>4, <2>5
<1>. QED BY <1>1, <1>2, <1>3, <1>4, <1>5

(* pcap_close of a handle that is not active.                              *)
LEMMA LiveEmpties ==
  ASSUME NEW r, NEW g \in Handles, HandleInv(r), r.stage \in {"running", "exiting"},
         r.hs[g].st \in {"created", "failed"},
         NEW t, t = pcap_cleanup_live_common(Free(r, g, "source"), g)
  PROVE  Emptied(r, t, g) /\ Differ(r, t, g, GivenBack, Parts)
<1>. DEFINE a == Free(r, g, "source")
            F == {"mem", "ptr", "twice"}
<1>1. /\ Formed(r) /\ Typed(r) /\ Pointers(r.hs[g]) /\ r.hs[g].mem = {"source"} /\ r.hs[g].fd = None /\ g \notin r.maps
      /\ Contains(r.toclose, g) => r.looped = g
  BY ClosableFacts
<1>2. Differ(r, a, g, F, {}) /\ Pointers(a.hs[g]) /\ a.hs[g].mem = r.hs[g].mem \ {"source"} BY <1>1, FreeDoes
<1>3. t = pcap_cleanup_live_common(a, g) OBVIOUS
<1>. HIDE DEF a
<1>4. Formed(a) /\ a.hs[g].fd = None /\ a.open = r.open /\ a.rings = r.rings
  BY <1>1, <1>2 DEF Differ, HandleFields, StateFields
<1>5. /\ Differ(a, t, g, GivenBack, {"open", "rings"})
      /\ Pointers(t.hs[g]) /\ t.hs[g].mem = a.hs[g].mem \ {"buffer", "dlt_list", "fcode"} /\ t.hs[g].fd = None
      /\ t.open = a.open \ ({a.hs[g].fd} \ {None}) /\ t.rings = a.rings \ ({a.hs[g].fd} \ {None})
  BY <1>2, <1>3, <1>4, LiveCleanupDoes DEF GivenBack
<1>6. Differ(r, t, g, GivenBack, Parts) BY <1>2, <1>5 DEF Differ, GivenBack, Parts
<1>7. t.maps = r.maps /\ t.dev = r.dev /\ t.toclose = r.toclose /\ t.stage = r.stage
  BY <1>2, <1>5 DEF Differ, StateFields
<1>8. t.hs[g].mem = {} BY <1>1, <1>2, <1>5
<1>9. OffList(r, t, g) BY <1>1, <1>7 DEF OffList, Typed
<1>10. Restored(r.dev, t.dev, r.hs[g]) BY <1>1, <1>7 DEF Restored, Typed
<1>11. t.open = r.open /\ t.rings = r.rings /\ r.open \ ({r.hs[g].fd} \ {None}) = r.open /\ r.maps \ {g} = r.maps
  BY <1>1, <1>4, <1>5
<1>. QED BY <1>5, <1>6, <1>7, <1>8, <1>9, <1>10, <1>11 DEF Emptied

(* pcap_cleanup_linux, after the ring if there was one.                    *)
LEMMA LinuxEmpties ==
  ASSUME NEW r, NEW g \in Handles, HandleInv(r), r.stage \in {"running", "exiting"}, r.hs[g].st = "active",
         NEW s, Differ(r, s, g, {"mem", "ptr", "twice"}, {"rings", "maps"}),
         Pointers(s.hs[g]), s.hs[g].mem = r.hs[g].mem \ {"source", "oneshot"},
         "mondevice" \in r.hs[g].ptr => "mondevice" \in s.hs[g].ptr,
         \A k : k \notin SocketsOf(g) => (k \in s.rings <=> k \in r.rings), s.maps = r.maps \ {g},
         NEW t, t = pcap_cleanup_linux(s, g)
  PROVE  Emptied(r, t, g) /\ Differ(r, t, g, GivenBack, Parts)
<1>1. /\ Formed(r) /\ Typed(r) /\ Pointers(r.hs[g]) /\ r.hs[g].fd \in SocketsOf(g) /\ r.hs[g].oldmode = "managed"
      /\ Contains(r.toclose, g) => r.looped = g \/ r.hs[g].must # {}
  BY ClosableFacts
<1>2. /\ Formed(s) /\ s.hs[g].fd = r.hs[g].fd /\ s.hs[g].must = r.hs[g].must /\ s.hs[g].oldmode = r.hs[g].oldmode
      /\ s.hs[g].mon = r.hs[g].mon
      /\ s.open = r.open /\ s.dev = r.dev /\ s.toclose = r.toclose /\ s.looped = r.looped /\ s.stage = r.stage
  BY DEF Differ, HandleFields, StateFields
<1>3. Listed(s.toclose) /\ DeviceTyped(s.dev) BY <1>1, <1>2 DEF Typed
<1>4. Contains(s.toclose, g) => s.looped = g \/ s.hs[g].must # {} BY <1>1, <1>2
<1>5. /\ Differ(s, t, g, GivenBack, {"open", "rings", "dev", "toclose", "stage"})
      /\ Pointers(t.hs[g]) /\ t.hs[g].fd = None /\ t.stage = StageAfter(s, s.hs[g])
      /\ t.hs[g].mem = s.hs[g].mem \ {"mondevice", "device", "buffer", "dlt_list", "fcode"}
      /\ t.open = s.open \ ({s.hs[g].fd} \ {None}) /\ t.rings = s.rings \ ({s.hs[g].fd} \ {None})
      /\ OffList(s, t, g) /\ Restored(s.dev, t.dev, s.hs[g])
  BY <1>1, <1>2, <1>3, <1>4, CleanupDoes DEF GivenBack
<1>6. Differ(r, t, g, GivenBack, Parts) BY <1>5 DEF Differ, GivenBack, Parts
<1>7. t.maps = s.maps BY <1>5 DEF Differ, StateFields
<1>8. t.hs[g].mem = {} BY <1>1, <1>5 DEF Pointers, Memory
<1>9. OffList(r, t, g) BY <1>2, <1>5 DEF OffList
<1>12. Lost(s.hs[g]) => Lost(r.hs[g]) BY <1>2 DEF Lost
<1>10. Restored(r.dev, t.dev, r.hs[g]) BY <1>2, <1>5, <1>12 DEF Restored
<1>11. \A k : k \notin SocketsOf(g) => (k \in t.rings <=> k \in r.rings) BY <1>1, <1>2, <1>5
<1>13. t.stage = r.stage \/ (t.stage = "crashed" /\ Lost(r.hs[g])) BY <1>2, <1>5, <1>12 DEF StageAfter
<1>. QED BY <1>2, <1>5, <1>6, <1>7, <1>8, <1>9, <1>10, <1>11, <1>13 DEF Emptied

(* pcap_close of an active handle, with a ring and without.                *)
LEMMA CloseEmpties ==
  ASSUME NEW r, NEW g \in Handles, HandleInv(r), r.stage \in {"running", "exiting"}, r.hs[g].st = "active",
         NEW a, a = Free(r, g, "source"), NEW t,
         t = IF r.hs[g].cleanup = "linux" THEN pcap_cleanup_linux(a, g) ELSE pcap_cleanup_linux_mmap(a, g)
  PROVE  Emptied(r, t, g) /\ Differ(r, t, g, GivenBack, Parts)
<1>. DEFINE F == {"mem", "ptr", "twice"}
<1>1. /\ Formed(r) /\ Pointers(r.hs[g]) /\ r.hs[g].fd \in SocketsOf(g) /\ (g \in r.maps <=> r.hs[g].cleanup = "mmap")
      /\ r.hs[g].cleanup \in {"linux", "mmap"} /\ ("oneshot" \in r.hs[g].mem <=> r.hs[g].cleanup = "mmap")
  BY ClosableFacts
<1>2. /\ Differ(r, a, g, F, {}) /\ Pointers(a.hs[g]) /\ a.hs[g].mem = r.hs[g].mem \ {"source"}
      /\ a.hs[g].ptr = r.hs[g].ptr \ {"source"}
  BY <1>1, FreeDoes
<1>3. Formed(a) /\ a.hs[g].fd = r.hs[g].fd /\ a.maps = r.maps /\ a.rings = r.rings
  BY <1>2 DEF Differ, HandleFields, StateFields
<1>4. CASE r.hs[g].cleanup = "linux"
  <2>1. Differ(r, a, g, F, {"rings", "maps"}) BY <1>2 DEF Differ
  <2>2. a.hs[g].mem = r.hs[g].mem \ {"source", "oneshot"} /\ a.maps = r.maps \ {g} BY <1>1, <1>2, <1>3, <1>4
  <2>3. "mondevice" \in r.hs[g].ptr => "mondevice" \in a.hs[g].ptr BY <1>2
  <2>4. t = pcap_cleanup_linux(a, g) BY <1>4
  <2>. QED BY <1>2, <1>3, <2>1, <2>2, <2>3, <2>4, LinuxEmpties
<1>5. CASE r.hs[g].cleanup = "mmap"
  <2>. DEFINE b == destroy_ring(a, g)
              c == Free(b, g, "oneshot")
  <2>1. t = pcap_cleanup_linux(c, g) BY <1>5 DEF pcap_cleanup_linux_mmap
  <2>2. Differ(a, b, g, {}, {"rings", "maps"}) /\ b.rings = a.rings \ {a.hs[g].fd} /\ b.maps = a.maps \ {g}
    BY <1>3, DestroyDoes
  <2>. HIDE DEF b
  <2>3. Formed(b) /\ b.hs[g].mem = a.hs[g].mem /\ b.hs[g].ptr = a.hs[g].ptr /\ b.hs[g].twice = a.hs[g].twice
    BY <2>2 DEF Differ, HandleFields
  <2>4. Pointers(b.hs[g]) /\ "oneshot" \in b.hs[g].mem BY <1>1, <1>2, <1>5, <2>3, PointersSame
  <2>5. /\ Differ(b, c, g, F, {}) /\ Pointers(c.hs[g]) /\ c.hs[g].mem = b.hs[g].mem \ {"oneshot"}
        /\ c.hs[g].ptr = b.hs[g].ptr \ {"oneshot"}
    BY <2>3, <2>4, FreeDoes
  <2>. HIDE DEF c
  <2>6. Differ(r, c, g, F, {"rings", "maps"}) BY <1>2, <2>2, <2>5 DEF Differ
  <2>7. c.rings = b.rings /\ c.maps = b.maps BY <2>5 DEF Differ, StateFields
  <2>8. c.hs[g].mem = r.hs[g].mem \ {"source", "oneshot"} /\ c.maps = r.maps \ {g} BY <1>2, <1>3, <2>2, <2>3, <2>5, <2>7
  <2>9. "mondevice" \in r.hs[g].ptr => "mondevice" \in c.hs[g].ptr BY <1>2, <2>3, <2>5
  <2>10. \A k : k \notin SocketsOf(g) => (k \in c.rings <=> k \in r.rings) BY <1>1, <1>3, <2>2, <2>7
  <2>. QED BY <2>1, <2>5, <2>6, <2>8, <2>9, <2>10, LinuxEmpties
<1>. QED BY <1>1, <1>4, <1>5

(* The handle itself is freed.                                             *)
Closed(s, g) == [s EXCEPT !.hs[g] = [@ EXCEPT !.st = "closed", !.pc = None, !.ptr = {}]]

(* What that changes.                                                      *)
LEMMA ClosedDoes ==
  ASSUME NEW s, Formed(s), NEW g \in Handles, NEW t, t = Closed(s, g)
  PROVE  Differ(s, t, g, {"st", "pc", "ptr"}, {}) /\ t.hs[g].st = "closed" /\ t.hs[g].ptr = {}
<1>. DEFINE r == [s.hs[g] EXCEPT !.st = "closed", !.pc = None, !.ptr = {}]
<1>1. t = [s EXCEPT !.hs[g] = r] BY DEF Closed
<1>2. DOMAIN s.hs[g] = HandleFields BY DEF Formed
<1>3. Same(s.hs[g], r, {"st", "pc", "ptr"}) /\ r.st = "closed" /\ r.ptr = {} BY <1>2 DEF HandleFields, Same
<1>. HIDE DEF r
<1>4. Differ(s, t, g, {"st", "pc", "ptr"}, {}) /\ t.hs[g] = r
  BY <1>1, <1>3 DEF Formed, HandleFields, StateFields, Differ, Same
<1>. QED BY <1>3, <1>4

(* pcap_close gives back all that the handle had.                          *)
LEMMA CloseDoes ==
  ASSUME NEW r, NEW g \in Handles, HandleInv(r), r.stage \in {"running", "exiting"},
         r.hs[g].st \in {"created", "failed", "active"},
         NEW t, t = pcap_close(r, g)
  PROVE  /\ Differ(r, t, g, GivenBack \cup {"st", "pc"}, Parts) /\ Emptied(r, t, g) /\ t.hs[g].st = "closed"
<1>. DEFINE a == Free(r, g, "source")
            u == CASE r.hs[g].cleanup = "live" -> pcap_cleanup_live_common(a, g)
                   [] r.hs[g].cleanup = "linux" -> pcap_cleanup_linux(a, g)
                   [] r.hs[g].cleanup = "mmap" -> pcap_cleanup_linux_mmap(a, g)
<1>1. t = Closed(u, g) BY DEF pcap_close, Closed
<1>2. Emptied(r, u, g) /\ Differ(r, u, g, GivenBack, Parts)
  <2>1. CASE r.hs[g].st # "active"
    <3>1. r.hs[g].cleanup = "live" BY <2>1, ClosableFacts
    <3>2. u = pcap_cleanup_live_common(a, g) BY <3>1
    <3>. QED BY <2>1, <3>2, LiveEmpties
  <2>2. CASE r.hs[g].st = "active"
    <3>1. r.hs[g].cleanup \in {"linux", "mmap"} BY <2>2, ClosableFacts
    <3>2. u = IF r.hs[g].cleanup = "linux" THEN pcap_cleanup_linux(a, g) ELSE pcap_cleanup_linux_mmap(a, g)
      BY <3>1
    <3>. QED BY <2>2, <3>2, CloseEmpties
  <2>. QED BY <2>1, <2>2
<1>. HIDE DEF u
<1>3. Formed(u) BY <1>2 DEF Differ
<1>4. Differ(u, t, g, {"st", "pc", "ptr"}, {}) /\ t.hs[g].st = "closed" /\ t.hs[g].ptr = {} BY <1>1, <1>3, ClosedDoes
<1>5. /\ t.hs[g].mem = u.hs[g].mem /\ t.hs[g].twice = u.hs[g].twice /\ t.hs[g].fd = u.hs[g].fd
      /\ t.open = u.open /\ t.rings = u.rings /\ t.maps = u.maps /\ t.dev = u.dev /\ t.toclose = u.toclose
      /\ t.stage = u.stage
  BY <1>4 DEF Differ, HandleFields, StateFields
<1>6. Differ(r, t, g, GivenBack \cup {"st", "pc"}, Parts) BY <1>2, <1>4 DEF Differ, GivenBack
<1>7. ~t.hs[g].twice BY <1>2, <1>5 DEF Emptied, Pointers
<1>8. Pointers(t.hs[g]) BY <1>2, <1>4, <1>5, <1>7 DEF Emptied, Pointers
<1>. QED BY <1>2, <1>4, <1>5, <1>6, <1>8 DEF Emptied, OffList

(* pcap_close keeps the invariant.                                         *)
LEMMA CloseKeeps ==
  ASSUME NEW r, NEW g \in Handles, HandleInv(r), r.stage \in {"running", "exiting"},
         r.hs[g].st \in {"created", "failed", "active"}
  PROVE  HandleInv(pcap_close(r, g))
<1>. DEFINE t == pcap_close(r, g)
<1>1. Differ(r, t, g, GivenBack \cup {"st", "pc"}, Parts) /\ Emptied(r, t, g) /\ t.hs[g].st = "closed" BY CloseDoes
<1>. HIDE DEF t
<1>2. /\ Formed(t) /\ t.hs[g].opt = r.hs[g].opt /\ t.hs[g].must = r.hs[g].must /\ t.hs[g].oldmode = r.hs[g].oldmode
      /\ t.hs[g].broke = r.hs[g].broke /\ t.hs[g].wasup = r.hs[g].wasup
      /\ t.looped = r.looped
  BY <1>1 DEF Differ, GivenBack, Parts, HandleFields, StateFields
<1>3. /\ Pointers(t.hs[g]) /\ t.hs[g].mem = {} /\ t.hs[g].fd = None
      /\ t.open = r.open \ ({r.hs[g].fd} \ {None})
      /\ \A k : k \notin SocketsOf(g) => (k \in t.rings <=> k \in r.rings)
      /\ t.maps = r.maps \ {g} /\ OffList(r, t, g) /\ Restored(r.dev, t.dev, r.hs[g])
      /\ t.stage = r.stage \/ (t.stage = "crashed" /\ r.hs[g].st = "active" /\ Lost(r.hs[g]))
  BY <1>1 DEF Emptied
<1>4. /\ HandleOk(r, g) /\ DeviceOk(r) /\ Typed(r) /\ (r.hs[g].fd = None \/ r.hs[g].fd \in SocketsOf(g))
      /\ r.hs[g].st # "active" => r.hs[g].fd = None /\ (OwnedIn(r, g) = {} \/ Leaves(r.hs[g]))
      /\ r.hs[g].st = "active" => r.hs[g].fd # None /\ OwnedIn(r, g) = {r.hs[g].fd}
  BY ClosableFacts
<1>5. Others(r, t, g)
  <2>1. \A e \in Handles : e # g => t.hs[e] = r.hs[e] BY <1>1 DEF Differ
  <2>2. ASSUME NEW e \in Handles, e # g, NEW k \in SocketsOf(e)
        PROVE  (k \in t.open <=> k \in r.open) /\ (k \in t.rings <=> k \in r.rings)
    <3>1. k \notin SocketsOf(g) BY <2>2, Disjoint
    <3>2. k \notin {r.hs[g].fd} \ {None} BY <3>1, <1>4
    <3>. QED BY <3>1, <3>2, <1>3
  <2>. QED BY <1>2, <1>3, <2>1, <2>2 DEF Others, OffList
<1>6. MemoryOk(t.hs[g]) BY <1>1, <1>3 DEF MemoryOk, Live, Doing
<1>7. ModesOk(t.hs[g]) BY <1>1, <1>2, <1>4 DEF ModesOk, HandleOk, Doing, Live, Lost
<1>8. SocketsOk(t.hs[g], OwnedIn(t, g), t.rings)
  <2>1. OwnedIn(t, g) = {} \/ Leaves(t.hs[g])
    <3>1. CASE r.hs[g].st = "active" BY <3>1, <1>3, <1>4 DEF OwnedIn
    <3>2. CASE r.hs[g].st # "active" BY <3>2, <1>2, <1>3, <1>4 DEF OwnedIn, Leaves
    <3>. QED BY <3>1, <3>2
  <2>. QED BY <2>1, <1>1, <1>3 DEF SocketsOk, Live
<1>9. ListingOk(t.hs[g], Contains(t.toclose, g), t.looped, g) BY <1>1, <1>2, <1>3 DEF ListingOk, OffList, Live
<1>10. HandleOk(t, g) BY <1>1, <1>3, <1>6, <1>7, <1>8, <1>9 DEF HandleOk
<1>17. Live(r.hs[g]) /\ Lost(r.hs[g]) => SpoiledIn(t)
  <2>1. SUFFICES ASSUME Live(r.hs[g]), Lost(r.hs[g]) PROVE SpoiledIn(t) OBVIOUS
  <2>2. r.hs[g].broke /\ r.hs[g].opt.rfmon BY <2>1, <1>4 DEF HandleOk, ModesOk, Lost
  <2>. QED BY <2>2, <1>2 DEF SpoiledIn
<1>11. DeviceOk(t)
  <2>1. \A pcs : ~Doing(r.hs[g], pcs) BY DEF Doing
  <2>2. Live(r.hs[g]) => r.hs[g].fd # None BY <1>4 DEF Live
  <2>3. t.dev.promisc => r.dev.promisc /\ ~HasPromisc(r, g) BY <1>3, <2>2 DEF Restored, HasPromisc, Undoes
  <2>4. ~SpoiledIn(t) /\ t.dev.mode = "monitor" => r.dev.mode = "monitor" /\ ~HasMode(r, g)
    BY <1>3, <1>17, <2>1, <2>2 DEF Restored, HasMode, Undoes
  <2>5. t.dev.up \/ (~r.dev.up /\ ~HasDown(r, g)) BY <1>3, <2>1 DEF Restored, HasDown
  <2>6. \A n \in t.dev.mons : n \in r.dev.mons /\ ~HasMon(r, g, n) BY <1>3, <2>1, <2>2 DEF Restored, HasMon, Undoes
  <2>. QED BY <1>2, <1>4, <1>5, <2>3, <2>4, <2>5, <2>6, DeviceStep
<1>12. t.open \in SUBSET UNION {SocketsOf(e) : e \in Handles} BY <1>3, <1>4 DEF Typed
<1>13. /\ t.hs[g].st # "none" => {"any", "promisc", "rfmon", "buffer_size"} \in SUBSET DOMAIN t.hs[g].opt
       /\ t.hs[g].wasup \in BOOLEAN
  BY <1>2, <1>4 DEF Typed
<1>14. DeviceTyped(t.dev) /\ Listed(t.toclose) BY <1>3 DEF Restored, OffList
<1>15. r.stage = "running" \/ (t.looped = None /\ t.hs[g].st # "activating") BY <1>1, <1>2 DEF HandleInv
<1>18. t.stage = r.stage \/ (t.stage = "crashed" /\ SpoiledIn(t)) BY <1>3, <1>17 DEF Live
<1>16. HandleInv(t) BY <1>2, <1>5, <1>10, <1>11, <1>12, <1>13, <1>14, <1>15, <1>18, StepOk
<1>. QED BY <1>16 DEF t

(* The program ends.                                                       *)
LEMMA ExitKeeps ==
  ASSUME HandleInv(w), Exit
  PROVE  HandleInv(w')
<1>. DEFINE t == [w EXCEPT !.stage = "exiting"]
<1>1. w' = t /\ w.stage = "running" /\ w.looped = None /\ \A g \in Handles : w.hs[g].st # "activating" BY DEF Exit
<1>2. Formed(w) BY DEF HandleInv
<1>3. /\ t.stage = "exiting" /\ DOMAIN t = DOMAIN w /\ t.hs = w.hs /\ t.dev = w.dev /\ t.open = w.open
      /\ t.rings = w.rings /\ t.maps = w.maps /\ t.toclose = w.toclose /\ t.looped = w.looped
  BY <1>2 DEF Formed, StateFields
<1>. HIDE DEF t
<1>4. Formed(t) /\ Typed(t) BY <1>3 DEF HandleInv, Formed, Typed
<1>5. DeviceOk(t)
  <2>1. DeviceOk(w) BY <1>1 DEF HandleInv
  <2>2. (SpoiledIn(t) <=> SpoiledIn(w)) /\ \A g \in Handles : \A m : Undoes(t, g, m) <=> Undoes(w, g, m)
    BY <1>3 DEF SpoiledIn, Undoes
  <2>. QED BY <1>3, <2>1, <2>2 DEF DeviceOk, PromiscUndone, MonitorUndone
<1>6. \A g \in Handles : HandleOk(t, g)
  <2>1. \A g \in Handles : HandleOk(w, g) BY <1>1 DEF HandleInv
  <2>. QED BY <1>3, <2>1 DEF HandleOk, OwnedIn
<1>. QED BY <1>1, <1>3, <1>4, <1>5, <1>6 DEF HandleInv

(* Nobody has to undo anything: the device is as it was.                   *)
LEMMA DeviceClean ==
  ASSUME NEW s, DeviceTyped(s.dev), DeviceOk(s), ~SpoiledIn(s), \A g \in Handles : \A pcs : ~Doing(s.hs[g], pcs),
         \A g \in Handles : \A m : ~Undoes(s, g, m)
  PROVE  s.dev = Device(FALSE, "managed", TRUE, {})
<1>1. ~s.dev.promisc BY DEF DeviceOk, PromiscUndone
<1>2. s.dev.mode # "monitor" /\ s.dev.up /\ s.dev.mons = {} BY DEF DeviceOk, MonitorUndone
<1>3. PICK p \in BOOLEAN, u \in BOOLEAN, m \in {"managed", "monitor"} : \E n : s.dev = Device(p, m, u, n)
  BY DEF DeviceTyped
<1>4. PICK n : s.dev = Device(p, m, u, n) BY <1>3
<1>5. s.dev.promisc = p /\ s.dev.mode = m /\ s.dev.up = u /\ s.dev.mons = n BY <1>4 DEF Device
<1>6. p = FALSE /\ m = "managed" /\ u = TRUE /\ n = {} BY <1>1, <1>2, <1>5
<1>. QED BY <1>4, <1>6

(* The list is empty, and the system closes what is open.                  *)
LEMMA EndKeeps ==
  ASSUME HandleInv(w), w.stage = "exiting", w.toclose = <<>>,
         w' = [w EXCEPT !.stage = "ended", !.open = {}, !.rings = {}, !.maps = {}]
  PROVE  HandleInv(w')
<1>. DEFINE t == [w EXCEPT !.stage = "ended", !.open = {}, !.rings = {}, !.maps = {}]
<1>1. Formed(w) BY DEF HandleInv
<1>2. /\ t.stage = "ended" /\ DOMAIN t = DOMAIN w /\ t.hs = w.hs /\ t.dev = w.dev /\ t.open = {}
      /\ t.maps = {} /\ t.toclose = w.toclose /\ t.looped = w.looped
  BY <1>1 DEF Formed, StateFields
<1>. HIDE DEF t
<1>3. w.looped = None /\ DeviceOk(w) /\ \A g \in Handles : w.hs[g].st # "activating" /\ HandleOk(w, g) BY DEF HandleInv
<1>4. Formed(t) /\ Typed(t) BY <1>2 DEF HandleInv, Formed, Typed
<1>5. \A g \in Handles : \A pcs : ~Doing(w.hs[g], pcs) BY <1>3 DEF Doing
<1>6. \A g \in Handles : \A m : ~Undoes(w, g, m) BY <1>3 DEF Undoes, Contains
<1>7. DeviceTyped(w.dev) BY DEF HandleInv, Typed
<1>8. ASSUME ~SpoiledIn(t) PROVE t.dev = Device(FALSE, "managed", TRUE, {})
  <2>1. ~SpoiledIn(w) BY <1>2, <1>8 DEF SpoiledIn
  <2>. QED BY <1>2, <1>3, <1>5, <1>6, <1>7, <2>1, DeviceClean
<1>9. \A g \in Handles : /\ ~t.hs[g].twice
                         /\ t.hs[g].st = "failed" => t.hs[g].mem = {"source"}
                         /\ t.hs[g].st = "closed" => t.hs[g].mem = {}
  BY <1>2, <1>3 DEF HandleOk, MemoryOk, Pointers
<1>10. EndedClean(t) BY <1>2, <1>8, <1>9 DEF EndedClean
<1>11. HandleInv(t) BY <1>2, <1>3, <1>4, <1>10 DEF HandleInv
<1>. QED BY <1>11 DEF t

(* pcap_close_all closes what is on the list, one handle after the other.  *)
LEMMA CloseAllKeeps ==
  ASSUME HandleInv(w), pcap_close_all
  PROVE  HandleInv(w')
<1>1. w.stage = "exiting" BY DEF pcap_close_all
<1>2. CASE w.toclose = <<>>
  <2>1. w' = [w EXCEPT !.stage = "ended", !.open = {}, !.rings = {}, !.maps = {}] BY <1>2 DEF pcap_close_all
  <2>. QED BY <1>1, <1>2, <2>1, EndKeeps
<1>3. CASE w.toclose # <<>>
  <2>. DEFINE g == Head(w.toclose)
  <2>1. w.toclose \in Seq(Handles) BY DEF HandleInv, Typed, Listed
  <2>2. g \in Handles /\ Contains(w.toclose, g) BY <1>3, <2>1 DEF Contains
  <2>3. w' = pcap_close(w, g) BY <1>3 DEF pcap_close_all
  <2>. HIDE DEF g
  <2>4. w.looped = None /\ w.hs[g].st # "activating" /\ HandleOk(w, g) /\ g # None
    BY <1>1, <2>2, HandleAssumption DEF HandleInv
  <2>5. w.hs[g].st = "active" BY <2>2, <2>4 DEF HandleOk, ListingOk, Live
  <2>. QED BY <1>1, <2>2, <2>3, <2>5, CloseKeeps
<1>. QED BY <1>2, <1>3

(* No handle is there at the start.                                        *)
LEMMA InitialHandles ==
  ASSUME HandleInit
  PROVE  HandleInv(w)
<1>1. PICK sys \in Systems :
        w = [sys |-> sys, hs |-> [g \in Handles |-> NewHandle],
             dev |-> [promisc |-> FALSE, mode |-> "managed", up |-> TRUE, mons |-> {}],
             open |-> {}, rings |-> {}, maps |-> {}, toclose |-> <<>>, looped |-> None, faults |-> Faults,
             stage |-> "running"]
  BY DEF HandleInit
<1>2. /\ DOMAIN w = StateFields /\ w.hs = [g \in Handles |-> NewHandle] /\ w.open = {} /\ w.rings = {} /\ w.maps = {}
      /\ w.toclose = <<>> /\ w.looped = None /\ w.stage = "running"
      /\ w.dev = Device(FALSE, "managed", TRUE, {})
  BY <1>1 DEF StateFields, Device
<1>3. \A g \in Handles : w.hs[g] = NewHandle BY <1>2
<1>4. DOMAIN NewHandle = HandleFields BY DEF NewHandle, HandleFields
<1>5. /\ NewHandle.st = "none" /\ NewHandle.fd = None /\ NewHandle.must = {} /\ NewHandle.oldmode = "managed"
      /\ NewHandle.mem = {} /\ NewHandle.ptr = {} /\ NewHandle.twice = FALSE /\ NewHandle.cleanup = "live"
      /\ NewHandle.broke = FALSE /\ NewHandle.wasup = TRUE
  BY DEF NewHandle
<1>6. Formed(w) BY <1>2, <1>3, <1>4 DEF Formed
<1>7. Listed(w.toclose) /\ \A g : ~Contains(w.toclose, g) BY <1>2 DEF Listed, Contains
<1>8. w.dev.promisc = FALSE /\ w.dev.mode = "managed" /\ w.dev.up = TRUE /\ w.dev.mons = {} BY <1>2 DEF Device
<1>9. Typed(w) BY <1>2, <1>3, <1>5, <1>7 DEF Typed, DeviceTyped
<1>10. DeviceOk(w) BY <1>8 DEF DeviceOk, PromiscUndone, MonitorUndone
<1>11. ASSUME NEW g \in Handles PROVE HandleOk(w, g)
  <2>1. Pointers(NewHandle) BY <1>5 DEF Pointers
  <2>2. MemoryOk(NewHandle) BY <1>5, <2>1 DEF MemoryOk, Doing, Live
  <2>3. ModesOk(NewHandle) BY <1>5 DEF ModesOk, Doing, Live, Lost
  <2>4. SocketsOk(NewHandle, {}, w.rings) BY <1>5 DEF SocketsOk, Live
  <2>5. OwnedIn(w, g) = {} BY <1>2 DEF OwnedIn
  <2>6. ListingOk(NewHandle, Contains(w.toclose, g), w.looped, g) BY <1>5, <1>7 DEF ListingOk, Live
  <2>. QED BY <1>2, <1>3, <1>5, <2>2, <2>3, <2>4, <2>5, <2>6 DEF HandleOk
<1>. QED BY <1>2, <1>6, <1>9, <1>10, <1>11 DEF HandleInv

(* A step of an activation keeps the invariant.                            *)
LEMMA ActivationKeeps ==
  ASSUME NEW g \in Handles, HandleInv(w), w.stage = "running", w.looped \in {None, g}, Activation(g)
  PROVE  HandleInv(w')
<1>1. CASE Socket(g) BY <1>1, OpenSocketKeeps
<1>2. CASE AddMonitorInterface(g) BY <1>2, AddMonitorInterfaceKeeps
<1>3. CASE BringUpMonitorInterface(g) BY <1>3, BringUpMonitorInterfaceKeeps
<1>4. CASE EnterMonitorMode(g) BY <1>4, EnterMonitorModeKeeps
<1>5. CASE TakeDown(g) BY <1>5, TakeDownKeeps
<1>6. CASE SetMode(g) BY <1>6, SetModeKeeps
<1>7. CASE BringUp(g) BY <1>7, BringUpKeeps
<1>8. CASE Arptype(g) BY <1>8, ArptypeKeeps
<1>9. CASE Bind(g) BY <1>9, BindKeeps
<1>10. CASE SocketOptions(g) BY <1>10, SocketOptionsKeeps
<1>11. CASE PrepareSocket(g) BY <1>11, PrepareSocketKeeps
<1>12. CASE CreateRing(g) BY <1>12, CreateRingKeeps
<1>13. CASE MapRing(g) BY <1>13, MapRingKeeps
<1>14. CASE PlainSocket(g) BY <1>14, PlainSocketKeeps
<1>15. CASE activate_old(g) BY <1>15, OldActivationKeeps
<1>16. CASE OldPromiscuous(g) BY <1>16, OldPromiscuousKeeps
<1>17. CASE OldBuffer(g) BY <1>17, OldBufferKeeps
<1>. QED BY <1>1, <1>2, <1>3, <1>4, <1>5, <1>6, <1>7, <1>8, <1>9, <1>10, <1>11, <1>12, <1>13, <1>14, <1>15,
            <1>16, <1>17 DEF Activation

(* Every step does.                                                        *)
LEMMA HandleStepKeeps ==
  ASSUME HandleInv(w), [HandleNext]_w
  PROVE  HandleInv(w')
<1>1. CASE UNCHANGED w BY <1>1
<1>2. CASE Exit BY <1>2, ExitKeeps
<1>3. CASE pcap_close_all BY <1>3, CloseAllKeeps
<1>4. ASSUME NEW g \in Handles, w.stage = "running", w.looped \in {None, g},
             pcap_create(g) \/ pcap_activate(g) \/ Activation(g) \/ Close(g) \/ Install(g)
      PROVE  HandleInv(w')
  <2>1. CASE pcap_create(g) BY <1>4, <2>1, CreateKeeps
  <2>2. CASE pcap_activate(g) BY <1>4, <2>2, ActivateKeeps
  <2>3. CASE Activation(g) BY <1>4, <2>3, ActivationKeeps
  <2>4. CASE Close(g)
    <3>1. w.hs[g].st \in {"created", "failed", "active"} /\ w' = pcap_close(w, g) BY <2>4 DEF Close
    <3>. QED BY <1>4, <3>1, CloseKeeps
  <2>5. CASE Install(g) BY <1>4, <2>5, InstallKeeps
  <2>. QED BY <1>4, <2>1, <2>2, <2>3, <2>4, <2>5
<1>. QED BY <1>1, <1>2, <1>3, <1>4 DEF HandleNext

------------------------------------------------------------------------------
(* What is lost while it is allocated: at most the list of link types, in  *)
(* activate_old.  Nothing else is allocated where it is already there.     *)
LinkTypes == Early \cup {"arptype"}
Naming == {"socket", "mac80211"}
LeaksOk(hd) ==
  /\ hd.leaked \in SUBSET {<<"dlt_list", "old">>}
  /\ hd.st = "activating" => "buffer" \notin hd.mem
  /\ Doing(hd, LinkTypes) => "dlt_list" \notin hd.mem
  /\ Doing(hd, Naming) => "mondevice" \notin hd.mem
LeakInv(s) == \A g \in Handles : LeaksOk(s.hs[g])

(* The other handles are as they were, and this one has at most X more.    *)
Grows(s, t, g, X) ==
  /\ Formed(t) /\ \A e \in Handles : e # g => t.hs[e] = s.hs[e]
  /\ t.hs[g].leaked \in SUBSET (s.hs[g].leaked \cup {<<"dlt_list", "old">>})
  /\ t.hs[g].mem \in SUBSET (s.hs[g].mem \cup X)

(* Two such steps add what one or the other adds.                          *)
LEMMA GrowsTwice ==
  ASSUME NEW s, NEW t, NEW u, NEW g \in Handles, NEW X, NEW Y, Grows(s, t, g, X), Grows(t, u, g, Y)
  PROVE  Grows(s, u, g, X \cup Y)
BY DEF Grows

(* A step that leaves the memory of handles alone adds nothing,            *)
LEMMA DifferGrows ==
  ASSUME NEW s, NEW t, NEW g \in Handles, NEW F, NEW G, Differ(s, t, g, F, G), "mem" \notin F, "leaked" \notin F
  PROVE  Grows(s, t, g, {})
<1>1. t.hs[g].mem = s.hs[g].mem /\ t.hs[g].leaked = s.hs[g].leaked BY DEF Differ, HandleFields
<1>. QED BY <1>1 DEF Differ, Grows

(* nor does memory that is freed,                                          *)
LEMMA FreeOnlyGrows ==
  ASSUME NEW s, Formed(s), NEW g \in Handles, NEW x
  PROVE  Grows(s, FreeOnly(s, g, x), g, {})
BY DEF FreeOnly, Formed, Grows, HandleFields, StateFields

(* also with its pointer.                                                  *)
LEMMA FreeGrows ==
  ASSUME NEW s, Formed(s), NEW g \in Handles, NEW x
  PROVE  Grows(s, Free(s, g, x), g, {}) /\ Formed(Free(s, g, x))
<1>1. CASE x \notin s.hs[g].ptr BY <1>1 DEF Free, Grows
<1>2. CASE x \in s.hs[g].ptr
  <2>. DEFINE u == FreeOnly(s, g, x)
  <2>1. Grows(s, u, g, {}) BY FreeOnlyGrows
  <2>2. Free(s, g, x) = [u EXCEPT !.hs[g].ptr = @ \ {x}] BY <1>2 DEF Free
  <2>. HIDE DEF u
  <2>. QED BY <2>1, <2>2 DEF Formed, Grows, HandleFields, StateFields
<1>. QED BY <1>1, <1>2

(* Memory is allocated where there is none, or is the list of link types   *)
(* of activate_old.                                                        *)
LEMMA AllocGrows ==
  ASSUME NEW s, Formed(s), NEW g \in Handles, NEW x,
         x \notin s.hs[g].mem \/ (x = "dlt_list" /\ s.hs[g].pc = "old")
  PROVE  Grows(s, Alloc(s, g, x), g, {x})
<1>. DEFINE t == Alloc(s, g, x)
<1>1. /\ Differ(s, t, g, {"mem", "ptr", "leaked"}, {}) /\ t.hs[g].mem = s.hs[g].mem \cup {x}
      /\ x \notin s.hs[g].mem => t.hs[g].leaked = s.hs[g].leaked
      /\ t.hs[g].leaked \in SUBSET (s.hs[g].leaked \cup {<<x, s.hs[g].pc>>})
  BY AllocDoes
<1>. HIDE DEF t
<1>2. t.hs[g].leaked \in SUBSET (s.hs[g].leaked \cup {<<"dlt_list", "old">>}) BY <1>1
<1>3. Grows(s, t, g, {x}) BY <1>1, <1>2 DEF Differ, Grows
<1>. QED BY <1>3 DEF t

(* pcap_cleanup_live_common, pcap_cleanup_linux and the label fail of      *)
(* pcap_activate_linux add nothing,                                        *)
LEMMA LiveCleanupGrows ==
  ASSUME NEW s, Formed(s), NEW g \in Handles
  PROVE  Grows(s, pcap_cleanup_live_common(s, g), g, {})
<1>. DEFINE a == Free(s, g, "buffer")
            b == Free(a, g, "dlt_list")
            c == Free(b, g, "fcode")
            t == pcap_cleanup_live_common(s, g)
<1>1. Grows(s, a, g, {}) /\ Formed(a) BY FreeGrows
<1>2. Grows(a, b, g, {}) /\ Formed(b) BY <1>1, FreeGrows
<1>3. Grows(b, c, g, {}) /\ Formed(c) BY <1>2, FreeGrows
<1>4. t = IF c.hs[g].fd = None THEN c ELSE [CloseSocket(c, c.hs[g].fd) EXCEPT !.hs[g].fd = None]
  BY DEF pcap_cleanup_live_common
<1>. HIDE DEF a, b, c, t
<1>5. Grows(c, t, g, {})
  <2>1. CASE c.hs[g].fd = None BY <1>3, <1>4, <2>1 DEF Grows
  <2>2. CASE c.hs[g].fd # None
    BY <1>3, <1>4, <2>2 DEF CloseSocket, Formed, Grows, HandleFields, StateFields
  <2>. QED BY <2>1, <2>2
<1>6. Grows(s, t, g, {}) BY <1>1, <1>2, <1>3, <1>5 DEF Grows
<1>. QED BY <1>6 DEF t

(* pcap_cleanup_linux,                                                     *)
LEMMA CleanupGrows ==
  ASSUME NEW s, Formed(s), NEW g \in Handles
  PROVE  Grows(s, pcap_cleanup_linux(s, g), g, {})
<1>. DEFINE r == RestoreDevice(s, g)
            a == IF s.hs[g].must = {} THEN s ELSE pcap_remove_from_pcaps_to_close(r, g)
            b == Free(a, g, "mondevice")
            c == Free(b, g, "device")
            t == pcap_cleanup_live_common(c, g)
<1>1. Grows(s, r, g, {}) BY DEF RestoreDevice, Formed, Grows, HandleFields, StateFields
<1>. HIDE DEF r
<1>2. Grows(s, a, g, {})
  <2>1. CASE s.hs[g].must = {} BY <2>1 DEF Grows
  <2>2. CASE s.hs[g].must # {}
    BY <1>1, <2>2 DEF pcap_remove_from_pcaps_to_close, Formed, Grows, HandleFields, StateFields
  <2>. QED BY <2>1, <2>2
<1>7. pcap_cleanup_linux(s, g) = t BY DEF pcap_cleanup_linux, r
<1>. HIDE DEF a
<1>3. Formed(a) BY <1>2 DEF Grows
<1>4. Grows(a, b, g, {}) /\ Formed(b) BY <1>3, FreeGrows
<1>5. Grows(b, c, g, {}) /\ Formed(c) BY <1>4, FreeGrows
<1>6. Grows(c, t, g, {}) BY <1>5, LiveCleanupGrows
<1>. HIDE DEF b, c, t
<1>8. Grows(s, t, g, {}) BY <1>2, <1>4, <1>5, <1>6 DEF Grows
<1>. QED BY <1>7, <1>8

(* the label fail,                                                         *)
LEMMA FailGrows ==
  ASSUME NEW s, Formed(s), NEW g \in Handles
  PROVE  Grows(s, Fail(s, g), g, {}) /\ Fail(s, g).hs[g].st = "failed"
<1>. DEFINE u == pcap_cleanup_linux(s, g)
            t == NotActivated(u, g)
            F == {"st", "pc", "cleanup", "sock", "broke"}
<1>1. Grows(s, u, g, {}) BY CleanupGrows
<1>2. Fail(s, g) = t BY DEF Fail
<1>. HIDE DEF u
<1>3. Differ(u, t, g, F, {}) /\ t.hs[g].st = "failed" BY <1>1, NotActivatedDoes DEF Grows
<1>. HIDE DEF t
<1>4. Grows(u, t, g, {}) BY <1>3, DifferGrows
<1>5. Grows(s, t, g, {}) BY <1>1, <1>4 DEF Grows
<1>. QED BY <1>2, <1>3, <1>5

(* the socket closed before it,                                            *)
LEMMA CloseFailGrows ==
  ASSUME NEW s, Formed(s), NEW g \in Handles
  PROVE  Grows(s, CloseAndFail(s, g), g, {}) /\ CloseAndFail(s, g).hs[g].st = "failed"
<1>. DEFINE u == CloseSocket(s, s.hs[g].sock)
            t == Fail(u, g)
<1>1. Differ(s, u, g, {}, {"open", "rings"}) BY CloseSocketDoes
<1>2. CloseAndFail(s, g) = t BY DEF CloseAndFail
<1>. HIDE DEF u
<1>3. Grows(s, u, g, {}) BY <1>1, DifferGrows
<1>4. Formed(u) BY <1>3 DEF Grows
<1>5. Grows(u, t, g, {}) /\ t.hs[g].st = "failed" BY <1>4, FailGrows
<1>. HIDE DEF t
<1>6. Grows(s, t, g, {}) BY <1>3, <1>5 DEF Grows
<1>. QED BY <1>2, <1>5, <1>6

(* nor the list of handles to close,                                       *)
LEMMA ListsGrow ==
  ASSUME NEW s, Formed(s), NEW g \in Handles
  PROVE  Grows(s, pcap_add_to_pcaps_to_close(s, g), g, {})
BY DEF pcap_add_to_pcaps_to_close, Formed, Grows, HandleFields, StateFields

(* nor pcap_close.                                                         *)
LEMMA CloseGrows ==
  ASSUME NEW s, Formed(s), NEW g \in Handles, s.hs[g].cleanup \in {"live", "linux", "mmap"}
  PROVE  Grows(s, pcap_close(s, g), g, {}) /\ pcap_close(s, g).hs[g].st = "closed"
<1>. DEFINE a == Free(s, g, "source")
            d == destroy_ring(a, g)
            e == Free(d, g, "oneshot")
            u == CASE s.hs[g].cleanup = "live" -> pcap_cleanup_live_common(a, g)
                   [] s.hs[g].cleanup = "linux" -> pcap_cleanup_linux(a, g)
                   [] s.hs[g].cleanup = "mmap" -> pcap_cleanup_linux_mmap(a, g)
            t == [u EXCEPT !.hs[g] = [@ EXCEPT !.st = "closed", !.pc = None, !.ptr = {}]]
<1>1. pcap_close(s, g) = t BY DEF pcap_close
<1>2. Grows(s, a, g, {}) /\ Formed(a) BY FreeGrows
<1>3. pcap_cleanup_linux_mmap(a, g) = pcap_cleanup_linux(e, g) BY DEF pcap_cleanup_linux_mmap
<1>. HIDE DEF a
<1>4. Grows(a, d, g, {}) BY <1>2 DEF destroy_ring, Formed, Grows, HandleFields, StateFields
<1>. HIDE DEF d
<1>5. Grows(d, e, g, {}) /\ Formed(e) BY <1>4, FreeGrows DEF Grows
<1>. HIDE DEF e
<1>6. Grows(a, pcap_cleanup_live_common(a, g), g, {}) BY <1>2, LiveCleanupGrows
<1>7. Grows(a, pcap_cleanup_linux(a, g), g, {}) BY <1>2, CleanupGrows
<1>8. Grows(e, pcap_cleanup_linux(e, g), g, {}) BY <1>5, CleanupGrows
<1>9. Grows(a, pcap_cleanup_linux_mmap(a, g), g, {}) BY <1>3, <1>4, <1>5, <1>8 DEF Grows
<1>10. Grows(a, u, g, {}) BY <1>6, <1>7, <1>9
<1>. HIDE DEF u
<1>11. Differ(u, t, g, {"st", "pc", "ptr"}, {}) /\ t.hs[g].st = "closed"
  BY <1>10 DEF Formed, Grows, HandleFields, StateFields, Differ
<1>. HIDE DEF t
<1>12. Grows(u, t, g, {}) BY <1>11, DifferGrows
<1>13. Grows(s, t, g, {}) BY <1>2, <1>10, <1>12 DEF Grows
<1>. QED BY <1>1, <1>11, <1>13

(* After a step that adds X, nothing is lost that may not be if the        *)
(* handle has not yet what it will allocate.                               *)
LEMMA LeakStep ==
  ASSUME NEW s, NEW t, LeakInv(s), NEW g \in Handles, NEW X, Grows(s, t, g, X),
         \/ t.hs[g].st # "activating"
         \/ /\ "buffer" \notin s.hs[g].mem \cup X
            /\ t.hs[g].pc \in LinkTypes => "dlt_list" \notin s.hs[g].mem \cup X
            /\ t.hs[g].pc \in Naming => "mondevice" \notin s.hs[g].mem \cup X
  PROVE  LeakInv(t)
<1>1. \A e \in Handles : e # g => LeaksOk(t.hs[e]) BY DEF LeakInv, Grows
<1>2. LeaksOk(s.hs[g]) BY DEF LeakInv
<1>3. LeaksOk(t.hs[g]) BY <1>2 DEF LeaksOk, Doing, Grows
<1>. QED BY <1>1, <1>3 DEF LeakInv

(* An activation that ends with an error loses nothing more,               *)
LEMMA Ends ==
  ASSUME NEW s, NEW u, NEW t, LeakInv(s), NEW g \in Handles, NEW X, Grows(s, u, g, X),
         t = Fail(u, g) \/ t = CloseAndFail(u, g)
  PROVE  LeakInv(t)
<1>1. Formed(u) BY DEF Grows
<1>2. Grows(u, t, g, {}) /\ t.hs[g].st = "failed" BY <1>1, FailGrows, CloseFailGrows
<1>3. Grows(s, t, g, X) BY <1>2 DEF Grows
<1>. QED BY <1>2, <1>3, LeakStep

(* nor one that goes on with what it will not allocate again.              *)
LEMMA Goes ==
  ASSUME NEW s, NEW u, NEW t, LeakInv(s), NEW g \in Handles, NEW X, Grows(s, u, g, X), s.hs[g].st = "activating",
         NEW pc, t = Go(u, g, pc), "buffer" \notin X,
         pc \in LinkTypes => s.hs[g].pc \in LinkTypes /\ "dlt_list" \notin X,
         pc \in Naming => s.hs[g].pc \in Naming /\ "mondevice" \notin X
  PROVE  LeakInv(t)
<1>1. Formed(u) BY DEF Grows
<1>2. Differ(u, t, g, {"pc"}, {}) /\ t.hs[g].pc = pc BY <1>1, GoDoes
<1>3. Grows(u, t, g, {}) BY <1>2, DifferGrows
<1>4. Grows(s, t, g, X) BY <1>3 DEF Grows
<1>5. LeaksOk(s.hs[g]) BY DEF LeakInv
<1>. QED BY <1>2, <1>4, <1>5, LeakStep DEF LeaksOk, Doing

(* Calls that fail, sockets and fields of a handle add nothing.            *)
LEMMA SmallGrows ==
  ASSUME NEW s, Formed(s), NEW g \in Handles
  PROVE  /\ Grows(s, s, g, {}) /\ Grows(s, Failing(s), g, {}) /\ Formed(Failing(s))
         /\ \A k : Grows(s, CloseSocket(s, k), g, {}) /\ Formed(CloseSocket(s, k))
         /\ \A k : Grows(s, OpenSocket(s, g, k), g, {}) /\ Formed(OpenSocket(s, g, k))
         /\ \A c : Grows(s, [s EXCEPT !.hs[g].cooked = c], g, {})
<1>1. Grows(s, s, g, {}) BY DEF Grows
<1>2. Grows(s, Failing(s), g, {}) BY FailingDoes, DifferGrows
<1>3. ASSUME NEW k PROVE Grows(s, CloseSocket(s, k), g, {})
  BY DEF CloseSocket, Formed, Grows, HandleFields, StateFields
<1>4. ASSUME NEW k PROVE Grows(s, OpenSocket(s, g, k), g, {})
  BY DEF OpenSocket, Formed, Grows, HandleFields, StateFields
<1>5. ASSUME NEW c PROVE Grows(s, [s EXCEPT !.hs[g].cooked = c], g, {})
  BY DEF Formed, Grows, HandleFields, StateFields
<1>6. Formed(Failing(s)) BY <1>2 DEF Grows
<1>7. \A k : Formed(CloseSocket(s, k)) BY <1>3 DEF Grows
<1>8. \A k : Formed(OpenSocket(s, g, k)) BY <1>4 DEF Grows
<1>. QED BY <1>1, <1>2, <1>3, <1>4, <1>5, <1>6, <1>7, <1>8

(* The beginning of activate_new loses nothing,                            *)
LEMMA SocketLeaks ==
  ASSUME NEW g \in Handles, Formed(w), LeakInv(w), Socket(g)
  PROVE  LeakInv(w')
<1>1. w.hs[g].st = "activating" /\ w.hs[g].pc = "socket" BY DEF Socket, In
<1>2. w.hs[g].pc \in LinkTypes /\ w.hs[g].pc \in Naming BY <1>1 DEF LinkTypes, Early, Naming
<1>. DEFINE way == IF Opt(g).any THEN "cooked" ELSE "packet"
            s == OpenSocket(w, g, way)
            c == [s EXCEPT !.hs[g].cooked = TRUE]
            next == IF Opt(g).rfmon THEN "mac80211" ELSE "arptype"
<1>3. \/ w' = Fail(s, g) \/ w' = Go(c, g, "options") \/ w' = Go(s, g, next)
      \/ w' = Go(w, g, "old") \/ w' = Fail(Failing(w), g)
  BY DEF Socket
<1>. HIDE DEF way, next
<1>4. Grows(w, s, g, {}) /\ Formed(s) BY SmallGrows
<1>5. Grows(w, c, g, {})
  <2>. HIDE DEF s
  <2>1. Grows(s, c, g, {}) BY <1>4, SmallGrows
  <2>. QED BY <1>4, <2>1 DEF Grows
<1>6. Grows(w, w, g, {}) /\ Grows(w, Failing(w), g, {}) BY SmallGrows
<1>. HIDE DEF c, s
<1>7. CASE w' = Fail(s, g) \/ w' = Fail(Failing(w), g) BY <1>4, <1>6, <1>7, Ends
<1>8. CASE w' = Go(c, g, "options") BY <1>1, <1>2, <1>5, <1>8, Goes
<1>9. CASE w' = Go(s, g, next) BY <1>1, <1>2, <1>4, <1>9, Goes
<1>10. CASE w' = Go(w, g, "old") BY <1>1, <1>2, <1>6, <1>10, Goes
<1>. QED BY <1>3, <1>7, <1>8, <1>9, <1>10

(* nor its way to monitor mode: by an interface of its own                 *)
LEMMA MonitorInterfaceLeaks ==
  ASSUME NEW g \in Handles, Formed(w), LeakInv(w), AddMonitorInterface(g) \/ BringUpMonitorInterface(g)
  PROVE  LeakInv(w')
<1>1. Grows(w, w, g, {}) /\ Grows(w, Failing(w), g, {}) /\ Formed(Failing(w)) BY SmallGrows
<1>2. CASE AddMonitorInterface(g)
  <2>. DEFINE n == CHOOSE i \in 0 .. Cardinality(w.dev.mons) :
                     i \notin w.dev.mons /\ \A j \in 0 .. i - 1 : j \in w.dev.mons
              u == [w EXCEPT !.dev.mons = @ \cup {n}, !.hs[g].mon = n]
              v == Alloc(u, g, "mondevice")
  <2>1. w.hs[g].st = "activating" /\ w.hs[g].pc = "mac80211" BY <1>2 DEF AddMonitorInterface, In
  <2>2. w.hs[g].pc \in LinkTypes /\ w.hs[g].pc \in Naming BY <2>1 DEF LinkTypes, Early, Naming
  <2>3. w' = Go(w, g, "wext") \/ w' = Go(v, g, "monup") \/ w' = CloseAndFail(Failing(w), g)
    BY <1>2 DEF AddMonitorInterface
  <2>. HIDE DEF n
  <2>4. Grows(w, u, g, {}) BY DEF Formed, Grows, HandleFields, StateFields
  <2>. HIDE DEF u
  <2>5. Formed(u) /\ "mondevice" \notin u.hs[g].mem BY <2>1, <2>2, <2>4 DEF Grows, LeakInv, LeaksOk, Doing
  <2>6. Grows(u, v, g, {"mondevice"}) BY <2>5, AllocGrows
  <2>7. Grows(w, v, g, {"mondevice"}) BY <2>4, <2>6 DEF Grows
  <2>. HIDE DEF v
  <2>8. CASE w' = Go(w, g, "wext") BY <1>1, <2>1, <2>2, <2>8, Goes
  <2>9. CASE w' = Go(v, g, "monup")
    <3>1. "monup" \notin Naming BY DEF Naming
    <3>. QED BY <2>1, <2>2, <2>7, <2>9, <3>1, Goes
  <2>10. CASE w' = CloseAndFail(Failing(w), g) BY <1>1, <2>10, Ends
  <2>. QED BY <2>3, <2>8, <2>9, <2>10
<1>3. CASE BringUpMonitorInterface(g)
  <2>. DEFINE m == [w EXCEPT !.hs[g].must = @ \cup {"monif"}]
              a == pcap_add_to_pcaps_to_close(m, g)
              f == Failing(w)
              d == [f EXCEPT !.dev.mons = @ \ {w.hs[g].mon}]
  <2>1. w.hs[g].st = "activating" /\ w.hs[g].pc = "monup" BY <1>3 DEF BringUpMonitorInterface, In
  <2>2. w.hs[g].pc \in LinkTypes BY <2>1 DEF LinkTypes, Early
  <2>3. w' = Go(a, g, "arptype") \/ w' = CloseAndFail(d, g) \/ w' = CloseAndFail(f, g)
    BY <1>3 DEF BringUpMonitorInterface
  <2>4. Grows(w, m, g, {}) BY DEF Formed, Grows, HandleFields, StateFields
  <2>. HIDE DEF m
  <2>5. Grows(m, a, g, {}) BY <2>4, ListsGrow DEF Grows
  <2>6. Grows(w, a, g, {}) BY <2>4, <2>5 DEF Grows
  <2>. HIDE DEF a, f
  <2>7. Grows(f, d, g, {}) BY <1>1 DEF f, Formed, Grows, HandleFields, StateFields
  <2>8. Grows(w, f, g, {}) BY <1>1 DEF f
  <2>9. Grows(w, d, g, {}) BY <2>7, <2>8 DEF Grows
  <2>. HIDE DEF d
  <2>10. CASE w' = Go(a, g, "arptype")
    <3>1. "arptype" \notin Naming BY DEF Naming
    <3>. QED BY <2>1, <2>2, <2>6, <2>10, <3>1, Goes
  <2>11. CASE w' = CloseAndFail(d, g) \/ w' = CloseAndFail(f, g) BY <2>8, <2>9, <2>11, Ends
  <2>. QED BY <2>3, <2>10, <2>11
<1>. QED BY <1>2, <1>3

(* A handle whose mode is to be undone goes on to its link type.           *)
LEMMA MonitorModeLeaks ==
  ASSUME NEW g \in Handles, LeakInv(w), NEW u, Grows(w, u, g, {}), w.hs[g].st = "activating",
         w.hs[g].pc \in LinkTypes, w' = MustLeaveMonitorMode(u, g)
  PROVE  LeakInv(w')
<1>. DEFINE m == [u EXCEPT !.hs[g].must = @ \cup {"rfmon"}]
            a == pcap_add_to_pcaps_to_close(m, g)
<1>1. w' = Go(a, g, "arptype") BY DEF MustLeaveMonitorMode
<1>2. Grows(u, m, g, {}) BY DEF Formed, Grows, HandleFields, StateFields
<1>. HIDE DEF m
<1>3. Grows(m, a, g, {}) BY <1>2, ListsGrow DEF Grows
<1>4. Grows(w, a, g, {}) BY <1>2, <1>3 DEF Grows
<1>. HIDE DEF a
<1>5. "arptype" \notin Naming BY DEF Naming
<1>. QED BY <1>1, <1>4, <1>5, Goes

(* or by the mode of the device.                                           *)
LEMMA WirelessLeaks ==
  ASSUME NEW g \in Handles, Formed(w), LeakInv(w), EnterMonitorMode(g) \/ TakeDown(g) \/ SetMode(g) \/ BringUp(g)
  PROVE  LeakInv(w')
<1>. DEFINE f == Failing(w)
            s == [w EXCEPT !.hs[g].montype = MonitorType(w.sys.privs), !.hs[g].oldmode = w.dev.mode]
            m == [s EXCEPT !.dev.mode = "monitor"]
            d == [w EXCEPT !.hs[g].wasup = w.dev.up, !.dev.up = FALSE]
            e == [w EXCEPT !.dev.mode = "monitor"]
            b == [f EXCEPT !.dev.up = w.hs[g].wasup]
            u == [w EXCEPT !.dev.up = @ \/ w.hs[g].wasup]
<1>1. Grows(w, w, g, {}) /\ Grows(w, f, g, {}) /\ Formed(f) BY SmallGrows
<1>2. w.hs[g].st = "activating" /\ w.hs[g].pc \in {"wext", "takedown", "setmode", "bringup"}
  BY DEF EnterMonitorMode, TakeDown, SetMode, BringUp, In
<1>3. w.hs[g].pc \in LinkTypes BY <1>2 DEF LinkTypes, Early
<1>4. \/ w' = CloseAndFail(w, g) \/ w' = CloseAndFail(f, g) \/ w' = CloseAndFail(b, g)
      \/ w' = Go(w, g, "arptype") \/ w' = Go(s, g, "takedown") \/ w' = Go(d, g, "setmode") \/ w' = Go(e, g, "bringup")
      \/ w' = MustLeaveMonitorMode(m, g) \/ w' = MustLeaveMonitorMode(u, g)
  BY DEF EnterMonitorMode, TakeDown, SetMode, BringUp
<1>5. Grows(w, s, g, {})
  <2>. DEFINE montype == MonitorType(w.sys.privs)
  <2>. HIDE DEF montype
  <2>1. s = [w EXCEPT !.hs[g].montype = montype, !.hs[g].oldmode = w.dev.mode] BY DEF montype
  <2>. QED BY <2>1 DEF Formed, Grows, HandleFields, StateFields
<1>. HIDE DEF s
<1>6. Grows(w, m, g, {}) BY <1>5 DEF Formed, Grows, HandleFields, StateFields
<1>7. Grows(w, d, g, {}) /\ Grows(w, e, g, {}) /\ Grows(w, u, g, {})
  BY DEF Formed, Grows, HandleFields, StateFields
<1>8. Grows(w, b, g, {})
  <2>1. Grows(f, b, g, {}) BY <1>1 DEF Formed, Grows, HandleFields, StateFields
  <2>. HIDE DEF b, f
  <2>. QED BY <1>1, <2>1 DEF Grows
<1>. HIDE DEF m, d, e, u, b, f
<1>9. \A pc \in {"arptype", "takedown", "setmode", "bringup"} : pc \notin Naming BY DEF Naming
<1>10. CASE w' = CloseAndFail(w, g) \/ w' = CloseAndFail(f, g) \/ w' = CloseAndFail(b, g)
  BY <1>1, <1>8, <1>10, Ends
<1>11. CASE w' = Go(w, g, "arptype") BY <1>1, <1>2, <1>3, <1>9, <1>11, Goes
<1>12. CASE w' = Go(s, g, "takedown") BY <1>5, <1>2, <1>3, <1>9, <1>12, Goes
<1>13. CASE w' = Go(d, g, "setmode") BY <1>7, <1>2, <1>3, <1>9, <1>13, Goes
<1>14. CASE w' = Go(e, g, "bringup") BY <1>7, <1>2, <1>3, <1>9, <1>14, Goes
<1>15. CASE w' = MustLeaveMonitorMode(m, g) \/ w' = MustLeaveMonitorMode(u, g)
  BY <1>2, <1>3, <1>6, <1>7, <1>15, MonitorModeLeaks
<1>. QED BY <1>4, <1>10, <1>11, <1>12, <1>13, <1>14, <1>15

(* The link types are listed where there is no list,                       *)
LEMMA ArptypeLeaks ==
  ASSUME NEW g \in Handles, Formed(w), LeakInv(w), Arptype(g)
  PROVE  LeakInv(w')
<1>. DEFINE f == Failing(w)
<1>1. Grows(w, w, g, {}) /\ Grows(w, f, g, {}) BY SmallGrows
<1>2. w.hs[g].st = "activating" /\ w.hs[g].pc = "arptype" BY DEF Arptype, In
<1>3. w.hs[g].pc \in LinkTypes BY <1>2 DEF LinkTypes
<1>4. "dlt_list" \notin w.hs[g].mem BY <1>2, <1>3 DEF LeakInv, LeaksOk, Doing
<1>5. "bind" \notin LinkTypes /\ "bind" \notin Naming BY DEF LinkTypes, Early, Naming
<1>6. CASE w' = CloseAndFail(f, g) BY <1>1, <1>6, Ends
<1>7. ASSUME NEW s, s = w \/ s = Alloc(w, g, "dlt_list"), NEW c, c = CloseSocket(s, s.hs[g].sock),
             NEW k, k = [OpenSocket(c, g, "cooked") EXCEPT !.hs[g].cooked = TRUE],
             w' = Go(s, g, "bind") \/ w' = Go(Free(k, g, "dlt_list"), g, "bind") \/ w' = Fail(Failing(c), g)
      PROVE  LeakInv(w')
  <2>1. Grows(w, s, g, {"dlt_list"})
    <3>1. CASE s = w BY <3>1 DEF Grows
    <3>2. CASE s = Alloc(w, g, "dlt_list") BY <1>4, <3>2, AllocGrows
    <3>. QED BY <1>7, <3>1, <3>2
  <2>2. Formed(s) BY <2>1 DEF Grows
  <2>3. Grows(s, c, g, {}) /\ Formed(c) BY <1>7, <2>2, SmallGrows
  <2>4. Grows(c, Failing(c), g, {}) BY <2>3, SmallGrows
  <2>5. Grows(c, k, g, {}) /\ Formed(k)
    <3>. DEFINE o == OpenSocket(c, g, "cooked")
    <3>1. Grows(c, o, g, {}) /\ Formed(o) BY <2>3, SmallGrows
    <3>2. k = [o EXCEPT !.hs[g].cooked = TRUE] BY <1>7
    <3>. HIDE DEF o
    <3>3. Grows(o, k, g, {}) BY <3>1, <3>2, SmallGrows
    <3>. QED BY <3>1, <3>3 DEF Grows
  <2>6. Grows(k, Free(k, g, "dlt_list"), g, {}) BY <2>5, FreeGrows
  <2>7. Grows(w, Free(k, g, "dlt_list"), g, {"dlt_list"}) BY <2>1, <2>3, <2>5, <2>6 DEF Grows
  <2>8. Grows(w, Failing(c), g, {"dlt_list"}) BY <2>1, <2>3, <2>4 DEF Grows
  <2>9. CASE w' = Fail(Failing(c), g) BY <2>8, <2>9, Ends
  <2>10. CASE w' = Go(s, g, "bind") BY <1>2, <1>5, <2>1, <2>10, Goes
  <2>11. CASE w' = Go(Free(k, g, "dlt_list"), g, "bind") BY <1>2, <1>5, <2>7, <2>11, Goes
  <2>. QED BY <1>7, <2>9, <2>10, <2>11
<1>8. CASE \E arptype \in w.sys.arptypes :
            LET s == IF HasDltList(arptype) THEN Alloc(w, g, "dlt_list") ELSE w
                c == CloseSocket(s, s.hs[g].sock)
                k == [OpenSocket(c, g, "cooked") EXCEPT !.hs[g].cooked = TRUE]
            IN w' = Go(s, g, "bind") \/ w' = Go(Free(k, g, "dlt_list"), g, "bind") \/ w' = Fail(Failing(c), g)
  <2>1. PICK arptype \in w.sys.arptypes :
               LET s == IF HasDltList(arptype) THEN Alloc(w, g, "dlt_list") ELSE w
                   c == CloseSocket(s, s.hs[g].sock)
                   k == [OpenSocket(c, g, "cooked") EXCEPT !.hs[g].cooked = TRUE]
               IN w' = Go(s, g, "bind") \/ w' = Go(Free(k, g, "dlt_list"), g, "bind") \/ w' = Fail(Failing(c), g)
    BY <1>8
  <2>. DEFINE s == IF HasDltList(arptype) THEN Alloc(w, g, "dlt_list") ELSE w
  <2>2. s = w \/ s = Alloc(w, g, "dlt_list") OBVIOUS
  <2>. QED BY <1>7, <2>1, <2>2
<1>. QED BY <1>6, <1>8 DEF Arptype

(* The socket is bound and made the handle's.                              *)
LEMMA BindLeaks ==
  ASSUME NEW g \in Handles, Formed(w), LeakInv(w), Bind(g) \/ SocketOptions(g)
  PROVE  LeakInv(w')
<1>. DEFINE f == Failing(w)
            c == CloseSocket(f, w.hs[g].sock)
            o == [w EXCEPT !.hs[g].fd = w.hs[g].sock, !.hs[g].sock = None]
<1>1. Grows(w, w, g, {}) /\ Grows(w, f, g, {}) /\ Formed(f) BY SmallGrows
<1>2. w.hs[g].st = "activating" BY DEF Bind, SocketOptions, In
<1>3. \/ w' = Go(w, g, "options") \/ w' = CloseAndFail(f, g) \/ w' = Go(c, g, "old")
      \/ w' = Go(o, g, "mmap") \/ w' = Fail(Failing(o), g)
  BY DEF Bind, SocketOptions
<1>4. Grows(f, c, g, {}) BY <1>1, SmallGrows
<1>. HIDE DEF f
<1>5. Grows(w, c, g, {}) BY <1>1, <1>4 DEF Grows
<1>6. Grows(w, o, g, {}) BY DEF Formed, Grows, HandleFields, StateFields
<1>. HIDE DEF c, o
<1>7. Grows(o, Failing(o), g, {}) BY <1>6, SmallGrows DEF Grows
<1>8. Grows(w, Failing(o), g, {}) BY <1>6, <1>7 DEF Grows
<1>9. \A pc \in {"options", "old", "mmap"} : pc \notin LinkTypes /\ pc \notin Naming BY DEF LinkTypes, Early, Naming
<1>10. CASE w' = CloseAndFail(f, g) \/ w' = Fail(Failing(o), g) BY <1>1, <1>8, <1>10, Ends
<1>11. CASE w' = Go(w, g, "options") BY <1>1, <1>2, <1>9, <1>11, Goes
<1>12. CASE w' = Go(c, g, "old") BY <1>5, <1>2, <1>9, <1>12, Goes
<1>13. CASE w' = Go(o, g, "mmap") BY <1>6, <1>2, <1>9, <1>13, Goes
<1>. QED BY <1>3, <1>10, <1>11, <1>12, <1>13

(* The buffer of one packet is allocated where there is none, and the      *)
(* ring is created.                                                        *)
LEMMA RingLeaks ==
  ASSUME NEW g \in Handles, HandleInv(w), w.stage = "running", LeakInv(w), PrepareSocket(g) \/ CreateRing(g)
  PROVE  LeakInv(w')
<1>. DEFINE f == Failing(w)
<1>1. Formed(w) /\ MemoryOk(w.hs[g]) BY DEF HandleInv, HandleOk
<1>2. Grows(w, w, g, {}) /\ Grows(w, f, g, {}) /\ Formed(f) BY <1>1, SmallGrows
<1>3. \A pc \in {"ring", "map", "plain"} : pc \notin LinkTypes /\ pc \notin Naming BY DEF LinkTypes, Early, Naming
<1>4. CASE PrepareSocket(g)
  <2>. DEFINE s == Alloc(w, g, "oneshot")
  <2>1. w.hs[g].st = "activating" /\ w.hs[g].pc = "mmap" BY <1>4 DEF PrepareSocket, In
  <2>2. "oneshot" \notin w.hs[g].mem BY <1>1, <2>1 DEF MemoryOk, Doing
  <2>3. \/ w' = Fail(f, g) \/ w' = Fail(FreeOnly(Failing(s), g, "oneshot"), g)
        \/ \E version, buffer, size : w' = Go(SizeRing(s, g, version, buffer, size), g, "ring")
    BY <1>4 DEF PrepareSocket
  <2>4. Grows(w, s, g, {"oneshot"}) BY <1>1, <2>2, AllocGrows
  <2>. HIDE DEF s
  <2>5. Formed(s) BY <2>4 DEF Grows
  <2>6. Grows(s, Failing(s), g, {}) /\ Formed(Failing(s)) BY <2>5, SmallGrows
  <2>7. Grows(Failing(s), FreeOnly(Failing(s), g, "oneshot"), g, {}) BY <2>6, FreeOnlyGrows
  <2>8. Grows(w, FreeOnly(Failing(s), g, "oneshot"), g, {"oneshot"}) BY <2>4, <2>6, <2>7 DEF Grows
  <2>9. CASE w' = Fail(f, g) BY <1>2, <2>9, Ends
  <2>10. CASE w' = Fail(FreeOnly(Failing(s), g, "oneshot"), g) BY <2>8, <2>10, Ends
  <2>11. ASSUME NEW version, NEW buffer, NEW size, w' = Go(SizeRing(s, g, version, buffer, size), g, "ring")
         PROVE  LeakInv(w')
    <3>. DEFINE r == SizeRing(s, g, version, buffer, size)
    <3>1. Grows(s, r, g, {})
      <4>. DEFINE opt == [s.hs[g].opt EXCEPT !.buffer_size = buffer]
                  n == buffer \div size
      <4>1. r = [s EXCEPT !.hs[g] = [@ EXCEPT !.opt = opt, !.version = version, !.frame_size = size, !.frames = n]]
        BY DEF SizeRing
      <4>. HIDE DEF opt, n
      <4>. QED BY <2>5, <4>1 DEF Formed, Grows, HandleFields, StateFields
    <3>. HIDE DEF r
    <3>2. Grows(w, r, g, {"oneshot"}) BY <2>4, <3>1 DEF Grows
    <3>. QED BY <1>3, <2>1, <2>11, <3>2, Goes DEF r
  <2>. QED BY <2>3, <2>9, <2>10, <2>11
<1>5. CASE CreateRing(g)
  <2>. DEFINE r == FreeOnly(w, g, "oneshot")
              m == WholeBlocks(w.hs[g].frames, w.hs[g].frame_size)
              n == Fewer(m)
              l == [f EXCEPT !.hs[g].frames = n]
              t == [w EXCEPT !.hs[g].frames = m, !.rings = @ \cup {w.hs[g].fd}]
  <2>1. w.hs[g].st = "activating" /\ w.hs[g].pc = "ring" BY <1>5 DEF CreateRing, In
  <2>2. w' = l \/ w' = Go(r, g, "plain") \/ w' = Fail(Failing(r), g) \/ w' = Go(t, g, "map")
    BY <1>5 DEF CreateRing
  <2>. HIDE DEF n
  <2>. HIDE DEF m
  <2>3. Grows(w, r, g, {}) BY <1>1, FreeOnlyGrows
  <2>4. Grows(w, t, g, {}) BY <1>1 DEF Formed, Grows, HandleFields, StateFields
  <2>. HIDE DEF r, t, f
  <2>5. Differ(f, l, g, {"frames"}, {}) BY <1>2 DEF Formed, HandleFields, StateFields, Differ
  <2>. HIDE DEF l
  <2>6. Differ(w, f, g, {}, {"faults"}) BY <1>1, FailingDoes DEF f
  <2>7. Grows(w, l, g, {}) /\ l.hs[g].st = "activating" /\ l.hs[g].pc = "ring"
    <3>1. Grows(f, l, g, {}) BY <2>5, DifferGrows
    <3>2. Grows(w, l, g, {}) BY <1>2, <3>1 DEF Grows
    <3>. QED BY <2>1, <2>5, <2>6, <3>2 DEF Differ, HandleFields
  <2>8. Grows(r, Failing(r), g, {}) BY <2>3, SmallGrows DEF Grows
  <2>9. Grows(w, Failing(r), g, {}) BY <2>3, <2>8 DEF Grows
  <2>10. CASE w' = l
    <3>1. "buffer" \notin w.hs[g].mem BY <2>1 DEF LeakInv, LeaksOk
    <3>. QED BY <1>3, <2>7, <2>10, <3>1, LeakStep
  <2>11. CASE w' = Go(r, g, "plain") BY <1>3, <2>1, <2>3, <2>11, Goes
  <2>12. CASE w' = Fail(Failing(r), g) BY <2>9, <2>12, Ends
  <2>13. CASE w' = Go(t, g, "map") BY <1>3, <2>1, <2>4, <2>13, Goes
  <2>. QED BY <2>2, <2>10, <2>11, <2>12, <2>13
<1>. QED BY <1>4, <1>5

(* The table of frames, or the buffer, is allocated where there is none.   *)
LEMMA BufferLeaks ==
  ASSUME NEW g \in Handles, Formed(w), LeakInv(w), MapRing(g) \/ PlainSocket(g)
  PROVE  LeakInv(w')
<1>. DEFINE f == Failing(w)
            m == [w EXCEPT !.maps = @ \cup {g}, !.hs[g].cleanup = "mmap"]
            e == [f EXCEPT !.maps = @ \cup {g}]
            refused(s) == Fail(FreeOnly(destroy_ring(s, g), g, "oneshot"), g)
<1>1. Grows(w, w, g, {}) /\ Grows(w, f, g, {}) /\ Formed(f) BY SmallGrows
<1>2. w.hs[g].st = "activating" BY DEF MapRing, PlainSocket, In
<1>3. "buffer" \notin w.hs[g].mem BY <1>2 DEF LeakInv, LeaksOk
<1>4. \/ w' = Activated(Alloc(m, g, "buffer"), g) \/ w' = Activated(Alloc(w, g, "buffer"), g)
      \/ w' = refused(w) \/ w' = refused(f) \/ w' = refused(e) \/ w' = Fail(f, g)
  BY DEF MapRing, PlainSocket
<1>5. Grows(w, m, g, {}) BY DEF Formed, Grows, HandleFields, StateFields
<1>6. Grows(w, e, g, {})
  <2>1. Grows(f, e, g, {}) BY <1>1 DEF Formed, Grows, HandleFields, StateFields
  <2>. HIDE DEF e, f
  <2>. QED BY <1>1, <2>1 DEF Grows
<1>. HIDE DEF m, e, f
<1>7. ASSUME NEW s, Grows(w, s, g, {}), w' = refused(s) PROVE LeakInv(w')
  <2>. DEFINE d == destroy_ring(s, g)
              o == FreeOnly(d, g, "oneshot")
  <2>1. Grows(s, d, g, {}) BY <1>7 DEF destroy_ring, Formed, Grows, HandleFields, StateFields
  <2>. HIDE DEF d
  <2>2. Grows(d, o, g, {}) BY <2>1, FreeOnlyGrows DEF Grows
  <2>3. w' = Fail(o, g) BY <1>7 DEF d
  <2>. HIDE DEF o
  <2>4. Grows(w, o, g, {}) BY <1>7, <2>1, <2>2 DEF Grows
  <2>. QED BY <2>3, <2>4, Ends
<1>8. ASSUME NEW s, Grows(w, s, g, {}), w' = Activated(Alloc(s, g, "buffer"), g) PROVE LeakInv(w')
  <2>. DEFINE a == Alloc(s, g, "buffer")
              t == Activated(a, g)
  <2>1. Formed(s) /\ "buffer" \notin s.hs[g].mem BY <1>3, <1>8 DEF Grows
  <2>2. Grows(s, a, g, {"buffer"}) BY <2>1, AllocGrows
  <2>. HIDE DEF a
  <2>3. Differ(a, t, g, {"st", "pc", "sock"}, {}) /\ t.hs[g].st = "active" BY <2>2, ActivatedDoes DEF Grows
  <2>4. w' = t BY <1>8 DEF a
  <2>. HIDE DEF t
  <2>5. Grows(a, t, g, {}) BY <2>3, DifferGrows
  <2>6. Grows(w, t, g, {"buffer"}) BY <1>8, <2>2, <2>5 DEF Grows
  <2>. QED BY <2>3, <2>4, <2>6, LeakStep
<1>9. CASE w' = Fail(f, g) BY <1>1, <1>9, Ends
<1>. HIDE DEF refused
<1>. QED BY <1>1, <1>4, <1>5, <1>6, <1>7, <1>8, <1>9

(* activate_old may list the link types again: that list is lost.          *)
LEMMA OldLeaks ==
  ASSUME NEW g \in Handles, Formed(w), LeakInv(w), activate_old(g)
  PROVE  LeakInv(w')
<1>. DEFINE f == Failing(w)
            s == OldOwned(OpenSocket(w, g, "old"), g, <<g, "old">>)
            next == IF Opt(g).promisc THEN "flags" ELSE "mtu"
<1>1. Grows(w, f, g, {}) BY SmallGrows
<1>2. w.hs[g].st = "activating" /\ w.hs[g].pc = "old" BY DEF activate_old, In
<1>3. \/ w' = Fail(f, g) \/ w' = Fail(s, g) \/ w' = Fail(Failing(s), g)
      \/ \E arptype \in w.sys.arptypes :
           LET t == IF HasDltList(arptype) THEN Alloc(s, g, "dlt_list") ELSE s
           IN w' = Fail(t, g) \/ w' = Go(t, g, next)
  BY DEF activate_old, OldOwned
<1>4. Grows(w, s, g, {}) /\ s.hs[g].pc = "old"
  <2>. DEFINE o == OpenSocket(w, g, "old")
              k == <<g, "old">>
  <2>1. Differ(w, o, g, {"sock"}, {"open"}) BY OpenSocketDoes
  <2>. HIDE DEF o, k
  <2>2. Differ(o, OldOwned(o, g, k), g, {"fd", "sock", "cooked"}, {}) BY <2>1, OldOwnedDoes DEF Differ
  <2>3. s = OldOwned(o, g, k) BY DEF o, k
  <2>. HIDE DEF s
  <2>4. Differ(w, s, g, {"sock", "fd", "cooked"}, {"open"}) BY <2>1, <2>2, <2>3 DEF Differ
  <2>5. Grows(w, s, g, {}) BY <2>4, DifferGrows
  <2>. QED BY <1>2, <2>4, <2>5 DEF Differ, HandleFields
<1>5. next \notin LinkTypes /\ next \notin Naming BY DEF LinkTypes, Early, Naming
<1>. HIDE DEF f, s, next
<1>6. Formed(s) BY <1>4 DEF Grows
<1>7. Grows(s, Failing(s), g, {}) BY <1>6, SmallGrows
<1>8. Grows(w, Failing(s), g, {}) BY <1>4, <1>7 DEF Grows
<1>9. ASSUME NEW t, t = s \/ t = Alloc(s, g, "dlt_list"), w' = Fail(t, g) \/ w' = Go(t, g, next) PROVE LeakInv(w')
  <2>1. Grows(s, t, g, {"dlt_list"})
    <3>1. CASE t = s BY <1>6, <3>1 DEF Grows
    <3>2. CASE t = Alloc(s, g, "dlt_list") BY <1>4, <1>6, <3>2, AllocGrows
    <3>. QED BY <1>9, <3>1, <3>2
  <2>2. Grows(w, t, g, {"dlt_list"}) BY <1>4, <2>1 DEF Grows
  <2>3. CASE w' = Fail(t, g) BY <2>2, <2>3, Ends
  <2>4. CASE w' = Go(t, g, next) BY <1>2, <1>5, <2>2, <2>4, Goes
  <2>. QED BY <1>9, <2>3, <2>4
<1>10. CASE w' = Fail(f, g) \/ w' = Fail(s, g) \/ w' = Fail(Failing(s), g) BY <1>1, <1>4, <1>8, <1>10, Ends
<1>. QED BY <1>3, <1>9, <1>10

(* The device is made promiscuous, and its largest packet asked for.       *)
LEMMA OldRestLeaks ==
  ASSUME NEW g \in Handles, Formed(w), LeakInv(w), OldPromiscuous(g) \/ OldBuffer(g)
  PROVE  LeakInv(w')
<1>. DEFINE f == Failing(w)
            m == [w EXCEPT !.dev.promisc = TRUE, !.hs[g].must = @ \cup {"promisc"}]
            a == pcap_add_to_pcaps_to_close(m, g)
<1>1. Grows(w, w, g, {}) /\ Grows(w, f, g, {}) BY SmallGrows
<1>2. w.hs[g].st = "activating" BY DEF OldPromiscuous, OldBuffer, In
<1>3. w' = Go(w, g, "mtu") \/ w' = Go(a, g, "mtu") \/ w' = Fail(f, g) \/ w' = Go(w, g, "plain")
  BY DEF OldPromiscuous, OldBuffer
<1>4. Grows(w, m, g, {}) BY DEF Formed, Grows, HandleFields, StateFields
<1>. HIDE DEF m, f
<1>5. Grows(m, a, g, {}) BY <1>4, ListsGrow DEF Grows
<1>6. Grows(w, a, g, {}) BY <1>4, <1>5 DEF Grows
<1>. HIDE DEF a
<1>7. \A pc \in {"mtu", "plain"} : pc \notin LinkTypes /\ pc \notin Naming BY DEF LinkTypes, Early, Naming
<1>8. CASE w' = Fail(f, g) BY <1>1, <1>8, Ends
<1>9. CASE w' = Go(w, g, "mtu") BY <1>1, <1>2, <1>7, <1>9, Goes
<1>10. CASE w' = Go(w, g, "plain") BY <1>1, <1>2, <1>7, <1>10, Goes
<1>11. CASE w' = Go(a, g, "mtu") BY <1>6, <1>2, <1>7, <1>11, Goes
<1>. QED BY <1>3, <1>8, <1>9, <1>10, <1>11

(* pcap_create, pcap_activate and a filter allocate what is not there,     *)
LEMMA StartLeaks ==
  ASSUME NEW g \in Handles, HandleInv(w), w.stage = "running", LeakInv(w),
         pcap_create(g) \/ pcap_activate(g) \/ Install(g)
  PROVE  LeakInv(w')
<1>1. Formed(w) /\ MemoryOk(w.hs[g]) BY DEF HandleInv, HandleOk
<1>2. CASE pcap_create(g)
  <2>1. PICK opt \in Options : w' = Alloc([w EXCEPT !.hs[g].st = "created", !.hs[g].opt = opt], g, "source")
    BY <1>2 DEF pcap_create
  <2>. DEFINE s == [w EXCEPT !.hs[g].st = "created", !.hs[g].opt = opt]
              t == Alloc(s, g, "source")
  <2>2. Differ(w, s, g, {"st", "opt"}, {}) /\ s.hs[g].st = "created"
    BY <1>1 DEF Formed, HandleFields, StateFields, Differ
  <2>. HIDE DEF s
  <2>3. Grows(w, s, g, {}) /\ Formed(s) BY <2>2, DifferGrows DEF Differ
  <2>4. "source" \notin s.hs[g].mem BY <1>1, <1>2, <2>3 DEF pcap_create, MemoryOk, Grows
  <2>5. Grows(s, t, g, {"source"}) BY <2>3, <2>4, AllocGrows
  <2>6. Differ(s, t, g, {"mem", "ptr", "leaked"}, {}) BY <2>3, AllocDoes
  <2>. HIDE DEF t
  <2>7. Grows(w, t, g, {"source"}) /\ t.hs[g].st = "created" BY <2>2, <2>3, <2>5, <2>6 DEF Grows, Differ, HandleFields
  <2>8. LeakInv(t) BY <2>7, LeakStep
  <2>. QED BY <2>1, <2>8 DEF t, s
<1>3. CASE pcap_activate(g)
  <2>. DEFINE opt == [Opt(g) EXCEPT !.promisc = @ /\ ~Opt(g).any]
              s == Activating(w, g, opt)
              a == Alloc(s, g, "device")
              t == Go(a, g, "socket")
              f == Failing(s)
              u == NotActivated(f, g)
  <2>1. w' = t \/ w' = u BY <1>3 DEF pcap_activate, Activating
  <2>. HIDE DEF opt
  <2>2. Differ(w, s, g, {"st", "cleanup", "opt"}, {}) BY <1>1, ActivatingDoes
  <2>. HIDE DEF s
  <2>3. Grows(w, s, g, {}) /\ Formed(s) BY <2>2, DifferGrows DEF Differ
  <2>4. w.hs[g].mem = {"source"} BY <1>1, <1>3 DEF pcap_activate, MemoryOk
  <2>5. Grows(s, a, g, {"device"}) /\ Formed(a)
    <3>1. "device" \notin s.hs[g].mem BY <2>3, <2>4 DEF Grows
    <3>. QED BY <2>3, <3>1, AllocGrows DEF Grows
  <2>. HIDE DEF a
  <2>6. Grows(a, t, g, {}) BY <2>5, GoDoes, DifferGrows
  <2>. HIDE DEF t
  <2>7. Grows(w, t, g, {"device"}) BY <2>3, <2>5, <2>6 DEF Grows
  <2>8. LeakInv(t) BY <2>4, <2>7, LeakStep
  <2>9. Grows(s, f, g, {}) /\ Formed(f) BY <2>3, SmallGrows
  <2>. HIDE DEF f
  <2>10. Differ(f, u, g, {"st", "pc", "cleanup", "sock", "broke"}, {}) /\ u.hs[g].st = "failed"
    BY <2>9, NotActivatedDoes
  <2>. HIDE DEF u
  <2>11. Grows(f, u, g, {}) BY <2>10, DifferGrows
  <2>12. Grows(w, u, g, {}) BY <2>3, <2>9, <2>11 DEF Grows
  <2>13. LeakInv(u) BY <2>10, <2>12, LeakStep
  <2>. QED BY <2>1, <2>8, <2>13
<1>4. CASE Install(g)
  <2>. DEFINE t == Alloc(w, g, "fcode")
  <2>1. w' = t /\ "fcode" \notin w.hs[g].mem /\ w.hs[g].st = "active" BY <1>4 DEF Install
  <2>2. Grows(w, t, g, {"fcode"}) BY <1>1, <2>1, AllocGrows
  <2>3. Differ(w, t, g, {"mem", "ptr", "leaked"}, {}) BY <1>1, AllocDoes
  <2>. HIDE DEF t
  <2>4. t.hs[g].st = "active" BY <2>1, <2>3 DEF Differ, HandleFields
  <2>. QED BY <2>1, <2>2, <2>4, LeakStep
<1>. QED BY <1>2, <1>3, <1>4

(* and pcap_close, at the end of the program too, nothing.                 *)
LEMMA CloseLeaks ==
  ASSUME HandleInv(w), LeakInv(w), w.stage \in {"running", "exiting"},
         NEW g \in Handles, w.hs[g].st \in {"created", "failed", "active"}
  PROVE  LeakInv(pcap_close(w, g))
<1>1. Formed(w) /\ w.hs[g].cleanup \in {"live", "linux", "mmap"} BY ClosableFacts
<1>. DEFINE t == pcap_close(w, g)
<1>2. Grows(w, t, g, {}) /\ t.hs[g].st = "closed" BY <1>1, CloseGrows
<1>. HIDE DEF t
<1>3. LeakInv(t) BY <1>2, LeakStep
<1>. QED BY <1>3 DEF t

(* Nothing is lost at the start,                                           *)
LEMMA InitialLeaks ==
  ASSUME HandleInit
  PROVE  LeakInv(w)
<1>1. \A g \in Handles : w.hs[g] = NewHandle BY DEF HandleInit
<1>2. NewHandle.leaked = {} /\ NewHandle.mem = {} BY DEF NewHandle
<1>. QED BY <1>1, <1>2 DEF LeakInv, LeaksOk

(* and no step loses more than activate_old may.                           *)
LEMMA LeaksKept ==
  ASSUME HandleInv(w), LeakInv(w), [HandleNext]_w
  PROVE  LeakInv(w')
<1>1. CASE UNCHANGED w BY <1>1
<1>2. Formed(w) BY DEF HandleInv
<1>3. ASSUME w'.hs = w.hs PROVE LeakInv(w') BY <1>3 DEF LeakInv
<1>4. CASE Exit
  <2>1. w'.hs = w.hs BY <1>4, <1>2 DEF Exit, Formed, StateFields
  <2>. QED BY <1>3, <2>1
<1>5. CASE pcap_close_all
  <2>1. w.stage = "exiting" BY <1>5 DEF pcap_close_all
  <2>2. CASE w.toclose = <<>>
    <3>1. w'.hs = w.hs BY <1>5, <1>2, <2>2 DEF pcap_close_all, Formed, StateFields
    <3>. QED BY <1>3, <3>1
  <2>3. CASE w.toclose # <<>>
    <3>. DEFINE g == Head(w.toclose)
    <3>1. w.toclose \in Seq(Handles) BY DEF HandleInv, Typed, Listed
    <3>2. g \in Handles /\ Contains(w.toclose, g) BY <2>3, <3>1 DEF Contains
    <3>3. w' = pcap_close(w, g) BY <1>5, <2>3 DEF pcap_close_all
    <3>. HIDE DEF g
    <3>4. w.looped = None /\ w.hs[g].st # "activating" /\ HandleOk(w, g) /\ g # None
      BY <2>1, <3>2, HandleAssumption DEF HandleInv
    <3>5. w.hs[g].st = "active" BY <3>2, <3>4 DEF HandleOk, ListingOk, Live
    <3>. QED BY <2>1, <3>2, <3>3, <3>5, CloseLeaks
  <2>. QED BY <2>2, <2>3
<1>6. ASSUME NEW g \in Handles, w.stage = "running",
             pcap_create(g) \/ pcap_activate(g) \/ Activation(g) \/ Close(g) \/ Install(g)
      PROVE  LeakInv(w')
  <2>1. CASE pcap_create(g) \/ pcap_activate(g) \/ Install(g) BY <1>6, <2>1, StartLeaks
  <2>2. CASE Close(g)
    <3>1. w.hs[g].st \in {"created", "failed", "active"} /\ w' = pcap_close(w, g) BY <2>2 DEF Close
    <3>. QED BY <1>6, <3>1, CloseLeaks
  <2>3. CASE Socket(g) BY <1>2, <2>3, SocketLeaks
  <2>4. CASE AddMonitorInterface(g) \/ BringUpMonitorInterface(g) BY <1>2, <2>4, MonitorInterfaceLeaks
  <2>5. CASE EnterMonitorMode(g) \/ TakeDown(g) \/ SetMode(g) \/ BringUp(g) BY <1>2, <2>5, WirelessLeaks
  <2>6. CASE Arptype(g) BY <1>2, <2>6, ArptypeLeaks
  <2>7. CASE Bind(g) \/ SocketOptions(g) BY <1>2, <2>7, BindLeaks
  <2>8. CASE PrepareSocket(g) \/ CreateRing(g) BY <1>6, <2>8, RingLeaks
  <2>9. CASE MapRing(g) \/ PlainSocket(g) BY <1>2, <2>9, BufferLeaks
  <2>10. CASE activate_old(g) BY <1>2, <2>10, OldLeaks
  <2>11. CASE OldPromiscuous(g) \/ OldBuffer(g) BY <1>2, <2>11, OldRestLeaks
  <2>. QED BY <1>6, <2>1, <2>2, <2>3, <2>4, <2>5, <2>6, <2>7, <2>8, <2>9, <2>10, <2>11 DEF Activation
<1>. QED BY <1>1, <1>4, <1>5, <1>6 DEF HandleNext

------------------------------------------------------------------------------
(* The invariants say that handles are sound.                              *)
LEMMA InvSound ==
  ASSUME HandleInv(w), LeakInv(w)
  PROVE  HandleSound
<1>. DEFINE clean == [promisc |-> FALSE, mode |-> "managed", up |-> TRUE, mons |-> {}]
            quiet(g) ==
              /\ w.hs[g].mem \subseteq (IF w.hs[g].st = "failed" THEN {"source"} ELSE {})
              /\ Owned(g) = {} \/ (w.hs[g].opt.any /\ w.hs[g].opt.rfmon)
              /\ g \notin w.maps /\ (~Contains(w.toclose, g) \/ w.looped = g)
            usable(g) ==
              /\ w.hs[g].fd \in w.open /\ Owned(g) = {w.hs[g].fd}
              /\ {"source", "device", "buffer"} \subseteq w.hs[g].mem
              /\ w.hs[g].broke \/ w.looped # None \/ (w.hs[g].must # {} <=> Contains(w.toclose, g))
              /\ w.hs[g].cleanup = "mmap" <=> g \in w.maps
              /\ w.hs[g].cleanup = "mmap" => w.hs[g].fd \in w.rings /\ w.hs[g].frames > 0 /\ "oneshot" \in w.hs[g].mem
<1>1. Device(FALSE, "managed", TRUE, {}) = clean BY DEF Device
<1>2. Spoiled <=> SpoiledIn(w) BY DEF Spoiled, SpoiledIn
<1>3. \A g \in Handles : Owned(g) = OwnedIn(w, g)
  <2>1. \A g \in Handles : \A k \in SocketsOf(g) : k[1] = g BY DEF SocketsOf
  <2>2. \A k \in w.open : \E g \in Handles : k \in SocketsOf(g) BY DEF HandleInv, Typed
  <2>3. \A g \in Handles : \A k \in w.open : k[1] = g <=> k \in SocketsOf(g) BY <2>1, <2>2
  <2>. QED BY <2>3 DEF Owned, OwnedIn
<1>6. \A g \in Handles : w.hs[g].leaked \subseteq {<<"dlt_list", "old">>} BY DEF LeakInv, LeaksOk
<1>7. CASE w.stage = "crashed"
  <2>1. Spoiled BY <1>2, <1>7 DEF HandleInv
  <2>. QED BY <1>7, <2>1 DEF HandleSound
<1>4. CASE w.stage = "ended"
  <2>1. EndedClean(w) BY <1>4 DEF HandleInv
  <2>2. \A g \in Handles : Owned(g) = {} /\ ~Contains(w.toclose, g) BY <2>1 DEF EndedClean, Owned, Contains
  <2>3. \A g \in Handles : ~w.hs[g].twice /\ (w.hs[g].st \in {"failed", "closed"} => quiet(g)) BY <2>1, <2>2 DEF EndedClean
  <2>4. ~Spoiled => w.dev = clean BY <1>1, <1>2, <2>1 DEF EndedClean
  <2>. QED BY <1>4, <1>6, <2>3, <2>4 DEF HandleSound
<1>5. CASE w.stage \notin {"ended", "crashed"}
  <2>1. DeviceOk(w) /\ DeviceTyped(w.dev) /\ \A g \in Handles : HandleOk(w, g) BY <1>5 DEF HandleInv, Typed
  <2>2. ASSUME NEW g \in Handles PROVE ~w.hs[g].twice BY <2>1 DEF HandleOk, MemoryOk, Pointers
  <2>3. ASSUME NEW g \in Handles, w.hs[g].st = "active" PROVE usable(g)
    <3>1. /\ OwnedIn(w, g) = {w.hs[g].fd}
          /\ w.hs[g].cleanup = "mmap" => w.hs[g].fd \in w.rings /\ w.hs[g].frames > 0
      BY <2>1, <2>3 DEF HandleOk, SocketsOk
    <3>2. /\ {"source", "device", "buffer"} \subseteq w.hs[g].mem
          /\ w.hs[g].cleanup = "mmap" => "oneshot" \in w.hs[g].mem
      BY <2>1, <2>3 DEF HandleOk, MemoryOk, Live
    <3>3. w.hs[g].broke \/ w.looped # None \/ (w.hs[g].must # {} <=> Contains(w.toclose, g))
      <4>1. g # None BY HandleAssumption
      <4>. QED BY <4>1, <2>1, <2>3 DEF HandleOk, ListingOk, Live
    <3>4. w.hs[g].cleanup = "mmap" <=> g \in w.maps BY <2>1, <2>3 DEF HandleOk
    <3>5. w.hs[g].fd \in w.open BY <3>1 DEF OwnedIn
    <3>. QED BY <3>1, <3>2, <3>3, <3>4, <3>5, <1>3
  <2>4. ASSUME NEW g \in Handles, w.hs[g].st \in {"failed", "closed"} PROVE quiet(g)
    <3>1. ~Live(w.hs[g]) BY <2>4 DEF Live
    <3>2. w.hs[g].mem \subseteq (IF w.hs[g].st = "failed" THEN {"source"} ELSE {}) BY <2>1, <2>4 DEF HandleOk, MemoryOk
    <3>3. Owned(g) = {} \/ (w.hs[g].opt.any /\ w.hs[g].opt.rfmon)
      BY <2>1, <3>1, <1>3 DEF HandleOk, SocketsOk, Leaves
    <3>4. g \notin w.maps /\ (~Contains(w.toclose, g) \/ w.looped = g) BY <1>5, <3>1, IdleFacts
    <3>. QED BY <3>2, <3>3, <3>4
  <2>5. ASSUME ~Spoiled, \A g \in Handles : w.hs[g].st \in {"none", "closed"} PROVE w.dev = clean
    <3>1. \A g \in Handles : \A m : ~Doing(w.hs[g], m) /\ ~Undoes(w, g, m) BY <2>5 DEF Doing, Undoes, Live
    <3>. QED BY <1>1, <1>2, <2>1, <2>5, <3>1, DeviceClean
  <2>. HIDE DEF usable, quiet, clean
  <2>6. \A g \in Handles : /\ ~w.hs[g].twice
                           /\ w.hs[g].st = "active" => usable(g)
                           /\ w.hs[g].st \in {"failed", "closed"} => quiet(g)
    BY <2>2, <2>3, <2>4
  <2>. QED BY <1>5, <1>6, <2>5, <2>6 DEF HandleSound, usable, quiet, clean
<1>. QED BY <1>4, <1>5, <1>7

------------------------------------------------------------------------------
(* An active handle has the socket, the memory and the mapped ring that    *)
(* its operations use; one that was closed (pcap_close,                    *)
(* pcap_cleanup_linux, pcap_cleanup_linux_mmap) or could not be activated  *)
(* (pcap_activate_linux) leaves no memory, socket or mapping behind, but   *)
(* for the socket of the any device asked for monitor mode, and is not on  *)
(* the list of handles to close, but for a handle put on it twice; nothing *)
(* is freed twice, and nothing is lost while it is allocated, but for the  *)
(* list of link types when activate_old makes it again after a bind error  *)
(* of activate_new; when all are closed, or the program ended              *)
(* (pcap_close_all), the device is in the modes it was in, unless entering *)
(* monitor mode failed; and the program crashes only where a handle that   *)
(* asked for monitor mode could not be activated before.                   *)
THEOREM HandlesStaySound == HandleSpec => []HandleSound
<1>. DEFINE Inv == HandleInv(w) /\ LeakInv(w)
<1>1. HandleInit => Inv BY InitialHandles, InitialLeaks
<1>2. Inv /\ [HandleNext]_w => Inv'
  <2>1. HandleInv(w) /\ LeakInv(w) /\ [HandleNext]_w => HandleInv(w') /\ LeakInv(w') BY HandleStepKeeps, LeaksKept
  <2>. QED BY <2>1
<1>3. Inv => HandleSound BY InvSound
<1>. QED BY <1>1, <1>2, <1>3, PTL DEF HandleSpec
==============================================================================
