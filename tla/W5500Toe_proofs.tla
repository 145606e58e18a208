------------------------- MODULE W5500Toe_proofs -------------------------
(***************************************************************************)
(* Proofs about W5500Toe, for any number of sockets, hardware sockets and  *)
(* threads: the tables of the driver agree.  The helpers of the model are  *)
(* functions on a state k = [sock, chip, hw_fail], and the lemmas say of   *)
(* each what it keeps of such a state; ins gives the threads inside each   *)
(* socket, and X the connections in hand between two queues.               *)
(***************************************************************************)
EXTENDS W5500Toe, Functions, FiniteSetTheorems, FunctionTheorems, SequenceTheorems, WellFoundedInduction, TLAPS

-----------------------------------------------------------------------------
(* Types *)

SockRec ==
  [in_use : BOOLEAN, hw : Hw \cup {NoHw}, type : {"stream", "dgram"}, has_fd : BOOLEAN, users : Int,
   zombie : BOOLEAN, shut_rd : BOOLEAN, shut_wr : BOOLEAN, listening : BOOLEAN,
   pool : Seq(Hw), pend : Seq(Slot)]
ChipRec == [sr : SrState, rx : Int, room : BOOLEAN]
CallRec ==
  [op : {"connect", "accept", "send", "recv"}, s : Slot, finite : BOOLEAN, left : Int, polls : BOOLEAN]
State == [sock : [Slot -> SockRec], chip : [Hw -> ChipRec], hw_fail : [Hw -> Int]]
Pass == {Asleep} \cup [at : Slot, i : Nat \ {0}]
ToeTyped ==
  /\ sock \in [Slot -> SockRec] /\ chip \in [Hw -> ChipRec] /\ hw_fail \in [Hw -> Int]
  /\ worker \in Pass /\ calls \in [Caller -> {NoCall} \cup CallRec]
  /\ peers \in Int /\ listenerDied \in BOOLEAN

-----------------------------------------------------------------------------
(* The table of sockets *)

(* A connection that nobody has accepted: it has a hardware socket, and is *)
(* otherwise as new.                                                       *)
Fresh(me) == me = [FreeSlot EXCEPT !.in_use = TRUE, !.hw = me.hw]
Queued(k, s) == \E l \in Slot : \E i \in 1..Len(k.sock[l].pend) : k.sock[l].pend[i] = s

(* The calls in progress, as sets of threads of the sockets, and the       *)
(* connections that are in hand between two queues.                        *)
Counted(k, ins) ==
  \A s \in Slot : /\ IsFiniteSet(ins[s]) /\ k.sock[s].users = Cardinality(ins[s])
                  /\ ins[s] # {} => k.sock[s].in_use /\ k.sock[s].has_fd
QueuedOnce(k) ==
  \A l, m \in Slot : \A i \in 1..Len(k.sock[l].pend), j \in 1..Len(k.sock[m].pend) :
    k.sock[l].pend[i] = k.sock[m].pend[j] => l = m /\ i = j
QueuedFresh(k) ==
  \A l \in Slot : \A i \in 1..Len(k.sock[l].pend) : Fresh(k.sock[k.sock[l].pend[i]])
InHand(k, X) == \A s \in X : s \in Slot /\ Fresh(k.sock[s]) /\ ~Queued(k, s)
Kept(k, ins, X) ==
  \A s \in Slot :
    k.sock[s].in_use => \/ Queued(k, s) \/ s \in X
                        \/ k.sock[s].has_fd /\ (k.sock[s].zombie => ins[s] # {})
FreeIsNew(k) == \A s \in Slot : ~k.sock[s].in_use => k.sock[s] = FreeSlot
FdOrFresh(k) == \A s \in Slot : k.sock[s].in_use /\ ~k.sock[s].has_fd => Fresh(k.sock[s])
ZombieBare(k) == \A s \in Slot : k.sock[s].zombie => k.sock[s].pend = <<>> /\ ~k.sock[s].listening
Booked(k, ins, X) ==
  /\ Counted(k, ins) /\ QueuedOnce(k) /\ QueuedFresh(k) /\ InHand(k, X) /\ Kept(k, ins, X)
  /\ FreeIsNew(k) /\ FdOrFresh(k) /\ ZombieBare(k)

(* The threads in s; those in accept() of a closed one find its pool       *)
(* empty.                                                                  *)
Inside(s) == {t \in Caller : calls[t] # NoCall /\ calls[t].s = s}
Insides == [s \in Slot |-> Inside(s)]
ZombieUnfilled ==
  \A t \in Caller : calls[t].op = "accept" /\ sock[calls[t].s].zombie => sock[calls[t].s].pool = <<>>

-----------------------------------------------------------------------------
(* The hardware sockets *)

(* What is at place i of s: its own hardware socket is at 0.               *)
HwAt(k, s, i) == IF i = 0 THEN k.sock[s].hw ELSE k.sock[s].pool[i]
OwnedOnce(k) ==
  \A s, r \in Slot : \A i \in 0..Len(k.sock[s].pool), j \in 0..Len(k.sock[r].pool) :
    HwAt(k, s, i) = HwAt(k, r, j) /\ HwAt(k, s, i) # NoHw => s = r /\ i = j
PoolsLive(k) ==
  \A s \in Slot : \A i \in 1..Len(k.sock[s].pool) :
    k.chip[k.sock[s].pool[i]].sr \notin {"closed", "closing"}
Owned(k) == OwnedOnce(k) /\ PoolsLive(k)

(* The inductive invariant: the hardware is not lost as long as no         *)
(* listening hardware socket has died.                                     *)
ToeInv ==
  /\ ToeTyped /\ Booked(Now, Insides, {}) /\ ZombieUnfilled
  /\ ~listenerDied => Owned(Now)

(* A set of numbers has a least element, and Min is it.                    *)
LEMMA MinOf ==
  ASSUME NEW T, T \subseteq Nat, T # {}
  PROVE  Min(T) \in T /\ \A y \in T : Min(T) <= y
<1> DEFINE R == OpToRel(<, Nat)
<1>1. IsWellFoundedOn(R, Nat)
  BY NatLessThanWellFounded, Zenon
<1>2. \A x \in Nat : \A y \in Nat : y < x => <<y, x>> \in R
  BY DEF OpToRel
<1> HIDE DEF R
<1>3. PICK x \in T : \A y \in T : ~(<<y, x>> \in R)
  BY <1>1, WFMin
<1>4. ASSUME NEW y \in T PROVE x <= y
  <2>1. x \in Nat /\ y \in Nat
    OBVIOUS
  <2>2. ~(y < x)
    BY <1>2, <1>3, <1>4, <2>1
  <2> QED
    BY <2>1, <2>2
<1> QED
  BY <1>3, <1>4 DEF Min

LEMMA MinOfTwo ==
  ASSUME NEW a \in Int, NEW b \in Int
  PROVE  Min({a, b}) \in Int /\ Min({a, b}) <= a /\ Min({a, b}) <= b
<1>1. \E x \in {a, b} : \A y \in {a, b} : x <= y
  BY SMT
<1> QED
  BY <1>1 DEF Min

(* The sockets are numbered.                                               *)
LEMMA Numbered ==
  /\ Slot \subseteq Nat \ {0} /\ IsFiniteSet(Slot) /\ Cardinality(Slot) \in Nat /\ Slot = 1..Cardinality(Slot)
  /\ Hw \subseteq Nat /\ IsFiniteSet(Hw) /\ NoHw \notin Hw
<1>1. Cardinality(Slot) \in Nat /\ Cardinality(Hw) \in Nat
  BY ToeAssumption, FS_CardinalityType
<1> QED
  BY <1>1, ToeAssumption DEF NoHw

(* Each number of members below is taken once.                             *)
LEMMA NthIs ==
  ASSUME NEW S, S \subseteq Nat, IsFiniteSet(S), NEW n \in 1..Cardinality(S)
  PROVE  Nth(S, n) \in S /\ Cardinality({g \in S : g < Nth(S, n)}) = n - 1
<1> DEFINE c == Cardinality(S)
           Below(h) == {g \in S : g < h}
           f == [h \in S |-> Cardinality(Below(h)) + 1]
<1>1. c \in Nat
  BY FS_CardinalityType
<1>2. ASSUME NEW h \in S PROVE IsFiniteSet(Below(h)) /\ Cardinality(Below(h)) \in Nat /\ Cardinality(Below(h)) < c
  <2>1. Below(h) \in SUBSET S
    OBVIOUS
  <2>2. IsFiniteSet(Below(h)) /\ Cardinality(Below(h)) <= c /\ (c = Cardinality(Below(h)) => S = Below(h))
    BY <2>1, FS_Subset
  <2>3. h \notin Below(h)
    OBVIOUS
  <2>4. Cardinality(Below(h)) \in Nat
    BY <2>2, FS_CardinalityType
  <2> HIDE DEF Below, c
  <2> QED
    BY <1>1, <2>2, <2>3, <2>4
<1>3. f \in [S -> 1..c]
  <2> HIDE DEF Below, c
  <2> QED
    BY <1>1, <1>2
<1>4. ASSUME NEW g \in S, NEW h \in S, g < h PROVE Cardinality(Below(g)) < Cardinality(Below(h))
  <2>1. Below(g) \in SUBSET Below(h)
    <3> SUFFICES ASSUME NEW x \in S, x < g PROVE x < h
      OBVIOUS
    <3>1. x \in Nat /\ g \in Nat /\ h \in Nat
      OBVIOUS
    <3> QED
      BY <1>4, <3>1
  <2>2. g \in Below(h) /\ g \notin Below(g)
    BY <1>4
  <2>3. IsFiniteSet(Below(h)) /\ Cardinality(Below(h)) \in Nat /\ Cardinality(Below(g)) \in Nat
    BY <1>2
  <2> HIDE DEF Below
  <2>4. Cardinality(Below(g)) <= Cardinality(Below(h)) /\ (Cardinality(Below(h)) = Cardinality(Below(g)) => Below(h) = Below(g))
    BY <2>1, <2>3, FS_Subset
  <2> QED
    BY <2>2, <2>3, <2>4
<1>5. ASSUME NEW g \in S, NEW h \in S, f[g] = f[h] PROVE g = h
  <2>1. Cardinality(Below(g)) = Cardinality(Below(h))
    <3>1. Cardinality(Below(g)) \in Nat /\ Cardinality(Below(h)) \in Nat
      BY <1>2
    <3> HIDE DEF Below
    <3> QED
      BY <1>5, <3>1
  <2>2. g \in Nat /\ h \in Nat /\ Cardinality(Below(g)) \in Nat
    BY <1>2
  <2> HIDE DEF Below
  <2> QED
    BY <1>4, <2>1, <2>2
<1>6. f \in Injection(S, 1..c)
  <2> HIDE DEF f
  <2> QED
    BY <1>3, <1>5 DEF Injection, IsInjective
<1>7. IsFiniteSet(1..c) /\ Cardinality(1..c) = c
  BY <1>1, FS_Interval
<1> HIDE DEF f, c
<1>8. f \in Surjection(S, 1..c)
  BY <1>6, <1>7, FS_Injection DEF c
<1>9. PICK h \in S : f[h] = n
  BY <1>8 DEF Surjection, c
<1>10. Cardinality(Below(h)) = n - 1
  <2>1. Cardinality(Below(h)) \in Nat /\ n \in Int
    BY <1>1, <1>2 DEF c
  <2>2. f[h] = Cardinality(Below(h)) + 1
    BY DEF f
  <2> HIDE DEF Below
  <2> QED
    BY <1>9, <2>1, <2>2
<1> QED
  BY <1>10 DEF Nth

-----------------------------------------------------------------------------
(* What the helpers do *)

(* r is k, with the free hardware sockets q added to the pool of l.        *)
Fills(k, l, q, r) ==
  /\ q \in Seq(Hw) /\ r \in State
  /\ \A i, j \in 1..Len(q) : q[i] = q[j] => i = j
  /\ \A i \in 1..Len(q) : /\ k.chip[q[i]].sr = "closed"
                          /\ \A s \in Slot : k.sock[s].in_use => k.sock[s].hw # q[i]
  /\ r.sock = [k.sock EXCEPT ![l] = [k.sock[l] EXCEPT !.pool = k.sock[l].pool \o q]]
  /\ \A h \in Hw : r.chip[h] = IF \E i \in 1..Len(q) : q[i] = h THEN HwIn("listen")
                               ELSE k.chip[h]

LEMMA HwInTyped == \A sr \in SrState : HwIn(sr) \in ChipRec
  BY DEF HwIn, ChipRec

LEMMA FillIs ==
  ASSUME NEW k \in State, NEW l \in Slot
  PROVE  \E q \in Seq(Hw) : Fills(k, l, q, ListenerFill(k, l))
<1> DEFINE free == HwFree(k)
           missing == ListenKeep - Len(k.sock[l].pool)
           good == free \ Dead
           c == Cardinality(good)
           m == Min({missing, c})
           opened == [n \in 1..m |-> Nth(good, n)]
           tried == {h \in free \cap Dead : missing > 0 /\ (Len(opened) < missing \/ h < Last(opened))}
           fails == [h \in Hw |-> IF h \in tried THEN 3 ELSE IF h \in ToSet(opened) THEN 0 ELSE k.hw_fail[h]]
           chips == [h \in Hw |-> IF h \in ToSet(opened) THEN HwIn("listen") ELSE k.chip[h]]
           socks == [k.sock EXCEPT ![l] = [k.sock[l] EXCEPT !.pool = k.sock[l].pool \o opened]]
           r == [sock |-> socks, chip |-> chips, hw_fail |-> fails]
<1>1. ListenerFill(k, l) = r
  BY DEF ListenerFill
<1>2. good \subseteq Hw /\ good \subseteq free /\ good \subseteq Nat /\ IsFiniteSet(good) /\ c \in Nat
  <2>1. good \subseteq Hw /\ good \subseteq free
    BY DEF HwFree
  <2>2. IsFiniteSet(good)
    BY <2>1, Numbered, FS_Subset
  <2> QED
    BY <2>1, <2>2, Numbered, FS_CardinalityType
<1>3. k.sock[l] \in SockRec /\ k.sock[l].pool \in Seq(Hw) /\ k.sock \in [Slot -> SockRec] /\ k.chip \in [Hw -> ChipRec]
      /\ k.hw_fail \in [Hw -> Int]
  BY DEF State, SockRec
<1>4. missing \in Int /\ m \in Int /\ m <= c
  <2>1. Len(k.sock[l].pool) \in Nat /\ ListenKeep \in Nat
    BY <1>3, ToeAssumption
  <2>2. missing \in Int /\ c \in Int
    BY <1>2, <2>1
  <2> QED
    BY <2>2, MinOfTwo
<1> HIDE DEF free, c, m, missing
<1>5. \A n \in 1..m : Nth(good, n) \in good /\ Cardinality({g \in good : g < Nth(good, n)}) = n - 1
  <2> SUFFICES ASSUME NEW n \in 1..m
               PROVE  Nth(good, n) \in good /\ Cardinality({g \in good : g < Nth(good, n)}) = n - 1
    OBVIOUS
  <2>1. n \in 1..c
    BY <1>2, <1>4
  <2> QED
    BY <1>2, <2>1, NthIs DEF c
<1> HIDE DEF good
<1>6. opened \in Seq(Hw) /\ (\A i \in 1..Len(opened) : opened[i] \in good)
  <2>1. PICK n \in Nat : 1..n = 1..m
    <3>1. CASE m \in Nat
      BY <3>1
    <3>2. CASE m \notin Nat
      <4>1. 1..m = 1..0
        BY <1>4, <3>2
      <4> QED
        BY <4>1
    <3> QED
      BY <3>1, <3>2
  <2>2. opened \in [1..n -> good]
    BY <1>5, <2>1
  <2> HIDE DEF opened
  <2>3. opened \in Seq(good) /\ Len(opened) = n
    BY <2>2
  <2>4. opened \in [1..n -> Hw]
    BY <1>2, <2>2
  <2> QED
    BY <2>2, <2>3, <2>4
<1>7. \A i \in 1..Len(opened) : i \in 1..m /\ opened[i] = Nth(good, i)
  <2>1. DOMAIN opened = 1..m
    OBVIOUS
  <2>2. DOMAIN opened = 1..Len(opened)
    <3> HIDE DEF opened
    <3> QED
      BY <1>6
  <2> QED
    BY <2>1, <2>2
<1>8. \A i, j \in 1..Len(opened) : opened[i] = opened[j] => i = j
  <2> SUFFICES ASSUME NEW i \in 1..Len(opened), NEW j \in 1..Len(opened), opened[i] = opened[j] PROVE i = j
    OBVIOUS
  <2>1. i \in 1..m /\ j \in 1..m /\ Nth(good, i) = Nth(good, j)
    BY <1>7
  <2>2. i - 1 = j - 1
    BY <1>5, <2>1
  <2> QED
    BY <1>4, <2>1, <2>2
<1> HIDE DEF opened, tried
<1>9. \A h \in Hw : h \in ToSet(opened) <=> \E i \in 1..Len(opened) : opened[i] = h
  BY <1>6 DEF ToSet
<1>10. socks \in [Slot -> SockRec]
  <2>1. k.sock[l].pool \o opened \in Seq(Hw)
    BY <1>3, <1>6
  <2> HIDE DEF opened
  <2>2. [k.sock[l] EXCEPT !.pool = k.sock[l].pool \o opened] \in SockRec
    BY <1>3, <2>1 DEF SockRec
  <2> QED
    BY <1>3, <2>2
<1>11. chips \in [Hw -> ChipRec] /\ fails \in [Hw -> Int]
  <2>1. HwIn("listen") \in ChipRec
    BY HwInTyped DEF SrState
  <2> QED
    BY <1>3, <2>1
<1>12. r \in State
  BY <1>10, <1>11 DEF State
<1>13. \A i \in 1..Len(opened) : /\ k.chip[opened[i]].sr = "closed"
                                 /\ \A s \in Slot : k.sock[s].in_use => k.sock[s].hw # opened[i]
  BY <1>2, <1>6 DEF HwFree, free
<1>14. r.sock = socks /\ r.chip = chips
  OBVIOUS
<1> HIDE DEF r
<1>15. \A h \in Hw : r.chip[h] = IF \E i \in 1..Len(opened) : opened[i] = h THEN HwIn("listen")
                                  ELSE k.chip[h]
  BY <1>9, <1>14
<1>16. Fills(k, l, opened, r)
  BY <1>6, <1>8, <1>12, <1>13, <1>14, <1>15 DEF Fills
<1> QED
  BY <1>1, <1>6, <1>16

-----------------------------------------------------------------------------
(* Steps that leave the book, or the owners, as they are *)

(* Queues, users and descriptors are the same, and what else has changed   *)
(* is in sockets with a descriptor.                                        *)
SameIn(a, b) ==
  /\ b.pend = a.pend /\ b.in_use = a.in_use /\ b.users = a.users /\ b.has_fd = a.has_fd
  /\ b.zombie = a.zombie /\ (b.listening => a.listening \/ ~a.zombie)

SameBook(k, r) ==
  \A s \in Slot :
    /\ r.sock[s].pend = k.sock[s].pend /\ r.sock[s].in_use = k.sock[s].in_use
    /\ r.sock[s].users = k.sock[s].users /\ r.sock[s].has_fd = k.sock[s].has_fd
    /\ r.sock[s].zombie = k.sock[s].zombie
    /\ r.sock[s].listening => k.sock[s].listening \/ ~k.sock[s].zombie
    /\ r.sock[s] # k.sock[s] => k.sock[s].in_use /\ k.sock[s].has_fd

LEMMA FreshHas ==
  ASSUME NEW me, Fresh(me)
  PROVE  /\ me.in_use = TRUE /\ me.has_fd = FALSE /\ me.users = 0 /\ me.zombie = FALSE
         /\ me.listening = FALSE /\ me.pool = <<>> /\ me.pend = <<>>
<1>1. PICK h : h = me.hw
  OBVIOUS
<1>2. me = [FreeSlot EXCEPT !.in_use = TRUE, !.hw = h]
  BY <1>1 DEF Fresh
<1> QED
  BY <1>2 DEF FreeSlot

LEMMA SameBookKeeps ==
  ASSUME NEW k \in State, NEW r \in State, NEW ins, NEW X, SameBook(k, r), Booked(k, ins, X)
  PROVE  Booked(r, ins, X)
<1>1. \A s \in Slot : Queued(r, s) <=> Queued(k, s)
  BY DEF SameBook, Queued
<1>2. \A s \in Slot : Fresh(k.sock[s]) => r.sock[s] = k.sock[s]
  BY FreshHas DEF SameBook
<1>3. Counted(r, ins) /\ QueuedOnce(r)
  <2>1. Counted(r, ins)
    BY DEF SameBook, Booked, Counted
  <2>2. QueuedOnce(k) /\ \A s \in Slot : r.sock[s].pend = k.sock[s].pend
    BY DEF SameBook, Booked
  <2>3. QueuedOnce(r)
    <3> SUFFICES ASSUME NEW l \in Slot, NEW m \in Slot,
                        NEW i \in 1..Len(r.sock[l].pend), NEW j \in 1..Len(r.sock[m].pend),
                        r.sock[l].pend[i] = r.sock[m].pend[j]
                 PROVE  l = m /\ i = j
      BY DEF QueuedOnce
    <3>1. r.sock[l].pend = k.sock[l].pend /\ r.sock[m].pend = k.sock[m].pend
      BY <2>2
    <3> QED
      BY <2>2, <3>1 DEF QueuedOnce
  <2> QED
    BY <2>1, <2>3
<1>4. QueuedFresh(r)
  <2> SUFFICES ASSUME NEW l \in Slot, NEW i \in 1..Len(r.sock[l].pend) PROVE Fresh(r.sock[r.sock[l].pend[i]])
    BY DEF QueuedFresh
  <2>1. r.sock[l].pend = k.sock[l].pend
    BY DEF SameBook
  <2>2. Fresh(k.sock[k.sock[l].pend[i]])
    BY <2>1 DEF Booked, QueuedFresh
  <2>3. k.sock[l].pend[i] \in Slot
    BY <2>1 DEF State, SockRec
  <2> QED
    BY <1>2, <2>1, <2>2, <2>3
<1>5. InHand(r, X)
  BY <1>1, <1>2 DEF Booked, InHand
<1>6. Kept(r, ins, X)
  BY <1>1 DEF SameBook, Booked, Kept
<1>7. FreeIsNew(r) /\ FdOrFresh(r)
  BY DEF SameBook, Booked, FreeIsNew, FdOrFresh
<1>8. ZombieBare(r)
  BY DEF SameBook, Booked, ZombieBare
<1> QED
  BY <1>3, <1>4, <1>5, <1>6, <1>7, <1>8 DEF Booked

(* Places have been emptied, and no hardware socket in a pool has closed.  *)
Less(k, r) ==
  /\ \A s \in Slot : /\ r.sock[s].hw \in {k.sock[s].hw, NoHw}
                     /\ r.sock[s].pool \in {k.sock[s].pool, <<>>}
  /\ \A s \in Slot : \A i \in 1..Len(r.sock[s].pool) :
       r.chip[r.sock[s].pool[i]].sr \in {"closed", "closing"} => r.chip[r.sock[s].pool[i]].sr = k.chip[r.sock[s].pool[i]].sr

LEMMA LessOwned ==
  ASSUME NEW k \in State, NEW r \in State, Less(k, r), Owned(k)
  PROVE  Owned(r)
<1>1. ASSUME NEW s \in Slot, NEW i \in 0..Len(r.sock[s].pool), HwAt(r, s, i) # NoHw
      PROVE  i \in 0..Len(k.sock[s].pool) /\ HwAt(k, s, i) = HwAt(r, s, i)
  <2>1. CASE i = 0
    <3>1. Len(k.sock[s].pool) \in Nat
      BY DEF State, SockRec
    <3> QED
      BY <1>1, <2>1, <3>1 DEF Less, HwAt
  <2>2. CASE i # 0
    <3>1. r.sock[s].pool = k.sock[s].pool
      BY <2>2 DEF Less
    <3> QED
      BY <2>2, <3>1 DEF HwAt
  <2> QED
    BY <2>1, <2>2
<1>2. OwnedOnce(r)
  <2> SUFFICES ASSUME NEW s \in Slot, NEW t \in Slot, NEW i \in 0..Len(r.sock[s].pool), NEW j \in 0..Len(r.sock[t].pool),
                      HwAt(r, s, i) = HwAt(r, t, j), HwAt(r, s, i) # NoHw
               PROVE  s = t /\ i = j
    BY DEF OwnedOnce
  <2>1. i \in 0..Len(k.sock[s].pool) /\ HwAt(k, s, i) = HwAt(r, s, i)
    BY <1>1
  <2>2. j \in 0..Len(k.sock[t].pool) /\ HwAt(k, t, j) = HwAt(r, t, j)
    BY <1>1
  <2> QED
    BY <2>1, <2>2 DEF Owned, OwnedOnce
<1>3. PoolsLive(r)
  <2> SUFFICES ASSUME NEW s \in Slot, NEW i \in 1..Len(r.sock[s].pool)
               PROVE  r.chip[r.sock[s].pool[i]].sr \notin {"closed", "closing"}
    BY DEF PoolsLive
  <2>1. r.sock[s].pool = k.sock[s].pool
    BY DEF Less
  <2> QED
    BY <2>1 DEF Less, Owned, PoolsLive
<1> QED
  BY <1>2, <1>3 DEF Owned

-----------------------------------------------------------------------------
(* listener_fill *)

LEMMA FillBooked ==
  ASSUME NEW k \in State, NEW l \in Slot, NEW q, NEW r, Fills(k, l, q, r), NEW ins, NEW X,
         Booked(k, ins, X), k.sock[l].in_use, k.sock[l].has_fd
  PROVE  Booked(r, ins, X)
<1>1. r \in State /\ r.sock = [k.sock EXCEPT ![l] = [k.sock[l] EXCEPT !.pool = k.sock[l].pool \o q]]
  BY DEF Fills
<1>2. k.sock \in [Slot -> SockRec] /\ k.sock[l] \in SockRec
  BY DEF State
<1>3. \A s \in Slot : s # l => r.sock[s] = k.sock[s]
  BY <1>1, <1>2
<1>4. r.sock[l] = [k.sock[l] EXCEPT !.pool = k.sock[l].pool \o q]
  BY <1>1, <1>2
<1>5. SameBook(k, r)
  <2>1. /\ r.sock[l].pend = k.sock[l].pend /\ r.sock[l].in_use = k.sock[l].in_use
        /\ r.sock[l].users = k.sock[l].users /\ r.sock[l].has_fd = k.sock[l].has_fd
        /\ r.sock[l].zombie = k.sock[l].zombie /\ r.sock[l].listening = k.sock[l].listening
    BY <1>2, <1>4 DEF SockRec
  <2> QED
    BY <1>3, <2>1 DEF SameBook
<1> QED
  BY <1>1, <1>5, SameBookKeeps

LEMMA FillOwned ==
  ASSUME NEW k \in State, NEW l \in Slot, NEW q, NEW r, Fills(k, l, q, r), Owned(k), FreeIsNew(k)
  PROVE  Owned(r)
<1> DEFINE p == k.sock[l].pool
           n == Len(p)
<1>1. /\ r \in State /\ r.sock = [k.sock EXCEPT ![l] = [k.sock[l] EXCEPT !.pool = p \o q]]
      /\ q \in Seq(Hw) /\ k.sock \in [Slot -> SockRec] /\ k.sock[l] \in SockRec
  BY DEF Fills, State
<1>2. /\ \A s \in Slot : s # l => r.sock[s] = k.sock[s]
      /\ r.sock[l].pool = p \o q /\ r.sock[l].hw = k.sock[l].hw
  BY <1>1 DEF SockRec
<1>3. p \in Seq(Hw) /\ n \in Nat /\ Len(q) \in Nat /\ Len(p \o q) = n + Len(q)
      /\ \A i \in 1..(n + Len(q)) : (p \o q)[i] = IF i <= n THEN p[i] ELSE q[i - n]
  <2>1. p \in Seq(Hw)
    BY <1>1 DEF SockRec
  <2> HIDE DEF p
  <2> QED
    BY <1>1, <2>1, ConcatProperties
<1> HIDE DEF p, n
<1>4. ASSUME NEW s \in Slot, NEW i \in 0..Len(k.sock[s].pool), NEW j \in 1..Len(q)
      PROVE  HwAt(k, s, i) # q[j]
  <2>1. k.chip[q[j]].sr = "closed" /\ q[j] \in Hw /\ q[j] # NoHw
    <3>1. q[j] \in Hw
      BY <1>1
    <3> QED
      BY <3>1, Numbered DEF Fills
  <2>2. CASE i = 0
    <3>1. k.sock[s].in_use => k.sock[s].hw # q[j]
      BY DEF Fills
    <3>2. ~k.sock[s].in_use => k.sock[s].hw = NoHw
      BY DEF FreeIsNew, FreeSlot
    <3> QED
      BY <2>1, <2>2, <3>1, <3>2 DEF HwAt
  <2>3. CASE i # 0
    <3>1. k.chip[k.sock[s].pool[i]].sr # "closed"
      BY <2>3 DEF Owned, PoolsLive
    <3> QED
      BY <2>1, <2>3, <3>1 DEF HwAt
  <2> QED
    BY <2>2, <2>3
<1>5. \A s \in Slot : Len(k.sock[s].pool) \in Nat
  BY DEF State, SockRec
<1>6. ASSUME NEW s \in Slot, NEW i \in 0..Len(r.sock[s].pool)
      PROVE  \/ i \in 0..Len(k.sock[s].pool) /\ HwAt(r, s, i) = HwAt(k, s, i)
             \/ s = l /\ i - n \in 1..Len(q) /\ HwAt(r, s, i) = q[i - n]
  <2>1. CASE s # l
    BY <1>2, <2>1 DEF HwAt
  <2>2. CASE s = l /\ i <= n
    <3>1. i \in 0..Len(k.sock[s].pool)
      BY <1>3, <2>2 DEF n, p
    <3>2. CASE i = 0
      BY <1>2, <2>2, <3>1, <3>2 DEF HwAt
    <3>3. CASE i # 0
      <4>1. i \in 1..(n + Len(q))
        BY <1>3, <2>2, <3>3
      <4>2. r.sock[s].pool[i] = p[i]
        BY <1>2, <1>3, <2>2, <4>1
      <4> QED
        BY <2>2, <3>1, <3>3, <4>2 DEF HwAt, p
    <3> QED
      BY <3>2, <3>3
  <2>3. CASE s = l /\ ~(i <= n)
    <3>1. i \in 1..(n + Len(q)) /\ i - n \in 1..Len(q) /\ i # 0
      BY <1>2, <1>3, <2>3
    <3>2. r.sock[s].pool[i] = q[i - n]
      BY <1>2, <1>3, <2>3, <3>1
    <3> QED
      BY <2>3, <3>1, <3>2 DEF HwAt
  <2> QED
    BY <2>1, <2>2, <2>3
<1>7. OwnedOnce(r)
  <2> SUFFICES ASSUME NEW s \in Slot, NEW t \in Slot, NEW i \in 0..Len(r.sock[s].pool), NEW j \in 0..Len(r.sock[t].pool),
                      HwAt(r, s, i) = HwAt(r, t, j), HwAt(r, s, i) # NoHw
               PROVE  s = t /\ i = j
    BY DEF OwnedOnce
  <2>1. \/ i \in 0..Len(k.sock[s].pool) /\ HwAt(r, s, i) = HwAt(k, s, i)
        \/ s = l /\ i - n \in 1..Len(q) /\ HwAt(r, s, i) = q[i - n]
    BY <1>6
  <2>2. \/ j \in 0..Len(k.sock[t].pool) /\ HwAt(r, t, j) = HwAt(k, t, j)
        \/ t = l /\ j - n \in 1..Len(q) /\ HwAt(r, t, j) = q[j - n]
    BY <1>6
  <2>3. CASE i \in 0..Len(k.sock[s].pool) /\ HwAt(r, s, i) = HwAt(k, s, i)
    <3>1. j \in 0..Len(k.sock[t].pool) /\ HwAt(r, t, j) = HwAt(k, t, j)
      BY <1>4, <2>2, <2>3
    <3>2. HwAt(k, s, i) = HwAt(k, t, j) /\ HwAt(k, s, i) # NoHw
      BY <2>3, <3>1
    <3>3. OwnedOnce(k)
      BY DEF Owned
    <3> QED
      BY <2>3, <3>1, <3>2, <3>3 DEF OwnedOnce
  <2>4. CASE s = l /\ i - n \in 1..Len(q) /\ HwAt(r, s, i) = q[i - n]
    <3>1. t = l /\ j - n \in 1..Len(q) /\ HwAt(r, t, j) = q[j - n]
      BY <1>4, <2>2, <2>4
    <3>2. i - n = j - n
      BY <2>4, <3>1 DEF Fills
    <3>3. i \in Int /\ j \in Int /\ n \in Int
      BY <1>3
    <3> QED
      BY <2>4, <3>1, <3>2, <3>3
  <2> QED
    BY <2>1, <2>3, <2>4
<1>8. PoolsLive(r)
  <2> SUFFICES ASSUME NEW s \in Slot, NEW i \in 1..Len(r.sock[s].pool)
               PROVE  r.chip[r.sock[s].pool[i]].sr \notin {"closed", "closing"}
    BY DEF PoolsLive
  <2>0. i \in 0..Len(r.sock[s].pool) /\ i # 0 /\ HwAt(r, s, i) = r.sock[s].pool[i]
    BY DEF HwAt
  <2>1. CASE i \in 0..Len(k.sock[s].pool) /\ HwAt(r, s, i) = HwAt(k, s, i)
    <3>1. i \in 1..Len(k.sock[s].pool) /\ HwAt(k, s, i) = k.sock[s].pool[i] /\ k.sock[s].pool[i] \in Hw
      BY <2>0, <2>1 DEF HwAt, State, SockRec
    <3>2. ~\E j \in 1..Len(q) : q[j] = k.sock[s].pool[i]
      BY <1>4, <2>1, <3>1
    <3>3. r.chip[k.sock[s].pool[i]] = k.chip[k.sock[s].pool[i]]
      BY <3>1, <3>2 DEF Fills
    <3> QED
      BY <2>0, <2>1, <3>1, <3>3 DEF Owned, PoolsLive
  <2>2. CASE s = l /\ i - n \in 1..Len(q) /\ HwAt(r, s, i) = q[i - n]
    <3>1. q[i - n] \in Hw
      BY <1>1, <2>2
    <3>2. r.chip[q[i - n]] = HwIn("listen")
      BY <2>2, <3>1 DEF Fills
    <3> QED
      BY <2>0, <2>2, <3>2 DEF HwIn
  <2> QED
    BY <1>6, <2>0, <2>1, <2>2
<1> QED
  BY <1>7, <1>8 DEF Owned

-----------------------------------------------------------------------------
(* listener_promote *)

LEMMA RemoveAtIs ==
  ASSUME NEW S, NEW p \in Seq(S), NEW i \in 1..Len(p)
  PROVE  /\ RemoveAt(p, i) \in Seq(S) /\ Len(RemoveAt(p, i)) = Len(p) - 1
         /\ \A j \in 1..(Len(p) - 1) : RemoveAt(p, i)[j] = IF j < i THEN p[j] ELSE p[j + 1]
<1> DEFINE n == Len(p)
           a == SubSeq(p, 1, i - 1)
           b == SubSeq(p, i + 1, n)
<1>1. n \in Nat /\ i \in 1..n
  OBVIOUS
<1>2. a \in Seq(S) /\ Len(a) = i - 1 /\ \A j \in 1..(i - 1) : a[j] = p[j]
  BY <1>1
<1>3. b \in Seq(S) /\ Len(b) = n - i /\ \A j \in 1..(n - i) : b[j] = p[i + j]
  BY <1>1
<1>4. RemoveAt(p, i) = a \o b
  BY DEF RemoveAt
<1> HIDE DEF a, b, n
<1>5. a \o b \in Seq(S) /\ Len(a \o b) = Len(a) + Len(b)
      /\ \A j \in 1..(Len(a) + Len(b)) : (a \o b)[j] = IF j <= Len(a) THEN a[j] ELSE b[j - Len(a)]
  BY <1>2, <1>3, ConcatProperties
<1>6. Len(a) + Len(b) = n - 1
  BY <1>1, <1>2, <1>3
<1>7. ASSUME NEW j \in 1..(n - 1) PROVE (a \o b)[j] = IF j < i THEN p[j] ELSE p[j + 1]
  <2>1. (a \o b)[j] = IF j <= i - 1 THEN a[j] ELSE b[j - (i - 1)]
    BY <1>2, <1>5, <1>6
  <2>2. CASE j < i
    <3>1. j <= i - 1 /\ j \in 1..(i - 1)
      BY <1>1, <2>2
    <3> QED
      BY <1>2, <2>1, <2>2, <3>1
  <2>3. CASE ~(j < i)
    <3>1. ~(j <= i - 1) /\ j - (i - 1) \in 1..(n - i) /\ i + (j - (i - 1)) = j + 1
      BY <1>1, <2>3
    <3> QED
      BY <1>3, <2>1, <2>3, <3>1
  <2> QED
    BY <2>2, <2>3
<1> QED
  BY <1>4, <1>5, <1>6, <1>7 DEF n

LEMMA AllocIs ==
  ASSUME NEW k \in State, FreeSlots(k) # {}
  PROVE  SlotAlloc(k) \in Slot /\ ~k.sock[SlotAlloc(k)].in_use
<1>1. FreeSlots(k) \subseteq Slot /\ FreeSlots(k) \subseteq Nat
  BY Numbered DEF FreeSlots
<1>2. SlotAlloc(k) \in FreeSlots(k)
  BY <1>1, MinOf DEF SlotAlloc
<1> QED
  BY <1>2 DEF FreeSlots

(* A slot that is taken is in hand.                                        *)
LEMMA TakenBooked ==
  ASSUME NEW k \in State, NEW r \in State, NEW ins, NEW X, Booked(k, ins, X),
         NEW c \in Slot, ~k.sock[c].in_use, Fresh(r.sock[c]), \A s \in Slot : s # c => r.sock[s] = k.sock[s]
  PROVE  Booked(r, ins, X \cup {c}) /\ c \notin X
<1>1. k.sock[c] = FreeSlot
  BY DEF Booked, FreeIsNew
<1>2. k.sock[c].pend = <<>> /\ k.sock[c].users = 0
  BY <1>1 DEF FreeSlot
<1>3. \A s \in Slot : r.sock[s].pend = k.sock[s].pend
  BY <1>2, FreshHas
<1>4. \A s \in Slot : Queued(r, s) <=> Queued(k, s)
  BY <1>3 DEF Queued
<1>5. ~Queued(k, c) /\ c \notin X
  <2>1. ~Fresh(k.sock[c])
    BY FreshHas
  <2>2. ASSUME Queued(k, c) PROVE FALSE
    <3>1. PICK l \in Slot : \E i \in 1..Len(k.sock[l].pend) : k.sock[l].pend[i] = c
      BY <2>2 DEF Queued
    <3> QED
      BY <2>1, <3>1 DEF Booked, QueuedFresh
  <2> QED
    BY <2>1, <2>2 DEF Booked, InHand
<1>6. Counted(r, ins)
  <2>1. IsFiniteSet(ins[c]) /\ ins[c] = {} /\ k.sock[c].users = Cardinality(ins[c])
    BY DEF Booked, Counted
  <2>2. r.sock[c].users = 0
    BY FreshHas
  <2> QED
    BY <1>2, <2>1, <2>2 DEF Booked, Counted
<1>7. QueuedOnce(r)
  <2> SUFFICES ASSUME NEW l \in Slot, NEW m \in Slot,
                      NEW i \in 1..Len(r.sock[l].pend), NEW j \in 1..Len(r.sock[m].pend),
                      r.sock[l].pend[i] = r.sock[m].pend[j]
               PROVE  l = m /\ i = j
    BY DEF QueuedOnce
  <2>1. r.sock[l].pend = k.sock[l].pend /\ r.sock[m].pend = k.sock[m].pend
    BY <1>3
  <2> QED
    BY <2>1 DEF Booked, QueuedOnce
<1>8. QueuedFresh(r)
  <2> SUFFICES ASSUME NEW l \in Slot, NEW i \in 1..Len(r.sock[l].pend) PROVE Fresh(r.sock[r.sock[l].pend[i]])
    BY DEF QueuedFresh
  <2>1. r.sock[l].pend = k.sock[l].pend
    BY <1>3
  <2>2. Fresh(k.sock[k.sock[l].pend[i]])
    BY <2>1 DEF Booked, QueuedFresh
  <2>3. k.sock[l].pend[i] \in Slot
    BY <2>1 DEF State, SockRec
  <2> QED
    BY <2>1, <2>2, <2>3
<1>9. InHand(r, X \cup {c})
  <2> SUFFICES ASSUME NEW s \in X \cup {c} PROVE s \in Slot /\ Fresh(r.sock[s]) /\ ~Queued(r, s)
    BY DEF InHand
  <2>1. CASE s = c
    BY <1>4, <1>5, <2>1
  <2>2. CASE s # c
    BY <1>4, <2>2 DEF Booked, InHand
  <2> QED
    BY <2>1, <2>2
<1>10. Kept(r, ins, X \cup {c})
  BY <1>4 DEF Booked, Kept
<1>11. FreeIsNew(r) /\ FdOrFresh(r) /\ ZombieBare(r)
  BY FreshHas DEF Booked, FreeIsNew, FdOrFresh, ZombieBare
<1> QED
  BY <1>5, <1>6, <1>7, <1>8, <1>9, <1>10, <1>11 DEF Booked

LEMMA OnePlace ==
  ASSUME NEW k, QueuedOnce(k), NEW l \in Slot, NEW m \in Slot,
         NEW i \in 1..Len(k.sock[l].pend), NEW j \in 1..Len(k.sock[m].pend),
         k.sock[l].pend[i] = k.sock[m].pend[j]
  PROVE  l = m /\ i = j
  BY DEF QueuedOnce

(* A connection in hand is put into the queue of a listener that is open.  *)
LEMMA PutBooked ==
  ASSUME NEW k \in State, NEW r \in State, NEW ins, NEW X, NEW c, c \notin X, Booked(k, ins, X \cup {c}),
         NEW l \in Slot, k.sock[l].has_fd, ~k.sock[l].zombie,
         r.sock = [k.sock EXCEPT ![l] = [k.sock[l] EXCEPT !.pend = Append(k.sock[l].pend, c)]]
  PROVE  Booked(r, ins, X)
<1> DEFINE p == k.sock[l].pend
           n == Len(p)
<1>1. c \in Slot /\ Fresh(k.sock[c]) /\ ~Queued(k, c) /\ k.sock[l] \in SockRec /\ c # l
  BY FreshHas DEF Booked, InHand, State
<1>2. p \in Seq(Slot) /\ n \in Nat /\ Len(Append(p, c)) = n + 1
      /\ \A i \in 1..(n + 1) : Append(p, c)[i] = IF i = n + 1 THEN c ELSE p[i]
  <2>1. p \in Seq(Slot)
    BY <1>1 DEF SockRec
  <2> HIDE DEF p
  <2> QED
    BY <1>1, <2>1
<1>3. /\ \A s \in Slot : s # l => r.sock[s] = k.sock[s]
      /\ r.sock[l] = [k.sock[l] EXCEPT !.pend = Append(p, c)]
  BY DEF State
<1> HIDE DEF p, n
<1>4. /\ r.sock[l].pend = Append(p, c) /\ r.sock[l].in_use = k.sock[l].in_use
      /\ r.sock[l].users = k.sock[l].users /\ r.sock[l].has_fd = k.sock[l].has_fd
      /\ r.sock[l].zombie = k.sock[l].zombie
  BY <1>1, <1>3 DEF SockRec
<1>5. k.sock[l].in_use
  BY FreshHas DEF Booked, FreeIsNew, FreeSlot
<1>6. \A s \in Slot : Fresh(k.sock[s]) => r.sock[s] = k.sock[s] /\ s # l
  BY <1>3, FreshHas
<1>7. \A s \in Slot : Queued(r, s) <=> Queued(k, s) \/ s = c
  <2>1. ASSUME NEW s \in Slot, Queued(r, s) PROVE Queued(k, s) \/ s = c
    <3>0. PICK m \in Slot : \E i \in 1..Len(r.sock[m].pend) : r.sock[m].pend[i] = s
      BY <2>1 DEF Queued
    <3>1. PICK i \in 1..Len(r.sock[m].pend) : r.sock[m].pend[i] = s
      BY <3>0
    <3>2. CASE m # l
      BY <1>3, <3>1, <3>2 DEF Queued
    <3>3. CASE m = l
      <4>1. i \in 1..(n + 1) /\ s = IF i = n + 1 THEN c ELSE p[i]
        BY <1>2, <1>4, <3>1, <3>3
      <4>2. i # n + 1 => i \in 1..Len(k.sock[l].pend)
        BY <1>2, <4>1 DEF n, p
      <4> QED
        BY <4>1, <4>2 DEF Queued, p
    <3> QED
      BY <3>2, <3>3
  <2>2. ASSUME NEW s \in Slot, Queued(k, s) PROVE Queued(r, s)
    <3>0. PICK m \in Slot : \E i \in 1..Len(k.sock[m].pend) : k.sock[m].pend[i] = s
      BY <2>2 DEF Queued
    <3>1. PICK i \in 1..Len(k.sock[m].pend) : k.sock[m].pend[i] = s
      BY <3>0
    <3>2. CASE m # l
      BY <1>3, <3>1, <3>2 DEF Queued
    <3>3. CASE m = l
      <4>1. i \in 1..n /\ p[i] = s
        BY <3>1, <3>3 DEF n, p
      <4>2. i \in 1..(n + 1) /\ i # n + 1
        BY <1>2, <4>1
      <4>3. i \in 1..Len(r.sock[l].pend) /\ r.sock[l].pend[i] = s
        BY <1>2, <1>4, <4>1, <4>2
      <4> QED
        BY <4>3 DEF Queued
    <3> QED
      BY <3>2, <3>3
  <2>3. Queued(r, c)
    <3>1. n + 1 \in 1..(n + 1)
      BY <1>2
    <3>2. n + 1 \in 1..Len(r.sock[l].pend) /\ r.sock[l].pend[n + 1] = c
      BY <1>2, <1>4, <3>1
    <3> QED
      BY <3>2 DEF Queued
  <2> QED
    BY <2>1, <2>2, <2>3
<1>8. Counted(r, ins)
  BY <1>3, <1>4 DEF Booked, Counted
<1>9. ASSUME NEW m \in Slot, NEW i \in 1..Len(r.sock[m].pend)
      PROVE  \/ i \in 1..Len(k.sock[m].pend) /\ r.sock[m].pend[i] = k.sock[m].pend[i]
             \/ m = l /\ i = n + 1 /\ r.sock[m].pend[i] = c
  <2>1. CASE m # l
    BY <1>3, <2>1
  <2>2. CASE m = l
    <3>1. i \in 1..(n + 1) /\ r.sock[m].pend[i] = IF i = n + 1 THEN c ELSE p[i]
      BY <1>2, <1>4, <2>2
    <3>2. i # n + 1 => i \in 1..n
      BY <1>2, <3>1
    <3> QED
      BY <2>2, <3>1, <3>2 DEF n, p
  <2> QED
    BY <2>1, <2>2
<1>10. QueuedOnce(r)
  <2> SUFFICES ASSUME NEW a \in Slot, NEW b \in Slot,
                      NEW i \in 1..Len(r.sock[a].pend), NEW j \in 1..Len(r.sock[b].pend),
                      r.sock[a].pend[i] = r.sock[b].pend[j]
               PROVE  a = b /\ i = j
    BY DEF QueuedOnce
  <2>1. \/ i \in 1..Len(k.sock[a].pend) /\ r.sock[a].pend[i] = k.sock[a].pend[i]
        \/ a = l /\ i = n + 1 /\ r.sock[a].pend[i] = c
    BY <1>9
  <2>2. \/ j \in 1..Len(k.sock[b].pend) /\ r.sock[b].pend[j] = k.sock[b].pend[j]
        \/ b = l /\ j = n + 1 /\ r.sock[b].pend[j] = c
    BY <1>9
  <2>3. \A x \in Slot : \A e \in 1..Len(k.sock[x].pend) : k.sock[x].pend[e] # c
    BY <1>1 DEF Queued
  <2>4. QueuedOnce(k)
    BY DEF Booked
  <2>5. CASE i \in 1..Len(k.sock[a].pend) /\ r.sock[a].pend[i] = k.sock[a].pend[i]
    <3>1. j \in 1..Len(k.sock[b].pend) /\ r.sock[b].pend[j] = k.sock[b].pend[j]
      BY <2>2, <2>3, <2>5
    <3>2. k.sock[a].pend[i] = k.sock[b].pend[j]
      BY <2>5, <3>1
    <3> QED
      BY <2>4, <2>5, <3>1, <3>2, OnePlace
  <2>6. CASE a = l /\ i = n + 1 /\ r.sock[a].pend[i] = c
    <3>1. b = l /\ j = n + 1
      BY <2>2, <2>3, <2>6
    <3> QED
      BY <2>6, <3>1
  <2> QED
    BY <2>1, <2>5, <2>6
<1>11. QueuedFresh(r)
  <2> SUFFICES ASSUME NEW m \in Slot, NEW i \in 1..Len(r.sock[m].pend) PROVE Fresh(r.sock[r.sock[m].pend[i]])
    BY DEF QueuedFresh
  <2>1. CASE i \in 1..Len(k.sock[m].pend) /\ r.sock[m].pend[i] = k.sock[m].pend[i]
    <3>1. Fresh(k.sock[k.sock[m].pend[i]])
      BY <2>1 DEF Booked, QueuedFresh
    <3>2. k.sock[m].pend[i] \in Slot
      BY <2>1 DEF State, SockRec
    <3> QED
      BY <1>6, <2>1, <3>1, <3>2
  <2>2. CASE m = l /\ i = n + 1 /\ r.sock[m].pend[i] = c
    BY <1>1, <1>6, <2>2
  <2> QED
    BY <1>9, <2>1, <2>2
<1>12. InHand(r, X)
  <2> SUFFICES ASSUME NEW s \in X PROVE s \in Slot /\ Fresh(r.sock[s]) /\ ~Queued(r, s)
    BY DEF InHand
  <2>1. s \in Slot /\ Fresh(k.sock[s]) /\ ~Queued(k, s)
    BY DEF Booked, InHand
  <2> QED
    BY <1>6, <1>7, <2>1
<1>13. Kept(r, ins, X)
  BY <1>3, <1>4, <1>7 DEF Booked, Kept
<1>14. FreeIsNew(r) /\ FdOrFresh(r) /\ ZombieBare(r)
  BY <1>3, <1>4, <1>5 DEF Booked, FreeIsNew, FdOrFresh, ZombieBare
<1> QED
  BY <1>8, <1>10, <1>11, <1>12, <1>13, <1>14 DEF Booked

LEMMA LensTyped ==
  ASSUME NEW k \in State, NEW s \in Slot
  PROVE  /\ k.sock[s].pool \in Seq(Hw) /\ k.sock[s].pend \in Seq(Slot)
         /\ Len(k.sock[s].pool) \in Nat /\ Len(k.sock[s].pend) \in Nat
<1>1. k.sock[s].pool \in Seq(Hw) /\ k.sock[s].pend \in Seq(Slot)
  BY DEF State, SockRec
<1> QED
  BY <1>1

(* The connection at place i of the pool moves to a slot of its own.       *)
LEMMA MovedOwned ==
  ASSUME NEW k \in State, NEW r \in State, NEW l \in Slot, NEW c \in Slot, c # l,
         NEW i \in 1..Len(k.sock[l].pool), Owned(k), FreeIsNew(k), ~k.sock[c].in_use,
         \A s \in Slot \ {l, c} : r.sock[s] = k.sock[s],
         r.sock[l].hw = k.sock[l].hw, r.sock[l].pool = RemoveAt(k.sock[l].pool, i),
         Fresh(r.sock[c]), r.sock[c].hw = k.sock[l].pool[i], r.chip = k.chip
  PROVE  Owned(r)
<1> DEFINE p == k.sock[l].pool
           n == Len(p)
           From(s) == IF s = c THEN l ELSE s
           At(s, j) == IF s = c THEN i ELSE IF s = l /\ j >= i THEN j + 1 ELSE j
<1>1. p \in Seq(Hw) /\ n \in Nat /\ i \in 1..n
  <2>1. p \in Seq(Hw)
    BY DEF State, SockRec
  <2> QED
    BY <2>1
<1>2. Len(r.sock[l].pool) = n - 1 /\ \A j \in 1..(n - 1) : r.sock[l].pool[j] = IF j < i THEN p[j] ELSE p[j + 1]
  <2>1. r.sock[l].pool = RemoveAt(p, i)
    OBVIOUS
  <2> HIDE DEF p
  <2>2. /\ Len(RemoveAt(p, i)) = Len(p) - 1
        /\ \A j \in 1..(Len(p) - 1) : RemoveAt(p, i)[j] = IF j < i THEN p[j] ELSE p[j + 1]
    BY <1>1, RemoveAtIs
  <2> QED
    BY <2>1, <2>2
<1> HIDE DEF p, n
<1>3. Len(r.sock[c].pool) = 0
  <2>1. r.sock[c].pool = <<>>
    BY FreshHas
  <2> QED
    BY <2>1
<1>4. \A s \in Slot : Len(k.sock[s].pool) \in Nat /\ Len(r.sock[s].pool) \in Nat
  BY LensTyped
<1>5. ASSUME NEW s \in Slot, NEW j \in 0..Len(r.sock[s].pool)
      PROVE  /\ At(s, j) \in 0..Len(k.sock[From(s)].pool)
             /\ HwAt(r, s, j) = HwAt(k, From(s), At(s, j))
             /\ j # 0 => At(s, j) # 0 /\ s # c
  <2>1. CASE s = c
    <3>1. j = 0 /\ i # 0 /\ i \in 0..Len(k.sock[l].pool)
      BY <1>1, <1>3, <1>4, <2>1 DEF n, p
    <3> QED
      BY <2>1, <3>1 DEF HwAt
  <2>2. CASE s = l
    <3>1. j \in 0..(n - 1) /\ n = Len(k.sock[l].pool)
      BY <1>2, <2>2 DEF n, p
    <3>2. CASE j = 0
      <4>1. At(s, j) = 0
        BY <1>1, <2>2, <3>2
      <4> QED
        BY <1>4, <2>2, <3>2, <4>1 DEF HwAt
    <3>3. CASE j # 0 /\ j < i
      <4>1. At(s, j) = j /\ j \in 0..n /\ j \in 1..(n - 1)
        BY <1>1, <2>2, <3>1, <3>3
      <4>2. r.sock[l].pool[j] = p[j]
        BY <1>2, <3>3, <4>1
      <4> QED
        BY <2>2, <3>1, <3>3, <4>1, <4>2 DEF HwAt, p
    <3>4. CASE j # 0 /\ ~(j < i)
      <4>1. At(s, j) = j + 1 /\ j + 1 \in 0..n /\ j + 1 # 0 /\ j \in 1..(n - 1)
        BY <1>1, <2>2, <3>1, <3>4
      <4>2. r.sock[l].pool[j] = p[j + 1]
        BY <1>2, <3>4, <4>1
      <4> QED
        BY <2>2, <3>1, <3>4, <4>1, <4>2 DEF HwAt, p
    <3> QED
      BY <3>2, <3>3, <3>4
  <2>3. CASE s # c /\ s # l
    BY <2>3 DEF HwAt
  <2> QED
    BY <2>1, <2>2, <2>3
<1>6. ASSUME NEW s \in Slot, NEW t \in Slot, NEW j \in 0..Len(r.sock[s].pool), NEW e \in 0..Len(r.sock[t].pool),
             From(s) = From(t), At(s, j) = At(t, e)
      PROVE  s = t /\ j = e
  <2>1. j \in Int /\ e \in Int /\ i \in Int /\ (s = c => j = 0) /\ (t = c => e = 0)
    BY <1>1, <1>3, <1>4
  <2>2. CASE s = c /\ t = c
    BY <2>1, <2>2
  <2>3. CASE s = c /\ t # c
    <3>1. t = l /\ i = IF e >= i THEN e + 1 ELSE e
      BY <1>6, <2>3
    <3> QED
      BY <2>1, <3>1
  <2>4. CASE s # c /\ t = c
    <3>1. s = l /\ i = IF j >= i THEN j + 1 ELSE j
      BY <1>6, <2>4
    <3> QED
      BY <2>1, <3>1
  <2>5. CASE s # c /\ t # c
    <3>1. s = t
      BY <1>6, <2>5
    <3>2. CASE s = l
      <4>1. (IF j >= i THEN j + 1 ELSE j) = (IF e >= i THEN e + 1 ELSE e)
        BY <1>6, <2>5, <3>1, <3>2
      <4> QED
        BY <2>1, <3>1, <4>1
    <3>3. CASE s # l
      BY <1>6, <2>5, <3>1, <3>3
    <3> QED
      BY <3>2, <3>3
  <2> QED
    BY <2>2, <2>3, <2>4, <2>5
<1>7. \A s \in Slot : From(s) \in Slot
  OBVIOUS
<1> HIDE DEF From, At
<1>8. OwnedOnce(r)
  <2> SUFFICES ASSUME NEW s \in Slot, NEW t \in Slot, NEW j \in 0..Len(r.sock[s].pool), NEW e \in 0..Len(r.sock[t].pool),
                      HwAt(r, s, j) = HwAt(r, t, e), HwAt(r, s, j) # NoHw
               PROVE  s = t /\ j = e
    BY DEF OwnedOnce
  <2>1. At(s, j) \in 0..Len(k.sock[From(s)].pool) /\ HwAt(r, s, j) = HwAt(k, From(s), At(s, j))
    BY <1>5
  <2>2. At(t, e) \in 0..Len(k.sock[From(t)].pool) /\ HwAt(r, t, e) = HwAt(k, From(t), At(t, e))
    BY <1>5
  <2>3. From(s) \in Slot /\ From(t) \in Slot /\ OwnedOnce(k)
    BY <1>7 DEF Owned
  <2>4. HwAt(k, From(s), At(s, j)) = HwAt(k, From(t), At(t, e)) /\ HwAt(k, From(s), At(s, j)) # NoHw
    BY <2>1, <2>2
  <2>5. From(s) = From(t) /\ At(s, j) = At(t, e)
    BY <2>1, <2>2, <2>3, <2>4 DEF OwnedOnce
  <2> QED
    BY <1>6, <2>5
<1>9. PoolsLive(r)
  <2> SUFFICES ASSUME NEW s \in Slot, NEW j \in 1..Len(r.sock[s].pool)
               PROVE  r.chip[r.sock[s].pool[j]].sr \notin {"closed", "closing"}
    BY DEF PoolsLive
  <2>1. j \in 0..Len(r.sock[s].pool) /\ j # 0
    BY <1>4
  <2>2. /\ At(s, j) \in 0..Len(k.sock[From(s)].pool) /\ At(s, j) # 0
        /\ HwAt(r, s, j) = HwAt(k, From(s), At(s, j))
    BY <1>5, <2>1
  <2>3. r.sock[s].pool[j] = k.sock[From(s)].pool[At(s, j)] /\ At(s, j) \in 1..Len(k.sock[From(s)].pool)
    BY <2>1, <2>2 DEF HwAt
  <2> QED
    BY <1>7, <2>3 DEF Owned, PoolsLive
<1> QED
  BY <1>8, <1>9 DEF Owned

(* What is done to l leaves the other sockets that are in use alone.       *)
Beside(k, r, l) ==
  /\ \A s \in Slot : s # l /\ k.sock[s].in_use => r.sock[s] = k.sock[s]
  /\ \A s \in Slot : s # l /\ ~k.sock[s].in_use => ~r.sock[s].zombie
  /\ r.sock[l].in_use = k.sock[l].in_use /\ r.sock[l].has_fd = k.sock[l].has_fd
  /\ r.sock[l].zombie = k.sock[l].zombie /\ r.sock[l].users = k.sock[l].users

(* The two sets of facts that the steps keep.                              *)
Stays(k, ins, X, r) ==
  r \in State /\ Booked(r, ins, X) /\ (Owned(k) => Owned(r))

LEMMA FillKeeps ==
  ASSUME NEW k \in State, NEW l \in Slot, k.sock[l].in_use, k.sock[l].has_fd, NEW ins, NEW X, Booked(k, ins, X)
  PROVE  Stays(k, ins, X, ListenerFill(k, l)) /\ Beside(k, ListenerFill(k, l), l)
<1>1. PICK r : r = ListenerFill(k, l)
  OBVIOUS
<1>2. PICK q \in Seq(Hw) : Fills(k, l, q, r)
  BY <1>1, FillIs
<1>3. r \in State /\ FreeIsNew(k)
  BY <1>2 DEF Fills, Booked
<1>4. Booked(r, ins, X)
  BY <1>2, FillBooked
<1>5. Owned(k) => Owned(r)
  BY <1>2, <1>3, FillOwned
<1>6. Beside(k, r, l)
  <2>1. k.sock \in [Slot -> SockRec] /\ k.sock[l] \in SockRec
    BY DEF State
  <2>2. r.sock = [k.sock EXCEPT ![l] = [k.sock[l] EXCEPT !.pool = k.sock[l].pool \o q]]
    BY <1>2 DEF Fills
  <2>3. PICK p : p = k.sock[l].pool \o q
    OBVIOUS
  <2>4. r.sock[l] = [k.sock[l] EXCEPT !.pool = p] /\ \A s \in Slot : s # l => r.sock[s] = k.sock[s]
    BY <2>1, <2>2, <2>3
  <2>5. /\ r.sock[l].in_use = k.sock[l].in_use /\ r.sock[l].has_fd = k.sock[l].has_fd
        /\ r.sock[l].zombie = k.sock[l].zombie /\ r.sock[l].users = k.sock[l].users
    BY <2>1, <2>4 DEF SockRec
  <2>6. \A s \in Slot : ~k.sock[s].in_use => ~k.sock[s].zombie
    BY DEF Booked, FreeIsNew, FreeSlot
  <2> QED
    BY <2>4, <2>5, <2>6 DEF Beside
<1> QED
  BY <1>1, <1>3, <1>4, <1>5, <1>6 DEF Stays

LEMMA FreshTyped ==
  ASSUME NEW h \in Hw \cup {NoHw}
  PROVE  LET me == [FreeSlot EXCEPT !.in_use = TRUE, !.hw = h] IN me \in SockRec /\ Fresh(me) /\ me.hw = h
<1>1. <<>> \in Seq(Hw) /\ <<>> \in Seq(Slot)
  OBVIOUS
<1>2. FreeSlot \in SockRec
  BY <1>1 DEF FreeSlot, SockRec
<1>3. PICK a : a = FreeSlot
  OBVIOUS
<1>4. PICK b : b = [a EXCEPT !.in_use = TRUE]
  OBVIOUS
<1>5. b \in SockRec
  BY <1>2, <1>3, <1>4 DEF SockRec
<1>6. [b EXCEPT !.hw = h] \in SockRec /\ [b EXCEPT !.hw = h].hw = h
  BY <1>5 DEF SockRec
<1>7. [a EXCEPT !.in_use = TRUE, !.hw = h] = [b EXCEPT !.hw = h]
  BY <1>2, <1>3, <1>4 DEF SockRec
<1>8. PICK me : me = [a EXCEPT !.in_use = TRUE, !.hw = h]
  OBVIOUS
<1>9. me = [FreeSlot EXCEPT !.in_use = TRUE, !.hw = h] /\ me.hw = h
  BY <1>3, <1>6, <1>7, <1>8
<1>10. Fresh(me)
  BY <1>9 DEF Fresh
<1> QED
  BY <1>6, <1>7, <1>8, <1>9, <1>10

LEMMA PromoteKeeps ==
  ASSUME NEW k \in State, NEW l \in Slot, k.sock[l].in_use, k.sock[l].has_fd, ~k.sock[l].zombie,
         NEW i \in 1..Len(k.sock[l].pool), FreeSlots(k) # {}, NEW ins, NEW X, Booked(k, ins, X)
  PROVE  Stays(k, ins, X, Promote(k, l, i)) /\ Beside(k, Promote(k, l, i), l)
<1> DEFINE h == k.sock[l].pool[i]
           me == [FreeSlot EXCEPT !.in_use = TRUE, !.hw = h]
<1>1. PICK c \in Slot : c = SlotAlloc(k) /\ ~k.sock[c].in_use
  BY AllocIs
<1>2. PICK taken : taken = [PoolRemove(k, l, i) EXCEPT !.sock[c] = me]
  OBVIOUS
<1>3. PICK filled : filled = ListenerFill(taken, l)
  OBVIOUS
<1>4. PICK r : r = [filled EXCEPT !.sock[l].pend = Append(filled.sock[l].pend, c)]
  OBVIOUS
<1>5. Promote(k, l, i) = r
  BY <1>1, <1>2, <1>3, <1>4, Zenon DEF Promote
<1>6. c # l /\ h \in Hw /\ k.sock \in [Slot -> SockRec] /\ k.sock[l] \in SockRec
  <2>1. k.sock[l].pool \in Seq(Hw)
    BY LensTyped
  <2> QED
    BY <1>1, <2>1 DEF State
<1>7. me \in SockRec /\ Fresh(me) /\ me.hw = h
  BY <1>6, FreshTyped
<1> HIDE DEF me
<1>8. PICK p : p = RemoveAt(k.sock[l].pool, i) /\ p \in Seq(Hw)
  BY LensTyped, RemoveAtIs
<1>9. /\ taken \in State /\ taken.chip = k.chip
      /\ taken.sock[c] = me /\ taken.sock[l] = [k.sock[l] EXCEPT !.pool = p]
      /\ \A s \in Slot \ {l, c} : taken.sock[s] = k.sock[s]
  <2>1. PICK a : a = [k.sock EXCEPT ![l] = [k.sock[l] EXCEPT !.pool = p]]
    OBVIOUS
  <2>2. PoolRemove(k, l, i) = [k EXCEPT !.sock = a]
    BY <1>8, <2>1 DEF PoolRemove
  <2>3. [k.sock[l] EXCEPT !.pool = p] \in SockRec
    BY <1>6, <1>8 DEF SockRec
  <2>4. a \in [Slot -> SockRec]
    BY <1>6, <2>1, <2>3
  <2>5. PoolRemove(k, l, i) = [sock |-> a, chip |-> k.chip, hw_fail |-> k.hw_fail]
    BY <2>2 DEF State
  <2>6. taken = [sock |-> [a EXCEPT ![c] = me], chip |-> k.chip, hw_fail |-> k.hw_fail]
    BY <1>2, <2>5
  <2>7. [a EXCEPT ![c] = me] \in [Slot -> SockRec]
    BY <1>7, <2>4
  <2>8. taken \in State
    BY <2>6, <2>7 DEF State
  <2> QED
    BY <1>6, <2>1, <2>4, <2>6, <2>8
<1>10. /\ taken.sock[l].pool = p /\ taken.sock[l].hw = k.sock[l].hw /\ taken.sock[l].has_fd = k.sock[l].has_fd
       /\ taken.sock[l].pend = k.sock[l].pend /\ taken.sock[l].in_use = k.sock[l].in_use
       /\ taken.sock[l].zombie = k.sock[l].zombie /\ taken.sock[l].users = k.sock[l].users
       /\ taken.sock[l].listening = k.sock[l].listening
  BY <1>6, <1>9 DEF SockRec
<1>11. Owned(k) => Owned(taken)
  BY <1>1, <1>6, <1>7, <1>8, <1>9, <1>10, MovedOwned DEF Booked
<1>12. PICK m : m = [k EXCEPT !.sock[c] = me]
  OBVIOUS
<1>13. m \in State /\ m.sock = [k.sock EXCEPT ![c] = me]
  <2>1. [k.sock EXCEPT ![c] = me] \in [Slot -> SockRec]
    BY <1>6, <1>7
  <2>2. m = [sock |-> [k.sock EXCEPT ![c] = me], chip |-> k.chip, hw_fail |-> k.hw_fail]
    BY <1>12 DEF State
  <2> QED
    BY <2>1, <2>2 DEF State
<1>14. Booked(m, ins, X \cup {c}) /\ c \notin X
  BY <1>1, <1>6, <1>7, <1>13, TakenBooked
<1>15. Booked(taken, ins, X \cup {c})
  <2>1. SameBook(m, taken)
    <3>1. ASSUME NEW s \in Slot, s # l PROVE taken.sock[s] = m.sock[s]
      BY <1>6, <1>9, <1>13, <3>1
    <3>2. m.sock[l] = k.sock[l] /\ m.sock[l].in_use /\ m.sock[l].has_fd
      BY <1>6, <1>13
    <3>3. SameIn(m.sock[l], taken.sock[l])
      BY <1>10, <3>2 DEF SameIn
    <3>4. ASSUME NEW s \in Slot PROVE SameIn(m.sock[s], taken.sock[s])
      BY <3>1, <3>3, <3>4 DEF SameIn
    <3> QED
      BY <3>1, <3>2, <3>4 DEF SameBook, SameIn
  <2> QED
    BY <1>9, <1>13, <1>14, <2>1, SameBookKeeps
<1>16. Stays(taken, ins, X \cup {c}, filled) /\ Beside(taken, filled, l)
  BY <1>3, <1>9, <1>10, <1>15, FillKeeps
<1>17. filled \in State /\ filled.sock \in [Slot -> SockRec] /\ filled.sock[l] \in SockRec
  BY <1>16 DEF Stays, State
<1>18. Append(filled.sock[l].pend, c) \in Seq(Slot)
  BY <1>17, LensTyped
<1>19. PICK z : z = Append(filled.sock[l].pend, c)
  OBVIOUS
<1>20. /\ r.sock = [filled.sock EXCEPT ![l] = [filled.sock[l] EXCEPT !.pend = z]]
       /\ r.chip = filled.chip /\ r \in State
  <2>1. r = [sock |-> [filled.sock EXCEPT ![l] = [filled.sock[l] EXCEPT !.pend = z]],
             chip |-> filled.chip, hw_fail |-> filled.hw_fail]
    BY <1>4, <1>17, <1>19 DEF State
  <2>2. [filled.sock[l] EXCEPT !.pend = z] \in SockRec
    BY <1>17, <1>18, <1>19 DEF SockRec
  <2>3. [filled.sock EXCEPT ![l] = [filled.sock[l] EXCEPT !.pend = z]] \in [Slot -> SockRec]
    BY <1>17, <2>2
  <2> QED
    BY <1>17, <2>1, <2>3 DEF State
<1>21. Booked(r, ins, X)
  BY <1>10, <1>14, <1>16, <1>17, <1>19, <1>20, PutBooked DEF Stays, Beside
<1>22. Owned(k) => Owned(r)
  <2>1. ASSUME NEW s \in Slot PROVE r.sock[s].hw = filled.sock[s].hw /\ r.sock[s].pool = filled.sock[s].pool
    BY <1>17, <1>20 DEF SockRec
  <2>2. Less(filled, r)
    BY <1>20, <2>1 DEF Less
  <2> QED
    BY <1>11, <1>16, <1>17, <1>20, <2>2, LessOwned DEF Stays
<1>23. Beside(k, r, l)
  <2>1. \A s \in Slot : s # l => r.sock[s] = filled.sock[s]
    BY <1>17, <1>20
  <2>2. \A s \in Slot : s # l /\ k.sock[s].in_use => taken.sock[s] = k.sock[s] /\ taken.sock[s].in_use
    BY <1>1, <1>9
  <2>3. \A s \in Slot : s # l /\ k.sock[s].in_use => r.sock[s] = k.sock[s]
    BY <1>16, <2>1, <2>2 DEF Beside
  <2>4. /\ r.sock[l].in_use = filled.sock[l].in_use /\ r.sock[l].has_fd = filled.sock[l].has_fd
        /\ r.sock[l].zombie = filled.sock[l].zombie /\ r.sock[l].users = filled.sock[l].users
    BY <1>17, <1>20 DEF SockRec
  <2>5. ASSUME NEW s \in Slot, s # l, ~k.sock[s].in_use PROVE ~r.sock[s].zombie
    <3>1. CASE s = c
      <4>1. me.in_use /\ ~me.zombie
        BY <1>7, FreshHas
      <4> QED
        BY <1>6, <1>9, <1>16, <2>1, <3>1, <4>1 DEF Beside
    <3>2. CASE s # c
      BY <1>9, <1>16, <2>1, <2>5, <3>2 DEF Beside
    <3> QED
      BY <3>1, <3>2
  <2> QED
    BY <1>10, <1>16, <2>3, <2>4, <2>5 DEF Beside
<1> QED
  BY <1>5, <1>20, <1>21, <1>22, <1>23 DEF Stays

-----------------------------------------------------------------------------
(* Slots that leave a queue, or are freed *)

(* The first n connections in the queue of l are taken out, into the hand. *)
Dropped(k, r, l, n, z) ==
  /\ n \in 0..Len(k.sock[l].pend) /\ z \in Seq(Slot) /\ Len(z) = Len(k.sock[l].pend) - n
  /\ \A i \in 1..Len(z) : z[i] = k.sock[l].pend[i + n]
  /\ r.sock = [k.sock EXCEPT ![l] = [k.sock[l] EXCEPT !.pend = z]]

LEMMA DropBooked ==
  ASSUME NEW k \in State, NEW r \in State, NEW ins, NEW X, Booked(k, ins, X),
         NEW l \in Slot, NEW n, NEW z, Dropped(k, r, l, n, z)
  PROVE  Booked(r, ins, X \cup {k.sock[l].pend[i] : i \in 1..n})
<1> DEFINE p == k.sock[l].pend
           D == {p[i] : i \in 1..n}
<1>1. /\ n \in 0..Len(p) /\ z \in Seq(Slot) /\ Len(z) = Len(p) - n /\ \A i \in 1..Len(z) : z[i] = p[i + n]
      /\ r.sock = [k.sock EXCEPT ![l] = [k.sock[l] EXCEPT !.pend = z]]
  BY DEF Dropped
<1>2. k.sock[l] \in SockRec /\ p \in Seq(Slot) /\ Len(p) \in Nat /\ n \in Nat /\ n <= Len(p)
  <2>1. k.sock[l] \in SockRec /\ p \in Seq(Slot) /\ Len(p) \in Nat
    BY LensTyped DEF State
  <2> HIDE DEF p
  <2> QED
    BY <1>1, <2>1
<1>3. /\ \A s \in Slot : s # l => r.sock[s] = k.sock[s]
      /\ r.sock[l] = [k.sock[l] EXCEPT !.pend = z]
  BY <1>1 DEF State
<1>4. /\ r.sock[l].pend = z /\ r.sock[l].in_use = k.sock[l].in_use
      /\ r.sock[l].users = k.sock[l].users /\ r.sock[l].has_fd = k.sock[l].has_fd
      /\ r.sock[l].zombie = k.sock[l].zombie /\ r.sock[l].listening = k.sock[l].listening
  BY <1>1, <1>2, <1>3 DEF SockRec
<1>5. /\ Len(z) \in Nat /\ \A i \in 1..Len(z) : i + n \in 1..Len(p) /\ z[i] = p[i + n]
      /\ \A i \in 1..n : i \in 1..Len(p) /\ p[i] \in Slot
  <2> HIDE DEF p
  <2> QED
    BY <1>1, <1>2
<1>6. ASSUME NEW m \in Slot, NEW i \in 1..Len(r.sock[m].pend)
      PROVE  \E j \in 1..Len(k.sock[m].pend) :
               /\ r.sock[m].pend[i] = k.sock[m].pend[j]
               /\ (m = l => j = i + n) /\ (m # l => j = i)
  <2>1. CASE m # l
    BY <1>3, <2>1
  <2>2. CASE m = l
    BY <1>4, <1>5, <2>2
  <2> QED
    BY <2>1, <2>2
<1>7. ASSUME NEW m \in Slot, NEW i \in 1..Len(k.sock[m].pend)
      PROVE  \/ m = l /\ i \in 1..n
             \/ \E j \in 1..Len(r.sock[m].pend) : r.sock[m].pend[j] = k.sock[m].pend[i]
  <2>1. CASE m # l
    BY <1>3, <2>1
  <2>2. CASE m = l /\ ~(i \in 1..n)
    <3>1. i \in 1..Len(p)
      BY <2>2
    <3>2. i - n \in 1..Len(z) /\ (i - n) + n = i
      <4> HIDE DEF p
      <4> QED
        BY <1>1, <1>2, <2>2, <3>1
    <3>3. z[i - n] = p[i]
      BY <1>5, <3>2
    <3> QED
      BY <1>4, <2>2, <3>2, <3>3
  <2> QED
    BY <2>1, <2>2
<1>8. \A s : Queued(r, s) => Queued(k, s)
  <2> SUFFICES ASSUME NEW s, Queued(r, s) PROVE Queued(k, s)
    OBVIOUS
  <2>1. PICK m \in Slot : \E i \in 1..Len(r.sock[m].pend) : r.sock[m].pend[i] = s
    BY DEF Queued
  <2>2. PICK i \in 1..Len(r.sock[m].pend) : r.sock[m].pend[i] = s
    BY <2>1
  <2>3. \E j \in 1..Len(k.sock[m].pend) : r.sock[m].pend[i] = k.sock[m].pend[j]
    BY <1>6, <2>1, <2>2
  <2> QED
    BY <2>1, <2>2, <2>3 DEF Queued
<1>9. k.sock[l].pend = <<>> => r.sock[l] = k.sock[l]
  <2> SUFFICES ASSUME k.sock[l].pend = <<>> PROVE r.sock[l] = k.sock[l]
    OBVIOUS
  <2>1. Len(z) = 0
    BY <1>1, <1>2
  <2>2. z = <<>>
    BY <1>1, <2>1
  <2> QED
    BY <1>2, <1>3, <2>2 DEF SockRec
<1>10. \A s \in Slot : Queued(k, s) => Queued(r, s) \/ s \in D
  <2> SUFFICES ASSUME NEW s \in Slot, NEW m \in Slot, NEW i \in 1..Len(k.sock[m].pend), k.sock[m].pend[i] = s
               PROVE  Queued(r, s) \/ s \in D
    BY DEF Queued
  <2> QED
    BY <1>7 DEF Queued
<1>11. \A s \in D : s \in Slot /\ ~Queued(r, s) /\ Fresh(k.sock[s]) /\ s # l
  <2> SUFFICES ASSUME NEW i \in 1..n PROVE p[i] \in Slot /\ ~Queued(r, p[i]) /\ Fresh(k.sock[p[i]]) /\ p[i] # l
    OBVIOUS
  <2>1. i \in 1..Len(p) /\ p[i] \in Slot
    BY <1>5
  <2>2. Fresh(k.sock[p[i]])
    BY <2>1 DEF Booked, QueuedFresh
  <2>3. ASSUME NEW m \in Slot, NEW j \in 1..Len(r.sock[m].pend), r.sock[m].pend[j] = p[i] PROVE FALSE
    <3>1. PICK e \in 1..Len(k.sock[m].pend) :
               /\ r.sock[m].pend[j] = k.sock[m].pend[e]
               /\ (m = l => e = j + n) /\ (m # l => e = j)
      BY <1>6
    <3>2. m = l /\ e = i
      <4>1. k.sock[m].pend[e] = k.sock[l].pend[i] /\ i \in 1..Len(k.sock[l].pend)
        BY <2>1, <2>3, <3>1
      <4>2. QueuedOnce(k)
        BY DEF Booked
      <4> QED
        BY <3>1, <4>1, <4>2, OnePlace
    <3>3. j \in Int /\ j >= 1 /\ n \in Int
      BY <1>2, <1>4, <1>5, <3>2
    <3> QED
      BY <3>1, <3>2, <3>3
  <2>4. p[i] # l
    <3>1. CASE p[i] = l
      <4>1. k.sock[l].pend = <<>>
        BY <2>2, <3>1, FreshHas
      <4> QED
        BY <2>1, <4>1
    <3> QED
      BY <3>1
  <2> QED
    BY <2>1, <2>2, <2>3, <2>4 DEF Queued
<1> HIDE DEF D, p
<1>12. Counted(r, ins)
  BY <1>3, <1>4 DEF Booked, Counted
<1>13. QueuedOnce(r)
  <2> SUFFICES ASSUME NEW a \in Slot, NEW b \in Slot,
                      NEW i \in 1..Len(r.sock[a].pend), NEW j \in 1..Len(r.sock[b].pend),
                      r.sock[a].pend[i] = r.sock[b].pend[j]
               PROVE  a = b /\ i = j
    BY DEF QueuedOnce
  <2>1. PICK e \in 1..Len(k.sock[a].pend) :
               /\ r.sock[a].pend[i] = k.sock[a].pend[e]
               /\ (a = l => e = i + n) /\ (a # l => e = i)
    BY <1>6
  <2>2. PICK f \in 1..Len(k.sock[b].pend) :
               /\ r.sock[b].pend[j] = k.sock[b].pend[f]
               /\ (b = l => f = j + n) /\ (b # l => f = j)
    BY <1>6
  <2>3. a = b /\ e = f
    <3>1. k.sock[a].pend[e] = k.sock[b].pend[f] /\ QueuedOnce(k)
      BY <2>1, <2>2 DEF Booked
    <3>2. e \in 1..Len(k.sock[a].pend) /\ f \in 1..Len(k.sock[b].pend)
      BY <2>1, <2>2
    <3>3. \A x \in 1..Len(k.sock[a].pend), y \in 1..Len(k.sock[b].pend) :
            k.sock[a].pend[x] = k.sock[b].pend[y] => a = b /\ x = y
      BY <3>1 DEF QueuedOnce
    <3> QED
      BY <3>1, <3>2, <3>3
  <2>4. i \in Int /\ j \in Int /\ n \in Int
    BY <1>2
  <2> QED
    BY <2>1, <2>2, <2>3, <2>4
<1>14. \A s \in Slot : s # l => r.sock[s] = k.sock[s]
  BY <1>3
<1>15. QueuedFresh(r)
  <2> SUFFICES ASSUME NEW m \in Slot, NEW i \in 1..Len(r.sock[m].pend) PROVE Fresh(r.sock[r.sock[m].pend[i]])
    BY DEF QueuedFresh
  <2>1. PICK j \in 1..Len(k.sock[m].pend) : r.sock[m].pend[i] = k.sock[m].pend[j]
    BY <1>6
  <2>2. Fresh(k.sock[k.sock[m].pend[j]])
    BY DEF Booked, QueuedFresh
  <2>3. k.sock[m].pend[j] \in Slot
    BY LensTyped
  <2>4. r.sock[k.sock[m].pend[j]] = k.sock[k.sock[m].pend[j]]
    BY <1>9, <1>14, <2>2, <2>3, FreshHas
  <2> QED
    BY <2>1, <2>2, <2>4
<1>16. InHand(r, X \cup D)
  <2> SUFFICES ASSUME NEW s \in X \cup D PROVE s \in Slot /\ Fresh(r.sock[s]) /\ ~Queued(r, s)
    BY DEF InHand
  <2>1. CASE s \in D
    BY <1>11, <1>14, <2>1
  <2>2. CASE s \in X
    <3>1. s \in Slot /\ Fresh(k.sock[s]) /\ ~Queued(r, s)
      BY <1>8, <2>2 DEF Booked, InHand
    <3> QED
      BY <1>9, <1>14, <3>1, FreshHas
  <2> QED
    BY <2>1, <2>2
<1>17. Kept(r, ins, X \cup D)
  BY <1>3, <1>4, <1>10 DEF Booked, Kept
<1>18. FreeIsNew(r)
  <2> SUFFICES ASSUME ~r.sock[l].in_use PROVE r.sock[l] = FreeSlot
    BY <1>14 DEF Booked, FreeIsNew
  <2>1. k.sock[l] = FreeSlot
    BY <1>4 DEF Booked, FreeIsNew
  <2>2. k.sock[l].pend = <<>>
    BY <2>1 DEF FreeSlot
  <2> QED
    BY <1>9, <2>1, <2>2
<1>19. FdOrFresh(r)
  <2> SUFFICES ASSUME r.sock[l].in_use, ~r.sock[l].has_fd PROVE Fresh(r.sock[l])
    BY <1>14 DEF Booked, FdOrFresh
  <2>1. Fresh(k.sock[l])
    BY <1>4 DEF Booked, FdOrFresh
  <2> QED
    BY <1>9, <2>1, FreshHas
<1>20. ZombieBare(r)
  <2> SUFFICES ASSUME r.sock[l].zombie PROVE r.sock[l].pend = <<>> /\ ~r.sock[l].listening
    BY <1>14 DEF Booked, ZombieBare
  <2>1. k.sock[l].pend = <<>> /\ ~k.sock[l].listening
    BY <1>4 DEF Booked, ZombieBare
  <2> QED
    BY <1>4, <1>9, <2>1
<1> QED
  BY <1>12, <1>13, <1>15, <1>16, <1>17, <1>18, <1>19, <1>20 DEF Booked, D, p

LEMMA QueuesKeep ==
  ASSUME NEW k \in State, NEW r, QueuedOnce(k), QueuedFresh(k),
         \A s \in Slot : r.sock[s].pend = k.sock[s].pend,
         \A s \in Slot : Queued(k, s) /\ Fresh(k.sock[s]) => Fresh(r.sock[s])
  PROVE  QueuedOnce(r) /\ QueuedFresh(r) /\ \A s : Queued(r, s) <=> Queued(k, s)
<1>1. \A s : Queued(r, s) <=> Queued(k, s)
  BY DEF Queued
<1>2. QueuedOnce(r)
  <2> SUFFICES ASSUME NEW l \in Slot, NEW m \in Slot,
                      NEW i \in 1..Len(r.sock[l].pend), NEW j \in 1..Len(r.sock[m].pend),
                      r.sock[l].pend[i] = r.sock[m].pend[j]
               PROVE  l = m /\ i = j
    BY DEF QueuedOnce
  <2>1. r.sock[l].pend = k.sock[l].pend /\ r.sock[m].pend = k.sock[m].pend
    OBVIOUS
  <2> QED
    BY <2>1 DEF QueuedOnce
<1>3. QueuedFresh(r)
  <2> SUFFICES ASSUME NEW l \in Slot, NEW i \in 1..Len(r.sock[l].pend) PROVE Fresh(r.sock[r.sock[l].pend[i]])
    BY DEF QueuedFresh
  <2>1. r.sock[l].pend = k.sock[l].pend
    OBVIOUS
  <2>2. Fresh(k.sock[k.sock[l].pend[i]])
    BY <2>1 DEF QueuedFresh
  <2>3. k.sock[l].pend[i] \in Slot
    BY <2>1 DEF State, SockRec
  <2>4. Queued(k, k.sock[l].pend[i])
    BY <2>1 DEF Queued
  <2> QED
    BY <2>1, <2>2, <2>3, <2>4
<1> QED
  BY <1>1, <1>2, <1>3

(* Nobody has s, and nothing waits in it: it may go.                       *)
Loose(k, ins, s) == s \in Slot /\ ins[s] = {} /\ k.sock[s].pend = <<>> /\ ~Queued(k, s)

LEMMA InHandLoose ==
  ASSUME NEW k, NEW ins, NEW X, Booked(k, ins, X), NEW s \in X
  PROVE  Loose(k, ins, s)
<1>1. s \in Slot /\ Fresh(k.sock[s]) /\ ~Queued(k, s)
  BY DEF Booked, InHand
<1>2. k.sock[s].has_fd = FALSE /\ k.sock[s].pend = <<>>
  BY <1>1, FreshHas
<1>3. ins[s] = {}
  BY <1>1, <1>2 DEF Booked, Counted
<1> QED
  BY <1>1, <1>2, <1>3 DEF Loose

(* The slots of D, which nobody has, become free.                          *)
Freed(k, r, ins, D) ==
  /\ \A s \in D : Loose(k, ins, s)
  /\ \A s \in Slot : r.sock[s] = IF s \in D THEN FreeSlot ELSE k.sock[s]

LEMMA FreedBooked ==
  ASSUME NEW k \in State, NEW r \in State, NEW ins, NEW X, Booked(k, ins, X), NEW D, Freed(k, r, ins, D)
  PROVE  Booked(r, ins, X \ D)
<1>1. (\A s \in D : Loose(k, ins, s)) /\ \A s \in Slot : r.sock[s] = IF s \in D THEN FreeSlot ELSE k.sock[s]
  BY DEF Freed
<1>2. /\ FreeSlot.in_use = FALSE /\ FreeSlot.pend = <<>> /\ FreeSlot.users = 0 /\ FreeSlot.zombie = FALSE
      /\ FreeSlot.has_fd = FALSE
  BY DEF FreeSlot
<1>3. \A s \in Slot : r.sock[s].pend = k.sock[s].pend
  BY <1>1, <1>2 DEF Loose
<1>4. QueuedOnce(r) /\ QueuedFresh(r) /\ \A o \in Slot : Queued(r, o) <=> Queued(k, o)
  BY <1>1, <1>3, QueuesKeep DEF Loose, Booked
<1>5. Counted(r, ins)
  <2> SUFFICES ASSUME NEW s \in Slot
               PROVE  /\ IsFiniteSet(ins[s]) /\ r.sock[s].users = Cardinality(ins[s])
                      /\ ins[s] # {} => r.sock[s].in_use /\ r.sock[s].has_fd
    BY <1>1 DEF Counted
  <2>1. CASE s \in D
    <3>1. ins[s] = {} /\ r.sock[s].users = 0
      BY <1>1, <1>2, <2>1 DEF Loose
    <3> QED
      BY <1>1, <3>1, FS_EmptySet
  <2>2. CASE s \notin D
    BY <1>1, <2>2 DEF Booked, Counted
  <2> QED
    BY <1>1, <2>1, <2>2
<1>6. InHand(r, X \ D)
  BY <1>1, <1>4 DEF Booked, InHand
<1>7. Kept(r, ins, X \ D)
  BY <1>1, <1>2, <1>4 DEF Booked, Kept
<1>8. FreeIsNew(r) /\ FdOrFresh(r) /\ ZombieBare(r)
  BY <1>1, <1>2 DEF Booked, FreeIsNew, FdOrFresh, ZombieBare
<1> QED
  BY <1>1, <1>4, <1>5, <1>6, <1>7, <1>8 DEF Booked

(* The table but for s is the same, and s keeps its queue, which is empty, *)
(* and its descriptor: it may have been closed, and its users may differ.  *)
OneOnly(k, r, s, ins, new) ==
  /\ \A o \in Slot : o # s => r.sock[o] = k.sock[o] /\ new[o] = ins[o]
  /\ k.sock[s].in_use /\ k.sock[s].has_fd /\ r.sock[s].in_use /\ r.sock[s].has_fd
  /\ r.sock[s].pend = k.sock[s].pend
  /\ IsFiniteSet(new[s]) /\ r.sock[s].users = Cardinality(new[s])
  /\ r.sock[s].zombie => new[s] # {} /\ r.sock[s].pend = <<>> /\ ~r.sock[s].listening

LEMMA OneBooked ==
  ASSUME NEW k \in State, NEW r \in State, NEW ins, NEW new, NEW X, Booked(k, ins, X), NEW s \in Slot,
         OneOnly(k, r, s, ins, new)
  PROVE  Booked(r, new, X)
<1>1. /\ \A o \in Slot : o # s => r.sock[o] = k.sock[o] /\ new[o] = ins[o]
      /\ k.sock[s].in_use /\ k.sock[s].has_fd /\ r.sock[s].in_use /\ r.sock[s].has_fd
      /\ r.sock[s].pend = k.sock[s].pend
      /\ IsFiniteSet(new[s]) /\ r.sock[s].users = Cardinality(new[s])
      /\ r.sock[s].zombie => new[s] # {} /\ r.sock[s].pend = <<>> /\ ~r.sock[s].listening
  BY DEF OneOnly
<1>2. \A o \in Slot : r.sock[o].pend = k.sock[o].pend
  BY <1>1
<1>3. \A o \in Slot : Fresh(k.sock[o]) => o # s
  BY <1>1, FreshHas
<1>4. QueuedOnce(r) /\ QueuedFresh(r) /\ \A o \in Slot : Queued(r, o) <=> Queued(k, o)
  BY <1>1, <1>2, <1>3, QueuesKeep DEF Booked
<1>5. Counted(r, new)
  BY <1>1 DEF Booked, Counted
<1>6. InHand(r, X)
  BY <1>1, <1>4, <1>3 DEF Booked, InHand
<1>7. Kept(r, new, X)
  BY <1>1, <1>4 DEF Booked, Kept
<1>8. FreeIsNew(r) /\ FdOrFresh(r) /\ ZombieBare(r)
  BY <1>1 DEF Booked, FreeIsNew, FdOrFresh, ZombieBare
<1> QED
  BY <1>1, <1>4, <1>5, <1>6, <1>7, <1>8 DEF Booked

(* A connection in hand gets a descriptor.                                 *)
Given(r, k, c) ==
  /\ \A o \in Slot : o # c => r.sock[o] = k.sock[o]
  /\ r.sock[c].in_use /\ r.sock[c].has_fd /\ ~r.sock[c].zombie /\ r.sock[c].pend = <<>> /\ r.sock[c].users = 0

LEMMA GivenBooked ==
  ASSUME NEW k \in State, NEW r \in State, NEW ins, NEW X, Booked(k, ins, X), NEW c \in X, Given(r, k, c)
  PROVE  Booked(r, ins, X \ {c})
<1>1. /\ \A o \in Slot : o # c => r.sock[o] = k.sock[o]
      /\ r.sock[c].in_use /\ r.sock[c].has_fd /\ ~r.sock[c].zombie /\ r.sock[c].pend = <<>> /\ r.sock[c].users = 0
  BY DEF Given
<1>2. c \in Slot /\ Fresh(k.sock[c]) /\ ~Queued(k, c) /\ ins[c] = {} /\ k.sock[c].pend = <<>>
  BY InHandLoose DEF Booked, InHand, Loose
<1>3. \A o \in Slot : r.sock[o].pend = k.sock[o].pend
  BY <1>1, <1>2
<1>4. QueuedOnce(r) /\ QueuedFresh(r) /\ \A o \in Slot : Queued(r, o) <=> Queued(k, o)
  BY <1>1, <1>2, <1>3, QueuesKeep DEF Booked
<1>5. Counted(r, ins)
  <2>1. IsFiniteSet(ins[c]) /\ Cardinality(ins[c]) = 0
    BY <1>1, <1>2, FS_EmptySet
  <2> QED
    BY <1>1, <1>2, <2>1 DEF Booked, Counted
<1>6. InHand(r, X \ {c})
  BY <1>1, <1>4 DEF Booked, InHand
<1>7. Kept(r, ins, X \ {c})
  BY <1>1, <1>2, <1>4 DEF Booked, Kept
<1>8. FreeIsNew(r) /\ FdOrFresh(r) /\ ZombieBare(r)
  BY <1>1, <1>2 DEF Booked, FreeIsNew, FdOrFresh, ZombieBare
<1> QED
  BY <1>1, <1>4, <1>5, <1>6, <1>7, <1>8 DEF Booked

-----------------------------------------------------------------------------
(* Hardware sockets that are given and taken *)

(* s gets the free hardware socket h.                                      *)
Opened(k, r, s, h) ==
  /\ h \in HwFree(k) /\ r.sock[s].pool = k.sock[s].pool /\ r.sock[s].hw = h
  /\ \A o \in Slot : o # s => r.sock[o] = k.sock[o]
  /\ \A g \in Hw : g # h => r.chip[g] = k.chip[g]

LEMMA OpenedOwned ==
  ASSUME NEW k \in State, NEW r \in State, Owned(k), FreeIsNew(k), NEW s \in Slot, NEW h, Opened(k, r, s, h)
  PROVE  Owned(r)
<1>1. /\ h \in HwFree(k) /\ r.sock[s].pool = k.sock[s].pool /\ r.sock[s].hw = h
      /\ \A o \in Slot : o # s => r.sock[o] = k.sock[o]
      /\ \A g \in Hw : g # h => r.chip[g] = k.chip[g]
  BY DEF Opened
<1>2. h \in Hw /\ h # NoHw /\ k.chip[h].sr = "closed" /\ \A o \in Slot : k.sock[o].in_use => k.sock[o].hw # h
  BY <1>1, Numbered DEF HwFree
<1>3. ASSUME NEW o \in Slot, NEW i \in 0..Len(k.sock[o].pool) PROVE HwAt(k, o, i) # h
  <2>1. CASE i = 0
    BY <1>2, <2>1 DEF HwAt, FreeIsNew, FreeSlot
  <2>2. CASE i # 0
    BY <1>2, <2>2 DEF HwAt, Owned, PoolsLive
  <2> QED
    BY <2>1, <2>2
<1>4. \A o \in Slot : r.sock[o].pool = k.sock[o].pool
  BY <1>1
<1>5. ASSUME NEW o \in Slot, NEW i \in 0..Len(r.sock[o].pool)
      PROVE  i \in 0..Len(k.sock[o].pool) /\ HwAt(r, o, i) = IF o = s /\ i = 0 THEN h ELSE HwAt(k, o, i)
  BY <1>1, <1>4 DEF HwAt
<1>6. OwnedOnce(r)
  <2> SUFFICES ASSUME NEW o \in Slot, NEW t \in Slot, NEW i \in 0..Len(r.sock[o].pool), NEW j \in 0..Len(r.sock[t].pool),
                      HwAt(r, o, i) = HwAt(r, t, j), HwAt(r, o, i) # NoHw
               PROVE  o = t /\ i = j
    BY DEF OwnedOnce
  <2>1. i \in 0..Len(k.sock[o].pool) /\ HwAt(r, o, i) = IF o = s /\ i = 0 THEN h ELSE HwAt(k, o, i)
    BY <1>5
  <2>2. j \in 0..Len(k.sock[t].pool) /\ HwAt(r, t, j) = IF t = s /\ j = 0 THEN h ELSE HwAt(k, t, j)
    BY <1>5
  <2>3. HwAt(k, o, i) # h /\ HwAt(k, t, j) # h
    BY <1>3, <2>1, <2>2
  <2>4. OwnedOnce(k)
    BY DEF Owned
  <2>5. HwAt(k, o, i) = HwAt(k, t, j) /\ HwAt(k, o, i) # NoHw => o = t /\ i = j
    BY <2>1, <2>2, <2>4 DEF OwnedOnce
  <2> QED
    BY <2>1, <2>2, <2>3, <2>5
<1>7. PoolsLive(r)
  <2> SUFFICES ASSUME NEW o \in Slot, NEW i \in 1..Len(r.sock[o].pool)
               PROVE  r.chip[r.sock[o].pool[i]].sr \notin {"closed", "closing"}
    BY DEF PoolsLive
  <2>1. i \in 1..Len(k.sock[o].pool) /\ r.sock[o].pool[i] = k.sock[o].pool[i]
    BY <1>4
  <2>2. k.chip[k.sock[o].pool[i]].sr \notin {"closed", "closing"}
    BY <2>1 DEF Owned, PoolsLive
  <2>3. k.sock[o].pool[i] \in Hw
    BY <2>1, LensTyped
  <2>4. k.sock[o].pool[i] # h
    BY <1>2, <2>2
  <2> QED
    BY <1>1, <2>1, <2>2, <2>3, <2>4
<1> QED
  BY <1>6, <1>7 DEF Owned

(* The hardware sockets of H close, and leave their pools.                 *)
Closed(k, r, H) ==
  /\ \A s \in Slot : r.sock[s].hw \in {k.sock[s].hw, NoHw} /\ r.sock[s].pool \in {k.sock[s].pool, <<>>}
  /\ \A h \in H : \/ h = NoHw
                  \/ \E s \in Slot : k.sock[s].hw = h \/ (r.sock[s].pool = <<>> /\ h \in ToSet(k.sock[s].pool))
  /\ \A h \in Hw : h \notin H => r.chip[h] = k.chip[h]

LEMMA ClosedOwned ==
  ASSUME NEW k \in State, NEW r \in State, Owned(k), NEW H, Closed(k, r, H)
  PROVE  Owned(r)
<1>1. /\ \A s \in Slot : r.sock[s].hw \in {k.sock[s].hw, NoHw} /\ r.sock[s].pool \in {k.sock[s].pool, <<>>}
      /\ \A h \in H : \/ h = NoHw
                      \/ \E s \in Slot : k.sock[s].hw = h \/ (r.sock[s].pool = <<>> /\ h \in ToSet(k.sock[s].pool))
      /\ \A h \in Hw : h \notin H => r.chip[h] = k.chip[h]
  BY DEF Closed
<1>2. ASSUME NEW s \in Slot, NEW i \in 1..Len(r.sock[s].pool)
      PROVE  r.chip[r.sock[s].pool[i]] = k.chip[r.sock[s].pool[i]]
  <2> DEFINE h == r.sock[s].pool[i]
  <2>1. r.sock[s].pool = k.sock[s].pool /\ r.sock[s].pool # <<>> /\ i \in 1..Len(k.sock[s].pool)
    <3>1. r.sock[s].pool # <<>>
      <4>1. CASE r.sock[s].pool = <<>>
        <5>1. Len(r.sock[s].pool) = 0
          BY <4>1
        <5> QED
          BY <5>1
      <4> QED
        BY <4>1
    <3> QED
      BY <1>1, <3>1
  <2>2. h = HwAt(k, s, i) /\ h \in Hw /\ h # NoHw /\ i \in 0..Len(k.sock[s].pool) /\ i # 0
    <3>1. h \in Hw
      BY LensTyped
    <3>2. i # 0 /\ i \in 0..Len(k.sock[s].pool)
      BY <2>1, LensTyped
    <3> QED
      BY <2>1, <3>1, <3>2, Numbered DEF HwAt
  <2> HIDE DEF h
  <2>3. ASSUME h \in H PROVE FALSE
    <3>1. PICK o \in Slot : k.sock[o].hw = h \/ (r.sock[o].pool = <<>> /\ h \in ToSet(k.sock[o].pool))
      BY <1>1, <2>2, <2>3
    <3>2. PICK j \in 0..Len(k.sock[o].pool) : HwAt(k, o, j) = h /\ (j # 0 => r.sock[o].pool = <<>>)
      <4>1. CASE k.sock[o].hw = h
        <5>1. 0 \in 0..Len(k.sock[o].pool)
          BY LensTyped
        <5> QED
          BY <4>1, <5>1 DEF HwAt
      <4>2. CASE r.sock[o].pool = <<>> /\ h \in ToSet(k.sock[o].pool)
        <5>1. k.sock[o].pool \in Seq(Hw) /\ Len(k.sock[o].pool) \in Nat
          BY LensTyped
        <5>2. PICK j \in 1..Len(k.sock[o].pool) : k.sock[o].pool[j] = h
          BY <4>2, <5>1 DEF ToSet
        <5>3. j # 0 /\ j \in 0..Len(k.sock[o].pool)
          BY <5>1, <5>2
        <5> QED
          BY <4>2, <5>2, <5>3 DEF HwAt
      <4> QED
        BY <3>1, <4>1, <4>2
    <3>3. o = s /\ j = i
      <4>1. OwnedOnce(k)
        BY DEF Owned
      <4>2. HwAt(k, o, j) = HwAt(k, s, i) /\ HwAt(k, o, j) # NoHw
        BY <2>2, <3>2
      <4> QED
        BY <2>2, <3>2, <4>1, <4>2 DEF OwnedOnce
    <3> QED
      BY <2>1, <2>2, <3>2, <3>3
  <2> QED
    BY <1>1, <2>2, <2>3 DEF h
<1>3. Less(k, r)
  BY <1>1, <1>2 DEF Less
<1> QED
  BY <1>3, LessOwned

(* The hardware socket at place i closes, and leaves the pool of l.        *)
Removed(k, r, l, i) ==
  /\ \A s \in Slot : s # l => r.sock[s] = k.sock[s]
  /\ r.sock[l].hw = k.sock[l].hw /\ r.sock[l].pool = RemoveAt(k.sock[l].pool, i)
  /\ \A h \in Hw : h # k.sock[l].pool[i] => r.chip[h] = k.chip[h]

LEMMA RemovedOwned ==
  ASSUME NEW k \in State, NEW r \in State, Owned(k), NEW l \in Slot, NEW i \in 1..Len(k.sock[l].pool),
         Removed(k, r, l, i)
  PROVE  Owned(r)
<1> DEFINE p == k.sock[l].pool
           n == Len(p)
           At(s, j) == IF s = l /\ j >= i THEN j + 1 ELSE j
<1>1. /\ \A s \in Slot : s # l => r.sock[s] = k.sock[s]
      /\ r.sock[l].hw = k.sock[l].hw /\ r.sock[l].pool = RemoveAt(k.sock[l].pool, i)
      /\ \A h \in Hw : h # k.sock[l].pool[i] => r.chip[h] = k.chip[h]
  BY DEF Removed
<1>2. p \in Seq(Hw) /\ n \in Nat /\ i \in 1..n
  <2>1. p \in Seq(Hw)
    BY LensTyped
  <2> QED
    BY <2>1
<1>3. Len(r.sock[l].pool) = n - 1 /\ \A j \in 1..(n - 1) : r.sock[l].pool[j] = IF j < i THEN p[j] ELSE p[j + 1]
  <2>1. r.sock[l].pool = RemoveAt(p, i)
    BY <1>1
  <2> HIDE DEF p
  <2> QED
    BY <1>2, <2>1, RemoveAtIs
<1> HIDE DEF p, n
<1>4. \A s \in Slot : Len(k.sock[s].pool) \in Nat /\ Len(r.sock[s].pool) \in Nat
  BY LensTyped
<1>5. ASSUME NEW s \in Slot, NEW j \in 0..Len(r.sock[s].pool)
      PROVE  /\ At(s, j) \in 0..Len(k.sock[s].pool)
             /\ HwAt(r, s, j) = HwAt(k, s, At(s, j))
             /\ j # 0 => At(s, j) # 0 /\ (s = l => At(s, j) # i)
  <2>1. CASE s # l
    BY <1>1, <2>1 DEF HwAt
  <2>2. CASE s = l
    <3>1. j \in 0..(n - 1) /\ n = Len(k.sock[l].pool)
      BY <1>3, <2>2 DEF n, p
    <3>2. CASE j = 0
      <4>1. At(s, j) = 0
        BY <1>2, <2>2, <3>2
      <4> QED
        BY <1>1, <1>4, <2>2, <3>2, <4>1 DEF HwAt
    <3>3. CASE j # 0 /\ j < i
      <4>1. At(s, j) = j /\ j \in 0..n /\ j \in 1..(n - 1) /\ j # i
        BY <1>2, <2>2, <3>1, <3>3
      <4>2. r.sock[l].pool[j] = p[j]
        BY <1>3, <3>3, <4>1
      <4> QED
        BY <2>2, <3>1, <3>3, <4>1, <4>2 DEF HwAt, p
    <3>4. CASE j # 0 /\ ~(j < i)
      <4>1. At(s, j) = j + 1 /\ j + 1 \in 0..n /\ j + 1 # 0 /\ j \in 1..(n - 1) /\ j + 1 # i
        BY <1>2, <2>2, <3>1, <3>4
      <4>2. r.sock[l].pool[j] = p[j + 1]
        BY <1>3, <3>4, <4>1
      <4> QED
        BY <2>2, <3>1, <3>4, <4>1, <4>2 DEF HwAt, p
    <3> QED
      BY <3>2, <3>3, <3>4
  <2> QED
    BY <2>1, <2>2
<1>6. \A s \in Slot : \A j, e \in Int : At(s, j) = At(s, e) => j = e
  BY <1>2
<1> HIDE DEF At
<1>7. OwnedOnce(r)
  <2> SUFFICES ASSUME NEW s \in Slot, NEW t \in Slot, NEW j \in 0..Len(r.sock[s].pool), NEW e \in 0..Len(r.sock[t].pool),
                      HwAt(r, s, j) = HwAt(r, t, e), HwAt(r, s, j) # NoHw
               PROVE  s = t /\ j = e
    BY DEF OwnedOnce
  <2>1. At(s, j) \in 0..Len(k.sock[s].pool) /\ HwAt(r, s, j) = HwAt(k, s, At(s, j))
    BY <1>5
  <2>2. At(t, e) \in 0..Len(k.sock[t].pool) /\ HwAt(r, t, e) = HwAt(k, t, At(t, e))
    BY <1>5
  <2>3. OwnedOnce(k)
    BY DEF Owned
  <2>4. HwAt(k, s, At(s, j)) = HwAt(k, t, At(t, e)) /\ HwAt(k, s, At(s, j)) # NoHw
    BY <2>1, <2>2
  <2>5. s = t /\ At(s, j) = At(t, e)
    BY <2>1, <2>2, <2>3, <2>4 DEF OwnedOnce
  <2>6. j \in Int /\ e \in Int
    OBVIOUS
  <2> QED
    BY <1>6, <2>5, <2>6
<1>8. PoolsLive(r)
  <2> SUFFICES ASSUME NEW s \in Slot, NEW j \in 1..Len(r.sock[s].pool)
               PROVE  r.chip[r.sock[s].pool[j]].sr \notin {"closed", "closing"}
    BY DEF PoolsLive
  <2>1. j \in 0..Len(r.sock[s].pool) /\ j # 0
    BY <1>4
  <2>2. /\ At(s, j) \in 0..Len(k.sock[s].pool) /\ At(s, j) # 0 /\ (s = l => At(s, j) # i)
        /\ HwAt(r, s, j) = HwAt(k, s, At(s, j))
    BY <1>5, <2>1
  <2> DEFINE h == k.sock[s].pool[At(s, j)]
  <2>3. r.sock[s].pool[j] = h /\ At(s, j) \in 1..Len(k.sock[s].pool) /\ h = HwAt(k, s, At(s, j))
    BY <2>1, <2>2 DEF HwAt
  <2>4. h \in Hw /\ h # NoHw
    BY <2>3, LensTyped, Numbered
  <2> HIDE DEF h
  <2>5. k.chip[h].sr \notin {"closed", "closing"}
    BY <2>3 DEF Owned, PoolsLive, h
  <2>6. h # k.sock[l].pool[i]
    <3>1. i \in 0..Len(k.sock[l].pool) /\ k.sock[l].pool[i] = HwAt(k, l, i)
      BY <1>2 DEF HwAt, p, n
    <3>2. HwAt(k, s, At(s, j)) # HwAt(k, l, i)
      <4>1. OwnedOnce(k) /\ HwAt(k, s, At(s, j)) # NoHw
        BY <2>3, <2>4 DEF Owned
      <4> QED
        BY <2>2, <3>1, <4>1 DEF OwnedOnce
    <3> QED
      BY <2>3, <3>1, <3>2
  <2> QED
    BY <1>1, <2>3, <2>4, <2>5, <2>6
<1> QED
  BY <1>7, <1>8 DEF Owned

-----------------------------------------------------------------------------
(* Steps on one socket *)

(* A socket that is closed has no pool but what it had, l excepted.        *)
Unfilled(k, r, l) ==
  \A s \in Slot \ {l} : r.sock[s].zombie => k.sock[s].zombie /\ r.sock[s].pool \in {<<>>, k.sock[s].pool}

LEMMA BesideUnfilled ==
  ASSUME NEW k, NEW r, NEW l, Beside(k, r, l)
  PROVE  Unfilled(k, r, l)
  BY DEF Beside, Unfilled

LEMMA UnfilledThrough ==
  ASSUME NEW k, NEW m, NEW r, NEW l, Unfilled(k, m, l), Unfilled(m, r, l)
  PROVE  Unfilled(k, r, l)
  BY DEF Unfilled

LEMMA KeptThrough ==
  ASSUME NEW k, NEW m, NEW r, NEW ins, NEW X, NEW Y, Stays(k, ins, X, m), Stays(m, ins, Y, r)
  PROVE  Stays(k, ins, Y, r)
  BY DEF Stays

(* The record of s is me.                                                  *)
Put(k, s, me) == [k EXCEPT !.sock = [k.sock EXCEPT ![s] = me]]
Puts(k, s, me, r) ==
  /\ r \in State /\ r.chip = k.chip /\ r.sock = [k.sock EXCEPT ![s] = me] /\ r.sock[s] = me
  /\ \A o \in Slot : o # s => r.sock[o] = k.sock[o]

LEMMA PutIs ==
  ASSUME NEW k \in State, NEW s \in Slot, NEW me \in SockRec, NEW r, r = Put(k, s, me)
  PROVE  Puts(k, s, me, r)
<1>1. PICK a : a = [k.sock EXCEPT ![s] = me]
  OBVIOUS
<1>2. a \in [Slot -> SockRec] /\ a[s] = me /\ \A o \in Slot : o # s => a[o] = k.sock[o]
  BY <1>1 DEF State
<1>3. r = [sock |-> a, chip |-> k.chip, hw_fail |-> k.hw_fail]
  BY <1>1 DEF Put, State
<1> QED
  BY <1>1, <1>2, <1>3 DEF State, Puts

(* A free slot has not been closed.                                        *)
LEMMA FreeOpen ==
  ASSUME NEW k, NEW ins, NEW X, Booked(k, ins, X), NEW s \in Slot, ~k.sock[s].in_use
  PROVE  ~k.sock[s].zombie
<1>1. FreeSlot.zombie = FALSE
  BY DEF FreeSlot
<1> QED
  BY <1>1 DEF Booked, FreeIsNew

LEMMA HwOpenIs ==
  ASSUME NEW k \in State, NEW h \in Hw, NEW sr \in SrState
  PROVE  /\ HwOpen(k, h, sr) \in State /\ HwOpen(k, h, sr).sock = k.sock
         /\ \A g \in Hw : g # h => HwOpen(k, h, sr).chip[g] = k.chip[g]
<1>1. PICK c : c = HwIn(sr)
  OBVIOUS
<1>2. PICK a : a = [k.chip EXCEPT ![h] = c]
  OBVIOUS
<1>3. c \in ChipRec
  BY <1>1, HwInTyped
<1>4. a \in [Hw -> ChipRec] /\ \A g \in Hw : g # h => a[g] = k.chip[g]
  BY <1>2, <1>3 DEF State
<1>5. HwOpen(k, h, sr) = [k EXCEPT !.chip = a]
  BY <1>1, <1>2 DEF HwOpen
<1>6. HwOpen(k, h, sr) = [sock |-> k.sock, chip |-> a, hw_fail |-> k.hw_fail]
  BY <1>5 DEF State
<1> QED
  BY <1>4, <1>6 DEF State

LEMMA HwCloseIs ==
  ASSUME NEW k \in State, NEW H
  PROVE  /\ HwClose(k, H) \in State /\ HwClose(k, H).sock = k.sock
         /\ \A g \in Hw : g \notin H => HwClose(k, H).chip[g] = k.chip[g]
<1>1. PICK a : a = [h \in Hw |-> IF h \in H THEN HwIn("closing") ELSE k.chip[h]]
  OBVIOUS
<1>2. HwIn("closing") \in ChipRec
  BY HwInTyped DEF SrState
<1>3. a \in [Hw -> ChipRec] /\ \A g \in Hw : g \notin H => a[g] = k.chip[g]
  BY <1>1, <1>2 DEF State
<1>4. HwClose(k, H) = [k EXCEPT !.chip = a]
  BY <1>1 DEF HwClose
<1>5. HwClose(k, H) = [sock |-> k.sock, chip |-> a, hw_fail |-> k.hw_fail]
  BY <1>4 DEF State
<1> QED
  BY <1>3, <1>5 DEF State

LEMMA HwAllocIs ==
  ASSUME NEW k \in State
  PROVE  HwAlloc(k) = NoHw \/ (HwAlloc(k) \in HwFree(k) /\ HwAlloc(k) \in Hw)
<1>1. HwFree(k) \subseteq Hw /\ HwFree(k) \subseteq Nat
  BY Numbered DEF HwFree
<1>2. HwFree(k) # {} => Min(HwFree(k)) \in HwFree(k)
  BY <1>1, MinOf
<1>3. CASE HwFree(k) = {}
  <2>1. HwAlloc(k) = NoHw
    BY <1>3 DEF HwAlloc
  <2> QED
    BY <2>1
<1>4. CASE HwFree(k) # {}
  <2>1. HwAlloc(k) = Min(HwFree(k))
    BY <1>4 DEF HwAlloc
  <2> QED
    BY <1>1, <1>2, <1>4, <2>1
<1> QED
  BY <1>3, <1>4

(* A socket with a descriptor changes, but for what the book is about.     *)
Amends(k, s, me) ==
  LET old == k.sock[s] IN
  /\ old.in_use /\ old.has_fd /\ me \in SockRec
  /\ me.in_use = old.in_use /\ me.has_fd = old.has_fd /\ me.users = old.users
  /\ me.zombie = old.zombie /\ me.pend = old.pend
  /\ me.listening => old.listening \/ ~old.zombie

(* Of k only the record of s changes, and not what the book is about.      *)
Amended(k, r, s) == Amends(k, s, r.sock[s]) /\ \A o \in Slot : o # s => r.sock[o] = k.sock[o]

LEMMA AmendsBooked ==
  ASSUME NEW k \in State, NEW r \in State, NEW ins, NEW X, Booked(k, ins, X), NEW s \in Slot, Amended(k, r, s)
  PROVE  Booked(r, ins, X) /\ Beside(k, r, s)
<1>1. SameBook(k, r)
  BY DEF Amended, Amends, SameBook
<1>2. Beside(k, r, s)
  BY FreeOpen DEF Amended, Amends, Beside
<1> QED
  BY <1>1, <1>2, SameBookKeeps

(* s loses its hardware socket, or never had it in this step.              *)
LEMMA NoHwKeeps ==
  ASSUME NEW k \in State, NEW ins, NEW X, Booked(k, ins, X), NEW s \in Slot, k.sock[s].in_use, k.sock[s].has_fd,
         NEW r, r = [k EXCEPT !.sock[s].hw = NoHw]
  PROVE  Stays(k, ins, X, r) /\ Beside(k, r, s) /\ r.sock[s].pool = k.sock[s].pool
<1>1. PICK me : me = [k.sock[s] EXCEPT !.hw = NoHw]
  OBVIOUS
<1>2. k.sock[s] \in SockRec
  BY DEF State
<1>3. Amends(k, s, me) /\ me.pool = k.sock[s].pool /\ me.hw = NoHw /\ me \in SockRec
  BY <1>1, <1>2 DEF Amends, SockRec
<1>4. r = Put(k, s, me)
  BY <1>1 DEF Put
<1>5. r \in State /\ r.chip = k.chip /\ r.sock[s] = me /\ \A o \in Slot : o # s => r.sock[o] = k.sock[o]
  <2>1. Puts(k, s, me, r)
    BY <1>3, <1>4, PutIs
  <2> QED
    BY <2>1 DEF Puts
<1>6. Booked(r, ins, X) /\ Beside(k, r, s)
  <2>1. Amended(k, r, s)
    BY <1>3, <1>5 DEF Amended
  <2> QED
    BY <1>5, <2>1, AmendsBooked
<1>7. Less(k, r)
  BY <1>3, <1>5 DEF Less
<1> QED
  BY <1>3, <1>5, <1>6, <1>7, LessOwned DEF Stays

(* s gets a hardware socket of its own.                                    *)
LEMMA HwGivenKeeps ==
  ASSUME NEW k \in State, NEW ins, NEW X, Booked(k, ins, X), NEW s \in Slot, k.sock[s].in_use, k.sock[s].has_fd,
         NEW h \in HwFree(k), h \in Hw, NEW sr \in SrState,
         NEW r, r = [HwOpen(k, h, sr) EXCEPT !.sock[s].hw = h]
  PROVE  Stays(k, ins, X, r) /\ Beside(k, r, s) /\ r.sock[s].hw = h
<1>1. PICK me : me = [k.sock[s] EXCEPT !.hw = h]
  OBVIOUS
<1>2. k.sock[s] \in SockRec
  BY DEF State
<1>3. Amends(k, s, me) /\ me.pool = k.sock[s].pool /\ me.hw = h /\ me \in SockRec
  BY <1>1, <1>2 DEF Amends, SockRec
<1>4. PICK m : m = HwOpen(k, h, sr)
  OBVIOUS
<1>5. m \in State /\ m.sock = k.sock /\ \A g \in Hw : g # h => m.chip[g] = k.chip[g]
  BY <1>4, HwOpenIs
<1>6. r = Put(m, s, me)
  BY <1>1, <1>4, <1>5 DEF Put
<1>7. r \in State /\ r.chip = m.chip /\ r.sock[s] = me /\ \A o \in Slot : o # s => r.sock[o] = k.sock[o]
  <2>1. Puts(m, s, me, r)
    BY <1>3, <1>5, <1>6, PutIs
  <2> QED
    BY <1>5, <2>1 DEF Puts
<1>8. Booked(r, ins, X) /\ Beside(k, r, s)
  <2>1. Amended(k, r, s)
    BY <1>3, <1>7 DEF Amended
  <2> QED
    BY <1>7, <2>1, AmendsBooked
<1>9. ASSUME Owned(k) PROVE Owned(r)
  <2>1. FreeIsNew(k)
    BY DEF Booked
  <2>2. r.sock[s].pool = k.sock[s].pool /\ r.sock[s].hw = h /\ \A g \in Hw : g # h => r.chip[g] = k.chip[g]
    BY <1>3, <1>5, <1>7
  <2>3. Opened(k, r, s, h) /\ r \in State
    BY <1>7, <2>2 DEF Opened
  <2> QED
    BY <1>9, <2>1, <2>3, OpenedOwned
<1> QED
  BY <1>3, <1>7, <1>8, <1>9 DEF Stays

LEMMA OpenUdpKeeps ==
  ASSUME NEW k \in State, NEW ins, NEW X, Booked(k, ins, X), NEW s \in Slot, k.sock[s].in_use, k.sock[s].has_fd
  PROVE  Stays(k, ins, X, OpenUdp(k, s)) /\ Beside(k, OpenUdp(k, s), s)
<1>1. PICK h : h = HwAlloc(k)
  OBVIOUS
<1>2. CASE h = NoHw \/ h \in Dead
  <2>1. OpenUdp(k, s) = [k EXCEPT !.sock[s].hw = NoHw]
    BY <1>1, <1>2 DEF OpenUdp
  <2> QED
    BY <2>1, NoHwKeeps
<1>3. CASE ~(h = NoHw \/ h \in Dead)
  <2>1. OpenUdp(k, s) = [HwOpen(k, h, "udp") EXCEPT !.sock[s].hw = h]
    BY <1>1, <1>3 DEF OpenUdp
  <2>2. h \in HwFree(k) /\ h \in Hw /\ "udp" \in SrState
    BY <1>1, <1>3, HwAllocIs DEF SrState
  <2> QED
    BY <2>1, <2>2, HwGivenKeeps
<1> QED
  BY <1>2, <1>3

(* What is not in hand and has a descriptor is in no queue.                *)
LEMMA FdUnqueued ==
  ASSUME NEW k \in State, NEW ins, NEW X, Booked(k, ins, X), NEW s \in Slot, k.sock[s].has_fd
  PROVE  ~Queued(k, s) /\ s \notin X
<1>1. ~Fresh(k.sock[s])
  BY FreshHas
<1>2. ASSUME Queued(k, s) PROVE FALSE
  <2>1. PICK l \in Slot : \E i \in 1..Len(k.sock[l].pend) : k.sock[l].pend[i] = s
    BY <1>2 DEF Queued
  <2> QED
    BY <1>1, <2>1 DEF Booked, QueuedFresh
<1> QED
  BY <1>1, <1>2 DEF Booked, InHand

-----------------------------------------------------------------------------
(* sock_release, and the hold that it gives back *)

(* new is ins but for the calls in s, which are S.                         *)
Recounted(ins, new, s, S) == new[s] = S /\ \A o \in Slot : o # s => new[o] = ins[o]

LEMMA EnterKeeps ==
  ASSUME NEW k \in State, NEW ins, Booked(k, ins, {}), NEW s \in Slot, k.sock[s].in_use, k.sock[s].has_fd,
         ~k.sock[s].zombie, NEW t, t \notin ins[s], NEW new, Recounted(ins, new, s, ins[s] \cup {t}),
         NEW r, r = [k EXCEPT !.sock[s].users = @ + 1]
  PROVE  /\ r \in State /\ Booked(r, new, {}) /\ (Owned(k) => Owned(r))
         /\ \A o \in Slot : o # s => r.sock[o] = k.sock[o]
         /\ r.sock[s].in_use /\ r.sock[s].has_fd /\ ~r.sock[s].zombie
<1> DEFINE n == k.sock[s].users + 1
<1>1. k.sock[s] \in SockRec /\ n \in Int
  BY DEF State, SockRec
<1>2. PICK me : me = [k.sock[s] EXCEPT !.users = n]
  OBVIOUS
<1>3. /\ me \in SockRec /\ me.pool = k.sock[s].pool /\ me.hw = k.sock[s].hw /\ me.in_use = k.sock[s].in_use
      /\ me.has_fd = k.sock[s].has_fd /\ me.pend = k.sock[s].pend /\ me.zombie = k.sock[s].zombie
      /\ me.users = n
  <2> HIDE DEF n
  <2> QED
    BY <1>1, <1>2 DEF SockRec
<1>4. r = Put(k, s, me)
  BY <1>2 DEF Put
<1>5. Puts(k, s, me, r)
  BY <1>3, <1>4, PutIs
<1>6. r \in State /\ r.chip = k.chip /\ r.sock[s] = me /\ \A o \in Slot : o # s => r.sock[o] = k.sock[o]
  BY <1>5 DEF Puts
<1>7. IsFiniteSet(new[s]) /\ r.sock[s].users = Cardinality(new[s])
  <2>1. IsFiniteSet(ins[s]) /\ k.sock[s].users = Cardinality(ins[s])
    BY DEF Booked, Counted
  <2>2. IsFiniteSet(ins[s] \cup {t}) /\ Cardinality(ins[s] \cup {t}) = Cardinality(ins[s]) + 1
    BY <2>1, FS_AddElement
  <2> QED
    BY <1>3, <1>6, <2>1, <2>2 DEF Recounted
<1>8. Booked(r, new, {})
  <2>1. OneOnly(k, r, s, ins, new)
    BY <1>3, <1>6, <1>7 DEF Recounted, OneOnly
  <2> QED
    BY <1>6, <2>1, OneBooked
<1>9. Less(k, r)
  BY <1>3, <1>6 DEF Less
<1> QED
  BY <1>3, <1>6, <1>8, <1>9, LessOwned

LEMMA ReleaseKeeps ==
  ASSUME NEW k \in State, NEW ins, Booked(k, ins, {}), NEW s \in Slot, NEW t \in ins[s],
         NEW new, Recounted(ins, new, s, ins[s] \ {t}), NEW r, r = Release(k, s)
  PROVE  /\ r \in State /\ Booked(r, new, {}) /\ (Owned(k) => Owned(r))
         /\ \A o \in Slot : r.sock[o].zombie => k.sock[o].zombie /\ r.sock[o].pool = k.sock[o].pool
<1> DEFINE n == k.sock[s].users - 1
<1>1. k.sock[s] \in SockRec /\ n \in Int
  BY DEF State, SockRec
<1>2. IsFiniteSet(new[s]) /\ Cardinality(new[s]) = n
  <2>1. IsFiniteSet(ins[s]) /\ k.sock[s].users = Cardinality(ins[s])
    BY DEF Booked, Counted
  <2>2. IsFiniteSet(ins[s] \ {t}) /\ Cardinality(ins[s] \ {t}) = Cardinality(ins[s]) - 1
    BY <2>1, FS_RemoveElement
  <2> QED
    BY <2>1, <2>2 DEF Recounted
<1>3. k.sock[s].in_use /\ k.sock[s].has_fd
  BY DEF Booked, Counted
<1>4. PICK me : me = [k.sock[s] EXCEPT !.users = n]
  OBVIOUS
<1>5. /\ me \in SockRec /\ me.pool = k.sock[s].pool /\ me.hw = k.sock[s].hw /\ me.in_use = k.sock[s].in_use
      /\ me.has_fd = k.sock[s].has_fd /\ me.pend = k.sock[s].pend /\ me.zombie = k.sock[s].zombie
      /\ me.users = n /\ me.listening = k.sock[s].listening
  BY <1>1, <1>4 DEF SockRec
<1>6. PICK left : left = [k EXCEPT !.sock[s].users = @ - 1]
  OBVIOUS
<1>7. left = Put(k, s, me)
  BY <1>4, <1>6 DEF Put
<1>8. Puts(k, s, me, left)
  BY <1>5, <1>7, PutIs
<1>9. left \in State /\ left.chip = k.chip /\ left.sock[s] = me /\ \A o \in Slot : o # s => left.sock[o] = k.sock[o]
  BY <1>8 DEF Puts
<1>10. Release(k, s) = IF left.sock[s].zombie /\ left.sock[s].users = 0 THEN [left EXCEPT !.sock[s] = FreeSlot] ELSE left
  BY <1>6 DEF Release
<1> HIDE DEF n
<1>11. CASE ~(left.sock[s].zombie /\ left.sock[s].users = 0)
  <2>1. r = left
    BY <1>10, <1>11
  <2>2. left.sock[s].zombie => new[s] # {} /\ left.sock[s].pend = <<>> /\ ~left.sock[s].listening
    BY <1>2, <1>5, <1>9, <1>11, FS_EmptySet DEF Booked, ZombieBare
  <2>3. Booked(left, new, {})
    <3>1. OneOnly(k, left, s, ins, new)
      BY <1>2, <1>3, <1>5, <1>9, <2>2 DEF Recounted, OneOnly
    <3> QED
      BY <1>9, <3>1, OneBooked
  <2>4. Less(k, left)
    BY <1>5, <1>9 DEF Less
  <2>5. Owned(k) => Owned(left)
    BY <1>9, <2>4, LessOwned
  <2> QED
    BY <1>5, <1>9, <2>1, <2>3, <2>5
<1>12. CASE left.sock[s].zombie /\ left.sock[s].users = 0
  <2>1. PICK free : free = FreeSlot
    OBVIOUS
  <2>2. r = Put(left, s, free)
    BY <1>10, <1>12, <2>1 DEF Put
  <2>3. free \in SockRec /\ free.hw = NoHw /\ free.pool = <<>> /\ free.zombie = FALSE
    <3>1. <<>> \in Seq(Hw) /\ <<>> \in Seq(Slot)
      OBVIOUS
    <3> QED
      BY <2>1, <3>1 DEF FreeSlot, SockRec
  <2>4. Puts(left, s, free, r)
    BY <1>9, <2>2, <2>3, PutIs
  <2>5. r \in State /\ r.chip = k.chip /\ r.sock[s] = FreeSlot /\ \A o \in Slot : o # s => r.sock[o] = k.sock[o]
    BY <1>9, <2>1, <2>4 DEF Puts
  <2>6. PICK back : back = [me EXCEPT !.zombie = FALSE]
    OBVIOUS
  <2>7. /\ back \in SockRec /\ back.in_use = k.sock[s].in_use /\ back.has_fd = k.sock[s].has_fd
        /\ back.pend = k.sock[s].pend /\ back.zombie = FALSE /\ back.users = n
    BY <1>5, <2>6 DEF SockRec
  <2>8. PICK m : m = Put(k, s, back)
    OBVIOUS
  <2>9. Puts(k, s, back, m)
    BY <2>7, <2>8, PutIs
  <2>10. m \in State /\ m.sock[s] = back /\ \A o \in Slot : o # s => m.sock[o] = k.sock[o]
    BY <2>9 DEF Puts
  <2>11. Booked(m, new, {})
    <3>1. OneOnly(k, m, s, ins, new)
      BY <1>2, <1>3, <2>7, <2>10 DEF Recounted, OneOnly
    <3> QED
      BY <2>10, <3>1, OneBooked
  <2>12. new[s] = {}
    BY <1>2, <1>5, <1>9, <1>12, FS_EmptySet
  <2>13. k.sock[s].pend = <<>>
    BY <1>5, <1>9, <1>12 DEF Booked, ZombieBare
  <2>14. Loose(m, new, s)
    BY <1>3, <2>7, <2>10, <2>11, <2>12, <2>13, FdUnqueued DEF Loose
  <2>15. \A o \in Slot : r.sock[o] = IF o \in {s} THEN FreeSlot ELSE m.sock[o]
    BY <2>5, <2>10
  <2>16. Booked(r, new, {} \ {s})
    <3>1. Freed(m, r, new, {s})
      BY <2>14, <2>15 DEF Freed
    <3> QED
      BY <2>5, <2>10, <2>11, <3>1, FreedBooked
  <2>17. {} \ {s} = {}
    OBVIOUS
  <2>18. Less(k, r)
    BY <2>1, <2>3, <2>5 DEF Less
  <2>19. Owned(k) => Owned(r)
    BY <2>5, <2>18, LessOwned
  <2> QED
    BY <2>1, <2>3, <2>5, <2>16, <2>17, <2>19
<1> QED
  BY <1>11, <1>12

-----------------------------------------------------------------------------
(* accept() and close() *)

(* What l is, but for its queue and its pool, is the same.                 *)
Steady(k, r, l) ==
  /\ r.sock[l].in_use = k.sock[l].in_use /\ r.sock[l].has_fd = k.sock[l].has_fd
  /\ r.sock[l].zombie = k.sock[l].zombie

LEMMA FreeSlotIs ==
  /\ FreeSlot \in SockRec /\ FreeSlot.hw = NoHw /\ FreeSlot.pool = <<>> /\ FreeSlot.pend = <<>>
  /\ FreeSlot.zombie = FALSE /\ FreeSlot.in_use = FALSE /\ FreeSlot.users = 0
<1>1. <<>> \in Seq(Hw) /\ <<>> \in Seq(Slot)
  OBVIOUS
<1> QED
  BY <1>1 DEF FreeSlot, SockRec

LEMMA SplitIs ==
  ASSUME NEW S, NEW p \in Seq(S), NEW n \in 0..Len(p)
  PROVE  /\ SubSeq(p, n + 1, Len(p)) \in Seq(S) /\ Len(SubSeq(p, n + 1, Len(p))) = Len(p) - n
         /\ \A i \in 1..(Len(p) - n) : SubSeq(p, n + 1, Len(p))[i] = p[i + n]
         /\ SubSeq(p, 1, n) \in Seq(S) /\ ToSet(SubSeq(p, 1, n)) = {p[i] : i \in 1..n}
<1> DEFINE a == SubSeq(p, 1, n)
           b == SubSeq(p, n + 1, Len(p))
<1>1. Len(p) \in Nat /\ n \in Nat /\ n <= Len(p)
  OBVIOUS
<1>2. a \in Seq(S) /\ Len(a) = n /\ \A i \in 1..n : a[i] = p[i]
  BY <1>1
<1>3. b \in Seq(S) /\ Len(b) = Len(p) - n /\ \A i \in 1..(Len(p) - n) : b[i] = p[n + i]
  BY <1>1
<1>4. \A i \in 1..(Len(p) - n) : n + i = i + n
  BY <1>1
<1> HIDE DEF a, b
<1>5. DOMAIN a = 1..n
  BY <1>2
<1>6. ToSet(a) = {p[i] : i \in 1..n}
  BY <1>2, <1>5 DEF ToSet
<1> QED
  BY <1>2, <1>3, <1>4, <1>6 DEF a, b

(* The head of the queue of l goes, the first n of it are freed and their  *)
(* hardware closes.                                                        *)
Reaped(k, r, l, n, D, z) ==
  /\ n \in 0..Len(k.sock[l].pend) /\ D = ToSet(SubSeq(k.sock[l].pend, 1, n))
  /\ z = SubSeq(k.sock[l].pend, n + 1, Len(k.sock[l].pend))
  /\ r.sock = [s \in Slot |-> IF s \in D THEN FreeSlot
                               ELSE IF s = l THEN [k.sock[l] EXCEPT !.pend = z] ELSE k.sock[s]]
  /\ r.chip = HwClose(k, {k.sock[s].hw : s \in D}).chip

LEMMA ReapedKeeps ==
  ASSUME NEW k \in State, NEW ins, Booked(k, ins, {}), NEW l \in Slot, k.sock[l].has_fd,
         NEW n, NEW D, NEW z, NEW r \in State, Reaped(k, r, l, n, D, z)
  PROVE  Stays(k, ins, {}, r) /\ Unfilled(k, r, l) /\ Steady(k, r, l) /\ r.sock[l].pool = k.sock[l].pool
<1> DEFINE p == k.sock[l].pend
<1>1. p \in Seq(Slot) /\ Len(p) \in Nat /\ k.sock[l] \in SockRec
  BY LensTyped DEF State
<1>2. /\ n \in 0..Len(p) /\ D = ToSet(SubSeq(p, 1, n)) /\ z = SubSeq(p, n + 1, Len(p))
      /\ \A s \in Slot : r.sock[s] = IF s \in D THEN FreeSlot
                                     ELSE IF s = l THEN [k.sock[l] EXCEPT !.pend = z] ELSE k.sock[s]
      /\ r.chip = HwClose(k, {k.sock[s].hw : s \in D}).chip
  BY DEF Reaped
<1>3. /\ z \in Seq(Slot) /\ Len(z) = Len(p) - n /\ (\A i \in 1..(Len(p) - n) : z[i] = p[i + n])
      /\ D = {p[i] : i \in 1..n}
  <2> HIDE DEF p
  <2> QED
    BY <1>1, <1>2, SplitIs
<1>4. PICK me : me = [k.sock[l] EXCEPT !.pend = z]
  OBVIOUS
<1>5. /\ me \in SockRec /\ me.hw = k.sock[l].hw /\ me.pool = k.sock[l].pool /\ me.in_use = k.sock[l].in_use
      /\ me.has_fd = k.sock[l].has_fd /\ me.zombie = k.sock[l].zombie
  BY <1>1, <1>3, <1>4 DEF SockRec
<1>6. PICK m : m = Put(k, l, me)
  OBVIOUS
<1>7. Puts(k, l, me, m)
  BY <1>5, <1>6, PutIs
<1>8. m \in State /\ m.sock = [k.sock EXCEPT ![l] = me] /\ m.sock[l] = me /\ \A s \in Slot : s # l => m.sock[s] = k.sock[s]
  BY <1>7 DEF Puts
<1>9. Dropped(k, m, l, n, z)
  BY <1>2, <1>3, <1>4, <1>8 DEF Dropped
<1>10. Booked(m, ins, D)
  <2>1. Booked(m, ins, {} \cup {k.sock[l].pend[i] : i \in 1..n})
    BY <1>8, <1>9, DropBooked
  <2>2. {} \cup {k.sock[l].pend[i] : i \in 1..n} = D
    BY <1>3
  <2> QED
    BY <2>1, <2>2
<1> HIDE DEF p
<1>11. l \notin D /\ D \subseteq Slot
  <2>1. m.sock[l].has_fd
    BY <1>5, <1>8
  <2> QED
    BY <1>8, <1>10, <2>1, FdUnqueued DEF Booked, InHand
<1>12. r.sock[l] = me /\ \A s \in Slot : r.sock[s] = IF s \in D THEN FreeSlot ELSE m.sock[s]
  BY <1>2, <1>4, <1>8, <1>11
<1>13. Freed(m, r, ins, D)
  BY <1>10, <1>12, InHandLoose DEF Freed
<1>14. Booked(r, ins, {})
  <2>1. Booked(r, ins, D \ D)
    BY <1>8, <1>10, <1>13, FreedBooked
  <2>2. D \ D = {}
    OBVIOUS
  <2> QED
    BY <2>1, <2>2
<1>15. Closed(k, r, {k.sock[s].hw : s \in D})
  <2>1. \A s \in Slot : r.sock[s].hw \in {k.sock[s].hw, NoHw} /\ r.sock[s].pool \in {k.sock[s].pool, <<>>}
    BY <1>5, <1>8, <1>12, FreeSlotIs
  <2>2. \A h \in Hw : h \notin {k.sock[s].hw : s \in D} => r.chip[h] = k.chip[h]
    BY <1>2, HwCloseIs
  <2>3. \A h \in {k.sock[s].hw : s \in D} : \E s \in Slot : k.sock[s].hw = h
    BY <1>11
  <2> QED
    BY <2>1, <2>2, <2>3 DEF Closed
<1>16. Owned(k) => Owned(r)
  BY <1>15, ClosedOwned
<1>17. Unfilled(k, r, l)
  BY <1>8, <1>12, FreeSlotIs DEF Unfilled
<1> QED
  BY <1>5, <1>12, <1>14, <1>16, <1>17 DEF Stays, Steady

LEMMA ReapKeeps ==
  ASSUME NEW k \in State, NEW ins, Booked(k, ins, {}), NEW l \in Slot, k.sock[l].has_fd, NEW r, r = Reap(k, l)
  PROVE  Stays(k, ins, {}, r) /\ Unfilled(k, r, l) /\ Steady(k, r, l) /\ r.sock[l].pool = k.sock[l].pool
<1> DEFINE p == k.sock[l].pend
           I == {i \in 1..Len(p) : Live(k, p[i])}
           live == SelectInSeq(p, LAMBDA s : Live(k, s))
           n == IF live = 0 THEN Len(p) ELSE live - 1
           D == ToSet(SubSeq(p, 1, n))
           z == SubSeq(p, n + 1, Len(p))
           f == [s \in Slot |-> IF s \in D THEN FreeSlot
                                ELSE IF s = l THEN [k.sock[l] EXCEPT !.pend = z] ELSE k.sock[s]]
<1>1. p \in Seq(Slot) /\ Len(p) \in Nat
  BY LensTyped
<1>2. live = IF I # {} THEN Min(I) ELSE 0
  BY DEF SelectInSeq
<1> HIDE DEF p
<1>3. I \subseteq Nat /\ I \subseteq 1..Len(p)
  BY <1>1
<1> HIDE DEF I, live
<1>4. live \in 0..Len(p)
  <2>1. CASE I = {}
    BY <1>1, <1>2, <2>1
  <2>2. CASE I # {}
    <3>1. Min(I) \in I
      BY <1>3, <2>2, MinOf
    <3>2. live = Min(I)
      BY <1>2, <2>2
    <3>3. Min(I) \in 1..Len(p)
      BY <1>3, <3>1
    <3> QED
      BY <1>1, <3>2, <3>3
  <2> QED
    BY <2>1, <2>2
<1>5. n \in 0..Len(p)
  BY <1>1, <1>4
<1>6. PICK closed : closed = HwClose(k, {k.sock[s].hw : s \in D})
  OBVIOUS
<1>7. closed \in State /\ closed.sock = k.sock
  BY <1>6, HwCloseIs
<1>8. r = [closed EXCEPT !.sock = f]
  BY <1>6 DEF Reap, p, live
<1>9. f \in [Slot -> SockRec]
  <2>1. z \in Seq(Slot) /\ k.sock \in [Slot -> SockRec] /\ k.sock[l] \in SockRec
    BY <1>1, <1>5 DEF State
  <2> HIDE DEF z
  <2>2. [k.sock[l] EXCEPT !.pend = z] \in SockRec
    BY <2>1 DEF SockRec
  <2> QED
    BY <2>1, <2>2, FreeSlotIs
<1> HIDE DEF f, D, z, n
<1>10. r = [sock |-> f, chip |-> closed.chip, hw_fail |-> closed.hw_fail]
  BY <1>7, <1>8 DEF State
<1>11. r \in State /\ r.sock = f /\ r.chip = closed.chip
  BY <1>7, <1>9, <1>10 DEF State
<1>12. Reaped(k, r, l, n, D, z)
  BY <1>5, <1>6, <1>11 DEF Reaped, f, D, z, p
<1> QED
  BY <1>11, <1>12, ReapedKeeps

(* A descriptor that is open.                                              *)
Held(k, s) == s \in Slot /\ k.sock[s].in_use /\ k.sock[s].has_fd /\ ~k.sock[s].zombie

LEMMA ClosingKeeps ==
  ASSUME NEW k \in State, NEW ins, Booked(k, ins, {}), NEW s \in Slot, Held(k, s), NEW r, r = Closing(k, s)
  PROVE  Stays(k, ins, {}, r) /\ Unfilled(k, r, s) /\ (r.sock[s].zombie => r.sock[s].pool = <<>>)
<1> DEFINE me == k.sock[s]
           p == me.pend
           D == ToSet(p)
           mine == ToSet(me.pool) \cup {k.sock[c].hw : c \in D \cup {s}}
           f == [c \in Slot |->
                  IF c \in D \/ (c = s /\ me.users = 0) THEN FreeSlot
                  ELSE IF c = s THEN [me EXCEPT !.zombie = TRUE, !.listening = FALSE, !.pool = <<>>,
                                                !.hw = NoHw, !.pend = <<>>]
                  ELSE k.sock[c]]
<1>1. p \in Seq(Slot) /\ Len(p) \in Nat /\ me \in SockRec
  BY LensTyped DEF State
<1>2. PICK gone : gone = HwClose(k, mine)
  OBVIOUS
<1>3. gone \in State /\ gone.sock = k.sock /\ \A h \in Hw : h \notin mine => gone.chip[h] = k.chip[h]
  <2> HIDE DEF mine
  <2> QED
    BY <1>2, HwCloseIs
<1>4. r = [gone EXCEPT !.sock = f]
  BY <1>2 DEF Closing
<1>5. PICK bare : bare = [me EXCEPT !.zombie = TRUE, !.listening = FALSE, !.pool = <<>>, !.hw = NoHw, !.pend = <<>>]
  OBVIOUS
<1>6. \A c \in Slot : f[c] = IF c \in D \/ (c = s /\ me.users = 0) THEN FreeSlot
                             ELSE IF c = s THEN bare ELSE k.sock[c]
  BY <1>5
<1>7. /\ bare \in SockRec /\ bare.hw = NoHw /\ bare.pool = <<>> /\ bare.in_use = me.in_use /\ bare.users = me.users
      /\ bare.has_fd = me.has_fd /\ bare.zombie = TRUE /\ bare.listening = FALSE /\ bare.pend = <<>>
  <2>1. <<>> \in Seq(Hw) /\ <<>> \in Seq(Slot)
    OBVIOUS
  <2> HIDE DEF me
  <2> QED
    BY <1>1, <1>5, <2>1 DEF SockRec
<1>8. f \in [Slot -> SockRec]
  <2>1. \A c \in Slot : f[c] \in SockRec
    <3>1. k.sock \in [Slot -> SockRec]
      BY DEF State
    <3> HIDE DEF f, D, me
    <3> QED
      BY <1>6, <1>7, <3>1, FreeSlotIs
  <2>2. DOMAIN f = Slot /\ f = [c \in DOMAIN f |-> f[c]]
    OBVIOUS
  <2> HIDE DEF f
  <2> QED
    BY <2>1, <2>2
<1> HIDE DEF f, mine
<1>9. r = [sock |-> f, chip |-> gone.chip, hw_fail |-> gone.hw_fail]
  BY <1>3, <1>4 DEF State
<1>10. r \in State /\ r.sock = f /\ r.chip = gone.chip
  BY <1>3, <1>8, <1>9 DEF State
<1>11. PICK cut : cut = [me EXCEPT !.pend = <<>>]
  OBVIOUS
<1>12. /\ cut \in SockRec /\ cut.in_use = me.in_use /\ cut.users = me.users
       /\ cut.has_fd = me.has_fd /\ cut.zombie = me.zombie /\ cut.pend = <<>>
  <2>1. <<>> \in Seq(Slot)
    OBVIOUS
  <2> HIDE DEF me
  <2> QED
    BY <1>1, <1>11, <2>1 DEF SockRec
<1>13. PICK m : m = Put(k, s, cut)
  OBVIOUS
<1>14. Puts(k, s, cut, m)
  BY <1>12, <1>13, PutIs
<1>15. m \in State /\ m.sock = [k.sock EXCEPT ![s] = cut] /\ m.sock[s] = cut /\ \A o \in Slot : o # s => m.sock[o] = k.sock[o]
  BY <1>14 DEF Puts
<1>16. Dropped(k, m, s, Len(p), <<>>)
  <2>1. Len(<<>>) = 0 /\ <<>> \in Seq(Slot)
    OBVIOUS
  <2>2. Len(p) \in 0..Len(p) /\ Len(p) - Len(p) = 0
    <3> HIDE DEF p
    <3> QED
      BY <1>1
  <2>3. PICK z : z = <<>>
    OBVIOUS
  <2>4. \A i \in 1..Len(z) : z[i] = p[i + Len(p)]
    BY <2>1, <2>3
  <2>5. Dropped(k, m, s, Len(p), z)
    BY <1>11, <1>15, <2>1, <2>2, <2>3, <2>4 DEF Dropped
  <2> QED
    BY <2>3, <2>5
<1>17. D = {p[i] : i \in 1..Len(p)}
  <2> HIDE DEF p
  <2>1. DOMAIN p = 1..Len(p)
    BY <1>1
  <2> QED
    BY <2>1 DEF ToSet
<1>18. Booked(m, ins, D)
  <2>1. Booked(m, ins, {} \cup {k.sock[s].pend[i] : i \in 1..Len(p)})
    BY <1>15, <1>16, DropBooked
  <2>2. {} \cup {k.sock[s].pend[i] : i \in 1..Len(p)} = D
    BY <1>17
  <2> QED
    BY <2>1, <2>2
<1> HIDE DEF p, D
<1>19. me.in_use /\ me.has_fd /\ ~me.zombie
  BY DEF Held
<1>20. s \notin D /\ D \subseteq Slot /\ ~Queued(m, s)
  BY <1>12, <1>15, <1>18, <1>19, FdUnqueued DEF Booked, InHand
<1>21. IsFiniteSet(ins[s]) /\ me.users = Cardinality(ins[s])
  BY DEF Booked, Counted
<1> HIDE DEF me
<1>22. \A c \in Slot : r.sock[c] = IF c \in D \/ (c = s /\ me.users = 0) THEN FreeSlot
                                   ELSE IF c = s THEN bare ELSE k.sock[c]
  BY <1>6, <1>10
<1>23. Booked(r, ins, {})
  <2>1. CASE me.users = 0
    <3>1. ins[s] = {}
      BY <1>21, <2>1, FS_EmptySet
    <3>2. Loose(m, ins, s)
      BY <1>12, <1>15, <1>20, <3>1 DEF Loose
    <3>3. \A c \in D \cup {s} : Loose(m, ins, c)
      BY <1>18, <3>2, InHandLoose
    <3>4. Freed(m, r, ins, D \cup {s})
      BY <1>15, <1>22, <2>1, <3>3 DEF Freed
    <3>5. Booked(r, ins, D \ (D \cup {s}))
      BY <1>10, <1>15, <1>18, <3>4, FreedBooked
    <3>6. D \ (D \cup {s}) = {}
      OBVIOUS
    <3> QED
      BY <3>5, <3>6
  <2>2. CASE me.users # 0
    <3>1. PICK m2 : m2 = Put(m, s, bare)
      OBVIOUS
    <3>2. Puts(m, s, bare, m2)
      BY <1>7, <1>15, <3>1, PutIs
    <3>3. m2 \in State /\ m2.sock[s] = bare /\ \A o \in Slot : o # s => m2.sock[o] = k.sock[o]
      BY <1>15, <3>2 DEF Puts
    <3>4. ins[s] # {}
      BY <1>21, <2>2, FS_EmptySet
    <3>5. OneOnly(m, m2, s, ins, ins)
      BY <1>7, <1>12, <1>15, <1>19, <1>21, <3>3, <3>4 DEF OneOnly
    <3>6. Booked(m2, ins, D)
      BY <1>15, <1>18, <3>3, <3>5, OneBooked
    <3>7. \A c \in D : Loose(m2, ins, c)
      BY <3>6, InHandLoose
    <3>8. \A c \in Slot : r.sock[c] = IF c \in D THEN FreeSlot ELSE m2.sock[c]
      BY <1>20, <1>22, <2>2, <3>3
    <3>9. Freed(m2, r, ins, D)
      BY <3>7, <3>8 DEF Freed
    <3>10. Booked(r, ins, D \ D)
      BY <1>10, <3>3, <3>6, <3>9, FreedBooked
    <3>11. D \ D = {}
      OBVIOUS
    <3> QED
      BY <3>10, <3>11
  <2> QED
    BY <2>1, <2>2
<1>24. Closed(k, r, mine)
  <2>1. \A c \in Slot : r.sock[c].hw \in {k.sock[c].hw, NoHw} /\ r.sock[c].pool \in {k.sock[c].pool, <<>>}
    BY <1>7, <1>22, FreeSlotIs
  <2>2. r.sock[s].pool = <<>>
    BY <1>7, <1>22, FreeSlotIs
  <2>3. \A h \in mine : \E c \in Slot : k.sock[c].hw = h \/ (r.sock[c].pool = <<>> /\ h \in ToSet(k.sock[c].pool))
    <3> SUFFICES ASSUME NEW h \in mine
                 PROVE  \E c \in Slot : k.sock[c].hw = h \/ (r.sock[c].pool = <<>> /\ h \in ToSet(k.sock[c].pool))
      OBVIOUS
    <3>1. CASE h \in ToSet(k.sock[s].pool)
      BY <2>2, <3>1
    <3>2. CASE h \in {k.sock[c].hw : c \in D \cup {s}}
      BY <1>20, <3>2
    <3> QED
      BY <3>1, <3>2 DEF mine, me
  <2> QED
    BY <1>3, <1>10, <2>1, <2>3 DEF Closed
<1>25. Owned(k) => Owned(r)
  BY <1>10, <1>24, ClosedOwned
<1>26. Unfilled(k, r, s) /\ (r.sock[s].zombie => r.sock[s].pool = <<>>)
  BY <1>7, <1>22, FreeSlotIs DEF Unfilled
<1> QED
  BY <1>10, <1>23, <1>25, <1>26 DEF Stays

(* The worker closes what died in a pool.                                  *)
LEMMA PoolDropKeeps ==
  ASSUME NEW k \in State, NEW ins, NEW X, Booked(k, ins, X), NEW l \in Slot, k.sock[l].in_use, k.sock[l].has_fd,
         NEW i \in 1..Len(k.sock[l].pool), NEW r, r = PoolRemove(HwClose(k, {k.sock[l].pool[i]}), l, i)
  PROVE  Stays(k, ins, X, r) /\ Beside(k, r, l)
<1>1. PICK p : p = RemoveAt(k.sock[l].pool, i) /\ p \in Seq(Hw)
  BY LensTyped, RemoveAtIs
<1>2. k.sock[l] \in SockRec
  BY DEF State
<1>3. PICK me : me = [k.sock[l] EXCEPT !.pool = p]
  OBVIOUS
<1>4. Amends(k, l, me) /\ me.pool = p /\ me.hw = k.sock[l].hw /\ me \in SockRec
  BY <1>1, <1>2, <1>3 DEF Amends, SockRec
<1>5. PICK m : m = HwClose(k, {k.sock[l].pool[i]})
  OBVIOUS
<1>6. m \in State /\ m.sock = k.sock /\ \A g \in Hw : g # k.sock[l].pool[i] => m.chip[g] = k.chip[g]
  BY <1>5, HwCloseIs
<1>7. r = Put(m, l, me)
  BY <1>1, <1>3, <1>5, <1>6 DEF Put, PoolRemove
<1>8. Puts(m, l, me, r)
  BY <1>4, <1>6, <1>7, PutIs
<1>9. r \in State /\ r.chip = m.chip /\ r.sock[l] = me /\ \A o \in Slot : o # l => r.sock[o] = k.sock[o]
  <2>1. r \in State /\ r.chip = m.chip /\ r.sock[l] = me
    BY <1>8 DEF Puts
  <2>2. ASSUME NEW o \in Slot, o # l PROVE r.sock[o] = k.sock[o]
    BY <1>6, <1>8, <2>2 DEF Puts
  <2> QED
    BY <2>1, <2>2
<1>10. Booked(r, ins, X) /\ Beside(k, r, l)
  <2>1. Amended(k, r, l)
    BY <1>4, <1>9 DEF Amended
  <2> QED
    BY <1>9, <2>1, AmendsBooked
<1>11. ASSUME Owned(k) PROVE Owned(r)
  <2>1. Removed(k, r, l, i)
    BY <1>1, <1>4, <1>6, <1>9 DEF Removed
  <2> QED
    BY <1>9, <1>11, <2>1, RemovedOwned
<1> QED
  BY <1>9, <1>10, <1>11 DEF Stays

(* accept() hands out the connection c, ...                                *)
LEMMA GiveKeeps ==
  ASSUME NEW k \in State, NEW ins, NEW c, Booked(k, ins, {c}), NEW r, r = [k EXCEPT !.sock[c].has_fd = TRUE]
  PROVE  Stays(k, ins, {}, r) /\ \A l : Unfilled(k, r, l)
<1>1. c \in Slot /\ Fresh(k.sock[c])
  BY DEF Booked, InHand
<1>2. /\ k.sock[c] \in SockRec /\ k.sock[c].in_use = TRUE /\ k.sock[c].zombie = FALSE /\ k.sock[c].pend = <<>>
      /\ k.sock[c].users = 0
  BY <1>1, FreshHas DEF State
<1>3. PICK me : me = [k.sock[c] EXCEPT !.has_fd = TRUE]
  OBVIOUS
<1>4. /\ me \in SockRec /\ me.in_use = TRUE /\ me.has_fd = TRUE /\ me.zombie = FALSE /\ me.pend = <<>> /\ me.users = 0
      /\ me.hw = k.sock[c].hw /\ me.pool = k.sock[c].pool
  BY <1>2, <1>3 DEF SockRec
<1>5. r = Put(k, c, me)
  BY <1>3 DEF Put
<1>6. Puts(k, c, me, r)
  BY <1>1, <1>4, <1>5, PutIs
<1>7. r \in State /\ r.chip = k.chip /\ r.sock[c] = me /\ \A o \in Slot : o # c => r.sock[o] = k.sock[o]
  BY <1>6 DEF Puts
<1>8. Booked(r, ins, {})
  <2>1. Given(r, k, c)
    BY <1>4, <1>7 DEF Given
  <2>2. Booked(r, ins, {c} \ {c})
    BY <1>7, <2>1, GivenBooked
  <2>3. {c} \ {c} = {}
    OBVIOUS
  <2> QED
    BY <2>2, <2>3
<1>9. Less(k, r)
  BY <1>4, <1>7 DEF Less
<1>10. \A l : Unfilled(k, r, l)
  BY <1>4, <1>7 DEF Unfilled
<1> QED
  BY <1>7, <1>8, <1>9, <1>10, LessOwned DEF Stays

(* ... or closes it, if there is no descriptor.                            *)
LEMMA LoseKeeps ==
  ASSUME NEW k \in State, NEW ins, NEW c, Booked(k, ins, {c}),
         NEW r, r = [HwClose(k, {k.sock[c].hw}) EXCEPT !.sock[c] = FreeSlot]
  PROVE  Stays(k, ins, {}, r) /\ \A l : Unfilled(k, r, l)
<1>1. c \in Slot /\ k.sock[c] \in SockRec
  BY DEF Booked, InHand, State
<1>2. PICK free : free = FreeSlot
  OBVIOUS
<1>3. free \in SockRec /\ free.hw = NoHw /\ free.pool = <<>> /\ free.zombie = FALSE
  BY <1>2, FreeSlotIs
<1>4. PICK m : m = HwClose(k, {k.sock[c].hw})
  OBVIOUS
<1>5. m \in State /\ m.sock = k.sock /\ \A g \in Hw : g \notin {k.sock[c].hw} => m.chip[g] = k.chip[g]
  BY <1>4, HwCloseIs
<1>6. r = Put(m, c, free)
  BY <1>2, <1>4 DEF Put
<1>7. Puts(m, c, free, r)
  BY <1>1, <1>3, <1>5, <1>6, PutIs
<1>8. r \in State /\ r.chip = m.chip /\ r.sock[c] = free /\ \A o \in Slot : o # c => r.sock[o] = k.sock[o]
  BY <1>5, <1>7 DEF Puts
<1>9. Booked(r, ins, {})
  <2>1. Loose(k, ins, c)
    BY InHandLoose
  <2>2. Freed(k, r, ins, {c})
    BY <1>2, <1>8, <2>1 DEF Freed
  <2>3. Booked(r, ins, {c} \ {c})
    BY <1>8, <2>2, FreedBooked
  <2>4. {c} \ {c} = {}
    OBVIOUS
  <2> QED
    BY <2>3, <2>4
<1>10. Closed(k, r, {k.sock[c].hw})
  BY <1>1, <1>3, <1>5, <1>8 DEF Closed
<1>11. Owned(k) => Owned(r)
  BY <1>8, <1>10, ClosedOwned
<1>12. \A l : Unfilled(k, r, l)
  BY <1>3, <1>8 DEF Unfilled
<1> QED
  BY <1>8, <1>9, <1>11, <1>12 DEF Stays

(* socket().                                                               *)
LEMMA CreateKeeps ==
  ASSUME NEW k \in State, NEW ins, Booked(k, ins, {}), FreeSlots(k) # {}, NEW type \in {"stream", "dgram"},
         NEW r, r = [k EXCEPT !.sock[SlotAlloc(k)] = [FreeSlot EXCEPT !.in_use = TRUE, !.has_fd = TRUE, !.type = type]]
  PROVE  Stays(k, ins, {}, r) /\ \A l : Unfilled(k, r, l)
<1>1. PICK c \in Slot : c = SlotAlloc(k) /\ ~k.sock[c].in_use
  BY AllocIs
<1>2. PICK new : new = [FreeSlot EXCEPT !.in_use = TRUE, !.hw = NoHw]
  OBVIOUS
<1>3. new \in SockRec /\ Fresh(new)
  BY <1>2, FreshTyped
<1>4. PICK m : m = Put(k, c, new)
  OBVIOUS
<1>5. Puts(k, c, new, m)
  BY <1>3, <1>4, PutIs
<1>6. m \in State /\ m.sock[c] = new /\ \A o \in Slot : o # c => m.sock[o] = k.sock[o]
  BY <1>5 DEF Puts
<1>7. Booked(m, ins, {c})
  <2>1. Booked(m, ins, {} \cup {c})
    BY <1>1, <1>3, <1>6, TakenBooked
  <2>2. {} \cup {c} = {c}
    OBVIOUS
  <2> QED
    BY <2>1, <2>2
<1>8. PICK free : free = FreeSlot
  OBVIOUS
<1>9. PICK me : me = [free EXCEPT !.in_use = TRUE, !.has_fd = TRUE, !.type = type]
  OBVIOUS
<1>10. /\ me \in SockRec /\ me.in_use = TRUE /\ me.has_fd = TRUE /\ me.zombie = FALSE /\ me.pend = <<>> /\ me.users = 0
       /\ me.hw = NoHw /\ me.pool = <<>>
  <2>1. free \in SockRec /\ free.hw = NoHw /\ free.pool = <<>> /\ free.pend = <<>> /\ free.zombie = FALSE /\ free.users = 0
    BY <1>8, FreeSlotIs
  <2> QED
    BY <1>9, <2>1 DEF SockRec
<1>11. r = Put(k, c, me)
  BY <1>1, <1>8, <1>9 DEF Put
<1>12. Puts(k, c, me, r)
  BY <1>10, <1>11, PutIs
<1>13. r \in State /\ r.chip = k.chip /\ r.sock[c] = me /\ \A o \in Slot : o # c => r.sock[o] = k.sock[o]
  BY <1>12 DEF Puts
<1>14. Booked(r, ins, {})
  <2>1. Given(r, m, c)
    BY <1>6, <1>10, <1>13 DEF Given
  <2>2. Booked(r, ins, {c} \ {c})
    BY <1>6, <1>7, <1>13, <2>1, GivenBooked
  <2>3. {c} \ {c} = {}
    OBVIOUS
  <2> QED
    BY <2>2, <2>3
<1>15. Less(k, r)
  BY <1>10, <1>13 DEF Less
<1>16. \A l : Unfilled(k, r, l)
  BY <1>10, <1>13 DEF Unfilled
<1> QED
  BY <1>13, <1>14, <1>15, <1>16, LessOwned DEF Stays

LEMMA MaxIs ==
  ASSUME NEW lo \in Int, NEW hi \in Int, lo <= hi
  PROVE  Max(lo..hi) = hi
<1>1. hi \in lo..hi /\ \A y \in lo..hi : hi >= y
  OBVIOUS
<1>2. \A x \in lo..hi : (\A y \in lo..hi : x >= y) => x = hi
  <2> SUFFICES ASSUME NEW x \in lo..hi, \A y \in lo..hi : x >= y PROVE x = hi
    OBVIOUS
  <2>1. x >= hi
    BY <1>1
  <2> QED
    BY <2>1
<1> QED
  BY <1>1, <1>2 DEF Max

LEMMA RegHwIs == \A h \in Hw \cup {NoHw} : RegHw(h) \in Hw
<1>1. Cardinality(Hw) \in Nat /\ Hw = 0..(Cardinality(Hw) - 1) /\ Hw # {}
  BY ToeAssumption, FS_CardinalityType
<1>2. 0 <= Cardinality(Hw) - 1
  BY <1>1
<1>3. Max(0..(Cardinality(Hw) - 1)) = Cardinality(Hw) - 1
  BY <1>1, <1>2, MaxIs
<1>4. Max(Hw) \in Hw
  <2>1. PICK n \in Int : n = Cardinality(Hw) - 1
    BY <1>1
  <2> QED
    BY <1>1, <1>2, <1>3, <2>1
<1> QED
  BY <1>4 DEF RegHw

(* The record of s changes in nothing that the book or the owners know.    *)
Marked(k, s, me) == Amends(k, s, me) /\ me.hw = k.sock[s].hw /\ me.pool = k.sock[s].pool

LEMMA AmendKeeps ==
  ASSUME NEW k \in State, NEW ins, NEW X, Booked(k, ins, X), NEW s \in Slot,
         NEW me, Marked(k, s, me), NEW r, r = Put(k, s, me)
  PROVE  Stays(k, ins, X, r) /\ Beside(k, r, s)
<1>1. me \in SockRec /\ Amends(k, s, me) /\ me.hw = k.sock[s].hw /\ me.pool = k.sock[s].pool
  BY DEF Marked, Amends
<1>2. Puts(k, s, me, r)
  BY <1>1, PutIs
<1>3. r \in State /\ r.chip = k.chip /\ r.sock[s] = me /\ \A o \in Slot : o # s => r.sock[o] = k.sock[o]
  BY <1>2 DEF Puts
<1>4. Booked(r, ins, X) /\ Beside(k, r, s)
  <2>1. Amended(k, r, s)
    BY <1>1, <1>3 DEF Amended
  <2> QED
    BY <1>3, <2>1, AmendsBooked
<1>5. Less(k, r)
  BY <1>1, <1>3 DEF Less
<1> QED
  BY <1>3, <1>4, <1>5, LessOwned DEF Stays

(* s gives up its hardware socket, which closes.                           *)
LEMMA CloseOwnKeeps ==
  ASSUME NEW k \in State, NEW ins, NEW X, Booked(k, ins, X), NEW s \in Slot, k.sock[s].in_use, k.sock[s].has_fd,
         NEW h, h = k.sock[s].hw, NEW r, r = [HwClose(k, {h}) EXCEPT !.sock[s].hw = NoHw]
  PROVE  Stays(k, ins, X, r) /\ Beside(k, r, s)
<1>1. k.sock[s] \in SockRec
  BY DEF State
<1>2. PICK me : me = [k.sock[s] EXCEPT !.hw = NoHw]
  OBVIOUS
<1>3. Amends(k, s, me) /\ me.pool = k.sock[s].pool /\ me.hw = NoHw /\ me \in SockRec
  BY <1>1, <1>2 DEF Amends, SockRec
<1>4. PICK m : m = HwClose(k, {h})
  OBVIOUS
<1>5. m \in State /\ m.sock = k.sock /\ \A g \in Hw : g \notin {h} => m.chip[g] = k.chip[g]
  BY <1>4, HwCloseIs
<1>6. r = Put(m, s, me)
  BY <1>2, <1>4, <1>5 DEF Put
<1>7. Puts(m, s, me, r)
  BY <1>3, <1>5, <1>6, PutIs
<1>8. r \in State /\ r.chip = m.chip /\ r.sock[s] = me /\ \A o \in Slot : o # s => r.sock[o] = k.sock[o]
  BY <1>5, <1>7 DEF Puts
<1>9. Booked(r, ins, X) /\ Beside(k, r, s)
  <2>1. Amended(k, r, s)
    BY <1>3, <1>8 DEF Amended
  <2> QED
    BY <1>8, <2>1, AmendsBooked
<1>10. Closed(k, r, {h})
  BY <1>3, <1>5, <1>8 DEF Closed
<1>11. Owned(k) => Owned(r)
  BY <1>8, <1>10, ClosedOwned
<1> QED
  BY <1>8, <1>9, <1>11 DEF Stays

(* A byte is read, or the room to send is taken.                           *)
LEMMA ChipKeeps ==
  ASSUME NEW k \in State, NEW ins, NEW X, Booked(k, ins, X), NEW h \in Hw,
         NEW r, r = [k EXCEPT !.chip[h].room = FALSE] \/ r = [k EXCEPT !.chip[h].rx = 0]
  PROVE  Stays(k, ins, X, r) /\ r.sock = k.sock
<1>1. k.chip \in [Hw -> ChipRec] /\ k.chip[h] \in ChipRec
  BY DEF State
<1>2. PICK c : c \in ChipRec /\ c.sr = k.chip[h].sr /\ r = [k EXCEPT !.chip = [k.chip EXCEPT ![h] = c]]
  <2>1. CASE r = [k EXCEPT !.chip[h].room = FALSE]
    <3>1. PICK c : c = [k.chip[h] EXCEPT !.room = FALSE]
      OBVIOUS
    <3>2. c \in ChipRec /\ c.sr = k.chip[h].sr
      BY <1>1, <3>1 DEF ChipRec
    <3>3. r = [k EXCEPT !.chip = [k.chip EXCEPT ![h] = c]]
      BY <2>1, <3>1
    <3> QED
      BY <3>2, <3>3
  <2>2. CASE r = [k EXCEPT !.chip[h].rx = 0]
    <3>1. PICK c : c = [k.chip[h] EXCEPT !.rx = 0]
      OBVIOUS
    <3>2. c \in ChipRec /\ c.sr = k.chip[h].sr
      BY <1>1, <3>1 DEF ChipRec
    <3>3. r = [k EXCEPT !.chip = [k.chip EXCEPT ![h] = c]]
      BY <2>2, <3>1
    <3> QED
      BY <3>2, <3>3
  <2> QED
    BY <2>1, <2>2
<1>3. PICK a : a = [k.chip EXCEPT ![h] = c]
  OBVIOUS
<1>4. a \in [Hw -> ChipRec] /\ \A g \in Hw : a[g].sr = k.chip[g].sr
  BY <1>1, <1>2, <1>3
<1>5. r = [sock |-> k.sock, chip |-> a, hw_fail |-> k.hw_fail]
  BY <1>2, <1>3 DEF State
<1>6. r \in State /\ r.sock = k.sock /\ r.chip = a
  BY <1>4, <1>5 DEF State
<1>7. SameBook(k, r)
  BY <1>6 DEF SameBook
<1>8. Less(k, r)
  <2>1. \A s \in Slot : \A i \in 1..Len(k.sock[s].pool) : k.sock[s].pool[i] \in Hw
    BY LensTyped
  <2> QED
    BY <1>4, <1>6, <2>1 DEF Less
<1> QED
  BY <1>6, <1>7, <1>8, SameBookKeeps, LessOwned DEF Stays

-----------------------------------------------------------------------------
(* listen(), shutdown(), bind() *)

LEMMA ListenKeeps ==
  ASSUME NEW k \in State, NEW ins, NEW X, Booked(k, ins, X), NEW s \in Slot, Held(k, s),
         NEW m, m = [k EXCEPT !.sock[s].listening = TRUE]
  PROVE  Stays(k, ins, X, ListenerFill(m, s)) /\ Unfilled(k, ListenerFill(m, s), s) /\ ~ListenerFill(m, s).sock[s].zombie
<1>1. k.sock[s] \in SockRec
  BY DEF State
<1>2. PICK me : me = [k.sock[s] EXCEPT !.listening = TRUE]
  OBVIOUS
<1>3. Marked(k, s, me)
  BY <1>1, <1>2 DEF Marked, Amends, SockRec, Held
<1>4. m = Put(k, s, me)
  BY <1>2 DEF Put
<1>5. Stays(k, ins, X, m) /\ Beside(k, m, s)
  BY <1>3, <1>4, AmendKeeps
<1>6. m \in State /\ Booked(m, ins, X) /\ m.sock[s].in_use /\ m.sock[s].has_fd /\ ~m.sock[s].zombie
  BY <1>5 DEF Stays, Beside, Held
<1>7. Stays(m, ins, X, ListenerFill(m, s)) /\ Beside(m, ListenerFill(m, s), s)
  BY <1>6, FillKeeps
<1>8. Unfilled(k, ListenerFill(m, s), s)
  BY <1>5, <1>7, BesideUnfilled, UnfilledThrough
<1>9. ~ListenerFill(m, s).sock[s].zombie
  BY <1>6, <1>7 DEF Beside
<1> QED
  BY <1>5, <1>7, <1>8, <1>9, KeptThrough

LEMMA ShutdownKeeps ==
  ASSUME NEW k \in State, NEW ins, NEW X, Booked(k, ins, X), NEW s \in Slot, Held(k, s),
         NEW me, Marked(k, s, me), NEW m, m = [k EXCEPT !.sock[s] = me],
         NEW r, r = m \/ r = [HwClose(m, {k.sock[s].hw}) EXCEPT !.sock[s].hw = NoHw]
  PROVE  Stays(k, ins, X, r) /\ Unfilled(k, r, s) /\ ~r.sock[s].zombie
<1>1. m = Put(k, s, me)
  BY DEF Put
<1>2. me \in SockRec /\ me.hw = k.sock[s].hw
  BY DEF Marked, Amends
<1>3. Stays(k, ins, X, m) /\ Beside(k, m, s)
  BY <1>1, <1>2, AmendKeeps
<1>4. m.sock[s] = me
  <2>1. Puts(k, s, me, m)
    BY <1>1, <1>2, PutIs
  <2> QED
    BY <2>1 DEF Puts
<1>5. /\ m \in State /\ Booked(m, ins, X) /\ m.sock[s].in_use /\ m.sock[s].has_fd /\ ~m.sock[s].zombie
      /\ k.sock[s].hw = m.sock[s].hw
  BY <1>2, <1>3, <1>4 DEF Stays, Beside, Held
<1>6. CASE r = m
  BY <1>3, <1>5, <1>6, BesideUnfilled
<1>7. CASE r = [HwClose(m, {k.sock[s].hw}) EXCEPT !.sock[s].hw = NoHw]
  <2>1. Stays(m, ins, X, r) /\ Beside(m, r, s)
    <3>1. PICK h : h = m.sock[s].hw
      OBVIOUS
    <3>2. r = [HwClose(m, {h}) EXCEPT !.sock[s].hw = NoHw]
      BY <1>5, <1>7, <3>1
    <3> QED
      BY <1>5, <3>1, <3>2, CloseOwnKeeps
  <2>2. ~r.sock[s].zombie
    BY <1>5, <2>1 DEF Beside
  <2>3. Unfilled(k, r, s)
    <3>1. Unfilled(k, m, s) /\ Unfilled(m, r, s)
      BY <1>3, <2>1, BesideUnfilled
    <3> QED
      BY <3>1, UnfilledThrough
  <2>4. Stays(k, ins, X, r)
    BY <1>3, <2>1, KeptThrough
  <2> QED
    BY <2>2, <2>3, <2>4
<1> QED
  BY <1>6, <1>7

LEMMA BindKeeps ==
  ASSUME NEW k \in State, NEW ins, NEW X, Booked(k, ins, X), NEW s \in Slot, Held(k, s),
         NEW m, m = [HwClose(k, {k.sock[s].hw}) EXCEPT !.sock[s].hw = NoHw]
  PROVE  Stays(k, ins, X, OpenUdp(m, s)) /\ Unfilled(k, OpenUdp(m, s), s) /\ ~OpenUdp(m, s).sock[s].zombie
<1>1. k.sock[s].in_use /\ k.sock[s].has_fd /\ ~k.sock[s].zombie
  BY DEF Held
<1>2. Stays(k, ins, X, m) /\ Beside(k, m, s)
  BY <1>1, CloseOwnKeeps
<1>3. m \in State /\ Booked(m, ins, X) /\ m.sock[s].in_use /\ m.sock[s].has_fd /\ ~m.sock[s].zombie
  BY <1>1, <1>2 DEF Stays, Beside
<1>4. Stays(m, ins, X, OpenUdp(m, s)) /\ Beside(m, OpenUdp(m, s), s)
  BY <1>3, OpenUdpKeeps
<1>5. ~OpenUdp(m, s).sock[s].zombie
  BY <1>3, <1>4 DEF Beside
<1>6. Unfilled(k, OpenUdp(m, s), s)
  <2>1. Unfilled(k, m, s)
    BY <1>2, BesideUnfilled
  <2>2. Unfilled(m, OpenUdp(m, s), s)
    BY <1>4, BesideUnfilled
  <2> QED
    BY <2>1, <2>2, UnfilledThrough
<1>7. Stays(k, ins, X, OpenUdp(m, s))
  BY <1>2, <1>4, KeptThrough
<1> QED
  BY <1>5, <1>6, <1>7

(* accept() promotes the first connection of the pool itself.              *)
LEMMA PromoteFirstKeeps ==
  ASSUME NEW k \in State, NEW ins, NEW X, Booked(k, ins, X), NEW l \in Slot, k.sock[l].in_use, k.sock[l].has_fd,
         k.sock[l].zombie => k.sock[l].pool = <<>>, NEW r, r = PromoteFirst(k, l)
  PROVE  Stays(k, ins, X, r) /\ Beside(k, r, l)
<1> DEFINE p == k.sock[l].pool
           I == {i \in 1..Len(p) : k.chip[p[i]].sr = "established"}
           first == SelectInSeq(p, LAMBDA h : k.chip[h].sr = "established")
<1>1. Len(p) \in Nat
  BY LensTyped
<1>2. first = IF I # {} THEN Min(I) ELSE 0
  BY DEF SelectInSeq
<1>3. r = IF first = 0 \/ ~CanPromote(k, l) THEN k ELSE Promote(k, l, first)
  BY DEF PromoteFirst
<1> HIDE DEF first
<1>4. CASE first = 0 \/ ~CanPromote(k, l)
  <2>1. r = k
    BY <1>3, <1>4
  <2>2. Beside(k, k, l)
    BY FreeOpen DEF Beside
  <2> QED
    BY <2>1, <2>2 DEF Stays
<1>5. CASE first # 0 /\ CanPromote(k, l)
  <2>1. I # {} /\ I \subseteq Nat
    <3>1. I # {}
      <4> HIDE DEF I
      <4> QED
        BY <1>2, <1>5
    <3>2. I \subseteq 1..Len(p)
      OBVIOUS
    <3> HIDE DEF I, p
    <3> QED
      BY <1>1, <3>1, <3>2
  <2>2. first \in I
    <3>1. Min(I) \in I
      BY <2>1, MinOf
    <3> QED
      BY <1>2, <2>1, <3>1
  <2>3. first \in 1..Len(k.sock[l].pool)
    BY <2>2
  <2>4. ~k.sock[l].zombie
    <3>1. CASE k.sock[l].pool = <<>>
      BY <2>3, <3>1
    <3>2. CASE k.sock[l].pool # <<>>
      <4>1. k.sock[l].zombie \in BOOLEAN
        BY DEF State, SockRec
      <4> QED
        BY <3>2, <4>1
    <3> QED
      BY <3>1, <3>2
  <2>5. FreeSlots(k) # {}
    BY <1>5 DEF CanPromote
  <2>6. Stays(k, ins, X, Promote(k, l, first)) /\ Beside(k, Promote(k, l, first), l)
    BY <2>3, <2>4, <2>5, PromoteKeeps
  <2> QED
    BY <1>3, <1>5, <2>6
<1> QED
  BY <1>4, <1>5

(* accept() takes the first connection from the queue.                     *)
LEMMA TakeKeeps ==
  ASSUME NEW k \in State, NEW ins, Booked(k, ins, {}), NEW l \in Slot, k.sock[l].in_use, k.sock[l].has_fd,
         k.sock[l].pend # <<>>, NEW r, r = [k EXCEPT !.sock[l].pend = Tail(@)]
  PROVE  Stays(k, ins, {Head(k.sock[l].pend)}, r) /\ Beside(k, r, l) /\ r.sock[l].pool = k.sock[l].pool
<1> DEFINE p == k.sock[l].pend
<1>1. p \in Seq(Slot) /\ p # <<>> /\ Len(p) \in Nat
  BY LensTyped
<1>2. PICK z : z = Tail(p)
  OBVIOUS
<1>3. z \in Seq(Slot) /\ Len(z) = Len(p) - 1 /\ (\A i \in 1..Len(z) : z[i] = p[i + 1]) /\ 1 \in 0..Len(p)
  BY <1>1, <1>2
<1>4. {p[i] : i \in 1..1} = {Head(p)}
  BY <1>1
<1> HIDE DEF p
<1>5. k.sock[l] \in SockRec
  BY DEF State
<1>6. PICK me : me = [k.sock[l] EXCEPT !.pend = z]
  OBVIOUS
<1>7. /\ me \in SockRec /\ me.in_use = k.sock[l].in_use /\ me.has_fd = k.sock[l].has_fd /\ me.users = k.sock[l].users
      /\ me.zombie = k.sock[l].zombie /\ me.hw = k.sock[l].hw /\ me.pool = k.sock[l].pool
  BY <1>3, <1>5, <1>6 DEF SockRec
<1>8. r = Put(k, l, me)
  BY <1>2, <1>6 DEF Put, p
<1>9. Puts(k, l, me, r)
  BY <1>7, <1>8, PutIs
<1>10. r \in State /\ r.chip = k.chip /\ r.sock[l] = me /\ \A o \in Slot : o # l => r.sock[o] = k.sock[o]
  BY <1>9 DEF Puts
<1>11. Booked(r, ins, {} \cup {k.sock[l].pend[i] : i \in 1..1})
  <2>1. r.sock = [k.sock EXCEPT ![l] = [k.sock[l] EXCEPT !.pend = z]]
    BY <1>6, <1>9 DEF Puts
  <2>2. Dropped(k, r, l, 1, z)
    BY <1>3, <2>1 DEF Dropped, p
  <2> QED
    BY <1>10, <2>2, DropBooked
<1>12. {} \cup {k.sock[l].pend[i] : i \in 1..1} = {Head(k.sock[l].pend)}
  BY <1>4 DEF p
<1>13. Less(k, r)
  BY <1>7, <1>10 DEF Less
<1>14. Beside(k, r, l)
  BY <1>7, <1>10, FreeOpen DEF Beside
<1> QED
  BY <1>7, <1>10, <1>11, <1>12, <1>13, <1>14, LessOwned DEF Stays

-----------------------------------------------------------------------------
(* A call of t in s *)

(* The threads in the sockets while t is in s.                             *)
With(t, s) == [r \in Slot |-> IF r = s THEN Inside(s) \cup {t} ELSE Inside(r) \ {t}]
(* No slot is closed that was not.                                         *)
Spared(k) == \A o \in Slot : k.sock[o].zombie => sock[o].zombie
(* k is as it should be, but that t may have filled a pool of s.           *)
Sound(k, t, s) ==
  /\ k \in State /\ Booked(k, With(t, s), {}) /\ (~listenerDied => Owned(k)) /\ Spared(k)
  /\ \A u \in Caller \ {t} :
       calls[u].op = "accept" /\ k.sock[calls[u].s].zombie => k.sock[calls[u].s].pool = <<>>
Alone(t, s) == \A u \in Caller \ {t} : ~(calls[u].op = "accept" /\ calls[u].s = s)
(* The call c of t ends, or waits on, in such a state.                     *)
Goes(t, c) ==
  \E r : /\ Sound(r, t, c.s)
         /\ \/ Returns(t, c, r)
            \/ \E d \in CallRec : /\ d.s = c.s /\ (d.op = "accept" => ~r.sock[c.s].zombie)
                                  /\ Waits(t, d, r)

LEMMA AcceptSlot ==
  ASSUME ToeTyped, NEW u \in Caller, calls[u].op = "accept"
  PROVE  calls[u].s \in Slot
<1>1. calls[u] \in {NoCall} \cup CallRec
  BY DEF ToeTyped
<1>2. calls[u] # NoCall
  BY DEF NoCall
<1> QED
  BY <1>1, <1>2 DEF CallRec

LEMMA SoundThrough ==
  ASSUME ToeTyped, NEW k, NEW t, NEW s, Sound(k, t, s), NEW r, Stays(k, With(t, s), {}, r), Unfilled(k, r, s),
         r.sock[s].zombie => k.sock[s].zombie /\ (r.sock[s].pool = <<>> \/ Alone(t, s))
  PROVE  Sound(r, t, s)
<1>1. r \in State /\ Booked(r, With(t, s), {}) /\ (~listenerDied => Owned(r))
  BY DEF Sound, Stays
<1>2. Spared(r)
  BY DEF Sound, Spared, Unfilled
<1>3. ASSUME NEW u \in Caller \ {t}, calls[u].op = "accept", r.sock[calls[u].s].zombie
      PROVE  r.sock[calls[u].s].pool = <<>>
  <2>1. calls[u].s \in Slot
    BY <1>3, AcceptSlot
  <2>2. calls[u].s # s \/ r.sock[s].pool = <<>>
    BY <1>3 DEF Alone
  <2>3. k.sock[calls[u].s].zombie => k.sock[calls[u].s].pool = <<>>
    BY <1>3 DEF Sound
  <2> QED
    BY <1>3, <2>1, <2>2, <2>3 DEF Unfilled
<1> QED
  BY <1>1, <1>2, <1>3 DEF Sound

LEMMA SoundBare ==
  ASSUME ToeTyped, NEW k, NEW t, NEW s, Sound(k, t, s), NEW r, Stays(k, With(t, s), {}, r),
         \A o \in Slot : r.sock[o].zombie => k.sock[o].zombie /\ r.sock[o].pool = k.sock[o].pool
  PROVE  Sound(r, t, s)
<1>1. r \in State /\ Booked(r, With(t, s), {}) /\ (~listenerDied => Owned(r))
  BY DEF Sound, Stays
<1>2. Spared(r)
  BY DEF Sound, Spared
<1>3. ASSUME NEW u \in Caller \ {t}, calls[u].op = "accept", r.sock[calls[u].s].zombie
      PROVE  r.sock[calls[u].s].pool = <<>>
  <2>1. calls[u].s \in Slot
    BY <1>3, AcceptSlot
  <2>2. k.sock[calls[u].s].zombie => k.sock[calls[u].s].pool = <<>>
    BY <1>3 DEF Sound
  <2> QED
    BY <1>3, <2>1, <2>2
<1> QED
  BY <1>1, <1>2, <1>3 DEF Sound

LEMMA SoundReturns ==
  ASSUME NEW t, NEW c, NEW r, Sound(r, t, c.s), Returns(t, c, r)
  PROVE  Goes(t, c)
BY DEF Goes

LEMMA SoundWaits ==
  ASSUME NEW t, NEW c, NEW r, Sound(r, t, c.s), NEW d \in CallRec, d.s = c.s,
         d.op = "accept" => ~r.sock[c.s].zombie, Waits(t, d, r)
  PROVE  Goes(t, c)
BY DEF Goes

(* accept(): its looks keep the tables.                                    *)
LEMMA AcceptGoes ==
  ASSUME ToeTyped, NEW t, NEW c \in CallRec, NEW k, Sound(k, t, c.s), k.sock[c.s].in_use, k.sock[c.s].has_fd,
         k.sock[c.s].zombie => k.sock[c.s].pool = <<>> /\ Alone(t, c.s),
         NEW late, NEW fds, AcceptLooks(t, c, k, late, fds)
  PROVE  Goes(t, c)
<1>1. PICK l : l = c.s
  OBVIOUS
<1>2. PICK ins : ins = With(t, l)
  OBVIOUS
<1>3. l \in Slot /\ k \in State /\ Booked(k, ins, {}) /\ Sound(k, t, l) /\ k.sock[l].in_use /\ k.sock[l].has_fd
  BY <1>1, <1>2 DEF CallRec, Sound
<1>4. PICK a : a = Reap(k, l)
  OBVIOUS
<1>5. Stays(k, ins, {}, a) /\ Unfilled(k, a, l) /\ Steady(k, a, l) /\ a.sock[l].pool = k.sock[l].pool
  BY <1>3, <1>4, ReapKeeps
<1>6. a \in State /\ Booked(a, ins, {}) /\ a.sock[l].in_use /\ a.sock[l].has_fd /\ a.sock[l].zombie = k.sock[l].zombie
  BY <1>3, <1>5 DEF Stays, Steady
<1>7. a.sock[l].zombie => a.sock[l].pool = <<>> /\ Alone(t, l)
  BY <1>1, <1>5, <1>6
<1>8. CASE Returns(t, c, k)
  BY <1>8, SoundReturns
<1>9. CASE a.sock[l].pend = <<>> /\ ~Returns(t, c, k)
  <2>1. PICK b : b = PromoteFirst(a, l)
    OBVIOUS
  <2>2. Stays(a, ins, {}, b) /\ Beside(a, b, l)
    BY <1>3, <1>6, <1>7, <2>1, PromoteFirstKeeps
  <2>3. b \in State /\ Booked(b, ins, {}) /\ b.sock[l].in_use /\ b.sock[l].has_fd /\ b.sock[l].zombie = a.sock[l].zombie
    BY <1>6, <2>2 DEF Stays, Beside
  <2>4. PICK r : r = ListenerFill(b, l)
    OBVIOUS
  <2>5. Stays(b, ins, {}, r) /\ Beside(b, r, l)
    BY <1>3, <2>3, <2>4, FillKeeps
  <2>6. r.sock[l].zombie = k.sock[l].zombie
    BY <1>6, <2>3, <2>5 DEF Beside
  <2>7. Unfilled(k, r, l)
    BY <1>5, <2>2, <2>5, BesideUnfilled, UnfilledThrough
  <2>8. Stays(k, ins, {}, r)
    BY <1>5, <2>2, <2>5, KeptThrough
  <2>9. Sound(r, t, l)
    BY <1>1, <1>2, <1>3, <2>6, <2>7, <2>8, SoundThrough
  <2>10. IF k.sock[l].zombie THEN Returns(t, c, r) ELSE Waits(t, c, r)
    BY <1>1, <1>4, <1>9, <2>1, <2>4 DEF AcceptLooks
  <2> QED
    BY <1>1, <2>6, <2>9, <2>10, SoundReturns, SoundWaits
<1>10. CASE a.sock[l].pend # <<>> /\ ~Returns(t, c, k)
  <2>1. ~a.sock[l].zombie /\ ~k.sock[l].zombie
    BY <1>3, <1>6, <1>10 DEF Booked, ZombieBare
  <2>2. PICK cs : cs = Head(a.sock[l].pend)
    OBVIOUS
  <2>3. PICK m : m = [a EXCEPT !.sock[l].pend = Tail(@)]
    OBVIOUS
  <2>4. Stays(a, ins, {cs}, m) /\ Beside(a, m, l) /\ m.sock[l].pool = a.sock[l].pool
    BY <1>3, <1>6, <1>10, <2>2, <2>3, TakeKeeps
  <2>5. m \in State /\ Booked(m, ins, {cs}) /\ m.sock[l].in_use /\ m.sock[l].has_fd /\ ~m.sock[l].zombie
    BY <1>6, <2>1, <2>4 DEF Stays, Beside
  <2>6. PICK b : b = PromoteFirst(m, l)
    OBVIOUS
  <2>7. Stays(m, ins, {cs}, b) /\ Beside(m, b, l)
    BY <1>3, <2>5, <2>6, PromoteFirstKeeps
  <2>8. b \in State /\ Booked(b, ins, {cs}) /\ ~b.sock[l].zombie
    BY <2>5, <2>7 DEF Stays, Beside
  <2>9. Unfilled(k, b, l)
    BY <1>5, <2>4, <2>7, BesideUnfilled, UnfilledThrough
  <2>10. \/ Returns(t, c, [b EXCEPT !.sock[cs].has_fd = TRUE])
         \/ Returns(t, c, [HwClose(b, {b.sock[cs].hw}) EXCEPT !.sock[cs] = FreeSlot])
    BY <1>1, <1>4, <1>10, <2>1, <2>2, <2>3, <2>6 DEF AcceptLooks
  <2>11. PICK r : /\ Stays(b, ins, {}, r) /\ \A o : Unfilled(b, r, o)
                  /\ Returns(t, c, r)
    <3>1. CASE Returns(t, c, [b EXCEPT !.sock[cs].has_fd = TRUE])
      <4>1. PICK r : r = [b EXCEPT !.sock[cs].has_fd = TRUE]
        OBVIOUS
      <4>2. Stays(b, ins, {}, r) /\ \A o : Unfilled(b, r, o)
        BY <2>8, <4>1, GiveKeeps
      <4> QED
        BY <3>1, <4>1, <4>2
    <3>2. CASE Returns(t, c, [HwClose(b, {b.sock[cs].hw}) EXCEPT !.sock[cs] = FreeSlot])
      <4>1. PICK r : r = [HwClose(b, {b.sock[cs].hw}) EXCEPT !.sock[cs] = FreeSlot]
        OBVIOUS
      <4>2. Stays(b, ins, {}, r) /\ \A o : Unfilled(b, r, o)
        BY <2>8, <4>1, LoseKeeps
      <4> QED
        BY <3>2, <4>1, <4>2
    <3> QED
      BY <2>10, <3>1, <3>2
  <2>12. Stays(k, ins, {}, r)
    BY <1>5, <2>4, <2>7, <2>11, KeptThrough
  <2>13. Unfilled(k, r, l)
    BY <2>9, <2>11, UnfilledThrough
  <2>14. ~r.sock[l].zombie
    <3>1. Unfilled(b, r, NoHw) /\ l \in Slot \ {NoHw}
      BY <1>3, <2>11, Numbered DEF NoHw
    <3> QED
      BY <2>8, <3>1 DEF Unfilled
  <2>15. Sound(r, t, l)
    BY <1>2, <1>3, <2>12, <2>13, <2>14, SoundThrough
  <2> QED
    BY <1>1, <2>11, <2>15, SoundReturns
<1> QED
  BY <1>8, <1>9, <1>10

LEMMA SoundBeside ==
  ASSUME ToeTyped, NEW k, NEW t, NEW s \in Slot, Sound(k, t, s), Held(k, s), NEW r,
         Stays(k, With(t, s), {}, r), Beside(k, r, s)
  PROVE  Sound(r, t, s) /\ Held(r, s)
<1>1. Unfilled(k, r, s)
  BY BesideUnfilled
<1>2. Held(r, s)
  BY DEF Beside, Held
<1> QED
  BY <1>1, <1>2, SoundThrough DEF Held

(* A byte is read, or room is taken: nothing else changes.                 *)
LEMMA SoundChip ==
  ASSUME ToeTyped, NEW k, NEW t, NEW s, Sound(k, t, s), NEW h \in Hw,
         NEW r, r = [k EXCEPT !.chip[h].room = FALSE] \/ r = [k EXCEPT !.chip[h].rx = 0]
  PROVE  Sound(r, t, s)
<1>1. k \in State /\ Booked(k, With(t, s), {})
  BY DEF Sound
<1>2. Stays(k, With(t, s), {}, r) /\ r.sock = k.sock
  BY <1>1, ChipKeeps
<1> QED
  BY <1>2, SoundBare

LEMMA GoesAs ==
  ASSUME NEW t, NEW c, NEW d, d.s = c.s, Goes(t, d)
  PROVE  Goes(t, c)
BY DEF Goes, Returns

(* d is the call c further on.                                             *)
Further(c, d) == d \in CallRec /\ d.s = c.s /\ d.op = c.op

LEMMA CallIs ==
  ASSUME NEW c \in CallRec
  PROVE  /\ c.s \in Slot /\ Further(c, [c EXCEPT !.polls = TRUE])
         /\ Further(c, [c EXCEPT !.left = @ - 1]) /\ Further(c, [c EXCEPT !.left = @ - 1, !.polls = TRUE])
<1>1. c.s \in Slot /\ c.left - 1 \in Int
  BY DEF CallRec
<1>2. PICK n \in Int : n = c.left - 1
  BY <1>1
<1>3. Further(c, [c EXCEPT !.polls = TRUE])
  BY DEF Further, CallRec
<1>4. Further(c, [c EXCEPT !.left = n])
  BY <1>2 DEF Further, CallRec
<1>5. Further(c, [c EXCEPT !.left = n, !.polls = TRUE])
  BY <1>2 DEF Further, CallRec
<1> QED
  BY <1>1, <1>2, <1>3, <1>4, <1>5

LEMMA PollsIs ==
  ASSUME NEW c \in CallRec, NEW polls \in BOOLEAN, NEW d, d = [c EXCEPT !.polls = polls]
  PROVE  Further(c, d)
BY DEF Further, CallRec

-----------------------------------------------------------------------------
(* connect() *)

LEMMA ConnectStartsGoes ==
  ASSUME ToeTyped, NEW t, NEW c \in CallRec, c.op = "connect", NEW k, Sound(k, t, c.s), Held(k, c.s),
         ConnectStarts(t, c, k)
  PROVE  Goes(t, c)
<1>1. PICK s \in Slot : s = c.s
  BY DEF CallRec
<1>2. k \in State /\ Booked(k, With(t, s), {}) /\ k.sock[s].in_use /\ k.sock[s].has_fd
  BY <1>1 DEF Sound, Held
<1>3. CASE Returns(t, c, k)
  BY <1>3, SoundReturns
<1>4. CASE ~Returns(t, c, k)
  <2>1. PICK h : h = HwAlloc(k)
    OBVIOUS
  <2>2. h # NoHw /\ Waits(t, c, [HwOpen(k, h, "synsent") EXCEPT !.sock[s].hw = h])
    BY <1>1, <1>4, <2>1 DEF ConnectStarts
  <2>3. h \in HwFree(k) /\ h \in Hw
    BY <1>2, <2>1, <2>2, HwAllocIs
  <2>4. PICK r : r = [HwOpen(k, h, "synsent") EXCEPT !.sock[s].hw = h]
    OBVIOUS
  <2>5. "synsent" \in SrState
    BY DEF SrState
  <2>6. Stays(k, With(t, s), {}, r) /\ Beside(k, r, s)
    BY <1>2, <2>3, <2>4, <2>5, HwGivenKeeps
  <2>7. Sound(r, t, s) /\ Held(r, s)
    BY <1>1, <2>6, SoundBeside
  <2> QED
    BY <1>1, <2>2, <2>4, <2>7, SoundWaits DEF Held
<1> QED
  BY <1>3, <1>4

LEMMA ConnectGoes ==
  ASSUME ToeTyped, NEW t, NEW c \in CallRec, c.op = "connect", Sound(Now, t, c.s), sock[c.s].in_use, sock[c.s].has_fd,
         NEW late, ConnectLooks(t, c, late)
  PROVE  Goes(t, c)
<1>1. PICK s \in Slot : s = c.s
  BY DEF CallRec
<1>2. PICK k : k = Now
  OBVIOUS
<1>3. k \in State /\ Booked(k, With(t, s), {}) /\ k.sock[s].in_use /\ k.sock[s].has_fd /\ k.sock = sock
  BY <1>1, <1>2 DEF Sound, Now
<1>4. PICK r : r = [k EXCEPT !.sock[s].hw = NoHw]
  OBVIOUS
<1>5. Returns(t, c, k) \/ Waits(t, c, k) \/ Returns(t, c, r)
  BY <1>1, <1>2, <1>4 DEF ConnectLooks
<1>6. Sound(r, t, s)
  <2>1. Stays(k, With(t, s), {}, r) /\ Beside(k, r, s) /\ r.sock[s].pool = k.sock[s].pool
    BY <1>1, <1>3, <1>4, NoHwKeeps
  <2>2. r.sock[s].zombie = k.sock[s].zombie /\ r.sock[s].pool = k.sock[s].pool
    BY <2>1 DEF Beside
  <2>3. \A o \in Slot : r.sock[o].zombie => k.sock[o].zombie /\ r.sock[o].pool = k.sock[o].pool
    BY <2>1, <2>2 DEF Beside
  <2> QED
    BY <1>1, <1>2, <2>1, <2>3, SoundBare
<1> QED
  BY <1>1, <1>2, <1>5, <1>6, SoundReturns, SoundWaits

-----------------------------------------------------------------------------
(* send() *)

LEMMA ChunkGoes ==
  ASSUME ToeTyped, NEW t, NEW c \in CallRec, c.op = "send", NEW k, Sound(k, t, c.s), NextChunk(t, c, k)
  PROVE  Goes(t, c)
<1>1. PICK h \in Hw : h = RegHw(k.sock[c.s].hw)
  <2>1. c.s \in Slot /\ k \in State
    BY DEF CallRec, Sound
  <2>2. k.sock[c.s].hw \in Hw \cup {NoHw}
    BY <2>1 DEF State, SockRec
  <2> QED
    BY <2>2, RegHwIs
<1>2. PICK r : r = [k EXCEPT !.chip[h].room = FALSE]
  OBVIOUS
<1>3. Sound(r, t, c.s)
  BY <1>2, SoundChip
<1>4. PICK d \in CallRec : d = [c EXCEPT !.polls = TRUE] /\ d.s = c.s /\ d.op = "send"
  BY CallIs DEF Further
<1>5. PICK e \in CallRec : e = [c EXCEPT !.left = @ - 1, !.polls = TRUE] /\ e.s = c.s /\ e.op = "send"
  BY CallIs DEF Further
<1>6. Returns(t, c, k) \/ Waits(t, d, k) \/ Returns(t, c, r) \/ Waits(t, e, r)
  BY <1>1, <1>2, <1>4, <1>5 DEF NextChunk
<1> QED
  BY <1>3, <1>4, <1>5, <1>6, SoundReturns, SoundWaits

LEMMA SendStartsGoes ==
  ASSUME ToeTyped, NEW t, NEW c \in CallRec, c.op = "send", NEW k, Sound(k, t, c.s), Held(k, c.s), SendStarts(t, c, k)
  PROVE  Goes(t, c)
<1>1. PICK s \in Slot : s = c.s
  BY DEF CallRec
<1>2. k \in State /\ Booked(k, With(t, s), {}) /\ k.sock[s].in_use /\ k.sock[s].has_fd
  BY <1>1 DEF Sound, Held
<1>3. PICK u : u = OpenUdp(k, s)
  OBVIOUS
<1>4. Sound(u, t, s)
  <2>1. Stays(k, With(t, s), {}, u) /\ Beside(k, u, s)
    BY <1>2, <1>3, OpenUdpKeeps
  <2> QED
    BY <1>1, <2>1, SoundBeside
<1>5. Returns(t, c, k) \/ Returns(t, c, u) \/ NextChunk(t, c, k) \/ NextChunk(t, c, u)
  BY <1>1, <1>3 DEF SendStarts
<1> QED
  BY <1>1, <1>4, <1>5, SoundReturns, ChunkGoes

LEMMA SendGoes ==
  ASSUME ToeTyped, NEW t, NEW c \in CallRec, c.op = "send", Sound(Now, t, c.s), NEW late, SendLooks(t, c, late)
  PROVE  Goes(t, c)
<1>1. PICK k : k = Now
  OBVIOUS
<1>2. k \in State /\ k.sock = sock /\ Sound(k, t, c.s) /\ c.s \in Slot
  BY <1>1 DEF Sound, Now, CallRec
<1>3. PICK h \in Hw : h = RegHw(sock[c.s].hw)
  <2>1. k.sock[c.s].hw \in Hw \cup {NoHw}
    BY <1>2 DEF State, SockRec
  <2> QED
    BY <1>2, <2>1, RegHwIs
<1>4. PICK r : r = [k EXCEPT !.chip[h].room = FALSE]
  OBVIOUS
<1>5. Sound(r, t, c.s)
  BY <1>2, <1>4, SoundChip
<1>6. PICK d \in CallRec : d = [c EXCEPT !.left = @ - 1] /\ d.s = c.s /\ d.op = "send"
  BY CallIs DEF Further
<1>7. \/ Returns(t, c, k) \/ Returns(t, c, r) \/ NextChunk(t, d, r)
      \/ \E polls \in {c.polls, FALSE} : Waits(t, [c EXCEPT !.polls = polls], k)
  BY <1>1, <1>3, <1>4, <1>6 DEF SendLooks
<1>8. CASE NextChunk(t, d, r)
  <2>1. Goes(t, d)
    BY <1>5, <1>6, <1>8, ChunkGoes
  <2> QED
    BY <1>6, <2>1, GoesAs
<1>9. CASE \E polls \in {c.polls, FALSE} : Waits(t, [c EXCEPT !.polls = polls], k)
  <2>1. PICK polls \in {c.polls, FALSE} : Waits(t, [c EXCEPT !.polls = polls], k)
    BY <1>9
  <2>2. polls \in BOOLEAN
    BY DEF CallRec
  <2>3. PICK e : e = [c EXCEPT !.polls = polls]
    OBVIOUS
  <2>4. Further(c, e)
    BY <2>2, <2>3, PollsIs
  <2>5. e \in CallRec /\ e.s = c.s /\ e.op = "send"
    BY <2>4 DEF Further
  <2> QED
    BY <1>2, <2>1, <2>3, <2>5, SoundWaits
<1> QED
  BY <1>2, <1>5, <1>7, <1>8, <1>9, SoundReturns

-----------------------------------------------------------------------------
(* recv() *)

LEMMA RecvGoes ==
  ASSUME ToeTyped, NEW t, NEW c \in CallRec, c.op = "recv", NEW k, Sound(k, t, c.s),
         RecvTakes(t, c, k) \/ Returns(t, c, k)
  PROVE  Goes(t, c)
<1>1. PICK h \in Hw : h = RegHw(k.sock[c.s].hw)
  <2>1. c.s \in Slot /\ k \in State
    BY DEF CallRec, Sound
  <2>2. k.sock[c.s].hw \in Hw \cup {NoHw}
    BY <2>1 DEF State, SockRec
  <2> QED
    BY <2>2, RegHwIs
<1>2. PICK r : r = [k EXCEPT !.chip[h].rx = 0]
  OBVIOUS
<1>3. Sound(r, t, c.s)
  BY <1>2, SoundChip
<1>4. Returns(t, c, k) \/ Waits(t, c, k) \/ Returns(t, c, r)
  BY <1>1, <1>2 DEF RecvTakes
<1> QED
  BY <1>3, <1>4, SoundReturns, SoundWaits

LEMMA NowIs ==
  ASSUME ToeTyped
  PROVE  Now \in State /\ Now.sock = sock /\ Now.chip = chip /\ Now.hw_fail = hw_fail
BY DEF Now, ToeTyped, State

LEMMA BecomesIs ==
  ASSUME NEW k \in State, Becomes(k)
  PROVE  /\ Now' = k /\ sock' = k.sock /\ chip' = k.chip /\ hw_fail' = k.hw_fail
         /\ sock' \in [Slot -> SockRec] /\ chip' \in [Hw -> ChipRec] /\ hw_fail' \in [Hw -> Int]
BY DEF Now, Becomes, State

(* No slot is closed, and no call of accept() starts in a closed one.      *)
Orderly ==
  /\ \A o \in Slot : sock'[o].zombie => sock[o].zombie
  /\ \A u \in Caller : calls'[u].op = "accept" =>
       (calls[u].op = "accept" /\ calls[u].s = calls'[u].s) \/ ~sock'[calls'[u].s].zombie

LEMMA ReturnsInv ==
  ASSUME ToeInv, NEW t \in Caller, NEW c \in CallRec, NEW k, Sound(k, t, c.s), Returns(t, c, k), AppOnly
  PROVE  ToeInv' /\ Orderly
<1>1. PICK s \in Slot : s = c.s
  BY DEF CallRec
<1>2. PICK r : r = Release(k, s)
  OBVIOUS
<1>3. k \in State /\ Booked(k, With(t, s), {}) /\ (~listenerDied => Owned(k)) /\ ToeTyped
  BY <1>1 DEF Sound, ToeInv
<1>4. Becomes(r) /\ calls' = [calls EXCEPT ![t] = NoCall]
  BY <1>1, <1>2 DEF Returns
<1>5. calls \in [Caller -> {NoCall} \cup CallRec]
  BY <1>3 DEF ToeTyped
<1>6. PICK new : new = Insides'
  OBVIOUS
<1>7. \A o \in Slot : new[o] = Inside(o) \ {t}
  <2> SUFFICES ASSUME NEW o \in Slot PROVE new[o] = Inside(o) \ {t}
    OBVIOUS
  <2>1. new[o] = {u \in Caller : calls'[u] # NoCall /\ calls'[u].s = o}
    BY <1>6 DEF Insides, Inside
  <2>2. \A u \in Caller : calls'[u] = IF u = t THEN NoCall ELSE calls[u]
    BY <1>4, <1>5
  <2> QED
    BY <2>1, <2>2 DEF Inside
<1>8. t \in With(t, s)[s] /\ Recounted(With(t, s), new, s, With(t, s)[s] \ {t})
  <2>1. With(t, s)[s] = Inside(s) \cup {t} /\ \A o \in Slot : o # s => With(t, s)[o] = Inside(o) \ {t}
    BY <1>1 DEF With
  <2>2. (Inside(s) \cup {t}) \ {t} = Inside(s) \ {t}
    OBVIOUS
  <2> QED
    BY <1>1, <1>7, <2>1, <2>2 DEF Recounted
<1>9. /\ r \in State /\ Booked(r, new, {}) /\ (Owned(k) => Owned(r))
      /\ \A o \in Slot : r.sock[o].zombie => k.sock[o].zombie /\ r.sock[o].pool = k.sock[o].pool
  BY <1>1, <1>2, <1>3, <1>8, ReleaseKeeps
<1>10. Now' = r /\ sock' = r.sock
  BY <1>4, <1>9, BecomesIs
<1>11. ToeTyped'
  <2>1. calls' \in [Caller -> {NoCall} \cup CallRec]
    BY <1>4, <1>5
  <2>2. sock' \in [Slot -> SockRec] /\ chip' \in [Hw -> ChipRec] /\ hw_fail' \in [Hw -> Int]
    BY <1>4, <1>9, BecomesIs
  <2> QED
    BY <1>3, <2>1, <2>2 DEF ToeTyped, AppOnly
<1>12. Booked(Now, Insides, {})'
  BY <1>6, <1>9, <1>10
<1>13. ZombieUnfilled'
  <2> SUFFICES ASSUME NEW u \in Caller, calls'[u].op = "accept", sock'[calls'[u].s].zombie
               PROVE  sock'[calls'[u].s].pool = <<>>
    BY DEF ZombieUnfilled
  <2>1. u # t /\ calls'[u] = calls[u]
    BY <1>4, <1>5 DEF NoCall
  <2>2. calls[u].s \in Slot
    BY <1>3, <2>1, AcceptSlot
  <2>3. k.sock[calls[u].s].zombie => k.sock[calls[u].s].pool = <<>>
    BY <2>1 DEF Sound
  <2> QED
    BY <1>9, <1>10, <2>1, <2>2, <2>3
<1>14. ~listenerDied' => Owned(Now)'
  BY <1>3, <1>9, <1>10 DEF AppOnly
<1>15. Orderly
  <2>1. \A o \in Slot : sock'[o].zombie => sock[o].zombie
    BY <1>9, <1>10 DEF Sound, Spared
  <2>2. \A u \in Caller : calls'[u].op = "accept" => calls'[u] = calls[u]
    BY <1>4, <1>5 DEF NoCall
  <2> QED
    BY <2>1, <2>2 DEF Orderly
<1> QED
  BY <1>11, <1>12, <1>13, <1>14, <1>15 DEF ToeInv

LEMMA WaitsInv ==
  ASSUME ToeInv, NEW t \in Caller, NEW d \in CallRec, NEW k, Sound(k, t, d.s),
         d.op = "accept" => ~k.sock[d.s].zombie, Waits(t, d, k), AppOnly
  PROVE  ToeInv' /\ Orderly
<1>1. PICK s \in Slot : s = d.s
  BY DEF CallRec
<1>2. k \in State /\ Booked(k, With(t, s), {}) /\ (~listenerDied => Owned(k)) /\ ToeTyped
  BY <1>1 DEF Sound, ToeInv
<1>3. Becomes(k) /\ calls' = [calls EXCEPT ![t] = d]
  BY DEF Waits
<1>4. calls \in [Caller -> {NoCall} \cup CallRec] /\ d # NoCall
  BY <1>2 DEF ToeTyped, CallRec, NoCall
<1>5. Insides' = With(t, s)
  <2>1. \A u \in Caller : calls'[u] = IF u = t THEN d ELSE calls[u]
    BY <1>3, <1>4
  <2>2. ASSUME NEW o \in Slot
        PROVE  {u \in Caller : calls'[u] # NoCall /\ calls'[u].s = o}
                 = IF o = s THEN Inside(s) \cup {t} ELSE Inside(o) \ {t}
    BY <1>1, <1>4, <2>1 DEF Inside
  <2> QED
    BY <2>2 DEF Insides, Inside, With
<1>6. Now' = k /\ sock' = k.sock
  BY <1>2, <1>3, BecomesIs
<1>7. ToeTyped'
  <2>1. calls' \in [Caller -> {NoCall} \cup CallRec]
    BY <1>3, <1>4
  <2>2. sock' \in [Slot -> SockRec] /\ chip' \in [Hw -> ChipRec] /\ hw_fail' \in [Hw -> Int]
    BY <1>2, <1>3, BecomesIs
  <2> QED
    BY <1>2, <2>1, <2>2 DEF ToeTyped, AppOnly
<1>8. Booked(Now, Insides, {})'
  BY <1>2, <1>5, <1>6
<1>9. ZombieUnfilled'
  <2> SUFFICES ASSUME NEW u \in Caller, calls'[u].op = "accept", sock'[calls'[u].s].zombie
               PROVE  sock'[calls'[u].s].pool = <<>>
    BY DEF ZombieUnfilled
  <2>1. u # t /\ calls'[u] = calls[u]
    BY <1>3, <1>4, <1>6
  <2> QED
    BY <1>6, <2>1 DEF Sound
<1>10. ~listenerDied' => Owned(Now)'
  BY <1>2, <1>6 DEF AppOnly
<1>11. Orderly
  <2>1. \A o \in Slot : sock'[o].zombie => sock[o].zombie
    BY <1>6 DEF Sound, Spared
  <2>2. \A u \in Caller : calls'[u].op = "accept" => calls'[u] = calls[u] \/ (u = t /\ ~sock'[calls'[u].s].zombie)
    BY <1>3, <1>4, <1>6
  <2> QED
    BY <2>1, <2>2 DEF Orderly
<1> QED
  BY <1>7, <1>8, <1>9, <1>10, <1>11 DEF ToeInv

LEMMA GoesInv ==
  ASSUME ToeInv, NEW t \in Caller, NEW c \in CallRec, Goes(t, c), AppOnly
  PROVE  ToeInv' /\ Orderly
<1>1. PICK r : /\ Sound(r, t, c.s)
               /\ \/ Returns(t, c, r)
                  \/ \E d \in CallRec : /\ d.s = c.s /\ (d.op = "accept" => ~r.sock[c.s].zombie)
                                        /\ Waits(t, d, r)
  BY DEF Goes
<1>2. CASE Returns(t, c, r)
  BY <1>1, <1>2, ReturnsInv
<1>3. ASSUME NEW d \in CallRec, d.s = c.s, d.op = "accept" => ~r.sock[c.s].zombie, Waits(t, d, r)
      PROVE  ToeInv' /\ Orderly
  BY <1>1, <1>3, WaitsInv
<1> QED
  BY <1>1, <1>2, <1>3

LEMMA StartSound ==
  ASSUME ToeInv, NEW t \in Caller, calls[t] = NoCall, NEW s \in Slot, Open(s),
         NEW k, k = [Now EXCEPT !.sock[s].users = @ + 1]
  PROVE  Sound(k, t, s) /\ Held(k, s)
<1>1. PICK now : now = Now
  OBVIOUS
<1>2. ToeTyped /\ Booked(now, Insides, {}) /\ ZombieUnfilled /\ (~listenerDied => Owned(now))
  BY <1>1 DEF ToeInv
<1>3. now \in State /\ now.sock = sock
  BY <1>1, <1>2, NowIs
<1>4. now.sock[s].in_use /\ now.sock[s].has_fd /\ ~now.sock[s].zombie
  BY <1>3 DEF Open
<1>5. t \notin Insides[s] /\ Recounted(Insides, With(t, s), s, Insides[s] \cup {t})
  BY DEF Insides, Inside, With, Recounted
<1>6. /\ k \in State /\ Booked(k, With(t, s), {}) /\ (Owned(now) => Owned(k))
      /\ \A o \in Slot : o # s => k.sock[o] = now.sock[o]
      /\ k.sock[s].in_use /\ k.sock[s].has_fd /\ ~k.sock[s].zombie
  <2>1. k = [now EXCEPT !.sock[s].users = @ + 1]
    BY <1>1
  <2>2. PICK ins : ins = Insides
    OBVIOUS
  <2>3. PICK new : new = With(t, s)
    OBVIOUS
  <2>4. Booked(now, ins, {}) /\ t \notin ins[s] /\ Recounted(ins, new, s, ins[s] \cup {t})
    BY <1>2, <1>5, <2>2, <2>3
  <2> QED
    BY <1>3, <1>4, <2>1, <2>3, <2>4, EnterKeeps
<1>7. Held(k, s)
  BY <1>6 DEF Held
<1>8. ASSUME NEW u \in Caller \ {t}, calls[u].op = "accept", k.sock[calls[u].s].zombie
      PROVE  k.sock[calls[u].s].pool = <<>>
  <2>1. calls[u].s \in Slot
    BY <1>2, <1>8, AcceptSlot
  <2>2. calls[u].s # s
    BY <1>7, <1>8 DEF Held
  <2>3. k.sock[calls[u].s] = sock[calls[u].s]
    BY <1>3, <1>6, <2>1, <2>2
  <2> QED
    BY <1>2, <1>8, <2>3 DEF ZombieUnfilled
<1>9. Spared(k)
  BY <1>3, <1>6 DEF Spared
<1> QED
  BY <1>2, <1>6, <1>7, <1>8, <1>9 DEF Sound

LEMMA AgainSound ==
  ASSUME ToeInv, OneInClosed, NEW t \in Caller, NEW c, c = calls[t], c # NoCall
  PROVE  /\ c \in CallRec /\ Sound(Now, t, c.s) /\ sock[c.s].in_use /\ sock[c.s].has_fd
         /\ c.op = "accept" => (sock[c.s].zombie => sock[c.s].pool = <<>> /\ Alone(t, c.s))
<1>1. PICK now : now = Now
  OBVIOUS
<1>2. ToeTyped /\ Booked(now, Insides, {}) /\ ZombieUnfilled /\ (~listenerDied => Owned(now))
  BY <1>1 DEF ToeInv
<1>3. now \in State /\ now.sock = sock
  BY <1>1, <1>2, NowIs
<1>4. c \in CallRec
  BY <1>2 DEF ToeTyped
<1>5. PICK s \in Slot : s = c.s
  BY <1>4 DEF CallRec
<1>6. t \in Insides[s]
  BY <1>5 DEF Insides, Inside
<1>7. now.sock[s].in_use /\ now.sock[s].has_fd
  BY <1>2, <1>5, <1>6 DEF Booked, Counted
<1>8. With(t, s) = Insides
  <2>1. ASSUME NEW o \in Slot
        PROVE  (IF o = s THEN Inside(s) \cup {t} ELSE Inside(o) \ {t}) = Inside(o)
    BY <1>5, <1>6 DEF Inside, Insides
  <2> QED
    BY <2>1 DEF With, Insides
<1>9. Sound(Now, t, s)
  <2>1. \A u \in Caller \ {t} :
          calls[u].op = "accept" /\ now.sock[calls[u].s].zombie => now.sock[calls[u].s].pool = <<>>
    BY <1>2, <1>3 DEF ZombieUnfilled
  <2>2. Sound(now, t, s)
    BY <1>2, <1>3, <1>8, <2>1 DEF Sound, Spared
  <2> QED
    BY <1>1, <2>2
<1>10. ASSUME c.op = "accept", sock[s].zombie
       PROVE  sock[s].pool = <<>> /\ Alone(t, s)
  <2>1. sock[s].pool = <<>>
    BY <1>2, <1>5, <1>10 DEF ZombieUnfilled
  <2>2. Alone(t, s)
    BY <1>5, <1>10 DEF Alone, OneInClosed
  <2> QED
    BY <2>1, <2>2
<1> QED
  BY <1>3, <1>4, <1>5, <1>7, <1>9, <1>10

LEMMA CallInv ==
  ASSUME ToeInv, NEW t \in Caller, Call(t)
  PROVE  ToeInv' /\ Orderly
<1>1. PICK op \in uses \cap {"connect", "accept", "send", "recv"}, s \in Slot, left \in {1, 2},
           finite \in (IF "timeout" \in uses THEN BOOLEAN ELSE {FALSE}), fds \in BOOLEAN :
        LET c == CallOf(op, s, finite, left)
            k == [Now EXCEPT !.sock[s].users = @ + 1] IN
        /\ Idle(t) /\ Open(s) /\ (sock[s].listening <=> op = "accept")
        /\ op # "send" => left = 1
        /\ op = "connect" => sock[s].type = "stream" /\ sock[s].hw = NoHw
        /\ CASE op = "connect" -> ConnectStarts(t, c, k)
             [] op = "accept" -> AcceptLooks(t, c, k, FALSE, fds)
             [] op = "send" -> SendStarts(t, c, k)
             [] op = "recv" -> RecvStarts(t, c, k)
        /\ AppOnly
  BY DEF Call
<1>2. PICK c : c = CallOf(op, s, finite, left)
  OBVIOUS
<1>3. PICK k : k = [Now EXCEPT !.sock[s].users = @ + 1]
  OBVIOUS
<1>4. c \in CallRec /\ c.s = s /\ c.op = op
  <2>1. op \in {"connect", "accept", "send", "recv"} /\ left \in Int
    BY <1>1
  <2>2. finite \in BOOLEAN
    BY <1>1
  <2> QED
    BY <1>1, <1>2, <2>1, <2>2 DEF CallOf, CallRec
<1>5. calls[t] = NoCall /\ Open(s) /\ AppOnly
  BY <1>1 DEF Idle
<1>6. Sound(k, t, s) /\ Held(k, s) /\ ToeTyped
  BY <1>1, <1>3, <1>5, StartSound DEF ToeInv
<1>7. CASE op = "connect"
  <2>1. ConnectStarts(t, c, k)
    BY <1>1, <1>2, <1>3, <1>7
  <2> QED
    BY <1>4, <1>5, <1>6, <1>7, <2>1, ConnectStartsGoes, GoesInv
<1>8. CASE op = "accept"
  <2>1. AcceptLooks(t, c, k, FALSE, fds)
    BY <1>1, <1>2, <1>3, <1>8
  <2>2. k.sock[s].in_use /\ k.sock[s].has_fd /\ ~k.sock[s].zombie
    BY <1>6 DEF Held
  <2>3. Goes(t, c)
    BY <1>4, <1>6, <1>8, <2>1, <2>2, AcceptGoes
  <2> QED
    BY <1>4, <1>5, <2>3, GoesInv
<1>9. CASE op = "send"
  <2>1. SendStarts(t, c, k)
    BY <1>1, <1>2, <1>3, <1>9
  <2> QED
    BY <1>4, <1>5, <1>6, <1>9, <2>1, SendStartsGoes, GoesInv
<1>10. CASE op = "recv"
  <2>1. RecvTakes(t, c, k) \/ Returns(t, c, k)
    BY <1>1, <1>2, <1>3, <1>10 DEF RecvStarts
  <2> QED
    BY <1>4, <1>5, <1>6, <1>10, <2>1, RecvGoes, GoesInv
<1> QED
  BY <1>1, <1>7, <1>8, <1>9, <1>10

LEMMA LooksInv ==
  ASSUME ToeInv, OneInClosed, NEW t \in Caller, LooksAgain(t)
  PROVE  ToeInv' /\ Orderly
<1>1. PICK late \in BOOLEAN, fds \in BOOLEAN :
        LET c == calls[t] IN
        /\ c # NoCall
        /\ CASE c.op = "connect" -> ConnectLooks(t, c, late)
             [] c.op = "accept" -> AcceptLooks(t, c, Now, late, fds)
             [] c.op = "send" -> SendLooks(t, c, late)
             [] c.op = "recv" -> RecvLooks(t, c, late)
        /\ AppOnly
  BY DEF LooksAgain
<1>2. PICK c : c = calls[t]
  OBVIOUS
<1>3. /\ c \in CallRec /\ Sound(Now, t, c.s) /\ sock[c.s].in_use /\ sock[c.s].has_fd
      /\ c.op = "accept" => (sock[c.s].zombie => sock[c.s].pool = <<>> /\ Alone(t, c.s))
  BY <1>1, <1>2, AgainSound
<1>4. ToeTyped /\ AppOnly /\ Now.sock = sock
  BY <1>1 DEF ToeInv, Now
<1>5. c.op \in {"connect", "accept", "send", "recv"}
  BY <1>3 DEF CallRec
<1>6. CASE c.op = "connect"
  <2>1. ConnectLooks(t, c, late)
    BY <1>1, <1>2, <1>6
  <2> QED
    BY <1>3, <1>4, <1>6, <2>1, ConnectGoes, GoesInv
<1>7. CASE c.op = "accept"
  <2>1. AcceptLooks(t, c, Now, late, fds)
    BY <1>1, <1>2, <1>7
  <2>2. PICK now : now = Now
    OBVIOUS
  <2>3. Goes(t, c)
    BY <1>3, <1>4, <1>7, <2>1, <2>2, AcceptGoes
  <2> QED
    BY <1>3, <1>4, <2>3, GoesInv
<1>8. CASE c.op = "send"
  <2>1. SendLooks(t, c, late)
    BY <1>1, <1>2, <1>8
  <2> QED
    BY <1>3, <1>4, <1>8, <2>1, SendGoes, GoesInv
<1>9. CASE c.op = "recv"
  <2>1. PICK now : now = Now
    OBVIOUS
  <2>2. RecvTakes(t, c, now) \/ Returns(t, c, now)
    BY <1>1, <1>2, <1>9, <2>1 DEF RecvLooks
  <2> QED
    BY <1>3, <1>4, <1>9, <2>1, <2>2, RecvGoes, GoesInv
<1> QED
  BY <1>5, <1>6, <1>7, <1>8, <1>9

(* If l is a slot and was closed, its pool is empty.                       *)
Bare(r, l) == l \in Slot /\ r.sock[l].zombie => r.sock[l].pool = <<>>

(* The tables change, and the calls do not.                                *)
LEMMA QuietInv ==
  ASSUME ToeInv, NEW k, k = Now, NEW ins, ins = Insides, NEW r, Stays(k, ins, {}, r),
         NEW l, Unfilled(k, r, l), Bare(r, l), Becomes(r), worker' \in Pass, UNCHANGED <<calls, peers, listenerDied>>
  PROVE  ToeInv'
<1>1. r \in State /\ Booked(r, ins, {}) /\ (Owned(k) => Owned(r)) /\ ToeTyped /\ ZombieUnfilled
  BY DEF Stays, ToeInv
<1>2. Now' = r /\ sock' = r.sock /\ Insides' = ins
  BY <1>1, BecomesIs DEF Insides, Inside
<1>3. ToeTyped'
  <2>1. sock' \in [Slot -> SockRec] /\ chip' \in [Hw -> ChipRec] /\ hw_fail' \in [Hw -> Int]
    BY <1>1, BecomesIs
  <2> QED
    BY <1>1, <2>1 DEF ToeTyped
<1>4. Booked(Now, Insides, {})'
  BY <1>1, <1>2
<1>5. ZombieUnfilled'
  <2> SUFFICES ASSUME NEW u \in Caller, calls[u].op = "accept", r.sock[calls[u].s].zombie
               PROVE  r.sock[calls[u].s].pool = <<>>
    BY <1>2 DEF ZombieUnfilled
  <2>1. calls[u].s \in Slot
    BY <1>1, AcceptSlot
  <2>2. k.sock[calls[u].s].zombie => k.sock[calls[u].s].pool = <<>>
    BY <1>1 DEF ZombieUnfilled, Now
  <2> QED
    BY <2>1, <2>2 DEF Unfilled, Bare
<1>6. ~listenerDied' => Owned(Now)'
  BY <1>1, <1>2 DEF ToeInv
<1> QED
  BY <1>3, <1>4, <1>5, <1>6 DEF ToeInv

LEMMA QuietOrderly ==
  ASSUME NEW k, k = Now, NEW r \in State, NEW l, Unfilled(k, r, l), l \in Slot => ~r.sock[l].zombie, Becomes(r),
         UNCHANGED calls
  PROVE  Orderly
<1>1. sock' = r.sock /\ k.sock = sock
  BY BecomesIs DEF Now
<1>2. \A o \in Slot : sock'[o].zombie => sock[o].zombie
  BY <1>1 DEF Unfilled
<1> QED
  BY <1>2 DEF Orderly

LEMMA InvIs ==
  ASSUME ToeInv, NEW k, k = Now, NEW ins, ins = Insides
  PROVE  k \in State /\ Booked(k, ins, {}) /\ k.sock = sock /\ k.chip = chip /\ worker \in Pass
BY NowIs DEF ToeInv, ToeTyped

LEMMA HeldIs ==
  ASSUME NEW k, k = Now, NEW s \in Slot, Open(s)
  PROVE  Held(k, s)
BY DEF Held, Open, Now

LEMMA NoSlot == NoHw \notin Slot /\ \A r : Bare(r, NoHw)
<1>1. NoHw \notin Slot
  BY Numbered DEF NoHw
<1> QED
  BY <1>1 DEF Bare

-----------------------------------------------------------------------------
(* The calls that do not wait *)

LEMMA CreateInv ==
  ASSUME ToeInv, NEW t, NEW type \in {"stream", "dgram"}, SocketCreate(t, type)
  PROVE  ToeInv' /\ Orderly
<1>1. PICK k : k = Now
  OBVIOUS
<1>2. PICK ins : ins = Insides
  OBVIOUS
<1>3. k \in State /\ Booked(k, ins, {}) /\ worker \in Pass
  BY <1>1, <1>2, InvIs
<1>4. PICK r : r = [k EXCEPT !.sock[SlotAlloc(k)] = [FreeSlot EXCEPT !.in_use = TRUE, !.has_fd = TRUE, !.type = type]]
  OBVIOUS
<1>5. FreeSlots(k) # {} /\ Becomes(r) /\ UNCHANGED calls /\ AppOnly
  BY <1>1, <1>4 DEF SocketCreate
<1>6. Stays(k, ins, {}, r) /\ \A l : Unfilled(k, r, l)
  BY <1>3, <1>4, <1>5, CreateKeeps
<1>7. ToeInv'
  BY <1>1, <1>2, <1>3, <1>5, <1>6, NoSlot, QuietInv DEF AppOnly
<1>8. Orderly
  BY <1>1, <1>2, <1>3, <1>5, <1>6, NoSlot, QuietOrderly DEF AppOnly, Stays
<1> QED
  BY <1>7, <1>8

LEMMA BindInv ==
  ASSUME ToeInv, NEW t, NEW s \in Slot, Bind(t, s)
  PROVE  ToeInv' /\ Orderly
<1>1. PICK k : k = Now
  OBVIOUS
<1>2. PICK ins : ins = Insides
  OBVIOUS
<1>3. k \in State /\ Booked(k, ins, {}) /\ k.sock = sock /\ worker \in Pass
  BY <1>1, <1>2, InvIs
<1>4. PICK m : m = [HwClose(k, {k.sock[s].hw}) EXCEPT !.sock[s].hw = NoHw]
  OBVIOUS
<1>5. Open(s) /\ Becomes(OpenUdp(m, s)) /\ UNCHANGED calls /\ AppOnly
  BY <1>1, <1>3, <1>4 DEF Bind
<1>6. Held(k, s)
  BY <1>1, <1>5, HeldIs
<1>7. Stays(k, ins, {}, OpenUdp(m, s)) /\ Unfilled(k, OpenUdp(m, s), s) /\ ~OpenUdp(m, s).sock[s].zombie
  BY <1>3, <1>4, <1>6, BindKeeps
<1>8. Bare(OpenUdp(m, s), s)
  BY <1>7 DEF Bare
<1>9. ToeInv'
  BY <1>1, <1>2, <1>3, <1>5, <1>7, <1>8, QuietInv DEF AppOnly
<1>10. Orderly
  BY <1>1, <1>2, <1>3, <1>5, <1>7, <1>8, QuietOrderly DEF AppOnly, Stays
<1> QED
  BY <1>9, <1>10

LEMMA ListenInv ==
  ASSUME ToeInv, NEW t, NEW s \in Slot, Listen(t, s)
  PROVE  ToeInv' /\ Orderly
<1>1. PICK k : k = Now
  OBVIOUS
<1>2. PICK ins : ins = Insides
  OBVIOUS
<1>3. k \in State /\ Booked(k, ins, {}) /\ worker \in Pass
  BY <1>1, <1>2, InvIs
<1>4. PICK m : m = [k EXCEPT !.sock[s].listening = TRUE]
  OBVIOUS
<1>5. Open(s) /\ Becomes(ListenerFill(m, s)) /\ UNCHANGED calls /\ AppOnly
  BY <1>1, <1>4 DEF Listen
<1>6. Held(k, s)
  BY <1>1, <1>5, HeldIs
<1>7. Stays(k, ins, {}, ListenerFill(m, s)) /\ Unfilled(k, ListenerFill(m, s), s) /\ ~ListenerFill(m, s).sock[s].zombie
  BY <1>3, <1>4, <1>6, ListenKeeps
<1>8. Bare(ListenerFill(m, s), s)
  BY <1>7 DEF Bare
<1>9. ToeInv'
  BY <1>1, <1>2, <1>3, <1>5, <1>7, <1>8, QuietInv DEF AppOnly
<1>10. Orderly
  BY <1>1, <1>2, <1>3, <1>5, <1>7, <1>8, QuietOrderly DEF AppOnly, Stays
<1> QED
  BY <1>9, <1>10

LEMMA CloseInv ==
  ASSUME ToeInv, NEW t, NEW s \in Slot, Close(t, s)
  PROVE  ToeInv'
<1>1. PICK k : k = Now
  OBVIOUS
<1>2. PICK ins : ins = Insides
  OBVIOUS
<1>3. k \in State /\ Booked(k, ins, {}) /\ worker \in Pass
  BY <1>1, <1>2, InvIs
<1>4. PICK r : r = Closing(k, s)
  OBVIOUS
<1>5. Open(s) /\ Becomes(r) /\ UNCHANGED calls /\ AppOnly
  BY <1>1, <1>4 DEF Close
<1>6. Held(k, s)
  BY <1>1, <1>5, HeldIs
<1>7. Stays(k, ins, {}, r) /\ Unfilled(k, r, s) /\ (r.sock[s].zombie => r.sock[s].pool = <<>>)
  BY <1>3, <1>4, <1>6, ClosingKeeps
<1>8. Bare(r, s)
  BY <1>7 DEF Bare
<1> QED
  BY <1>1, <1>2, <1>3, <1>5, <1>7, <1>8, QuietInv DEF AppOnly

LEMMA ShutdownInv ==
  ASSUME ToeInv, NEW t, NEW s \in Slot, NEW how, Shutdown(t, s, how)
  PROVE  ToeInv' /\ Orderly
<1>1. PICK k : k = Now
  OBVIOUS
<1>2. PICK ins : ins = Insides
  OBVIOUS
<1>3. k \in State /\ Booked(k, ins, {}) /\ k.sock = sock /\ worker \in Pass
  BY <1>1, <1>2, InvIs
<1> DEFINE a == k.sock[s].shut_rd \/ how \in {"rd", "rdwr"}
           b == k.sock[s].shut_wr \/ how \in {"wr", "rdwr"}
<1>4. k.sock[s] \in SockRec /\ a \in BOOLEAN /\ b \in BOOLEAN
  BY <1>3 DEF State, SockRec
<1>5. PICK me : me = [k.sock[s] EXCEPT !.shut_rd = a, !.shut_wr = b]
  OBVIOUS
<1>6. PICK m : m = [k EXCEPT !.sock[s] = me]
  OBVIOUS
<1>7. Open(s) /\ UNCHANGED calls /\ AppOnly
  BY DEF Shutdown
<1>8. PICK r : Becomes(r) /\ (r = m \/ r = [HwClose(m, {k.sock[s].hw}) EXCEPT !.sock[s].hw = NoHw])
  <2>1. me = [sock[s] EXCEPT !.shut_rd = @ \/ how \in {"rd", "rdwr"}, !.shut_wr = @ \/ how \in {"wr", "rdwr"}]
    BY <1>3, <1>5
  <2>2. Becomes(IF how # "rd" /\ sock[s].hw # NoHw
                THEN [HwClose(m, {sock[s].hw}) EXCEPT !.sock[s].hw = NoHw] ELSE m)
    BY <1>1, <1>6, <2>1 DEF Shutdown
  <2> QED
    BY <1>3, <2>2
<1>9. Held(k, s)
  BY <1>1, <1>7, HeldIs
<1>10. Stays(k, ins, {}, r) /\ Unfilled(k, r, s) /\ ~r.sock[s].zombie
  <2> HIDE DEF a, b
  <2>1. Marked(k, s, me)
    BY <1>4, <1>5, <1>9 DEF Marked, Amends, SockRec, Held
  <2> QED
    BY <1>3, <1>6, <1>8, <1>9, <2>1, ShutdownKeeps
<1>11. Bare(r, s)
  BY <1>10 DEF Bare
<1>12. ToeInv'
  BY <1>1, <1>2, <1>3, <1>7, <1>8, <1>10, <1>11, QuietInv DEF AppOnly
<1>13. Orderly
  BY <1>1, <1>2, <1>3, <1>7, <1>8, <1>10, <1>11, QuietOrderly DEF AppOnly, Stays
<1> QED
  BY <1>12, <1>13

LEMMA SlotsAre == 1 \in Slot /\ Max(Slot) \in Nat /\ \A s \in Slot : s # Max(Slot) => s + 1 \in Slot
<1>1. Cardinality(Slot) \in Nat /\ Slot = 1..Cardinality(Slot) /\ Slot # {}
  BY Numbered, ToeAssumption
<1>2. PICK n \in Nat : n = Cardinality(Slot)
  BY <1>1
<1>3. Slot = 1..n /\ 1 <= n
  BY <1>1, <1>2
<1>4. Max(1..n) = n
  BY <1>3, MaxIs
<1>5. Max(Slot) = n
  BY <1>3, <1>4
<1>6. 1 \in 1..n /\ \A s \in 1..n : s # n => s + 1 \in 1..n
  BY <1>3
<1> QED
  BY <1>2, <1>3, <1>5, <1>6

-----------------------------------------------------------------------------
(* The chip *)

(* The state of h changes; if it closes, no listener has it, or history    *)
(* has it.                                                                 *)
ChipTurns(h) ==
  /\ chip' \in [Hw -> ChipRec] /\ \A g \in Hw : g # h => chip'[g] = chip[g]
  /\ UNCHANGED <<sock, hw_fail, worker, calls>> /\ peers' \in Int /\ listenerDied' \in BOOLEAN
  /\ ~listenerDied' => ~listenerDied
  /\ ~listenerDied' /\ chip'[h].sr \in {"closed", "closing"} =>
       \/ chip[h].sr \in {"closed", "closing"}
       \/ \A s \in Slot : \A i \in 1..Len(sock[s].pool) : sock[s].pool[i] # h

LEMMA ChipInv ==
  ASSUME ToeInv, NEW h \in Hw, ChipTurns(h)
  PROVE  ToeInv'
<1>1. PICK k : k = Now
  OBVIOUS
<1>2. PICK ins : ins = Insides
  OBVIOUS
<1>3. k \in State /\ Booked(k, ins, {}) /\ k.sock = sock /\ k.chip = chip /\ ToeTyped /\ ZombieUnfilled
  BY <1>1, <1>2, InvIs DEF ToeInv
<1>4. PICK r : r = Now'
  OBVIOUS
<1>5. r = [sock |-> k.sock, chip |-> chip', hw_fail |-> hw_fail]
  BY <1>3, <1>4 DEF Now, ChipTurns
<1>6. r \in State /\ r.sock = k.sock /\ r.chip = chip'
  BY <1>3, <1>5 DEF State, ToeTyped, ChipTurns
<1>7. SameBook(k, r)
  BY <1>6 DEF SameBook
<1>8. Booked(r, ins, {})
  BY <1>3, <1>6, <1>7, SameBookKeeps
<1>9. ASSUME ~listenerDied' PROVE Owned(r)
  <2>1. Owned(k)
    BY <1>1, <1>9 DEF ToeInv, ChipTurns
  <2>2. OwnedOnce(r)
    <3>1. \A s, i : HwAt(r, s, i) = HwAt(k, s, i)
      BY <1>6 DEF HwAt
    <3> QED
      BY <1>6, <2>1, <3>1 DEF Owned, OwnedOnce
  <2>3. ASSUME NEW s \in Slot, NEW i \in 1..Len(r.sock[s].pool)
        PROVE  r.chip[r.sock[s].pool[i]].sr \notin {"closed", "closing"}
    <3>1. i \in 1..Len(k.sock[s].pool) /\ r.sock[s].pool[i] = k.sock[s].pool[i]
      BY <1>6, <2>3
    <3>2. k.sock[s].pool[i] \in Hw /\ k.chip[k.sock[s].pool[i]].sr \notin {"closed", "closing"}
      BY <1>3, <2>1, <3>1, LensTyped DEF Owned, PoolsLive
    <3>3. CASE k.sock[s].pool[i] # h
      BY <1>3, <1>6, <3>1, <3>2, <3>3 DEF ChipTurns
    <3>4. CASE k.sock[s].pool[i] = h
      BY <1>3, <1>6, <1>9, <3>1, <3>2, <3>4 DEF ChipTurns
    <3> QED
      BY <3>3, <3>4
  <2> QED
    BY <2>2, <2>3 DEF Owned, PoolsLive
<1>10. ToeTyped'
  BY <1>3 DEF ToeTyped, ChipTurns
<1>11. Insides' = ins
  BY <1>2 DEF Insides, Inside, ChipTurns
<1>12. ZombieUnfilled'
  BY <1>3 DEF ZombieUnfilled, ChipTurns
<1> QED
  BY <1>4, <1>8, <1>9, <1>10, <1>11, <1>12 DEF ToeInv

LEMMA ToeChipInv ==
  ASSUME ToeInv, ToeChip
  PROVE  ToeInv'
<1>1. PICK h \in Hw : ChipCloses(h) \/ Syn(h) \/ Handshake(h) \/ Reset(h) \/ Fin(h) \/ Data(h) \/ Ack(h)
  BY DEF ToeChip
<1>2. /\ chip \in [Hw -> ChipRec] /\ chip[h] \in ChipRec /\ peers \in Int /\ listenerDied \in BOOLEAN
      /\ sock \in [Slot -> SockRec] /\ \A s \in Slot : sock[s].pool \in Seq(Hw)
  <2>1. /\ chip \in [Hw -> ChipRec] /\ peers \in Int /\ listenerDied \in BOOLEAN /\ sock \in [Slot -> SockRec]
    BY DEF ToeInv, ToeTyped
  <2> QED
    BY <2>1 DEF SockRec
<1>3. ASSUME NEW sr \in SrState, SetSr(h, sr)
      PROVE  /\ chip' \in [Hw -> ChipRec] /\ chip'[h].sr = sr
             /\ \A g \in Hw : g # h => chip'[g] = chip[g]
  <2>1. PICK c : c = [chip[h] EXCEPT !.sr = sr]
    OBVIOUS
  <2>2. c \in ChipRec /\ c.sr = sr
    BY <1>2, <2>1 DEF ChipRec
  <2>3. chip' = [chip EXCEPT ![h] = c]
    BY <1>3, <2>1 DEF SetSr
  <2> QED
    BY <1>2, <2>2, <2>3
<1>4. CASE ChipCloses(h)
  <2>1. SetSr(h, "closed") /\ "closed" \in SrState /\ chip[h].sr = "closing"
    BY <1>4 DEF ChipCloses, SrState
  <2>2. ChipTurns(h)
    BY <1>2, <1>3, <1>4, <2>1 DEF ChipTurns, ChipCloses, ChipOnly
  <2> QED
    BY <2>2, ChipInv
<1>5. CASE Syn(h)
  <2>1. SetSr(h, "synrecv") /\ "synrecv" \in SrState
    BY <1>5 DEF Syn, SrState
  <2>2. ChipTurns(h)
    BY <1>2, <1>3, <1>5, <2>1 DEF ChipTurns, Syn, ChipOnly
  <2> QED
    BY <2>2, ChipInv
<1>6. CASE Handshake(h)
  <2>1. SetSr(h, "established") /\ "established" \in SrState
    BY <1>6 DEF Handshake, SrState
  <2>2. ChipTurns(h)
    BY <1>2, <1>3, <1>6, <2>1 DEF ChipTurns, Handshake, ChipOnly
  <2> QED
    BY <2>2, ChipInv
<1>7. CASE Reset(h)
  <2>1. SetSr(h, "closed") /\ "closed" \in SrState
    BY <1>7 DEF Reset, SrState
  <2>2. listenerDied' = (listenerDied \/ \E s \in Slot : h \in ToSet(sock[s].pool))
    BY <1>7 DEF Reset
  <2>3. listenerDied' \in BOOLEAN /\ (~listenerDied' => ~listenerDied)
    BY <1>2, <2>2
  <2>4. ASSUME ~listenerDied', NEW s \in Slot, NEW i \in 1..Len(sock[s].pool)
        PROVE  sock[s].pool[i] # h
    <3>1. h \notin ToSet(sock[s].pool)
      BY <2>2, <2>4
    <3>2. i \in DOMAIN sock[s].pool
      BY <1>2
    <3> QED
      BY <3>1, <3>2 DEF ToSet
  <2>5. ChipTurns(h)
    BY <1>2, <1>3, <1>7, <2>1, <2>3, <2>4 DEF ChipTurns, Reset, ChipOnly
  <2> QED
    BY <2>5, ChipInv
<1>8. CASE Fin(h)
  <2>1. SetSr(h, "close_wait") /\ "close_wait" \in SrState
    BY <1>8 DEF Fin, SrState
  <2>2. ChipTurns(h)
    BY <1>2, <1>3, <1>8, <2>1 DEF ChipTurns, Fin, ChipOnly
  <2> QED
    BY <2>2, ChipInv
<1>9. CASE Data(h) \/ Ack(h)
  <2>1. PICK c \in ChipRec : c.sr = chip[h].sr /\ chip' = [chip EXCEPT ![h] = c]
    <3>1. CASE Data(h)
      <4>1. PICK c : c = [chip[h] EXCEPT !.rx = 1]
        OBVIOUS
      <4>2. c \in ChipRec /\ c.sr = chip[h].sr
        BY <1>2, <4>1 DEF ChipRec
      <4>3. chip' = [chip EXCEPT ![h] = c]
        BY <3>1, <4>1 DEF Data
      <4> QED
        BY <4>2, <4>3
    <3>2. CASE Ack(h)
      <4>1. PICK c : c = [chip[h] EXCEPT !.room = TRUE]
        OBVIOUS
      <4>2. c \in ChipRec /\ c.sr = chip[h].sr
        BY <1>2, <4>1 DEF ChipRec
      <4>3. chip' = [chip EXCEPT ![h] = c]
        BY <3>2, <4>1 DEF Ack
      <4> QED
        BY <4>2, <4>3
    <3> QED
      BY <1>9, <3>1, <3>2
  <2>2. chip' \in [Hw -> ChipRec] /\ chip'[h].sr = chip[h].sr /\ \A g \in Hw : g # h => chip'[g] = chip[g]
    BY <1>2, <2>1
  <2>3. ChipTurns(h)
    BY <1>2, <1>9, <2>2 DEF ChipTurns, Data, Ack, ChipOnly
  <2> QED
    BY <2>3, ChipInv
<1> QED
  BY <1>1, <1>4, <1>5, <1>6, <1>7, <1>8, <1>9

-----------------------------------------------------------------------------
(* The worker *)

LEMMA ListensIs ==
  ASSUME NEW k \in State, NEW ins, NEW X, Booked(k, ins, X), NEW l \in Slot, k.sock[l].in_use, k.sock[l].listening
  PROVE  k.sock[l].has_fd /\ ~k.sock[l].zombie
<1>1. k.sock[l] \in SockRec
  BY DEF State
<1>2. k.sock[l].has_fd
  <2>1. SUFFICES ASSUME ~k.sock[l].has_fd PROVE FALSE
    BY <1>1 DEF SockRec
  <2>2. Fresh(k.sock[l])
    BY <2>1 DEF Booked, FdOrFresh
  <2> QED
    BY <2>2, FreshHas
<1> QED
  BY <1>1, <1>2 DEF Booked, ZombieBare, SockRec

LEMMA ToeWorkerInv ==
  ASSUME ToeInv, ToeWorker
  PROVE  ToeInv' /\ Orderly
<1>1. PICK k : k = Now
  OBVIOUS
<1>2. PICK ins : ins = Insides
  OBVIOUS
<1>3. k \in State /\ Booked(k, ins, {}) /\ k.sock = sock /\ k.chip = chip /\ worker \in Pass
  BY <1>1, <1>2, InvIs
<1>4. ASSUME Becomes(k), worker' \in Pass, WorkerOnly PROVE ToeInv' /\ Orderly
  <2>1. Stays(k, ins, {}, k) /\ Unfilled(k, k, NoHw)
    BY <1>3 DEF Stays, Unfilled
  <2>2. ToeInv'
    BY <1>1, <1>2, <1>4, <2>1, NoSlot, QuietInv DEF WorkerOnly
  <2>3. Orderly
    BY <1>1, <1>3, <1>4, <2>1, NoSlot, QuietOrderly DEF WorkerOnly
  <2> QED
    BY <2>2, <2>3
<1>5. ASSUME UNCHANGED <<sock, chip, hw_fail>> PROVE Becomes(k)
  BY <1>1, <1>5 DEF Becomes, Now
<1>6. ASSUME Locked PROVE worker \in [at : Slot, i : Nat \ {0}]
  BY <1>3, <1>6 DEF Locked, Pass
<1>7. ASSUME NEW l \in Slot, ~k.sock[l].zombie, NEW r, Stays(k, ins, {}, r), Beside(k, r, l), Becomes(r),
             worker' \in Pass, WorkerOnly
      PROVE  ToeInv' /\ Orderly
  <2>1. Unfilled(k, r, l) /\ Bare(r, l) /\ ~r.sock[l].zombie
    BY <1>7, BesideUnfilled DEF Bare, Beside
  <2>2. ToeInv'
    BY <1>1, <1>2, <1>7, <2>1, QuietInv DEF WorkerOnly
  <2>3. Orderly
    BY <1>1, <1>7, <2>1, QuietOrderly DEF WorkerOnly, Stays
  <2> QED
    BY <2>2, <2>3
<1>8. CASE PassBegins
  <2>1. worker' \in Pass
    BY <1>8, SlotsAre DEF PassBegins, Pass
  <2> QED
    BY <1>4, <1>5, <1>8, <2>1 DEF PassBegins
<1>9. CASE PassPool
  <2>1. worker \in [at : Slot, i : Nat \ {0}]
    BY <1>6, <1>9 DEF PassPool, InPool
  <2>2. PICK l \in Slot, i \in Nat \ {0} : l = worker.at /\ i = worker.i
    BY <2>1
  <2>3. k.sock[l].in_use /\ k.sock[l].listening /\ i \in 1..Len(k.sock[l].pool)
    BY <1>3, <1>9, <2>2, LensTyped DEF PassPool, InPool
  <2>4. k.sock[l].has_fd /\ ~k.sock[l].zombie
    BY <1>3, <2>2, <2>3, ListensIs
  <2>5. PICK h : h = k.sock[l].pool[i]
    OBVIOUS
  <2>6. CASE chip[h].sr = "established"
    <3>1. Becomes(IF CanPromote(k, l) THEN Promote(k, l, i) ELSE k) /\ UNCHANGED worker /\ WorkerOnly
      BY <1>1, <1>3, <1>9, <2>2, <2>5, <2>6 DEF PassPool
    <3>2. CASE CanPromote(k, l)
      <4>1. FreeSlots(k) # {}
        BY <3>2 DEF CanPromote
      <4>2. PICK r : r = Promote(k, l, i)
        OBVIOUS
      <4>3. Stays(k, ins, {}, r) /\ Beside(k, r, l)
        BY <1>3, <2>2, <2>3, <2>4, <4>1, <4>2, PromoteKeeps
      <4>4. Becomes(r) /\ worker' \in Pass
        BY <1>3, <3>1, <3>2, <4>2
      <4> QED
        BY <1>7, <2>2, <2>4, <3>1, <4>3, <4>4
    <3>3. CASE ~CanPromote(k, l)
      BY <1>3, <1>4, <3>1, <3>3
    <3> QED
      BY <3>2, <3>3
  <2>7. CASE chip[h].sr \in {"listen", "synrecv"}
    <3>1. worker' = [worker EXCEPT !.i = @ + 1] /\ UNCHANGED <<sock, chip, hw_fail>> /\ WorkerOnly
      BY <1>3, <1>9, <2>2, <2>5, <2>7 DEF PassPool
    <3>2. worker' \in Pass
      <4>1. worker.i + 1 \in Nat \ {0}
        BY <2>1
      <4> QED
        BY <2>1, <3>1, <4>1 DEF Pass
    <3> QED
      BY <1>4, <1>5, <3>1, <3>2
  <2>8. CASE chip[h].sr \notin {"listen", "synrecv", "established"}
    <3>1. PICK r : r = PoolRemove(HwClose(k, {h}), l, i)
      OBVIOUS
    <3>2. Becomes(r) /\ UNCHANGED worker /\ WorkerOnly
      BY <1>1, <1>3, <1>9, <2>2, <2>5, <2>8, <3>1 DEF PassPool
    <3>3. Stays(k, ins, {}, r) /\ Beside(k, r, l)
      BY <1>3, <2>2, <2>3, <2>4, <2>5, <3>1, PoolDropKeeps
    <3> QED
      BY <1>3, <1>7, <2>2, <2>4, <3>2, <3>3
  <2> QED
    BY <2>6, <2>7, <2>8
<1>10. CASE PassSlot
  <2>1. worker \in [at : Slot, i : Nat \ {0}]
    BY <1>6, <1>10 DEF PassSlot
  <2>2. PICK l \in Slot : l = worker.at
    BY <2>1
  <2>3. worker' \in Pass /\ WorkerOnly
    BY <1>10, <2>1, SlotsAre DEF PassSlot, NextSlot, Pass
  <2>4. Becomes(IF k.sock[l].in_use /\ k.sock[l].listening THEN ListenerFill(k, l) ELSE k)
    BY <1>1, <1>3, <1>10, <2>2 DEF PassSlot
  <2>5. CASE k.sock[l].in_use /\ k.sock[l].listening
    <3>1. k.sock[l].has_fd /\ ~k.sock[l].zombie
      BY <1>3, <2>2, <2>5, ListensIs
    <3>2. PICK r : r = ListenerFill(k, l)
      OBVIOUS
    <3>3. Stays(k, ins, {}, r) /\ Beside(k, r, l) /\ Becomes(r)
      BY <1>3, <2>2, <2>4, <2>5, <3>1, <3>2, FillKeeps
    <3> QED
      BY <1>7, <2>2, <2>3, <3>1, <3>3
  <2>6. CASE ~(k.sock[l].in_use /\ k.sock[l].listening)
    BY <1>4, <2>3, <2>4, <2>6
  <2> QED
    BY <2>5, <2>6
<1> QED
  BY <1>8, <1>9, <1>10 DEF ToeWorker

LEMMA ToeInitInv == ToeInit => ToeInv
<1> SUFFICES ASSUME ToeInit PROVE ToeInv
  OBVIOUS
<1>1. PICK k : k = Now
  OBVIOUS
<1>2. PICK ins : ins = Insides
  OBVIOUS
<1>3. HwIn("closed") \in ChipRec
  BY HwInTyped DEF SrState
<1>4. ToeTyped
  <2>1. sock \in [Slot -> SockRec]
    BY FreeSlotIs DEF ToeInit
  <2>2. chip \in [Hw -> ChipRec]
    BY <1>3 DEF ToeInit
  <2>3. hw_fail \in [Hw -> Int] /\ worker \in Pass /\ calls \in [Caller -> {NoCall} \cup CallRec]
    BY DEF ToeInit, Pass
  <2>4. peers \in Int
    BY DEF ToeInit
  <2>5. listenerDied \in BOOLEAN
    BY Zenon DEF ToeInit
  <2> QED
    BY <2>1, <2>2, <2>3, <2>4, <2>5 DEF ToeTyped
<1>5. \A s \in Slot : k.sock[s] = FreeSlot
  BY <1>1 DEF ToeInit, Now
<1>6. /\ FreeSlot.hw = NoHw /\ FreeSlot.pool = <<>> /\ FreeSlot.pend = <<>> /\ FreeSlot.zombie = FALSE
      /\ FreeSlot.in_use = FALSE /\ FreeSlot.users = 0
  BY FreeSlotIs
<1>7. \A s \in Slot : ins[s] = {}
  BY <1>2 DEF Insides, Inside, ToeInit
<1>8. Booked(k, ins, {})
  <2>1. Counted(k, ins)
    BY <1>5, <1>6, <1>7, FS_EmptySet DEF Counted
  <2>2. \A s \in Slot : Len(k.sock[s].pend) = 0
    BY <1>5, <1>6
  <2>3. QueuedOnce(k) /\ QueuedFresh(k)
    BY <2>2 DEF QueuedOnce, QueuedFresh
  <2>4. InHand(k, {}) /\ Kept(k, ins, {}) /\ FreeIsNew(k) /\ FdOrFresh(k) /\ ZombieBare(k)
    BY <1>5, <1>6 DEF InHand, Kept, FreeIsNew, FdOrFresh, ZombieBare
  <2> QED
    BY <2>1, <2>3, <2>4 DEF Booked
<1>9. Owned(k)
  <2>1. \A s \in Slot : Len(k.sock[s].pool) = 0 /\ k.sock[s].hw = NoHw
    BY <1>5, <1>6
  <2>2. OwnedOnce(k)
    <3>1. \A s \in Slot : \A i \in 0..Len(k.sock[s].pool) : HwAt(k, s, i) = NoHw
      BY <2>1 DEF HwAt
    <3> QED
      BY <3>1 DEF OwnedOnce
  <2>3. PoolsLive(k)
    BY <2>1 DEF PoolsLive
  <2> QED
    BY <2>2, <2>3 DEF Owned
<1>10. ZombieUnfilled
  BY DEF ZombieUnfilled, ToeInit, NoCall
<1> QED
  BY <1>1, <1>2, <1>4, <1>8, <1>9, <1>10 DEF ToeInv

LEMMA ToeStepOrderly ==
  ASSUME ToeInv, OneInClosed, [ToeNext]_toeVars
  PROVE  Orderly \/ \E t \in Caller, s \in Slot : Close(t, s)
<1>1. CASE ToeChip
  <2>1. UNCHANGED <<sock, calls>>
    BY <1>1 DEF ToeChip, ChipCloses, Syn, Handshake, Reset, Fin, Data, Ack, ChipOnly
  <2> QED
    BY <2>1 DEF Orderly
<1>2. CASE ToeWorker
  BY <1>2, ToeWorkerInv
<1>3. CASE ToeApp
  <2>1. PICK t \in Caller :
           \/ \E type \in {"stream", "dgram"} : SocketCreate(t, type)
           \/ \E s \in Slot :
                \/ Bind(t, s) \/ Listen(t, s) \/ Close(t, s)
                \/ \E how \in {"rd", "wr", "rdwr"} : Shutdown(t, s, how)
           \/ Call(t)
           \/ LooksAgain(t)
    BY <1>3 DEF ToeApp
  <2> QED
    BY <2>1, CreateInv, BindInv, ListenInv, ShutdownInv, CallInv, LooksInv
<1>4. CASE UNCHANGED toeVars
  BY <1>4 DEF toeVars, Orderly
<1> QED
  BY <1>1, <1>2, <1>3, <1>4 DEF ToeNext

(* Of two threads, one is closing.                                         *)
AtMostTwo == \A t, u, v \in Caller : t = u \/ u = v \/ t = v

LEMMA TwoInClosed ==
  ASSUME ToeInv, OneInClosed, [ToeNext]_toeVars, AtMostTwo
  PROVE  OneInClosed'
<1> SUFFICES ASSUME NEW t \in Caller, NEW u \in Caller, t # u, calls'[t].op = "accept", calls'[u].op = "accept",
                    calls'[t].s = calls'[u].s, sock'[calls'[t].s].zombie
             PROVE  FALSE
  BY DEF OneInClosed
<1>1. CASE Orderly
  <2>1. calls[t].op = "accept" /\ calls[u].op = "accept" /\ calls[t].s = calls[u].s /\ calls[t].s = calls'[t].s
    BY <1>1 DEF Orderly
  <2>2. calls[t].s \in Slot
    BY <2>1, AcceptSlot DEF ToeInv
  <2>3. sock[calls[t].s].zombie
    BY <1>1, <2>1, <2>2 DEF Orderly
  <2> QED
    BY <2>1, <2>3 DEF OneInClosed
<1>2. CASE \E v \in Caller, s \in Slot : Close(v, s)
  <2>1. PICK v \in Caller : calls[v] = NoCall /\ calls' = calls
    BY <1>2 DEF Close, Idle
  <2>2. v # t /\ v # u
    BY <2>1 DEF NoCall
  <2> QED
    BY <2>1, <2>2 DEF AtMostTwo
<1> QED
  BY <1>1, <1>2, ToeStepOrderly

LEMMA ToeStepInv ==
  ASSUME ToeInv, OneInClosed, [ToeNext]_toeVars
  PROVE  ToeInv'
<1>1. CASE ToeChip
  BY <1>1, ToeChipInv
<1>2. CASE ToeWorker
  BY <1>2, ToeWorkerInv
<1>3. CASE ToeApp
  <2>1. PICK t \in Caller :
           \/ \E type \in {"stream", "dgram"} : SocketCreate(t, type)
           \/ \E s \in Slot :
                \/ Bind(t, s) \/ Listen(t, s) \/ Close(t, s)
                \/ \E how \in {"rd", "wr", "rdwr"} : Shutdown(t, s, how)
           \/ Call(t)
           \/ LooksAgain(t)
    BY <1>3 DEF ToeApp
  <2> QED
    BY <2>1, CreateInv, BindInv, ListenInv, CloseInv, ShutdownInv, CallInv, LooksInv
<1>4. CASE UNCHANGED toeVars
  BY <1>4 DEF toeVars, ToeInv, ToeTyped, ZombieUnfilled, Now, Insides, Inside
<1> QED
  BY <1>1, <1>2, <1>3, <1>4 DEF ToeNext

-----------------------------------------------------------------------------
(* What the invariant says *)

LEMMA AtMostOne ==
  ASSUME NEW S, \A a, b \in S : a = b
  PROVE  IF S = {} THEN Cardinality(S) = 0 ELSE Cardinality(S) = 1
<1>1. CASE S = {}
  BY <1>1, FS_EmptySet
<1>2. CASE S # {}
  <2>1. PICK a : a \in S
    BY <1>2
  <2>2. S = {a}
    BY <2>1
  <2> QED
    BY <1>2, <2>2, FS_Singleton
<1> QED
  BY <1>1, <1>2

LEMMA ToeSlots == ToeInv => SlotsAccounted
<1> SUFFICES ASSUME ToeInv, NEW s \in Slot
             PROVE  LET inside == {t \in Caller : calls[t] # NoCall /\ calls[t].s = s}
                        places == UNION {{<<l, i>> : i \in {n \in DOMAIN sock[l].pend : sock[l].pend[n] = s}} : l \in Slot} IN
                    /\ sock[s].users = Cardinality(inside)
                    /\ inside # {} => sock[s].in_use
                    /\ places # {} => sock[s].in_use /\ ~sock[s].has_fd /\ Cardinality(places) = 1
                    /\ sock[s].in_use => \/ places # {}
                                         \/ sock[s].has_fd /\ (sock[s].zombie => inside # {})
  BY DEF SlotsAccounted
<1> DEFINE inside == {t \in Caller : calls[t] # NoCall /\ calls[t].s = s}
           places == UNION {{<<l, i>> : i \in {n \in DOMAIN sock[l].pend : sock[l].pend[n] = s}} : l \in Slot}
<1>1. PICK k : k = Now
  OBVIOUS
<1>2. PICK ins : ins = Insides
  OBVIOUS
<1>3. k \in State /\ Booked(k, ins, {}) /\ k.sock = sock
  BY <1>1, <1>2, InvIs
<1>4. inside = ins[s]
  BY <1>2 DEF Insides, Inside
<1>5. sock[s].users = Cardinality(inside) /\ (inside # {} => sock[s].in_use)
  BY <1>3, <1>4 DEF Booked, Counted
<1>6. \A l \in Slot : DOMAIN sock[l].pend = 1..Len(sock[l].pend)
  BY <1>3, LensTyped
<1>7. \A p : p \in places <=> \E l \in Slot : \E i \in 1..Len(sock[l].pend) : p = <<l, i>> /\ sock[l].pend[i] = s
  BY <1>6
<1> HIDE DEF inside, places
<1>8. places # {} <=> Queued(k, s)
  <2>1. ASSUME places # {} PROVE Queued(k, s)
    BY <1>3, <1>7, <2>1 DEF Queued
  <2>2. ASSUME Queued(k, s) PROVE places # {}
    <3>1. PICK l \in Slot : \E i \in 1..Len(k.sock[l].pend) : k.sock[l].pend[i] = s
      BY <2>2 DEF Queued
    <3>2. PICK i \in 1..Len(k.sock[l].pend) : k.sock[l].pend[i] = s
      BY <3>1
    <3>3. <<l, i>> \in places
      BY <1>3, <1>7, <3>1, <3>2
    <3> QED
      BY <3>3
  <2> QED
    BY <2>1, <2>2
<1>9. ASSUME places # {}
      PROVE  sock[s].in_use /\ ~sock[s].has_fd /\ Cardinality(places) = 1
  <2>1. ASSUME NEW p \in places, NEW q \in places PROVE p = q
    <3>1. QueuedOnce(k)
      BY <1>3 DEF Booked
    <3>2. PICK l \in Slot : \E i \in 1..Len(sock[l].pend) : p = <<l, i>> /\ sock[l].pend[i] = s
      BY <1>7
    <3>3. PICK i \in 1..Len(sock[l].pend) : p = <<l, i>> /\ sock[l].pend[i] = s
      BY <3>2
    <3>4. PICK m \in Slot : \E j \in 1..Len(sock[m].pend) : q = <<m, j>> /\ sock[m].pend[j] = s
      BY <1>7
    <3>5. PICK j \in 1..Len(sock[m].pend) : q = <<m, j>> /\ sock[m].pend[j] = s
      BY <3>4
    <3>6. l = m /\ i = j
      BY <1>3, <3>1, <3>2, <3>3, <3>4, <3>5, OnePlace
    <3> QED
      BY <3>3, <3>5, <3>6
  <2>2. Cardinality(places) = 1
    BY <1>9, <2>1, AtMostOne
  <2>3. Fresh(k.sock[s])
    BY <1>3, <1>8, <1>9 DEF Booked, QueuedFresh, Queued
  <2>4. sock[s].in_use /\ ~sock[s].has_fd
    BY <1>3, <2>3, FreshHas
  <2> QED
    BY <2>2, <2>4
<1>10. sock[s].in_use => places # {} \/ (sock[s].has_fd /\ (sock[s].zombie => inside # {}))
  BY <1>3, <1>4, <1>8 DEF Booked, Kept
<1> QED
  BY <1>5, <1>9, <1>10 DEF inside, places

LEMMA ToeHw == ToeInv => HwOfOneSocket
<1> SUFFICES ASSUME ToeInv, ~listenerDied, NEW h \in Hw
             PROVE  LET owners == {s \in Slot : sock[s].in_use /\ (sock[s].hw = h \/ h \in ToSet(sock[s].pool))} IN
                    /\ Cardinality(owners) <= 1
                    /\ \A s \in owners : Cardinality({i \in DOMAIN sock[s].pool : sock[s].pool[i] = h}) +
                                          (IF sock[s].hw = h THEN 1 ELSE 0) = 1
  BY DEF HwOfOneSocket
<1> DEFINE owners == {s \in Slot : sock[s].in_use /\ (sock[s].hw = h \/ h \in ToSet(sock[s].pool))}
<1>1. PICK k : k = Now
  OBVIOUS
<1>2. k \in State /\ k.sock = sock /\ Owned(k)
  <2>1. PICK ins : ins = Insides
    OBVIOUS
  <2> QED
    BY <1>1, <2>1, InvIs DEF ToeInv
<1>3. h # NoHw
  BY Numbered
<1>4. \A s \in Slot : DOMAIN sock[s].pool = 1..Len(sock[s].pool) /\ Len(sock[s].pool) \in Nat
  BY <1>2, LensTyped
<1>5. \A s \in owners : s \in Slot /\ \E i \in 0..Len(k.sock[s].pool) : HwAt(k, s, i) = h
  <2> SUFFICES ASSUME NEW s \in owners PROVE \E i \in 0..Len(k.sock[s].pool) : HwAt(k, s, i) = h
    OBVIOUS
  <2>1. CASE sock[s].hw = h
    BY <1>2, <1>4, <2>1 DEF HwAt
  <2>2. CASE h \in ToSet(sock[s].pool)
    <3>1. PICK i \in 1..Len(k.sock[s].pool) : k.sock[s].pool[i] = h
      BY <1>2, <1>4, <2>2 DEF ToSet
    <3>2. i \in 0..Len(k.sock[s].pool) /\ HwAt(k, s, i) = h
      BY <1>2, <1>4, <3>1 DEF HwAt
    <3> QED
      BY <3>2
  <2> QED
    BY <2>1, <2>2
<1>6. \A s, r \in Slot : \A i \in 0..Len(k.sock[s].pool), j \in 0..Len(k.sock[r].pool) :
        HwAt(k, s, i) = h /\ HwAt(k, r, j) = h => s = r /\ i = j
  BY <1>2, <1>3 DEF Owned, OwnedOnce
<1>7. Cardinality(owners) <= 1
  <2>1. \A s, r \in owners : s = r
    BY <1>5, <1>6
  <2> HIDE DEF owners
  <2>2. Cardinality(owners) = 0 \/ Cardinality(owners) = 1
    BY <2>1, AtMostOne
  <2> QED
    BY <2>2
<1>8. ASSUME NEW s \in owners
      PROVE  Cardinality({i \in DOMAIN sock[s].pool : sock[s].pool[i] = h}) + (IF sock[s].hw = h THEN 1 ELSE 0) = 1
  <2> DEFINE P == {i \in DOMAIN sock[s].pool : sock[s].pool[i] = h}
  <2>1. \A i \in P : i \in 1..Len(k.sock[s].pool) /\ i \in 0..Len(k.sock[s].pool) /\ HwAt(k, s, i) = h
    BY <1>2, <1>4 DEF HwAt
  <2>2. \A i, j \in P : i = j
    BY <1>6, <2>1
  <2>3. CASE sock[s].hw = h
    <3>1. HwAt(k, s, 0) = h /\ 0 \in 0..Len(k.sock[s].pool)
      BY <1>2, <1>4, <2>3 DEF HwAt
    <3>2. \A i \in P : i = 0
      BY <1>6, <2>1, <3>1
    <3>3. P = {}
      BY <1>2, <2>1, <3>2
    <3>4. Cardinality(P) = 0
      BY <3>3, FS_EmptySet
    <3> QED
      BY <2>3, <3>4
  <2>4. CASE sock[s].hw # h
    <3>1. h \in ToSet(sock[s].pool)
      BY <2>4
    <3>2. P # {}
      BY <3>1 DEF ToSet
    <3> HIDE DEF P
    <3>3. Cardinality(P) = 1
      BY <2>2, <3>2, AtMostOne
    <3> QED
      BY <2>4, <3>3 DEF P
  <2> QED
    BY <2>3, <2>4
<1> QED
  BY <1>7, <1>8

(* The tables of w5500_toe.c agree: of two threads always, and of more as  *)
(* long as close() does not meet two of them in accept() of one listener.  *)
THEOREM ToeEachToOne == ToeSpec /\ (AtMostTwo \/ []OneInClosed) => []EachToOne
<1>1. ToeInv /\ OneInClosed /\ [ToeNext]_toeVars => ToeInv'
  BY ToeStepInv
<1>2. ToeInv => EachToOne
  BY ToeSlots, ToeHw DEF EachToOne
<1>3. ASSUME AtMostTwo
      PROVE  ToeSpec => []OneInClosed
  <2>1. ToeInit => OneInClosed
    BY DEF ToeInit, OneInClosed, NoCall
  <2>2. ToeInv /\ OneInClosed /\ [ToeNext]_toeVars => OneInClosed'
    BY <1>3, TwoInClosed
  <2> QED
    BY <1>1, <2>1, <2>2, ToeInitInv, PTL DEF ToeSpec
<1>4. AtMostTwo => (ToeSpec => []OneInClosed)
  BY <1>3
<1>5. ToeSpec /\ []OneInClosed => []EachToOne
  BY <1>1, <1>2, ToeInitInv, PTL DEF ToeSpec
<1> QED
  BY <1>4, <1>5, PTL
=============================================================================
