--------------------------- MODULE EnvStoreProofs ---------------------------
(***************************************************************************)
(* Garbage collection never lacks room, wherever power is lost: the sector *)
(* that is kept empty takes every node in use, one sector has a valid      *)
(* header at any time, a sector is empty again between calls, and no       *)
(* variable is ever lost.  While losses of power do not pile up            *)
(* (Orderly), each variable is in one valid node between calls, and        *)
(* ef_set_env is atomic: EnvStore implements Settings.                     *)
(*                                                                         *)
(* The firmware has two sectors (inc/ef_cfg.h:95): one in use and a spare  *)
(* one.  Collecting garbage fills the spare one, erases the other and      *)
(* exchanges them.  A sector has room for all variables, what losses of    *)
(* power leave behind, a node on its way and the slot that alloc_env asks  *)
(* for beyond it: 19 nodes of some 50 bytes in 4096.                       *)
(***************************************************************************)
EXTENDS EnvStore, FiniteSetTheorems, WellFoundedInduction, TLAPS

TwoSectors == SECTOR_NUM = 2 /\ Slots >= Cardinality(Keys) + MaxLosses + 2

LEMMA SectorsOneTwo == ASSUME TwoSectors PROVE Sectors = {1, 2} /\ EmptyThreshold = 1
BY EnvConstants DEF TwoSectors, Sectors, EnvConstants
----------------------------------------------------------------------------
(* Least elements.                                                         *)

LEMMA LeastNatural ==
    ASSUME NEW S, S \subseteq Nat, S # {}
    PROVE  \E m \in S : \A n \in S : m <= n
<1> DEFINE Upto(n) == S \cap (0 .. n)
           T == {Upto(n) : n \in S}
<1>1. T \subseteq FiniteSubsetsOf(S)
  <2> SUFFICES ASSUME NEW n \in S PROVE Upto(n) \in FiniteSubsetsOf(S)
    OBVIOUS
  <2>1. IsFiniteSet(0 .. n)
    BY FS_Interval
  <2>2. IsFiniteSet(Upto(n))
    BY <2>1, FS_Intersection
  <2> QED
    BY <2>2 DEF FiniteSubsetsOf
<1>2. T # {}
  OBVIOUS
<1>3. PICK x \in T : \A y \in T : ~(<<y, x>> \in StrictSubsetOrdering(S))
  <2> HIDE DEF T
  <2> QED
    BY <1>1, <1>2, FS_StrictSubsetOrderingWellFounded, WFMin, Zenon
<1>4. PICK m \in S : x = Upto(m)
  OBVIOUS
<1> SUFFICES ASSUME NEW n \in S PROVE m <= n
  OBVIOUS
<1>5. ~(<<Upto(n), Upto(m)>> \in StrictSubsetOrdering(S))
  BY <1>3, <1>4
<1>6. ~(Upto(n) \subseteq Upto(m)) \/ Upto(n) = Upto(m)
  BY <1>5, Zenon DEF StrictSubsetOrdering
<1>7. m \in Nat /\ n \in Nat /\ m \in Upto(m)
  OBVIOUS
<1> QED
  BY <1>6, <1>7

LEMMA LowestIsLeast ==
    ASSUME NEW S, S \subseteq Nat, S # {}
    PROVE  Lowest(S) \in S /\ \A t \in S : Lowest(S) <= t
BY LeastNatural DEF Lowest

\* Sectors before nodes: the first place of a set.
LEMMA SomeFirst ==
    ASSUME TwoSectors, NEW S, S \subseteq Places, S # {}
    PROVE  \E p \in S : \A q \in S : p = q \/ Before(p, q)
<1> DEFINE In(s) == {i \in 1 .. Slots : <<s, i>> \in S}
<1>1. \A p \in S : p \in {1, 2} \X (1 .. Slots) /\ p = <<p[1], p[2]>>
  BY SectorsOneTwo DEF Places
<1>2. ASSUME NEW s \in {1, 2}, In(s) # {}
      PROVE  \E m \in In(s) : \A i \in In(s) : m <= i
  BY <1>2, LeastNatural, In(s) \subseteq Nat
<1>3. \E p \in S : \A q \in S : p = q \/ Before(p, q)
  <2>1. CASE In(1) # {}
    <3>1. PICK m \in In(1) : \A i \in In(1) : m <= i
      BY <1>2, <2>1
    <3>2. ASSUME NEW q \in S PROVE <<1, m>> = q \/ Before(<<1, m>>, q)
      <4>1. q = <<q[1], q[2]>> /\ q[1] \in {1, 2} /\ q[2] \in 1 .. Slots
        BY <1>1
      <4>2. CASE q[1] = 1
        <5>1. q[2] \in In(1)
          BY <4>1, <4>2
        <5>2. m <= q[2] /\ m \in Nat /\ q[2] \in Nat
          BY <3>1, <5>1
        <5>3. m = q[2] \/ m < q[2]
          BY <5>2
        <5> QED
          BY <4>1, <4>2, <5>3 DEF Before
      <4>3. CASE q[1] = 2
        BY <4>1, <4>3 DEF Before
      <4> QED
        BY <4>1, <4>2, <4>3
    <3> QED
      BY <3>1, <3>2
  <2>2. CASE In(1) = {}
    <3>1. \A p \in S : p[1] = 2 /\ p[2] \in In(2)
      BY <1>1, <2>2
    <3>2. In(2) # {}
      BY <3>1
    <3>3. PICK m \in In(2) : \A i \in In(2) : m <= i
      BY <1>2, <3>2
    <3>4. ASSUME NEW q \in S PROVE <<2, m>> = q \/ Before(<<2, m>>, q)
      <4>1. q = <<2, q[2]>> /\ q[2] \in In(2)
        BY <1>1, <3>1
      <4>2. m <= q[2] /\ m \in Nat /\ q[2] \in Nat
        BY <3>3, <4>1
      <4>3. m = q[2] \/ m < q[2]
        BY <4>2
      <4> QED
        BY <4>1, <4>3 DEF Before
    <3> QED
      BY <3>3, <3>4
  <2> QED
    BY <2>1, <2>2
<1> QED
  BY <1>3

LEMMA FirstIsIn ==
    ASSUME TwoSectors, NEW S, S \subseteq Places, S # {}
    PROVE  FirstOf(S) \in S
BY SomeFirst, Zenon DEF FirstOf

LEMMA FirstIsFirst ==
    ASSUME TwoSectors, NEW S, S \subseteq Places, NEW q \in S
    PROVE  FirstOf(S) = q \/ Before(FirstOf(S), q)
<1>1. S # {}
  OBVIOUS
<1> QED
  BY <1>1, SomeFirst, Zenon DEF FirstOf
----------------------------------------------------------------------------
(* What the flash holds.                                                   *)

Used(s) == Len(flash[s].nodes)
IsValid(n) == n.crc /\ n.st = "WRITE"
IsHeld(n) == n.crc /\ n.st \in {"WRITE", "PRE_DELETE"}

\* The nodes of a sector that must not get lost.
HeldIn(s) == {i \in 1 .. Used(s) : IsHeld(flash[s].nodes[i])}
Held(s) == Cardinality(HeldIn(s))

\* The variables that have a valid node, or at least one to be recovered.
Valid == {k \in Keys : \E s \in Sectors : \E i \in 1 .. Used(s) :
             IsValid(flash[s].nodes[i]) /\ flash[s].nodes[i].key = k}
Kept == {k \in Keys : \E s \in Sectors : \E i \in 1 .. Used(s) :
             IsHeld(flash[s].nodes[i]) /\ flash[s].nodes[i].key = k}

Sector == [magic : BOOLEAN, store : {"UNUSED", "EMPTY", "USING", "FULL"},
           dirty : {"UNUSED", "FALSE", "TRUE", "GC"}, nodes : Seq(Node)]

FlashType ==
    /\ flash \in [Sectors -> Sector]
    /\ \A s \in Sectors : Used(s) <= Slots
    /\ \A s \in Sectors : \A i \in 1 .. Used(s) :
          flash[s].nodes[i].crc => flash[s].nodes[i].key \in Keys

SameHeads == \A t \in Sectors : /\ flash'[t].magic = flash[t].magic
                                /\ flash'[t].store = flash[t].store
                                /\ flash'[t].dirty = flash[t].dirty
SameNodes == \A t \in Sectors : flash'[t].nodes = flash[t].nodes

LEMMA NodesTyped ==
    ASSUME FlashType, NEW s \in Sectors
    PROVE  /\ flash[s] \in Sector /\ flash[s].nodes \in Seq(Node) /\ Used(s) \in Nat
           /\ \A i \in 1 .. Used(s) : flash[s].nodes[i] \in Node
BY DEF FlashType, Sector, Used

\* A write to one node changes that node.
LEMMA NodeWritten ==
    ASSUME FlashType, NEW s \in Sectors, NEW i \in 1 .. Used(s),
           NEW n \in Node, n.crc => n.key \in Keys, SetNode(<<s, i>>, n)
    PROVE  /\ FlashType' /\ SameHeads
           /\ \A t \in Sectors : Used(t)' = Used(t)
           /\ \A t \in Sectors : \A j \in 1 .. Used(t) :
                 flash'[t].nodes[j] = IF t = s /\ j = i THEN n ELSE flash[t].nodes[j]
<1>1. flash' = [flash EXCEPT ![s].nodes[i] = n]
  BY DEF SetNode
<1>2. /\ flash \in [Sectors -> Sector] /\ flash[s].nodes \in Seq(Node)
      /\ i \in 1 .. Len(flash[s].nodes)
  BY DEF FlashType, Sector, Used
<1>3. [flash[s].nodes EXCEPT ![i] = n] \in Seq(Node)
      /\ Len([flash[s].nodes EXCEPT ![i] = n]) = Len(flash[s].nodes)
  BY <1>2
<1>4. flash' = [flash EXCEPT ![s] = [flash[s] EXCEPT !.nodes = [flash[s].nodes EXCEPT ![i] = n]]]
  BY <1>1, <1>2
<1>5. flash' \in [Sectors -> Sector] /\ SameHeads
  BY <1>2, <1>3, <1>4 DEF Sector, SameHeads
<1>6. \A t \in Sectors : Used(t)' = Used(t)
  BY <1>2, <1>3, <1>4 DEF Sector, Used
<1>7. \A t \in Sectors : \A j \in 1 .. Used(t) :
         flash'[t].nodes[j] = IF t = s /\ j = i THEN n ELSE flash[t].nodes[j]
  BY <1>2, <1>3, <1>4 DEF Sector, Used
<1> QED
  BY <1>5, <1>6, <1>7 DEF FlashType

\* Headers only, or nothing at all.
LEMMA HeadersWritten ==
    ASSUME FlashType, flash' \in [Sectors -> Sector], SameNodes
    PROVE  /\ FlashType'
           /\ \A t \in Sectors : Used(t)' = Used(t) /\ HeldIn(t)' = HeldIn(t) /\ Held(t)' = Held(t)
           /\ Valid' = Valid /\ Kept' = Kept
<1>1. \A t \in Sectors : Used(t)' = Used(t) /\ HeldIn(t)' = HeldIn(t)
  BY DEF SameNodes, Used, HeldIn
<1>2. FlashType'
  BY <1>1 DEF FlashType, SameNodes
<1>3. Valid' = Valid /\ Kept' = Kept
  BY <1>1 DEF Valid, Kept, SameNodes
<1> QED
  BY <1>1, <1>2, <1>3 DEF Held

\* Counting.
LEMMA Counts ==
    ASSUME FlashType
    PROVE  /\ \A s \in Sectors : IsFiniteSet(HeldIn(s)) /\ Held(s) \in Nat /\ Used(s) \in Nat
           /\ IsFiniteSet(Valid) /\ Cardinality(Valid) \in Nat
           /\ IsFiniteSet(Kept) /\ Cardinality(Kept) \in Nat
           /\ Cardinality(Valid) <= Cardinality(Kept)
           /\ Cardinality(Kept) <= Cardinality(Keys) /\ Cardinality(Keys) \in Nat
<1>1. ASSUME NEW s \in Sectors
      PROVE  IsFiniteSet(HeldIn(s)) /\ Held(s) \in Nat /\ Used(s) \in Nat
  <2>1. Used(s) \in Nat
    BY NodesTyped
  <2>2. IsFiniteSet(1 .. Used(s))
    BY <2>1, FS_Interval
  <2>3. HeldIn(s) \in SUBSET (1 .. Used(s))
    BY DEF HeldIn
  <2>4. IsFiniteSet(HeldIn(s))
    BY <2>2, <2>3, FS_Subset
  <2> QED
    BY <2>1, <2>4, FS_CardinalityType DEF Held
<1>2. IsFiniteSet(Keys)
  BY EnvConstants DEF EnvConstants
<1>3. Kept \in SUBSET Keys /\ Valid \in SUBSET Kept
  BY DEF Kept, Valid, IsValid, IsHeld
<1>4. IsFiniteSet(Kept) /\ Cardinality(Kept) <= Cardinality(Keys)
  BY <1>2, <1>3, FS_Subset
<1>5. IsFiniteSet(Valid) /\ Cardinality(Valid) <= Cardinality(Kept)
  BY <1>3, <1>4, FS_Subset
<1> QED
  BY <1>1, <1>2, <1>4, <1>5, FS_CardinalityType

\* A node that nobody looks for becomes another one.
LEMMA NeutralWrite ==
    ASSUME FlashType, NEW s \in Sectors, NEW i \in 1 .. Used(s),
           NEW n \in Node, n.crc => n.key \in Keys, SetNode(<<s, i>>, n),
           ~IsHeld(flash[s].nodes[i]), ~IsHeld(n)
    PROVE  /\ \A t \in Sectors : HeldIn(t)' = HeldIn(t) /\ Held(t)' = Held(t)
           /\ Valid' = Valid /\ Kept' = Kept
<1>1. /\ \A t \in Sectors : Used(t)' = Used(t)
      /\ \A t \in Sectors : \A j \in 1 .. Used(t) :
            flash'[t].nodes[j] = IF t = s /\ j = i THEN n ELSE flash[t].nodes[j]
  BY NodeWritten
<1>2. \A t \in Sectors : HeldIn(t)' = HeldIn(t)
  BY <1>1 DEF HeldIn
<1>3. Kept' = Kept
  BY <1>1 DEF Kept
<1>4. \A m : IsValid(m) => IsHeld(m)
  BY DEF IsValid, IsHeld
<1>5. Valid' = Valid
  BY <1>1, <1>4 DEF Valid
<1> QED
  BY <1>2, <1>3, <1>5 DEF Held

\* ENV_PRE_DELETE: nothing gets lost, but the variable may be without a valid
\* node for a while.
LEMMA PreDeleteWrite ==
    ASSUME FlashType, NEW s \in Sectors, NEW i \in 1 .. Used(s), IsValid(flash[s].nodes[i]),
           SetNode(<<s, i>>, [flash[s].nodes[i] EXCEPT !.st = "PRE_DELETE"])
    PROVE  /\ FlashType' /\ SameHeads
           /\ \A t \in Sectors : Used(t)' = Used(t) /\ HeldIn(t)' = HeldIn(t) /\ Held(t)' = Held(t)
           /\ \A t \in Sectors : \A j \in 1 .. Used(t) : ~(t = s /\ j = i) =>
                 flash'[t].nodes[j] = flash[t].nodes[j]
           /\ flash'[s].nodes[i].crc /\ flash'[s].nodes[i].st = "PRE_DELETE"
           /\ flash'[s].nodes[i].key = flash[s].nodes[i].key
           /\ Kept' = Kept /\ Valid' \subseteq Valid
           /\ \A k \in Keys : k # flash[s].nodes[i].key => (k \in Valid' <=> k \in Valid)
           /\ Cardinality(Valid') = IF flash[s].nodes[i].key \in Valid'
                                    THEN Cardinality(Valid) ELSE Cardinality(Valid) - 1
<1> DEFINE old == flash[s].nodes[i]
           n == [old EXCEPT !.st = "PRE_DELETE"]
<1>1. old \in Node /\ n \in Node /\ old.key \in Keys
  BY NodesTyped DEF Node, FlashType, IsValid
<1>2. n.crc /\ n.st = "PRE_DELETE" /\ n.key = old.key /\ old.crc /\ old.st = "WRITE"
  BY <1>1 DEF Node, IsValid
<1> HIDE DEF n, old
<1>3. SetNode(<<s, i>>, n)
  BY DEF n, old
<1>4. /\ FlashType' /\ SameHeads
      /\ \A t \in Sectors : Used(t)' = Used(t)
      /\ \A t \in Sectors : \A j \in 1 .. Used(t) :
            flash'[t].nodes[j] = IF t = s /\ j = i THEN n ELSE flash[t].nodes[j]
  BY <1>1, <1>2, <1>3, NodeWritten
<1>5. IsHeld(n) /\ IsHeld(old) /\ ~IsValid(n) /\ IsValid(old)
  BY <1>2 DEF IsHeld, IsValid
<1>6. \A t \in Sectors : HeldIn(t)' = HeldIn(t)
  BY <1>4, <1>5 DEF HeldIn, old
<1>7. Kept' = Kept
  BY <1>2, <1>4, <1>5 DEF Kept, old
<1>8. Valid' \subseteq Valid /\ \A k \in Keys : k # old.key => (k \in Valid' <=> k \in Valid)
  BY <1>2, <1>4, <1>5 DEF Valid, old
<1>9. old.key \in Valid
  BY <1>1, <1>5 DEF Valid, old
<1>10. Cardinality(Valid') = IF old.key \in Valid' THEN Cardinality(Valid) ELSE Cardinality(Valid) - 1
  <2>1. CASE old.key \in Valid'
    <3>1. Valid' = Valid
      BY <1>8, <2>1, <1>1 DEF Valid
    <3> QED
      BY <2>1, <3>1
  <2>2. CASE old.key \notin Valid'
    <3>1. Valid' = Valid \ {old.key}
      BY <1>8, <2>2, <1>1 DEF Valid
    <3> QED
      BY <2>2, <3>1, <1>9, Counts, FS_RemoveElement
  <2> QED
    BY <2>1, <2>2
<1> QED
  BY <1>2, <1>4, <1>6, <1>7, <1>8, <1>10 DEF Held, old

\* ENV_WRITE: one valid node more.
LEMMA FinishWrite ==
    ASSUME FlashType, NEW s \in Sectors, NEW i \in 1 .. Used(s),
           flash[s].nodes[i].crc, flash[s].nodes[i].st = "PRE_WRITE",
           SetNode(<<s, i>>, [flash[s].nodes[i] EXCEPT !.st = "WRITE"])
    PROVE  /\ FlashType' /\ SameHeads
           /\ \A t \in Sectors : Used(t)' = Used(t)
           /\ \A t \in Sectors : \A j \in 1 .. Used(t) : ~(t = s /\ j = i) =>
                 flash'[t].nodes[j] = flash[t].nodes[j]
           /\ IsValid(flash'[s].nodes[i]) /\ flash'[s].nodes[i].key = flash[s].nodes[i].key
           /\ HeldIn(s)' = HeldIn(s) \cup {i} /\ Held(s)' = Held(s) + 1
           /\ \A t \in Sectors : t # s => HeldIn(t)' = HeldIn(t) /\ Held(t)' = Held(t)
           /\ Kept' = Kept \cup {flash[s].nodes[i].key}
           /\ Valid' = Valid \cup {flash[s].nodes[i].key}
           /\ Cardinality(Valid') = IF flash[s].nodes[i].key \in Valid
                                    THEN Cardinality(Valid) ELSE Cardinality(Valid) + 1
<1> DEFINE old == flash[s].nodes[i]
           n == [old EXCEPT !.st = "WRITE"]
<1>1. old \in Node /\ n \in Node /\ old.key \in Keys
  BY NodesTyped DEF Node, FlashType
<1>2. n.crc /\ n.st = "WRITE" /\ n.key = old.key /\ old.st = "PRE_WRITE"
  BY <1>1 DEF Node
<1> HIDE DEF n, old
<1>3. SetNode(<<s, i>>, n)
  BY DEF n, old
<1>4. /\ FlashType' /\ SameHeads
      /\ \A t \in Sectors : Used(t)' = Used(t)
      /\ \A t \in Sectors : \A j \in 1 .. Used(t) :
            flash'[t].nodes[j] = IF t = s /\ j = i THEN n ELSE flash[t].nodes[j]
  BY <1>1, <1>2, <1>3, NodeWritten
<1>5. IsHeld(n) /\ ~IsHeld(old) /\ IsValid(n) /\ ~IsValid(old)
  BY <1>2 DEF IsHeld, IsValid
<1>6. HeldIn(s)' = HeldIn(s) \cup {i} /\ i \notin HeldIn(s)
  BY <1>4, <1>5 DEF HeldIn, old
<1>7. \A t \in Sectors : t # s => HeldIn(t)' = HeldIn(t)
  BY <1>4 DEF HeldIn
<1>8. Kept' = Kept \cup {old.key}
  BY <1>1, <1>2, <1>4, <1>5 DEF Kept, old
<1>9. Valid' = Valid \cup {old.key}
  BY <1>1, <1>2, <1>4, <1>5 DEF Valid, old
<1>10. Cardinality(Valid') = IF old.key \in Valid THEN Cardinality(Valid) ELSE Cardinality(Valid) + 1
  BY <1>9, Counts, FS_AddElement
<1>11. Held(s)' = Held(s) + 1
  BY <1>6, Counts, FS_AddElement DEF Held
<1> QED
  BY <1>2, <1>4, <1>5, <1>6, <1>7, <1>8, <1>9, <1>10, <1>11 DEF Held, old

\* ENV_DELETED, on a node that was to be deleted.
LEMMA KillWrite ==
    ASSUME FlashType, NEW s \in Sectors, NEW i \in 1 .. Used(s),
           flash[s].nodes[i].crc, flash[s].nodes[i].st = "PRE_DELETE", Kill(<<s, i>>)
    PROVE  /\ FlashType' /\ SameHeads
           /\ \A t \in Sectors : Used(t)' = Used(t)
           /\ \A t \in Sectors : \A j \in 1 .. Used(t) : ~(t = s /\ j = i) =>
                 flash'[t].nodes[j] = flash[t].nodes[j]
           /\ flash'[s].nodes[i] = Dead
           /\ HeldIn(s)' = HeldIn(s) \ {i} /\ Held(s)' = Held(s) - 1
           /\ \A t \in Sectors : t # s => HeldIn(t)' = HeldIn(t) /\ Held(t)' = Held(t)
           /\ Valid' = Valid
           /\ flash[s].nodes[i].key \in Valid => Kept' = Kept
<1>1. Dead \in Node /\ ~Dead.crc /\ SetNode(<<s, i>>, Dead)
  BY DEF Dead, Node, Kill
<1>2. ~IsHeld(Dead) /\ ~IsValid(Dead) /\ IsHeld(flash[s].nodes[i]) /\ ~IsValid(flash[s].nodes[i])
  BY DEF Dead, IsHeld, IsValid
<1>3. /\ FlashType' /\ SameHeads
      /\ \A t \in Sectors : Used(t)' = Used(t)
      /\ \A t \in Sectors : \A j \in 1 .. Used(t) :
            flash'[t].nodes[j] = IF t = s /\ j = i THEN Dead ELSE flash[t].nodes[j]
  BY <1>1, NodeWritten
<1>4. HeldIn(s)' = HeldIn(s) \ {i} /\ i \in HeldIn(s)
  BY <1>2, <1>3 DEF HeldIn
<1>5. \A t \in Sectors : t # s => HeldIn(t)' = HeldIn(t)
  BY <1>3 DEF HeldIn
<1>6. Valid' = Valid
  BY <1>2, <1>3 DEF Valid
<1>7. ASSUME flash[s].nodes[i].key \in Valid PROVE Kept' = Kept
  <2>1. \A m : IsValid(m) => IsHeld(m)
    BY DEF IsValid, IsHeld
  <2>2. Valid' \subseteq Kept'
    BY <2>1 DEF Valid, Kept
  <2>3. flash[s].nodes[i].key \in Kept'
    BY <1>6, <1>7, <2>2
  <2>4. Kept' \subseteq Kept
    BY <1>2, <1>3 DEF Kept
  <2>5. \A k \in Kept : k # flash[s].nodes[i].key => k \in Kept'
    BY <1>3 DEF Kept
  <2> QED
    BY <2>3, <2>4, <2>5
<1>8. Held(s)' = Held(s) - 1
  BY <1>4, Counts, FS_RemoveElement DEF Held
<1> QED
  BY <1>3, <1>4, <1>5, <1>6, <1>7, <1>8 DEF Held

\* The status byte of a new node.
LEMMA AppendWrite ==
    ASSUME FlashType, NEW s \in Sectors, Used(s) < Slots, Slots \in Nat,
           flash' = [flash EXCEPT ![s].nodes = Append(@, Dead)]
    PROVE  /\ FlashType' /\ SameHeads
           /\ Used(s)' = Used(s) + 1
           /\ \A t \in Sectors : t # s => Used(t)' = Used(t)
           /\ \A t \in Sectors : \A j \in 1 .. Used(t) : flash'[t].nodes[j] = flash[t].nodes[j]
           /\ flash'[s].nodes[Used(s)'] = Dead
           /\ \A t \in Sectors : HeldIn(t)' = HeldIn(t) /\ Held(t)' = Held(t)
           /\ Valid' = Valid /\ Kept' = Kept
<1>1. Dead \in Node /\ ~Dead.crc
  BY DEF Dead, Node
<1>2. ~IsHeld(Dead) /\ ~IsValid(Dead)
  BY DEF Dead, IsHeld, IsValid
<1>3. flash \in [Sectors -> Sector] /\ flash[s].nodes \in Seq(Node) /\ Used(s) \in Nat
  BY DEF FlashType, Sector, Used
<1> DEFINE new == Append(flash[s].nodes, Dead)
<1>4. /\ new \in Seq(Node) /\ Len(new) = Used(s) + 1 /\ new[Used(s) + 1] = Dead
      /\ \A j \in 1 .. Used(s) : new[j] = flash[s].nodes[j]
  BY <1>1, <1>3 DEF Used
<1>5. flash' = [flash EXCEPT ![s] = [flash[s] EXCEPT !.nodes = new]]
  BY <1>3
<1> HIDE DEF new
<1>6. flash' \in [Sectors -> Sector] /\ SameHeads
  <2>1. flash[s] \in Sector /\ [flash[s] EXCEPT !.nodes = new] \in Sector
    BY <1>3, <1>4 DEF Sector
  <2>2. flash' \in [Sectors -> Sector]
    BY <1>3, <1>5, <2>1
  <2>3. \A t \in Sectors : t # s => flash'[t] = flash[t]
    BY <1>3, <1>5
  <2>4. flash'[s] = [flash[s] EXCEPT !.nodes = new]
    BY <1>3, <1>5
  <2>5. /\ flash'[s].magic = flash[s].magic /\ flash'[s].store = flash[s].store
        /\ flash'[s].dirty = flash[s].dirty
    BY <2>1, <2>4 DEF Sector
  <2> QED
    BY <2>2, <2>3, <2>5 DEF SameHeads
<1>7. flash'[s].nodes = new /\ \A t \in Sectors : t # s => flash'[t] = flash[t]
  BY <1>3, <1>5 DEF Sector
<1>8. Used(s)' = Used(s) + 1 /\ \A t \in Sectors : t # s => Used(t)' = Used(t)
  BY <1>4, <1>7 DEF Used
<1>9. \A t \in Sectors : \A j \in 1 .. Used(t) : flash'[t].nodes[j] = flash[t].nodes[j]
  BY <1>4, <1>7
<1>10. flash'[s].nodes[Used(s)'] = Dead
  BY <1>4, <1>7, <1>8
<1>11. \A t \in Sectors : \A j \in 1 .. Used(t)' :
          j \in 1 .. Used(t) \/ (j \notin 1 .. Used(t) /\ flash'[t].nodes[j] = Dead)
  <2>1. ASSUME NEW j \in 1 .. Used(s)'
        PROVE  j \in 1 .. Used(s) \/ (j = Used(s)' /\ j \notin 1 .. Used(s))
    BY <1>3, <1>8
  <2> QED
    BY <1>8, <1>10, <2>1
<1>12. \A t \in Sectors : 1 .. Used(t) \subseteq 1 .. Used(t)'
  <2>1. 1 .. Used(s) \subseteq 1 .. Used(s)'
    BY <1>3, <1>8
  <2> QED
    BY <1>8, <2>1
<1>13. FlashType'
  <2>1. \A t \in Sectors : Used(t)' <= Slots
    BY <1>3, <1>8 DEF FlashType
  <2>2. \A t \in Sectors : \A j \in 1 .. Used(t)' :
            flash'[t].nodes[j].crc => flash'[t].nodes[j].key \in Keys
    <3> SUFFICES ASSUME NEW t \in Sectors, NEW j \in 1 .. Used(t)', flash'[t].nodes[j].crc
                 PROVE  flash'[t].nodes[j].key \in Keys
      OBVIOUS
    <3>1. j \in 1 .. Used(t)
      BY <1>1, <1>11
    <3> QED
      BY <1>9, <3>1 DEF FlashType
  <2> QED
    BY <1>6, <2>1, <2>2 DEF FlashType
<1>14. ASSUME NEW t \in Sectors PROVE HeldIn(t)' = HeldIn(t)
  <2>1. HeldIn(t)' \subseteq HeldIn(t)
    BY <1>2, <1>9, <1>11 DEF HeldIn
  <2>2. HeldIn(t) \subseteq HeldIn(t)'
    BY <1>9, <1>12 DEF HeldIn
  <2> QED
    BY <2>1, <2>2
<1>15. Valid' = Valid
  <2>1. ASSUME NEW k \in Valid' PROVE k \in Valid
    <3>1. PICK t \in Sectors : \E j \in 1 .. Used(t)' :
             IsValid(flash'[t].nodes[j]) /\ flash'[t].nodes[j].key = k
      BY DEF Valid
    <3>2. PICK j \in 1 .. Used(t)' : IsValid(flash'[t].nodes[j]) /\ flash'[t].nodes[j].key = k
      BY <3>1
    <3>3. j \in 1 .. Used(t)
      BY <1>2, <1>11, <3>2
    <3> QED
      BY <1>9, <3>2, <3>3 DEF Valid
  <2>2. ASSUME NEW k \in Valid PROVE k \in Valid'
    <3>1. PICK t \in Sectors : \E j \in 1 .. Used(t) :
             IsValid(flash[t].nodes[j]) /\ flash[t].nodes[j].key = k
      BY DEF Valid
    <3>2. PICK j \in 1 .. Used(t) : IsValid(flash[t].nodes[j]) /\ flash[t].nodes[j].key = k
      BY <3>1
    <3>3. j \in 1 .. Used(t)'
      BY <1>12
    <3>4. IsValid(flash'[t].nodes[j]) /\ flash'[t].nodes[j].key = k
      BY <1>9, <3>2
    <3> QED
      BY <3>3, <3>4 DEF Valid
  <2> QED
    BY <2>1, <2>2
<1>16. Kept' = Kept
  <2>1. ASSUME NEW k \in Kept' PROVE k \in Kept
    <3>1. PICK t \in Sectors : \E j \in 1 .. Used(t)' :
             IsHeld(flash'[t].nodes[j]) /\ flash'[t].nodes[j].key = k
      BY DEF Kept
    <3>2. PICK j \in 1 .. Used(t)' : IsHeld(flash'[t].nodes[j]) /\ flash'[t].nodes[j].key = k
      BY <3>1
    <3>3. j \in 1 .. Used(t)
      BY <1>2, <1>11, <3>2
    <3> QED
      BY <1>9, <3>2, <3>3 DEF Kept
  <2>2. ASSUME NEW k \in Kept PROVE k \in Kept'
    <3>1. PICK t \in Sectors : \E j \in 1 .. Used(t) :
             IsHeld(flash[t].nodes[j]) /\ flash[t].nodes[j].key = k
      BY DEF Kept
    <3>2. PICK j \in 1 .. Used(t) : IsHeld(flash[t].nodes[j]) /\ flash[t].nodes[j].key = k
      BY <3>1
    <3>3. j \in 1 .. Used(t)'
      BY <1>12
    <3>4. IsHeld(flash'[t].nodes[j]) /\ flash'[t].nodes[j].key = k
      BY <1>9, <3>2
    <3> QED
      BY <3>3, <3>4 DEF Kept
  <2> QED
    BY <2>1, <2>2
<1> QED
  BY <1>6, <1>8, <1>9, <1>10, <1>13, <1>14, <1>15, <1>16 DEF Held

\* Erasing and formatting a sector without such nodes.
LEMMA SectorWritten ==
    ASSUME FlashType, NEW s \in Sectors, HeldIn(s) = {}, NEW new \in {Erased, Formatted},
           flash' = [flash EXCEPT ![s] = new]
    PROVE  /\ FlashType'
           /\ flash'[s] = new /\ Used(s)' = 0
           /\ \A t \in Sectors : t # s => flash'[t] = flash[t]
           /\ \A t \in Sectors : t # s => Used(t)' = Used(t)
           /\ \A t \in Sectors : HeldIn(t)' = HeldIn(t) /\ Held(t)' = Held(t)
           /\ Valid' = Valid /\ Kept' = Kept
<1>1. new \in Sector /\ new.nodes = << >>
  <2>1. << >> \in Seq(Node)
    OBVIOUS
  <2>2. Erased \in Sector /\ Erased.nodes = << >>
    BY <2>1 DEF Erased, Sector
  <2>3. Formatted \in Sector /\ Formatted.nodes = << >>
    BY <2>1 DEF Formatted, Sector
  <2> QED
    BY <2>2, <2>3
<1>2. flash \in [Sectors -> Sector]
  BY DEF FlashType
<1>3. flash' \in [Sectors -> Sector] /\ flash'[s] = new /\ \A t \in Sectors : t # s => flash'[t] = flash[t]
  BY <1>1, <1>2
<1>4. Used(s)' = 0
  BY <1>1, <1>3 DEF Used
<1>5. \A t \in Sectors : t # s => Used(t)' = Used(t) /\ HeldIn(t)' = HeldIn(t)
  BY <1>3 DEF Used, HeldIn
<1>6. HeldIn(s)' = {}
  BY <1>4 DEF HeldIn
<1>7. FlashType'
  <2>1. 0 <= Slots
    BY EnvConstants DEF EnvConstants
  <2> QED
    BY <1>3, <1>4, <1>5, <2>1 DEF FlashType
<1>8. \A i \in 1 .. Used(s) : ~IsHeld(flash[s].nodes[i]) /\ ~IsValid(flash[s].nodes[i])
  BY DEF HeldIn, IsHeld, IsValid
<1>9. Valid' = Valid
  BY <1>3, <1>4, <1>5, <1>8 DEF Valid
<1>10. Kept' = Kept
  BY <1>3, <1>4, <1>5, <1>8 DEF Kept
<1> QED
  BY <1>3, <1>4, <1>5, <1>6, <1>7, <1>9, <1>10 DEF Held
----------------------------------------------------------------------------
(* The invariant.                                                          *)

Other(s) == 3 - s

\* The steps of set_env and move_env that write one node.
Copying == {"status", "prewrite", "header", "data", "write"}
JobSteps == {"predirty", "move", "delete", "dirty"} \cup Copying
Job(then) == pc \in JobSteps /\ job.then = then
GcWork == pc \in {"gcnode", "erase"} \/ Job("gcnode")
InGc == pc \in {"gc", "format"} \/ GcWork
Resting == \/ pc \in {"idle", "alloc", "retry", "find", "setend", "envscan", "scanned"}
           \/ Job("setend") \/ Job("envscan")
Recovering == \/ pc \in {"headers", "gcscan", "envscan", "scanned"}
              \/ Job("envscan")
              \/ InGc /\ gc.then \in {"gcscan", "envscan"}

RamType ==
    /\ job \in [key : Keys \cup {None}, val : Values \cup {None}, src : Places \cup {None},
                dst : Nat, full : BOOLEAN, then : {"none", "setend", "envscan", "gcnode"}]
    /\ gc \in [s : Nat, i : Nat, then : {"none", "retry", "setend", "gcscan", "envscan"}]
    /\ gc_request \in BOOLEAN /\ in_recovery_check \in BOOLEAN
    /\ last_is_complete_del \in BOOLEAN
    /\ env_cache_table \in [Keys -> Places \cup {None}]
    /\ Cardinality({k \in Keys : env_cache_table[k] # None}) <= CacheSize
    /\ losses \in 0 .. MaxLosses

\* Nobody has asked for garbage collection yet.
Unasked == \/ pc \in {"off", "idle", "alloc", "retry", "find", "headers", "gcscan", "envscan"}
           \/ Job("envscan") \/ (Job("setend") /\ pc \notin {"delete", "dirty"})

\* Where garbage is collected, where the boot is, and whose job it is.
Control ==
    /\ pc \in JobSteps \cup {"off", "headers", "gcscan", "envscan", "scanned", "idle", "alloc",
                             "retry", "find", "setend", "gc", "gcnode", "erase", "format"}
    /\ pc \in {"alloc", "retry"} => request \in [key : Keys, val : Values]
    /\ pc = "find" => job.key \in Keys /\ job.then = "setend" /\ job.src = None
    /\ pc \in JobSteps => /\ job.key \in Keys
                          /\ job.then \in {"setend", "envscan", "gcnode"}
                          /\ job.then = "envscan" => pc # "predirty"
                          /\ job.then = "setend" => pc # "move"
    /\ InGc => gc.then # "none" /\ gc.s \in 1 .. 3 /\ gc.i > 0 /\ gc_request
    /\ GcWork \/ pc = "format" => gc.s \in Sectors
    /\ pc = "gc" /\ gc.then = "retry" => request \in [key : Keys, val : Values]
    /\ (GcWork \/ pc = "format") /\ gc.then = "retry" => request \in [key : Keys, val : Values]
    /\ Unasked => ~gc_request
    /\ in_recovery_check <=> Recovering

Clean(s) == flash[s].dirty = "FALSE"
CleanSoFar ==
    /\ pc = "gc" => \A s \in Sectors : s < gc.s => Clean(s)
    /\ pc = "retry" => \A s \in Sectors : Clean(s)

\* One sector in use, the other empty.
InUse(u) == flash[u].magic /\ flash[u].store \in {"USING", "FULL"}
Normal(u) == InUse(u) /\ flash[u].dirty \in {"FALSE", "TRUE"} /\ flash[Other(u)] = Formatted

\* Its nodes are on their way into the other one ...
Target(d) == /\ flash[d].magic /\ flash[d].store = "USING" /\ Clean(d)
             /\ \A i \in 1 .. Used(d) : flash[d].nodes[i].st # "PRE_DELETE"
Collecting(u) == /\ InUse(u) /\ flash[u].dirty = "GC"
                 /\ flash[Other(u)] = Formatted \/ Target(Other(u))

\* ... and there.
Erasing(u) == flash[u] = Erased /\ Target(Other(u))

\* What is in a clean sector is a valid node of its own variable, or was left
\* behind by a loss of power: there is room in it.
Open == IF pc \in {"predirty", "header", "data", "write"} THEN 1 ELSE 0
AtRest(u) ==
    /\ Normal(u)
    /\ Clean(u) => /\ flash[u].store = "USING"
                   /\ Used(u) <= Cardinality(Valid) + losses + Open

\* What is still to be moved fits next to what was moved.
Begun == IF Job("gcnode") /\ pc \in {"header", "data", "write", "delete"} THEN 1 ELSE 0
Moving(u) == /\ Collecting(u)
             /\ Used(Other(u)) + Held(u) <= Cardinality(Kept) + losses + Begun
Moved(u) == /\ Erasing(u)
            /\ Used(Other(u)) <= Cardinality(Kept) + losses

Phase ==
    /\ Resting => \E u \in Sectors : AtRest(u)
    /\ GcWork => Moving(gc.s)
    /\ pc = "format" => Moved(gc.s)
    /\ pc = "gc" => \E u \in Sectors : AtRest(u) \/ (Moving(u) /\ gc.s <= u)
    /\ pc = "gcscan" => \E u \in Sectors : AtRest(u) \/ Moving(u)
    /\ pc \in {"off", "headers"} => \E u \in Sectors : AtRest(u) \/ Moving(u) \/ Moved(u)

\* A variable has more than one node only where power was lost between the
\* new node and the deletion of the old one.
Debt == IF \/ pc = "delete"
           \/ /\ pc \in {"predirty", "move"} \cup Copying /\ job.src # None
              /\ job.key \notin Valid /\ ~(pc = "move" /\ job.then = "envscan")
        THEN 1 ELSE 0
Excess == Held(1) + Held(2) <= Cardinality(Valid) + losses + Debt

Something == Kept # {}

\* The node that is replaced or moved, and the one that is written.
At(p) == flash[p[1]].nodes[p[2]]
Replaced(p) == /\ p \in Places /\ p[2] <= Used(p[1])
               /\ At(p).crc /\ At(p).st = "PRE_DELETE" /\ At(p).key = job.key
Source ==
    /\ pc \in JobSteps /\ (job.then # "setend" \/ pc \in {"predirty", "delete", "dirty"})
          => job.src # None
    /\ pc \in JobSteps /\ job.src # None =>
          /\ InUse(job.src[1])
          /\ job.then = "gcnode" => job.src[1] = gc.s
          /\ pc # "dirty" => Replaced(job.src)
    /\ Job("setend") /\ pc \in Copying /\ job.src # None => flash[job.src[1]].dirty = "TRUE"
    /\ pc = "delete" => job.key \in Valid
    /\ pc \in Copying /\ (job.src = None \/ in_recovery_check) => job.key \notin Valid

Destination ==
    /\ pc = "find" \/ pc \in Copying \/ (Job("setend") /\ pc = "predirty") =>
          /\ job.dst \in Sectors
          /\ IF job.then = "gcnode" THEN job.dst = Other(gc.s) ELSE InUse(job.dst)
          /\ pc \in {"find", "predirty", "status", "prewrite"} => Used(job.dst) + 1 < Slots
    /\ Job("gcnode") /\ pc \in Copying \ {"status"} => Target(job.dst)
    /\ pc \in {"header", "data", "write"} =>
          /\ Used(job.dst) > 0
          /\ LET n == flash[job.dst].nodes[Used(job.dst)] IN
             /\ pc = "header" => ~n.crc /\ n.st = "DEAD"
             /\ pc = "data" => ~n.crc /\ n.st = "PRE_WRITE" /\ n.key = job.key
             /\ pc = "write" => n.crc /\ n.st = "PRE_WRITE" /\ n.key = job.key

\* The nodes before the next one have been moved.
Progress ==
    /\ pc = "gcnode" \/ (Job("gcnode") /\ pc = "dirty") => \A j \in HeldIn(gc.s) : j >= gc.i
    /\ Job("gcnode") => \A j \in HeldIn(gc.s) : j >= gc.i \/ j = job.src[2]
    /\ pc = "erase" => HeldIn(gc.s) = {}

\* The cache leads to valid nodes, except to the one under way; what the
\* recovery has entered is the only valid node of its variable.
CachedAt(k, p) ==
    /\ p[2] <= Used(p[1]) /\ At(p).key = k
    /\ \/ IsValid(At(p))
       \/ /\ k = job.key /\ pc \in {"predirty", "move"} \cup Copying /\ p = job.src
          /\ job.then # "envscan" /\ (pc = "write" => job.then = "gcnode")
       \/ k = job.key /\ pc = "write" /\ job.then = "setend" /\ p = <<job.dst, Used(job.dst)>>
Cached ==
    \A k \in Keys : env_cache_table[k] # None => CachedAt(k, env_cache_table[k])
CachedOnly ==
    in_recovery_check \/ pc = "off" => \A k \in Keys : env_cache_table[k] # None =>
        \A s \in Sectors : \A i \in 1 .. Used(s) :
            IsValid(flash[s].nodes[i]) /\ flash[s].nodes[i].key = k => env_cache_table[k] = <<s, i>>

StoreInv == /\ FlashType /\ RamType /\ Control /\ CleanSoFar /\ Phase /\ Excess /\ Something
            /\ Source /\ Destination /\ Progress /\ Cached /\ CachedOnly
----------------------------------------------------------------------------
(* Reading.                                                                *)

LEMMA FlashKept ==
    ASSUME flash' = flash
    PROVE  /\ FlashType' = FlashType
           /\ \A t : /\ Used(t)' = Used(t) /\ HeldIn(t)' = HeldIn(t) /\ Held(t)' = Held(t)
                     /\ InUse(t)' = InUse(t) /\ Clean(t)' = Clean(t) /\ Target(t)' = Target(t)
                     /\ Normal(t)' = Normal(t) /\ Collecting(t)' = Collecting(t)
                     /\ Erasing(t)' = Erasing(t)
           /\ Valid' = Valid /\ Kept' = Kept
           /\ \A p : At(p)' = At(p)
BY DEF FlashType, Used, HeldIn, Held, InUse, Clean, Target, Normal, Collecting, Erasing, Valid,
       Kept, At

\* An entry of the cache changes, and another one may make room for it.
LEMMA CacheEntered ==
    ASSUME RamType, NEW k \in Keys, NEW p \in Places, update_env_cache(k, p)
    PROVE  /\ env_cache_table' \in [Keys -> Places \cup {None}]
           /\ Cardinality({q \in Keys : env_cache_table'[q] # None}) <= CacheSize
           /\ env_cache_table'[k] = p
           /\ \A q \in Keys : q # k => env_cache_table'[q] \in {env_cache_table[q], None}
<1> DEFINE S == {q \in Keys : env_cache_table[q] # None}
<1>1. IsFiniteSet(Keys) /\ None \notin Places /\ CacheSize \in Nat
  BY EnvConstants DEF EnvConstants
<1>2. S \in SUBSET Keys
  OBVIOUS
<1>3. IsFiniteSet(S) /\ Cardinality(S) \in Nat
  BY <1>1, <1>2, FS_Subset, FS_CardinalityType
<1>4. env_cache_table \in [Keys -> Places \cup {None}] /\ Cardinality(S) <= CacheSize
  BY DEF RamType
<1>5. CASE /\ env_cache_table[k] # None \/ Cardinality(S) < CacheSize
           /\ env_cache_table' = [env_cache_table EXCEPT ![k] = p]
  <2>1. {q \in Keys : env_cache_table'[q] # None} = S \cup {k}
    BY <1>1, <1>4, <1>5
  <2>2. k \in S <=> env_cache_table[k] # None
    OBVIOUS
  <2>3. Cardinality(S \cup {k}) = IF k \in S THEN Cardinality(S) ELSE Cardinality(S) + 1
    BY <1>3, FS_AddElement
  <2>4. Cardinality(S \cup {k}) <= CacheSize
    BY <1>1, <1>3, <1>4, <1>5, <2>2, <2>3
  <2> QED
    BY <1>4, <1>5, <2>1, <2>4
<1>6. ASSUME env_cache_table[k] = None, Cardinality(S) = CacheSize,
             NEW victim \in Keys \ {k}, env_cache_table[victim] # None,
             env_cache_table' = [env_cache_table EXCEPT ![k] = p, ![victim] = None]
      PROVE  /\ env_cache_table' \in [Keys -> Places \cup {None}]
             /\ Cardinality({q \in Keys : env_cache_table'[q] # None}) <= CacheSize
             /\ env_cache_table'[k] = p
             /\ \A q \in Keys : q # k => env_cache_table'[q] \in {env_cache_table[q], None}
  <2>1. {q \in Keys : env_cache_table'[q] # None} = (S \ {victim}) \cup {k}
    BY <1>1, <1>4, <1>6
  <2>2. victim \in S /\ k \notin S
    BY <1>6
  <2>3. IsFiniteSet(S \ {victim}) /\ Cardinality(S \ {victim}) = Cardinality(S) - 1
    BY <1>3, <2>2, FS_RemoveElement
  <2>4. Cardinality((S \ {victim}) \cup {k}) = Cardinality(S \ {victim}) + 1
    BY <2>2, <2>3, FS_AddElement
  <2>5. Cardinality((S \ {victim}) \cup {k}) <= CacheSize
    BY <1>1, <1>3, <1>6, <2>3, <2>4
  <2> QED
    BY <1>4, <1>6, <2>1, <2>5
<1> QED
  BY <1>5, <1>6 DEF update_env_cache

\* In every phase the scans see all nodes.
LEMMA AllReadable ==
    ASSUME TwoSectors, FlashType, NEW u \in Sectors, Normal(u) \/ Collecting(u)
    PROVE  \A s \in Sectors : Used(s) > 0 => Readable(s)
<1>1. Sectors = {1, 2}
  BY SectorsOneTwo
<1>2. \A s \in Sectors : flash[s] = Formatted => Used(s) = 0
  BY DEF Formatted, Used
<1>3. Other(u) \in Sectors /\ \A s \in Sectors : s = u \/ s = Other(u)
  BY <1>1 DEF Other
<1>4. flash[Other(u)] = Formatted \/ Target(Other(u))
  BY DEF Normal, Collecting
<1>5. Readable(u)
  BY DEF Normal, Collecting, InUse, Readable
<1>6. Used(Other(u)) > 0 => Readable(Other(u))
  BY <1>2, <1>3, <1>4 DEF Target, Readable
<1> QED
  BY <1>3, <1>5, <1>6

LEMMA FindNoCache ==
    ASSUME TwoSectors, FlashType, NEW u \in Sectors, Normal(u) \/ Collecting(u), NEW k \in Keys
    PROVE  LET p == find_env_no_cache(k) IN
           \/ p = None /\ k \notin Valid
           \/ /\ p \in Places /\ p[2] <= Used(p[1]) /\ IsValid(At(p)) /\ At(p).key = k
              /\ k \in Valid
<1> DEFINE S == {p \in Iterated : NodeAt(p).key = k /\ NodeAt(p).crc /\ NodeAt(p).st = "WRITE"}
<1>1. S \subseteq Places
  BY DEF Iterated
<1>2. \A p \in S : /\ p \in Places /\ p[2] <= Used(p[1]) /\ IsValid(At(p)) /\ At(p).key = k
  BY DEF Iterated, NodeAt, At, IsValid, Used
<1>3. ASSUME NEW p \in S PROVE k \in Valid
  <2>1. p[1] \in Sectors /\ p[2] \in 1 .. Slots /\ p[2] <= Used(p[1])
    BY <1>2 DEF Places
  <2>2. p[2] \in 1 .. Used(p[1])
    BY <2>1, NodesTyped
  <2> QED
    BY <1>2, <2>1, <2>2 DEF Valid, At
<1>4. ASSUME k \in Valid PROVE S # {}
  <2>1. PICK s \in Sectors : \E i \in 1 .. Used(s) :
           IsValid(flash[s].nodes[i]) /\ flash[s].nodes[i].key = k
    BY <1>4 DEF Valid
  <2>2. PICK i \in 1 .. Used(s) : IsValid(flash[s].nodes[i]) /\ flash[s].nodes[i].key = k
    BY <2>1
  <2>3. Used(s) \in Nat /\ Used(s) <= Slots /\ Slots \in Nat
    BY NodesTyped, EnvConstants DEF FlashType, EnvConstants
  <2>4. <<s, i>> \in Places /\ i <= Used(s) /\ Used(s) > 0
    BY <2>3 DEF Places
  <2>5. Readable(s)
    BY <2>4, AllReadable
  <2>6. <<s, i>> \in Iterated
    BY <2>4, <2>5 DEF Iterated, Used
  <2>7. <<s, i>> \in S
    BY <2>2, <2>6 DEF NodeAt, IsValid
  <2> QED
    BY <2>7
<1>5. find_env_no_cache(k) = FirstOf(S)
  BY DEF find_env_no_cache
<1> HIDE DEF S
<1>6. CASE S = {}
  BY <1>4, <1>5, <1>6 DEF FirstOf
<1>7. CASE S # {}
  <2>1. FirstOf(S) \in S
    BY <1>1, <1>7, FirstIsIn
  <2> QED
    BY <1>2, <1>3, <1>5, <2>1
<1> QED
  BY <1>6, <1>7

\* The cache is right where no job is under way.
LEMMA FindEnv ==
    ASSUME TwoSectors, FlashType, RamType, Cached, NEW u \in Sectors, Normal(u), NEW k \in Keys,
           pc \notin JobSteps
    PROVE  LET p == find_env(k) IN
           \/ p = None /\ k \notin Valid
           \/ /\ p \in Places /\ p[2] <= Used(p[1]) /\ IsValid(At(p)) /\ At(p).key = k
              /\ k \in Valid
<1>1. CASE env_cache_table[k] = None
  <2>1. find_env(k) = find_env_no_cache(k)
    BY <1>1 DEF find_env
  <2> QED
    BY <2>1, FindNoCache
<1>2. CASE env_cache_table[k] # None
  <2> DEFINE p == env_cache_table[k]
  <2>1. find_env(k) = p
    BY <1>2 DEF find_env
  <2>2. p \in Places
    BY <1>2 DEF RamType
  <2>3. p[2] <= Used(p[1]) /\ At(p).key = k /\ IsValid(At(p))
    BY <1>2 DEF Cached, CachedAt, JobSteps, Copying
  <2>4. p[1] \in Sectors /\ p[2] \in 1 .. Used(p[1])
    BY <2>2, <2>3, NodesTyped DEF Places
  <2>5. k \in Valid
    BY <2>3, <2>4 DEF Valid, At
  <2> QED
    BY <2>1, <2>2, <2>3, <2>5
<1> QED
  BY <1>1, <1>2
----------------------------------------------------------------------------
(* alloc_env.                                                              *)

LEMMA Others ==
    ASSUME TwoSectors, NEW u \in Sectors
    PROVE  /\ Other(u) \in Sectors /\ Other(u) # u /\ Other(Other(u)) = u /\ u \in 1 .. 2
           /\ \A s \in Sectors : s = u \/ s = Other(u)
           /\ Sectors = {u, Other(u)}
BY SectorsOneTwo DEF Other

LEMMA LowestOfOne ==
    ASSUME NEW s \in Nat
    PROVE  Lowest({s}) = s
BY DEF Lowest

LEMMA EmptyAtRest ==
    ASSUME TwoSectors, NEW u \in Sectors, Normal(u)
    PROVE  Empties = {Other(u)} /\ Cardinality(Empties) = 1 /\ FewEmpty
<1>1. flash[Other(u)].magic /\ flash[Other(u)].store = "EMPTY" /\ flash[u].store # "EMPTY"
  BY DEF Normal, InUse, Formatted
<1>2. Empties = {Other(u)}
  BY <1>1, Others DEF Empties
<1>3. Cardinality(Empties) = 1
  BY <1>2, FS_Singleton
<1> QED
  BY <1>2, <1>3, SectorsOneTwo DEF FewEmpty

LEMMA FewWhileMoving ==
    ASSUME TwoSectors, NEW u \in Sectors, Collecting(u)
    PROVE  FewEmpty
<1>1. flash[u].store # "EMPTY"
  BY DEF Collecting, InUse
<1>2. Empties = {} \/ Empties = {Other(u)}
  BY <1>1, Others DEF Empties
<1>3. Cardinality(Empties) = 0 \/ Cardinality(Empties) = 1
  BY <1>2, FS_Singleton, FS_EmptySet
<1> QED
  BY <1>3, SectorsOneTwo DEF FewEmpty

LEMMA AllocAtRest ==
    ASSUME TwoSectors, FlashType, NEW u \in Sectors, Normal(u), ~gc_request
    PROVE  /\ alloc_env = IF flash[u].store = "USING" /\ Used(u) + 1 < Slots THEN u ELSE None
           /\ None # u
<1>1. None # u /\ Slots \in Nat /\ Used(u) \in Nat /\ u \in Nat
  BY EnvConstants, NodesTyped, SectorsOneTwo DEF EnvConstants
<1>2. EmptyCandidates = {}
  BY EmptyAtRest, SectorsOneTwo DEF EmptyCandidates
<1>3. flash[Other(u)].store # "USING"
  BY DEF Normal, Formatted
<1>4. Remain(u) > 1 <=> Used(u) + 1 < Slots
  BY <1>1 DEF Remain, Used
<1>5. Allocatable(u) <=> Used(u) + 1 < Slots
  BY <1>4 DEF Allocatable, Normal, InUse
<1>6. UsingCandidates = IF flash[u].store = "USING" /\ Used(u) + 1 < Slots THEN {u} ELSE {}
  BY <1>3, <1>5, Others DEF UsingCandidates
<1> QED
  BY <1>1, <1>2, <1>6, LowestOfOne DEF alloc_env

LEMMA AllocMoving ==
    ASSUME TwoSectors, FlashType, NEW u \in Sectors, Collecting(u), gc_request,
           Used(Other(u)) + 1 < Slots
    PROVE  alloc_env = Other(u) /\ alloc_env # None
<1> DEFINE d == Other(u)
<1>0. d \in Sectors /\ Sectors = {u, d} /\ d # u
  BY Others
<1>1. None # d /\ Slots \in Nat /\ Used(d) \in Nat /\ d \in Nat
  <2> HIDE DEF d
  <2>1. None # d /\ Slots \in Nat
    BY <1>0, EnvConstants DEF EnvConstants
  <2>2. Used(d) \in Nat
    BY <1>0, NodesTyped
  <2>3. d \in Nat
    BY <1>0, SectorsOneTwo
  <2> QED
    BY <2>1, <2>2, <2>3
<1>2. Remain(d) > 1
  BY <1>1 DEF Remain, Used
<1>3. ~Allocatable(u)
  BY DEF Allocatable, Collecting
<1>4. CASE flash[d] = Formatted
  <2>1. Allocatable(d) /\ flash[d].store = "EMPTY" /\ flash[d].magic
    BY <1>2, <1>4 DEF Allocatable, Formatted
  <2>2. UsingCandidates = {}
    BY <1>0, <1>3, <2>1 DEF UsingCandidates
  <2>3. EmptyCandidates = {d}
    BY <1>0, <1>3, <2>1 DEF EmptyCandidates, Empties
  <2> QED
    BY <1>1, <2>2, <2>3, LowestOfOne DEF alloc_env
<1>5. CASE Target(d)
  <2>1. Allocatable(d) /\ flash[d].store = "USING"
    BY <1>2, <1>5 DEF Allocatable, Target, Clean
  <2>2. UsingCandidates = {d}
    BY <1>0, <1>3, <2>1 DEF UsingCandidates
  <2> QED
    BY <1>1, <2>2, LowestOfOne DEF alloc_env
<1> QED
  BY <1>4, <1>5 DEF Collecting

\* A clean sector has room for another node.
LEMMA CleanHasRoom ==
    ASSUME TwoSectors, FlashType, RamType, NEW u \in Sectors, AtRest(u), Clean(u), Open = 0
    PROVE  flash[u].store = "USING" /\ Used(u) + 1 < Slots
<1>1. /\ Slots \in Nat /\ Slots >= Cardinality(Keys) + MaxLosses + RemainThreshold
      /\ RemainThreshold \in Nat /\ MaxLosses \in Nat
  BY EnvConstants DEF EnvConstants
<1>2. Used(u) <= Cardinality(Valid) + losses
  BY Counts DEF AtRest, RamType
<1>3. losses \in Nat /\ losses <= MaxLosses
  BY <1>1 DEF RamType
<1> QED
  BY <1>1, <1>2, <1>3, Counts DEF AtRest, TwoSectors
----------------------------------------------------------------------------
(* Steps that write nothing to the flash.                                  *)

LEMMA PhaseKept ==
    ASSUME TwoSectors, FlashType, RamType, flash' = flash, losses' \in {losses, losses + 1},
           NEW u \in Sectors
    PROVE  /\ AtRest(u) /\ (Open <= Open' \/ losses' = losses + 1) => AtRest(u)'
           /\ Moving(u) /\ (Begun <= Begun' \/ losses' = losses + 1) => Moving(u)'
           /\ Moved(u) => Moved(u)'
<1>1. /\ Open \in {0, 1} /\ Open' \in {0, 1} /\ Begun \in {0, 1} /\ Begun' \in {0, 1}
      /\ losses \in Int
  BY DEF Open, Begun, RamType
<1>2. /\ Used(u) \in Int /\ Cardinality(Valid) \in Int /\ Cardinality(Kept) \in Int
      /\ Held(u) \in Int
  BY Counts
<1>3. /\ Used(u)' = Used(u) /\ Cardinality(Valid)' = Cardinality(Valid)
      /\ Cardinality(Kept)' = Cardinality(Kept) /\ Held(u)' = Held(u)
      /\ Used(Other(u))' = Used(Other(u))
      /\ Normal(u)' = Normal(u) /\ Clean(u)' = Clean(u) /\ Collecting(u)' = Collecting(u)
      /\ Erasing(u)' = Erasing(u)
  BY FlashKept
<1>4. AtRest(u) /\ (Open <= Open' \/ losses' = losses + 1) => AtRest(u)'
  <2> SUFFICES ASSUME AtRest(u), Open <= Open' \/ losses' = losses + 1, Clean(u)
               PROVE  flash[u].store = "USING" /\ Used(u) <= Cardinality(Valid) + losses' + Open'
    BY <1>3 DEF AtRest
  <2> QED
    BY <1>1, <1>2 DEF AtRest
<1>5. Used(Other(u)) \in Int
  BY Others, Counts
<1>6. Moving(u) /\ (Begun <= Begun' \/ losses' = losses + 1) => Moving(u)'
  BY <1>1, <1>2, <1>3, <1>5 DEF Moving
<1>7. Moved(u) => Moved(u)'
  BY <1>1, <1>2, <1>3, <1>5 DEF Moved
<1> QED
  BY <1>4, <1>6, <1>7

\* What a step has to show if it leaves the flash alone.
LEMMA QuietStep ==
    ASSUME TwoSectors, StoreInv, flash' = flash, losses' \in {losses, losses + 1},
           RamType', Control', CleanSoFar', Phase', Source', Destination', Progress', Cached',
           CachedOnly', Debt <= Debt' \/ losses' = losses + 1
    PROVE  StoreInv'
<1>1. /\ FlashType' /\ Held(1)' = Held(1) /\ Held(2)' = Held(2)
      /\ Cardinality(Valid)' = Cardinality(Valid) /\ Kept' = Kept
  BY FlashKept DEF StoreInv
<1>2. Debt \in {0, 1} /\ Debt' \in {0, 1} /\ losses \in Int
  BY DEF Debt, StoreInv, RamType
<1>3. Held(1) \in Int /\ Held(2) \in Int /\ Cardinality(Valid) \in Int
  BY Counts, SectorsOneTwo DEF StoreInv
<1>4. Excess'
  BY <1>1, <1>2, <1>3 DEF StoreInv, Excess
<1> QED
  BY <1>1, <1>4 DEF StoreInv, Something

LEMMA StepCall ==
    ASSUME TwoSectors, StoreInv, NEW k \in Keys, NEW v \in Values, Call(k, v)
    PROVE  StoreInv'
<1> USE DEF Call, StoreInv
<1>1. RamType' /\ Control' /\ CleanSoFar'
  BY DEF RamType, Control, CleanSoFar, Unasked, JobSteps, Copying, InGc, GcWork, Job, Recovering
<1>2. Phase'
  <2>1. PICK u \in Sectors : AtRest(u)
    BY DEF Phase, Resting
  <2>2. AtRest(u)'
    BY <2>1, PhaseKept DEF Open
  <2> QED
    BY <2>2 DEF Phase, GcWork, Job, JobSteps, Copying
<1>3. Source' /\ Destination' /\ Progress'
  BY DEF Source, Destination, Progress, JobSteps, Copying, Job
<1>4. Cached' /\ CachedOnly'
  BY FlashKept DEF Cached, CachedAt, CachedOnly, Copying, Control, Recovering, InGc, GcWork, Job, JobSteps
<1>5. Debt <= Debt'
  BY DEF Debt, Copying
<1> QED
  BY <1>1, <1>2, <1>3, <1>4, <1>5, QuietStep

LEMMA StepGet ==
    ASSUME TwoSectors, StoreInv, NEW k \in Keys, ef_get_env(k)
    PROVE  StoreInv'
<1> USE DEF ef_get_env, StoreInv
<1>1. PICK u \in Sectors : AtRest(u)
  BY DEF Phase, Resting
<1>2. pc = "idle" /\ pc' = "idle" /\ flash' = flash /\ ~in_recovery_check /\ in_recovery_check' = in_recovery_check
  BY DEF Control, Recovering, InGc, GcWork, Job, JobSteps, Copying
<1>3. /\ env_cache_table' \in [Keys -> Places \cup {None}]
      /\ Cardinality({q \in Keys : env_cache_table'[q] # None}) <= CacheSize
      /\ Cached'
  <2>1. CASE env_cache_table' = env_cache_table
    <3>1. Cached'
      BY <1>2, <2>1, FlashKept DEF Cached, CachedAt
    <3> QED
      BY <2>1, <3>1 DEF RamType
  <2>2. CASE find_env(k) # None /\ update_env_cache(k, find_env(k))
    <3> DEFINE p == find_env(k)
    <3>1. p \in Places /\ p[2] <= Used(p[1]) /\ IsValid(At(p)) /\ At(p).key = k
      BY <1>1, <1>2, <2>2, FindEnv DEF AtRest, JobSteps, Copying
    <3> HIDE DEF p
    <3>2. /\ env_cache_table' \in [Keys -> Places \cup {None}]
          /\ Cardinality({q \in Keys : env_cache_table'[q] # None}) <= CacheSize
          /\ env_cache_table'[k] = p
          /\ \A q \in Keys : q # k => env_cache_table'[q] \in {env_cache_table[q], None}
      BY <2>2, <3>1, CacheEntered DEF p
    <3>3. Cached'
      <4> SUFFICES ASSUME NEW q \in Keys, env_cache_table'[q] # None
                   PROVE  CachedAt(q, env_cache_table[q])'
        BY DEF Cached
      <4>1. CASE q = k
        BY <1>2, <3>1, <3>2, <4>1 DEF CachedAt, At, Used
      <4>2. CASE q # k
        <5>1. env_cache_table'[q] = env_cache_table[q] /\ CachedAt(q, env_cache_table[q])
          BY <3>2, <4>2 DEF Cached
        <5> QED
          BY <1>2, <5>1 DEF CachedAt, At, Used, Copying
      <4> QED
        BY <4>1, <4>2
    <3> QED
      BY <3>2, <3>3
  <2> QED
    BY <2>1, <2>2 DEF CacheFound
<1>4. RamType' /\ Control' /\ CleanSoFar'
  BY <1>3 DEF RamType, Control, CleanSoFar, Unasked, JobSteps, Copying, InGc, GcWork, Job, Recovering
<1>5. Phase'
  <2>1. AtRest(u)'
    BY <1>1, <1>2, PhaseKept DEF Open
  <2> QED
    BY <2>1 DEF Phase, GcWork, Job, JobSteps, Copying
<1>6. Source' /\ Destination' /\ Progress' /\ CachedOnly'
  BY <1>2 DEF Source, Destination, Progress, CachedOnly, JobSteps, Copying, Job
<1>7. Debt <= Debt'
  BY <1>2 DEF Debt, Copying
<1> QED
  BY <1>2, <1>3, <1>4, <1>5, <1>6, <1>7, QuietStep

LEMMA StepNew ==
    ASSUME TwoSectors, StoreInv, new_env
    PROVE  StoreInv'
<1> USE DEF new_env, StoreInv
<1>1. PICK u \in Sectors : AtRest(u)
  BY DEF Phase, Resting
<1>2. /\ pc \in {"alloc", "retry"} /\ flash' = flash /\ ~gc_request
      /\ request \in [key : Keys, val : Values] /\ losses' = losses
      /\ ~in_recovery_check /\ in_recovery_check' = in_recovery_check
      /\ env_cache_table' = env_cache_table /\ last_is_complete_del' = last_is_complete_del
  <2>1. /\ pc \in {"alloc", "retry"} /\ flash' = flash /\ losses' = losses
        /\ in_recovery_check' = in_recovery_check
        /\ env_cache_table' = env_cache_table /\ last_is_complete_del' = last_is_complete_del
    OBVIOUS
  <2>2. request \in [key : Keys, val : Values] /\ ~gc_request
    BY <2>1 DEF Control, Unasked, Job, JobSteps, Copying
  <2>3. ~Recovering
    BY <2>1 DEF Recovering, InGc, GcWork, Job, JobSteps, Copying
  <2>4. ~in_recovery_check
    BY <2>3 DEF Control
  <2> QED
    BY <2>1, <2>2, <2>4
<1>3. /\ alloc_env = IF flash[u].store = "USING" /\ Used(u) + 1 < Slots THEN u ELSE None
      /\ None # u
  BY <1>1, <1>2, AllocAtRest DEF AtRest
<1>4. AtRest(u)' \/ pc' \notin {"find", "gc"}
  BY <1>1, <1>2, PhaseKept DEF Open
<1>5. Cached' \/ pc' \notin {"find", "gc"}
  BY <1>2, FlashKept DEF Cached, CachedAt, Copying
<1>6. CachedOnly' \/ pc' \notin {"find", "gc"}
  BY <1>2 DEF CachedOnly
<1>7. Debt <= Debt' \/ pc' \notin {"find", "gc"}
  BY <1>2 DEF Debt, Copying
<1>8. CASE alloc_env # None
  <2>1. /\ job' = [NoJob EXCEPT !.key = request.key, !.val = request.val,
                                !.dst = u, !.then = "setend"]
        /\ pc' = "find" /\ UNCHANGED <<gc, gc_request, request>>
        /\ Used(u) + 1 < Slots
    BY <1>3, <1>8
  <2>2. /\ job'.key = request.key /\ job'.val = request.val /\ job'.src = None /\ job'.dst = u
        /\ job'.then = "setend" /\ job'.full = FALSE
        /\ job' = [key |-> request.key, val |-> request.val, src |-> None, dst |-> u,
                   full |-> FALSE, then |-> "setend"]
    BY <2>1 DEF NoJob
  <2>3. u \in Nat
    BY Others
  <2>4. RamType'
    <3>1. job' \in [key : Keys \cup {None}, val : Values \cup {None}, src : Places \cup {None},
                    dst : Nat, full : BOOLEAN, then : {"none", "setend", "envscan", "gcnode"}]
      BY <1>2, <2>2, <2>3
    <3> QED
      BY <1>2, <2>1, <3>1 DEF RamType
  <2>5. Control' /\ CleanSoFar'
    BY <1>2, <2>1, <2>2 DEF Control, CleanSoFar, Unasked, JobSteps, Copying, InGc, GcWork, Job, Recovering
  <2>6. Phase'
    BY <1>4, <2>1 DEF Phase, GcWork, Job, JobSteps, Copying
  <2>7. Source' /\ Progress'
    BY <2>1 DEF Source, Progress, JobSteps, Copying, Job
  <2>8. InUse(u)' /\ Used(u)' + 1 < Slots
    BY <1>1, <1>2, <2>1, FlashKept DEF AtRest, Normal
  <2>9. Destination'
    BY <2>1, <2>2, <2>8 DEF Destination, JobSteps, Copying, Job
  <2> QED
    BY <1>2, <1>5, <1>6, <1>7, <2>1, <2>4, <2>5, <2>6, <2>7, <2>9, QuietStep
<1>9. CASE alloc_env = None
  <2>1. pc = "alloc"
    <3> SUFFICES ASSUME pc = "retry" PROVE FALSE
      BY <1>2
    <3>1. Clean(u) /\ Open = 0
      BY DEF CleanSoFar, Open
    <3> QED
      BY <1>1, <1>3, <1>9, <3>1, CleanHasRoom
  <2>2. gc_request' = TRUE
    BY <1>1, <1>9, EmptyAtRest DEF RequestAfterAlloc, AtRest
  <2>3. /\ pc' = "gc" /\ gc' = [s |-> 1, i |-> 1, then |-> "retry"]
        /\ UNCHANGED <<request, job>>
    BY <1>1, <1>9, <2>1, <2>2, EmptyAtRest DEF StartGc, AtRest
  <2>4. RamType' /\ Control' /\ CleanSoFar'
    <3>1. RamType'
      BY <1>2, <2>2, <2>3 DEF RamType
    <3>2. CleanSoFar'
      BY <2>3, SectorsOneTwo DEF CleanSoFar
    <3>3. Control'
      BY <1>2, <2>2, <2>3 DEF Control, Unasked, JobSteps, Copying, InGc, GcWork, Job, Recovering
    <3> QED
      BY <3>1, <3>2, <3>3
  <2>5. Phase'
    BY <1>4, <2>3 DEF Phase, Resting, GcWork, Job, JobSteps, Copying
  <2>6. Source' /\ Destination' /\ Progress'
    BY <2>3 DEF Source, Destination, Progress, JobSteps, Copying, Job
  <2> QED
    BY <1>2, <1>5, <1>6, <1>7, <2>3, <2>4, <2>5, <2>6, QuietStep
<1> QED
  BY <1>8, <1>9
\* Where no job is under way and none is begun, the cache stays right.
LEMMA CacheKept ==
    ASSUME Cached, flash' = flash, env_cache_table' = env_cache_table, pc \notin JobSteps
    PROVE  Cached'
BY DEF Cached, CachedAt, At, Used, JobSteps, Copying

LEMMA StepSetEnd ==
    ASSUME TwoSectors, StoreInv, SetEnd
    PROVE  StoreInv'
<1> USE DEF SetEnd, StoreInv
<1>1. PICK u \in Sectors : AtRest(u)
  BY DEF Phase, Resting
<1>2. /\ pc = "setend" /\ flash' = flash /\ losses' = losses /\ job' = NoJob
      /\ gc_request' = gc_request /\ in_recovery_check' = in_recovery_check
      /\ env_cache_table' = env_cache_table /\ last_is_complete_del' = last_is_complete_del
  OBVIOUS
<1>3. ~in_recovery_check
  BY <1>2 DEF Control, Recovering, InGc, GcWork, Job, JobSteps, Copying
<1>4. \/ pc' = "gc" /\ gc' = [s |-> 1, i |-> 1, then |-> "setend"] /\ gc_request
      \/ pc' = "idle" /\ gc' = gc /\ ~gc_request
  BY <1>1, EmptyAtRest DEF StartGc, AtRest
<1>5. RamType'
  <2>1. job' \in [key : Keys \cup {None}, val : Values \cup {None}, src : Places \cup {None},
                  dst : Nat, full : BOOLEAN, then : {"none", "setend", "envscan", "gcnode"}]
    BY <1>2 DEF NoJob
  <2>2. gc' \in [s : Nat, i : Nat, then : {"none", "retry", "setend", "gcscan", "envscan"}]
    BY <1>4 DEF RamType
  <2> QED
    BY <1>2, <2>1, <2>2 DEF RamType
<1>6. Control'
  BY <1>2, <1>3, <1>4 DEF Control, Unasked, JobSteps, Copying, InGc, GcWork, Job, Recovering
<1>7. CleanSoFar'
  BY <1>4, SectorsOneTwo DEF CleanSoFar
<1>8. Phase'
  <2>1. AtRest(u)'
    BY <1>1, <1>2, <1>4, PhaseKept DEF Open
  <2> QED
    BY <1>4, <2>1 DEF Phase, GcWork, Job, JobSteps, Copying
<1>9. Source' /\ Destination' /\ Progress'
  BY <1>4 DEF Source, Destination, Progress, JobSteps, Copying, Job
<1>10. Cached' /\ CachedOnly'
  BY <1>2, <1>3, <1>4, CacheKept DEF CachedOnly, JobSteps, Copying
<1>11. Debt <= Debt'
  BY <1>2, <1>4 DEF Debt, Copying
<1> QED
  BY <1>2, <1>5, <1>6, <1>7, <1>8, <1>9, <1>10, <1>11, QuietStep

\* Every state belongs to one of the phases.
LEMMA SomePhase ==
    ASSUME TwoSectors, StoreInv
    PROVE  \E u \in Sectors : AtRest(u) \/ Moving(u) \/ Moved(u)
<1>1. Resting \/ GcWork \/ pc \in {"format", "gc", "gcscan", "off", "headers"}
  BY DEF StoreInv, Control, Resting, GcWork, Job, JobSteps
<1>2. GcWork \/ pc = "format" => gc.s \in Sectors
  BY DEF StoreInv, Control
<1> QED
  BY <1>1, <1>2 DEF StoreInv, Phase

LEMMA StepPowerLoss ==
    ASSUME TwoSectors, StoreInv, PowerLoss
    PROVE  StoreInv'
<1> USE DEF PowerLoss, StoreInv
<1>1. PICK u \in Sectors : AtRest(u) \/ Moving(u) \/ Moved(u)
  BY SomePhase
<1>2. RamType'
  <2>1. job' \in [key : Keys \cup {None}, val : Values \cup {None}, src : Places \cup {None},
                  dst : Nat, full : BOOLEAN, then : {"none", "setend", "envscan", "gcnode"}]
    BY DEF NoJob
  <2>2. gc' \in [s : Nat, i : Nat, then : {"none", "retry", "setend", "gcscan", "envscan"}]
    BY DEF NoGc
  <2>3. MaxLosses \in Nat /\ CacheSize \in Nat
    BY EnvConstants DEF EnvConstants
  <2>4. losses' \in 0 .. MaxLosses
    BY <2>3 DEF RamType
  <2>5. env_cache_table' \in [Keys -> Places \cup {None}]
    OBVIOUS
  <2>6. {k \in Keys : env_cache_table'[k] # None} = {}
    OBVIOUS
  <2>7. Cardinality({k \in Keys : env_cache_table'[k] # None}) <= CacheSize
    BY <2>3, <2>6, FS_EmptySet
  <2> QED
    BY <2>1, <2>2, <2>4, <2>5, <2>7 DEF RamType
<1>3. Control' /\ CleanSoFar'
  BY DEF Control, CleanSoFar, Unasked, JobSteps, Copying, InGc, GcWork, Job, Recovering
<1>4. AtRest(u)' \/ Moving(u)' \/ Moved(u)'
  BY <1>1, PhaseKept
<1>5. Phase'
  BY <1>4 DEF Phase, Resting, GcWork, Job, JobSteps, Copying
<1>6. Source' /\ Destination' /\ Progress'
  BY DEF Source, Destination, Progress, JobSteps, Copying, Job
<1>7. \A k \in Keys : env_cache_table'[k] = None
  OBVIOUS
<1>8. Cached' /\ CachedOnly'
  BY <1>7 DEF Cached, CachedOnly
<1> QED
  BY <1>2, <1>3, <1>5, <1>6, <1>8, QuietStep

LEMMA StepBoot ==
    ASSUME TwoSectors, StoreInv, Boot
    PROVE  StoreInv'
<1> USE DEF Boot, StoreInv
<1>1. PICK u \in Sectors : AtRest(u) \/ Moving(u) \/ Moved(u)
  BY SomePhase
<1>2. RamType' /\ Control' /\ CleanSoFar'
  BY DEF RamType, Control, CleanSoFar, Unasked, JobSteps, Copying, InGc, GcWork, Job, Recovering
<1>3. AtRest(u)' \/ Moving(u)' \/ Moved(u)'
  BY <1>1, PhaseKept DEF Open, Begun, Job, JobSteps, Copying
<1>4. Phase'
  BY <1>3 DEF Phase, Resting, GcWork, Job, JobSteps, Copying
<1>5. Source' /\ Destination' /\ Progress'
  BY DEF Source, Destination, Progress, JobSteps, Copying, Job
<1>6. Cached'
  BY CacheKept DEF JobSteps, Copying
<1>7. CachedOnly'
  BY DEF CachedOnly, Used
<1>8. Debt <= Debt'
  BY DEF Debt, Copying
<1> QED
  BY <1>2, <1>4, <1>5, <1>6, <1>7, <1>8, QuietStep

LEMMA StepRecoverGc ==
    ASSUME TwoSectors, StoreInv, RecoverGc
    PROVE  StoreInv'
<1> USE DEF RecoverGc, StoreInv
<1>1. PICK u \in Sectors : AtRest(u) \/ Moving(u)
  BY DEF Phase
<1>2. /\ pc = "gcscan" /\ flash' = flash /\ losses' = losses /\ job' = job
      /\ in_recovery_check' = in_recovery_check /\ env_cache_table' = env_cache_table
      /\ last_is_complete_del' = last_is_complete_del
  OBVIOUS
<1>3. in_recovery_check /\ ~gc_request
  BY <1>2 DEF Control, Recovering, Unasked
<1>4. FewEmpty
  BY <1>1, EmptyAtRest, FewWhileMoving DEF AtRest, Moving
<1>5. \/ pc' = "gc" /\ gc' = [s |-> 1, i |-> 1, then |-> "gcscan"] /\ gc_request'
      \/ /\ pc' = "envscan" /\ gc' = gc /\ gc_request' = gc_request
         /\ ~\E s \in Sectors : flash[s].magic /\ flash[s].dirty = "GC"
  BY <1>4 DEF StartGc
<1>6. RamType'
  <2>1. gc' \in [s : Nat, i : Nat, then : {"none", "retry", "setend", "gcscan", "envscan"}]
    BY <1>5 DEF RamType
  <2>2. gc_request' \in BOOLEAN
    BY <1>5 DEF RamType
  <2> QED
    BY <1>2, <2>1, <2>2 DEF RamType
<1>7. Control'
  BY <1>2, <1>3, <1>5 DEF Control, Unasked, JobSteps, Copying, InGc, GcWork, Job, Recovering
<1>8. CleanSoFar'
  BY <1>5, SectorsOneTwo DEF CleanSoFar
<1>9. Phase'
  <2>1. AtRest(u)' \/ Moving(u)'
    BY <1>1, <1>2, <1>5, PhaseKept DEF Open, Begun, Job, JobSteps, Copying
  <2>2. 1 <= u
    BY Others
  <2>3. CASE pc' = "gc"
    BY <1>5, <2>1, <2>2, <2>3 DEF Phase, Resting, GcWork, Job, JobSteps, Copying
  <2>4. CASE pc' = "envscan"
    <3>1. AtRest(u)
      BY <1>1, <1>5, <2>4 DEF Moving, Collecting, InUse
    <3>2. AtRest(u)'
      BY <1>2, <2>4, <3>1, PhaseKept DEF Open
    <3> QED
      BY <2>4, <3>2 DEF Phase, Resting, GcWork, Job, JobSteps, Copying
  <2> QED
    BY <1>5, <2>3, <2>4
<1>10. Source' /\ Destination' /\ Progress'
  BY <1>5 DEF Source, Destination, Progress, JobSteps, Copying, Job
<1>11. Cached'
  BY <1>2, CacheKept DEF JobSteps, Copying
<1>12. CachedOnly'
  BY <1>2, <1>3 DEF CachedOnly, Used
<1>13. Debt <= Debt'
  BY <1>2, <1>5 DEF Debt, Copying
<1> QED
  BY <1>2, <1>6, <1>7, <1>8, <1>9, <1>10, <1>11, <1>12, <1>13, QuietStep

LEMMA StepLoadEnd ==
    ASSUME TwoSectors, StoreInv, LoadEnd
    PROVE  StoreInv'
<1> USE DEF LoadEnd, StoreInv
<1>1. PICK u \in Sectors : AtRest(u)
  BY DEF Phase, Resting
<1>2. /\ pc = "scanned" /\ flash' = flash /\ losses' = losses /\ job' = job
      /\ gc_request' = gc_request /\ env_cache_table' = env_cache_table
      /\ last_is_complete_del' = last_is_complete_del
  OBVIOUS
<1>3. in_recovery_check
  BY <1>2 DEF Control, Recovering
<1>4. \/ /\ pc' = "gc" /\ gc' = [s |-> 1, i |-> 1, then |-> "envscan"] /\ gc_request
         /\ in_recovery_check'
      \/ pc' = "idle" /\ gc' = gc /\ ~gc_request /\ ~in_recovery_check'
  BY <1>1, <1>3, EmptyAtRest DEF StartGc, AtRest
<1>5. RamType'
  <2>1. gc' \in [s : Nat, i : Nat, then : {"none", "retry", "setend", "gcscan", "envscan"}]
    BY <1>4 DEF RamType
  <2>2. in_recovery_check' \in BOOLEAN
    BY DEF RamType
  <2> QED
    BY <1>2, <2>1, <2>2 DEF RamType
<1>6. Control'
  BY <1>2, <1>4 DEF Control, Unasked, JobSteps, Copying, InGc, GcWork, Job, Recovering
<1>7. CleanSoFar'
  BY <1>4, SectorsOneTwo DEF CleanSoFar
<1>8. Phase'
  <2>1. AtRest(u)'
    BY <1>1, <1>2, <1>4, PhaseKept DEF Open
  <2> QED
    BY <1>4, <2>1 DEF Phase, Resting, GcWork, Job, JobSteps, Copying
<1>9. Source' /\ Destination' /\ Progress'
  BY <1>4 DEF Source, Destination, Progress, JobSteps, Copying, Job
<1>10. Cached'
  BY <1>2, CacheKept DEF JobSteps, Copying
<1>11. CachedOnly'
  BY <1>2, <1>3, <1>4 DEF CachedOnly, Used
<1>12. Debt <= Debt'
  BY <1>2, <1>4 DEF Debt, Copying
<1> QED
  BY <1>2, <1>5, <1>6, <1>7, <1>8, <1>9, <1>10, <1>11, <1>12, QuietStep

\* As long as there is a node to be moved there is room for its copy, next to
\* the threshold.
LEMMA MoveHasRoom ==
    ASSUME TwoSectors, FlashType, RamType, NEW u \in Sectors, Moving(u), Begun = 0,
           HeldIn(u) # {}
    PROVE  Used(Other(u)) + 1 + RemainThreshold <= Slots /\ Used(Other(u)) + 1 < Slots
<1>1. /\ Slots \in Nat /\ Slots >= Cardinality(Keys) + MaxLosses + RemainThreshold
      /\ RemainThreshold \in Nat /\ MaxLosses \in Nat
  BY EnvConstants DEF EnvConstants
<1>2. losses \in Nat /\ losses <= MaxLosses
  BY <1>1 DEF RamType
<1>3. Held(u) >= 1
  BY Counts, FS_EmptySet DEF Held
<1>4. Used(Other(u)) \in Nat /\ Held(u) \in Nat
  BY Others, Counts
<1>5. Used(Other(u)) + Held(u) <= Cardinality(Kept) + losses
  BY <1>2, <1>4, Counts DEF Moving
<1>6. Used(Other(u)) + 1 <= Cardinality(Keys) + MaxLosses
  BY <1>1, <1>2, <1>3, <1>4, <1>5, Counts
<1> QED
  BY <1>1, <1>4, <1>6, Counts DEF TwoSectors

\* The node being moved is one of those that must not get lost.
LEMMA SourceIsHeld ==
    ASSUME StoreInv, Job("gcnode"), pc # "dirty"
    PROVE  job.src[1] = gc.s /\ job.src[2] \in HeldIn(gc.s)
<1>1. job.src # None /\ job.src[1] = gc.s /\ Replaced(job.src)
  BY DEF StoreInv, Source, Job
<1>2. gc.s \in Sectors
  BY DEF StoreInv, Control, GcWork
<1>3. job.src \in Sectors \X (1 .. Slots) /\ job.src[2] <= Used(gc.s)
  BY <1>1 DEF Replaced, Places
<1>4. job.src[2] \in 1 .. Used(gc.s)
  BY <1>2, <1>3, NodesTyped DEF StoreInv
<1> QED
  BY <1>1, <1>4 DEF Replaced, HeldIn, IsHeld, At

LEMMA StepMoveAlloc ==
    ASSUME TwoSectors, StoreInv, MoveAlloc
    PROVE  StoreInv'
<1> USE DEF MoveAlloc, StoreInv
<1>1. /\ pc = "move" /\ flash' = flash /\ losses' = losses /\ gc' = gc
      /\ in_recovery_check' = in_recovery_check /\ env_cache_table' = env_cache_table
      /\ last_is_complete_del' = last_is_complete_del /\ request' = request
  OBVIOUS
<1>2. /\ job.key \in Keys /\ job.then \in {"envscan", "gcnode"} /\ job.src # None
      /\ job.dst \in Nat
  BY <1>1 DEF Control, Source, JobSteps, RamType
<1>3. PICK u \in Sectors : IF job.then = "gcnode" THEN u = gc.s /\ Moving(u) ELSE AtRest(u)
  BY <1>1, <1>2 DEF Phase, Resting, GcWork, Job, JobSteps, Control
<1>4. Normal(u) \/ Collecting(u)
  BY <1>3 DEF AtRest, Moving
<1>5. find_env_no_cache(job.key) = None <=> job.key \notin Valid
  <2>1. None \notin Places
    BY EnvConstants DEF EnvConstants
  <2> QED
    BY <1>2, <1>4, <2>1, FindNoCache
<1>6. job.then = "envscan" => /\ in_recovery_check /\ ~gc_request
                              /\ alloc_env \in {u, None}
                              /\ alloc_env # None => Used(u) + 1 < Slots
  <2> SUFFICES ASSUME job.then = "envscan"
               PROVE  /\ in_recovery_check /\ ~gc_request
                      /\ alloc_env \in {u, None}
                      /\ alloc_env # None => Used(u) + 1 < Slots
    OBVIOUS
  <2>1. in_recovery_check /\ ~gc_request
    BY <1>1 DEF Control, Recovering, Unasked, Job, JobSteps
  <2> QED
    BY <1>3, <2>1, AllocAtRest DEF AtRest
<1>7. job.then = "gcnode" => /\ alloc_env = Other(u) /\ alloc_env # None
                             /\ Used(Other(u)) + 1 < Slots /\ gc_request
  <2> SUFFICES ASSUME job.then = "gcnode"
               PROVE  /\ alloc_env = Other(u) /\ alloc_env # None
                      /\ Used(Other(u)) + 1 < Slots /\ gc_request
    OBVIOUS
  <2>1. Job("gcnode") /\ Begun = 0
    BY <1>1 DEF Job, JobSteps, Begun
  <2>2. HeldIn(u) # {}
    BY <1>1, <1>3, <2>1, SourceIsHeld
  <2>3. Used(Other(u)) + 1 < Slots
    BY <1>3, <2>1, <2>2, MoveHasRoom
  <2>4. gc_request
    BY <2>1 DEF Control, InGc, GcWork
  <2> QED
    BY <1>3, <2>3, <2>4, AllocMoving DEF Moving
<1>8. CASE alloc_env # None /\ AlreadyMoved
  <2>1. pc' = "delete" /\ job' = job /\ gc_request' = gc_request
    BY <1>8
  <2>2. in_recovery_check /\ job.key \in Valid
    BY <1>5, <1>8 DEF AlreadyMoved
  <2>3. RamType' /\ CleanSoFar'
    BY <1>1, <2>1 DEF RamType, CleanSoFar
  <2>4. Control'
    BY <1>1, <1>2, <2>1 DEF Control, Unasked, JobSteps, Copying, InGc, GcWork, Job, Recovering
  <2>5. Phase'
    <3>1. IF job.then = "gcnode" THEN u = gc.s /\ Moving(u)' ELSE AtRest(u)'
      BY <1>1, <1>3, <2>1, PhaseKept DEF Open, Begun, Job, JobSteps
    <3> QED
      BY <1>1, <1>2, <2>1, <3>1 DEF Phase, Resting, GcWork, Job, JobSteps, Copying
  <2>6. Source'
    BY <1>1, <1>2, <2>1, <2>2, FlashKept DEF Source, Replaced, JobSteps, Copying, Job
  <2>7. Destination' /\ Progress'
    BY <1>1, <1>2, <2>1, FlashKept DEF Destination, Progress, JobSteps, Copying, Job
  <2>8. CachedOnly'
    BY <1>1, <2>1, <2>2 DEF CachedOnly, Used
  <2>9. Cached'
    <3> SUFFICES ASSUME NEW k \in Keys, env_cache_table[k] # None
                 PROVE  CachedAt(k, env_cache_table[k])'
      BY <1>1 DEF Cached
    <3>1. CachedAt(k, env_cache_table[k])
      BY DEF Cached
    <3>2. CASE IsValid(At(env_cache_table[k]))
      BY <1>1, <3>1, <3>2 DEF CachedAt, At, Used
    <3>3. CASE k = job.key
      <4>0. PICK s \in Sectors : \E i \in 1 .. Used(s) :
               IsValid(flash[s].nodes[i]) /\ flash[s].nodes[i].key = k
        BY <2>2, <3>3 DEF Valid
      <4>1. PICK i \in 1 .. Used(s) : IsValid(flash[s].nodes[i]) /\ flash[s].nodes[i].key = k
        BY <4>0
      <4>2. env_cache_table[k] = <<s, i>>
        BY <2>2, <4>1 DEF CachedOnly
      <4>3. IsValid(At(env_cache_table[k]))
        BY <4>1, <4>2 DEF At
      <4> QED
        BY <3>2, <4>3
    <3> QED
      BY <3>1, <3>2, <3>3 DEF CachedAt
  <2>10. Debt <= Debt'
    BY <1>1, <2>1 DEF Debt
  <2> QED
    BY <1>1, <2>3, <2>4, <2>5, <2>6, <2>7, <2>8, <2>9, <2>10, QuietStep
<1>9. CASE alloc_env # None /\ ~AlreadyMoved
  <2>2. in_recovery_check => job.key \notin Valid
    BY <1>5, <1>9 DEF AlreadyMoved
  <2>3. PICK d \in Sectors : /\ d = alloc_env /\ d \in Nat /\ Used(d) + 1 < Slots
                             /\ IF job.then = "gcnode" THEN d = Other(gc.s) ELSE d = u
    BY <1>2, <1>3, <1>6, <1>7, <1>9, Others, SectorsOneTwo
  <2>1. pc' = "status" /\ job' = [job EXCEPT !.dst = d] /\ gc_request' = gc_request
    BY <1>9, <2>3
  <2>4. /\ job'.key = job.key /\ job'.src = job.src /\ job'.then = job.then /\ job'.dst = d
        /\ job' \in [key : Keys \cup {None}, val : Values \cup {None}, src : Places \cup {None},
                     dst : Nat, full : BOOLEAN, then : {"none", "setend", "envscan", "gcnode"}]
    BY <2>1, <2>3 DEF RamType
  <2>5. RamType' /\ CleanSoFar'
    BY <1>1, <2>1, <2>4 DEF RamType, CleanSoFar
  <2>6. Control'
    BY <1>1, <1>2, <2>1, <2>4 DEF Control, Unasked, JobSteps, Copying, InGc, GcWork, Job, Recovering
  <2>7. Phase'
    <3>1. IF job.then = "gcnode" THEN u = gc.s /\ Moving(u)' ELSE AtRest(u)'
      BY <1>1, <1>3, <2>1, PhaseKept DEF Open, Begun, Job, JobSteps
    <3> QED
      BY <1>1, <1>2, <2>1, <2>4, <3>1 DEF Phase, Resting, GcWork, Job, JobSteps, Copying
  <2>8. Source'
    BY <1>1, <1>2, <2>1, <2>2, <2>4, FlashKept DEF Source, Replaced, JobSteps, Copying, Job
  <2>9. Destination'
    <3>1. job.then # "gcnode" => InUse(d)'
      BY <1>1, <1>3, <2>3, FlashKept DEF AtRest, Normal
    <3> QED
      BY <1>1, <2>1, <2>3, <2>4, <3>1, FlashKept DEF Destination, JobSteps, Copying, Job
  <2>10. Progress'
    BY <1>1, <2>1, <2>4, FlashKept DEF Progress, JobSteps, Copying, Job
  <2>11. CachedOnly'
    BY <1>1, <2>1 DEF CachedOnly, Used
  <2>12. Cached'
    BY <1>1, <2>1, <2>4 DEF Cached, CachedAt, At, Used, Copying
  <2>13. Debt <= Debt'
    BY <1>1, <2>1, <2>4, FlashKept DEF Debt, Copying
  <2> QED
    BY <1>1, <2>5, <2>6, <2>7, <2>8, <2>9, <2>10, <2>11, <2>12, <2>13, QuietStep
<1>10. CASE alloc_env = None
  <2>1. job.then = "envscan"
    BY <1>2, <1>7, <1>10
  <2>2. pc' = "scanned" /\ job' = NoJob /\ gc_request' \in BOOLEAN
    BY <1>10, <2>1 DEF RequestAfterAlloc, RamType
  <2>3. RamType' /\ CleanSoFar'
    <3>1. job' \in [key : Keys \cup {None}, val : Values \cup {None}, src : Places \cup {None},
                    dst : Nat, full : BOOLEAN, then : {"none", "setend", "envscan", "gcnode"}]
      BY <2>2 DEF NoJob
    <3> QED
      BY <1>1, <2>2, <3>1 DEF RamType, CleanSoFar
  <2>4. Control'
    BY <1>1, <1>6, <2>1, <2>2 DEF Control, Unasked, JobSteps, Copying, InGc, GcWork, Job, Recovering
  <2>5. Phase'
    <3>1. AtRest(u)'
      BY <1>1, <1>3, <2>1, <2>2, PhaseKept DEF Open
    <3> QED
      BY <2>2, <3>1 DEF Phase, Resting, GcWork, Job, JobSteps, Copying
  <2>6. Source' /\ Destination' /\ Progress'
    BY <2>2 DEF Source, Destination, Progress, JobSteps, Copying, Job
  <2>7. CachedOnly'
    BY <1>1, <2>2 DEF CachedOnly, Used
  <2>8. Cached'
    BY <1>1, <2>1, <2>2 DEF Cached, CachedAt, At, Used
  <2>9. Debt <= Debt'
    BY <1>1, <2>1, <2>2 DEF Debt, Copying
  <2> QED
    BY <1>1, <2>3, <2>4, <2>5, <2>6, <2>7, <2>8, <2>9, QuietStep
<1> QED
  BY <1>8, <1>9, <1>10
----------------------------------------------------------------------------
(* Steps that write a header.                                              *)

LEMMA HeaderChange ==
    ASSUME FlashType, NEW s \in Sectors, NEW h \in Sector, h.nodes = flash[s].nodes,
           flash' = [flash EXCEPT ![s] = h]
    PROVE  /\ flash' \in [Sectors -> Sector] /\ SameNodes
           /\ flash'[s] = h /\ \A t \in Sectors : t # s => flash'[t] = flash[t]
BY DEF FlashType, SameNodes

LEMMA DirtyMarked ==
    ASSUME FlashType, NEW s \in Sectors, MarkDirty(s)
    PROVE  /\ flash' \in [Sectors -> Sector] /\ SameNodes
           /\ flash'[s].magic = flash[s].magic /\ flash'[s].store = flash[s].store
           /\ flash'[s].dirty = IF flash[s].dirty = "FALSE" THEN "TRUE" ELSE flash[s].dirty
           /\ \A t \in Sectors : t # s => flash'[t] = flash[t]
<1>1. flash \in [Sectors -> Sector] /\ flash[s] \in Sector
  BY DEF FlashType
<1>2. CASE flash[s].dirty = "FALSE"
  <2> DEFINE h == [flash[s] EXCEPT !.dirty = "TRUE"]
  <2>1. /\ h \in Sector /\ h.nodes = flash[s].nodes /\ h.magic = flash[s].magic
        /\ h.store = flash[s].store /\ h.dirty = "TRUE"
    BY <1>1 DEF Sector
  <2>2. flash' = [flash EXCEPT ![s] = h]
    BY <1>1, <1>2 DEF MarkDirty
  <2> HIDE DEF h
  <2>3. /\ flash' \in [Sectors -> Sector] /\ SameNodes
        /\ flash'[s] = h /\ \A t \in Sectors : t # s => flash'[t] = flash[t]
    BY <2>1, <2>2, HeaderChange
  <2> QED
    BY <1>2, <2>1, <2>3
<1>3. CASE flash[s].dirty # "FALSE"
  BY <1>1, <1>3 DEF MarkDirty, SameNodes
<1> QED
  BY <1>2, <1>3

LEMMA SameNodesRead ==
    ASSUME SameNodes
    PROVE  /\ \A p \in Places : At(p)' = At(p) /\ Used(p[1])' = Used(p[1])
           /\ \A s \in Sectors : Used(s)' = Used(s)
BY DEF SameNodes, At, Used, Places

\* What such a step has to show.
LEMMA HeaderStep ==
    ASSUME TwoSectors, StoreInv, flash' \in [Sectors -> Sector], SameNodes, losses' = losses,
           RamType', Control', CleanSoFar', Phase', Source', Destination', Progress', Cached',
           Debt <= Debt', in_recovery_check' = in_recovery_check, pc # "off", pc' # "off",
           env_cache_table' = env_cache_table
    PROVE  StoreInv'
<1>1. /\ FlashType' /\ Held(1)' = Held(1) /\ Held(2)' = Held(2)
      /\ Valid' = Valid /\ Cardinality(Valid)' = Cardinality(Valid) /\ Kept' = Kept
  BY HeadersWritten, SectorsOneTwo DEF StoreInv
<1>2. Debt \in {0, 1} /\ Debt' \in {0, 1} /\ losses \in Int
  BY DEF Debt, StoreInv, RamType
<1>3. Held(1) \in Int /\ Held(2) \in Int /\ Cardinality(Valid) \in Int
  BY Counts, SectorsOneTwo DEF StoreInv
<1>4. Excess'
  BY <1>1, <1>2, <1>3 DEF StoreInv, Excess
<1>5. CachedOnly'
  BY SameNodesRead DEF StoreInv, CachedOnly, SameNodes
<1> QED
  BY <1>1, <1>4, <1>5 DEF StoreInv, Something

\* Only one sector is in use at rest.
LEMMA TheOneInUse ==
    ASSUME TwoSectors, NEW u \in Sectors, Normal(u), NEW s \in Sectors, InUse(s)
    PROVE  s = u
BY Others DEF Normal, InUse, Formatted

LEMMA HeldSum ==
    ASSUME TwoSectors, FlashType, NEW u \in Sectors
    PROVE  Held(1) + Held(2) = Held(u) + Held(Other(u)) /\ Held(u) \in Nat /\ Held(Other(u)) \in Nat
<1>1. (u = 1 /\ Other(u) = 2) \/ (u = 2 /\ Other(u) = 1)
  BY SectorsOneTwo DEF Other
<1>2. Held(1) \in Nat /\ Held(2) \in Nat
  BY Counts, SectorsOneTwo
<1> QED
  BY <1>1, <1>2

LEMMA EmptyHoldsNothing ==
    ASSUME NEW s, flash[s] = Formatted \/ flash[s] = Erased
    PROVE  Used(s) = 0 /\ HeldIn(s) = {} /\ Held(s) = 0
<1>1. Used(s) = 0
  BY DEF Used, Formatted, Erased
<1>2. HeldIn(s) = {}
  BY <1>1 DEF HeldIn
<1> QED
  BY <1>1, <1>2, FS_EmptySet DEF Held

LEMMA TargetKept ==
    ASSUME NEW d, flash'[d] = flash[d]
    PROVE  (flash'[d] = Formatted \/ Target(d)') <=> (flash[d] = Formatted \/ Target(d))
BY DEF Target, Clean, Used

LEMMA StepGcSector ==
    ASSUME TwoSectors, StoreInv, GcSector
    PROVE  StoreInv'
<1> USE DEF GcSector, StoreInv
<1>1. /\ pc = "gc" /\ losses' = losses /\ job' = job /\ request' = request
      /\ in_recovery_check' = in_recovery_check /\ env_cache_table' = env_cache_table
      /\ last_is_complete_del' = last_is_complete_del
  OBVIOUS
<1>2. gc.then \in {"retry", "setend", "gcscan", "envscan"} /\ gc.s \in 1 .. 3 /\ gc.i > 0 /\ gc_request
  BY <1>1 DEF Control, InGc, RamType
<1>3. PICK u \in Sectors : AtRest(u) \/ (Moving(u) /\ gc.s <= u)
  BY <1>1 DEF Phase
<1>4. Sectors = {1, 2} /\ SECTOR_NUM = 2 /\ u \in 1 .. 2
  BY SectorsOneTwo DEF TwoSectors
<1>5. CASE gc.s > SECTOR_NUM
  <2>0. ~(gc.s <= SECTOR_NUM)
    BY <1>2, <1>4, <1>5
  <2>1. /\ gc_request' = FALSE /\ pc' = gc.then /\ gc' = NoGc /\ flash' = flash
    BY <2>0, Zenon DEF GcSector
  <2>2. AtRest(u) /\ \A s \in Sectors : Clean(s)
    BY <1>1, <1>2, <1>3, <1>4, <1>5 DEF CleanSoFar
  <2>3. RamType'
    <3>1. gc' \in [s : Nat, i : Nat, then : {"none", "retry", "setend", "gcscan", "envscan"}]
      BY <2>1 DEF NoGc
    <3> QED
      BY <1>1, <2>1, <3>1 DEF RamType
  <2>4. CleanSoFar'
    BY <1>2, <2>1, <2>2 DEF CleanSoFar, Clean
  <2>5. Control'
    BY <1>1, <1>2, <2>1 DEF Control, Unasked, JobSteps, Copying, InGc, GcWork, Job, Recovering
  <2>6. Phase'
    <3>1. AtRest(u)'
      BY <1>1, <2>1, <2>2, PhaseKept DEF Open
    <3> QED
      BY <1>2, <2>1, <3>1 DEF Phase, Resting, GcWork, Job, JobSteps, Copying
  <2>7. Source' /\ Destination' /\ Progress'
    BY <1>2, <2>1 DEF Source, Destination, Progress, JobSteps, Copying, Job
  <2>8. Cached'
    BY <1>1, <2>1, CacheKept DEF JobSteps, Copying
  <2>9. CachedOnly'
    BY <1>1, <1>2, <2>1 DEF CachedOnly, Used
  <2>10. Debt <= Debt'
    BY <1>1, <1>2, <2>1 DEF Debt, Copying
  <2> QED
    BY <1>1, <2>1, <2>3, <2>4, <2>5, <2>6, <2>7, <2>8, <2>9, <2>10, QuietStep
<1>6. CASE /\ gc.s <= SECTOR_NUM
           /\ flash[gc.s].magic /\ flash[gc.s].dirty \in {"TRUE", "GC"}
  <2>1. PICK s \in Sectors : s = gc.s
    BY <1>2, <1>4, <1>6
  <2>2. /\ flash' = [flash EXCEPT ![s].dirty = "GC"] /\ pc' = "gcnode" /\ gc' = [gc EXCEPT !.i = 1]
        /\ gc_request' = gc_request
    <3>1. ~(gc.s > SECTOR_NUM)
      BY <1>2, <1>4, <1>6
    <3> QED
      BY <1>6, <2>1, <3>1, Zenon DEF GcSector
  <2>3. gc'.s = s /\ gc'.i = 1 /\ gc'.then = gc.then
        /\ gc' \in [s : Nat, i : Nat, then : {"none", "retry", "setend", "gcscan", "envscan"}]
    BY <2>1, <2>2 DEF RamType
  <2>4. s = u
    <3>1. flash[Other(u)].dirty = "FALSE"
      BY <1>3 DEF AtRest, Normal, Moving, Collecting, Target, Clean, Formatted
    <3> QED
      BY <1>6, <2>1, <3>1, Others
  <2> DEFINE h == [flash[s] EXCEPT !.dirty = "GC"]
  <2>5. flash \in [Sectors -> Sector] /\ flash[s] \in Sector
    BY DEF FlashType
  <2>6. /\ h \in Sector /\ h.nodes = flash[s].nodes /\ h.magic = flash[s].magic
        /\ h.store = flash[s].store /\ h.dirty = "GC"
    BY <2>5 DEF Sector
  <2>7. flash' = [flash EXCEPT ![s] = h]
    BY <2>2, <2>5
  <2> HIDE DEF h
  <2>8. /\ flash' \in [Sectors -> Sector] /\ SameNodes
        /\ flash'[s] = h /\ \A t \in Sectors : t # s => flash'[t] = flash[t]
    BY <2>6, <2>7, HeaderChange
  <2>9. Collecting(u)'
    <3>1. InUse(u)' /\ flash'[u].dirty = "GC"
      BY <1>3, <2>4, <2>6, <2>8 DEF AtRest, Normal, Moving, Collecting, InUse
    <3>2. flash[Other(u)] = Formatted \/ Target(Other(u))
      BY <1>3 DEF AtRest, Normal, Moving, Collecting
    <3>3. flash'[Other(u)] = flash[Other(u)]
      BY <2>4, <2>8, Others
    <3>4. flash'[Other(u)] = Formatted \/ Target(Other(u))'
      BY <3>2, <3>3, TargetKept
    <3> QED
      BY <3>1, <3>4 DEF Collecting, Other
  <2>10. Used(Other(u)) + Held(u) <= Cardinality(Kept) + losses
    <3>0. losses \in Nat /\ Begun = 0 /\ Debt = 0
      BY <1>1, EnvConstants DEF RamType, EnvConstants, Begun, Job, JobSteps, Copying, Debt
    <3>1. CASE AtRest(u)
      <4>1. Used(Other(u)) = 0 /\ Held(Other(u)) = 0
        BY <3>1, EmptyHoldsNothing DEF AtRest, Normal
      <4>2. Held(u) <= Cardinality(Valid) + losses
        BY <3>0, <4>1, HeldSum, Counts DEF Excess
      <4> QED
        BY <3>0, <4>1, <4>2, Counts
    <3>2. CASE Moving(u)
      BY <3>0, <3>2, Counts DEF Moving
    <3> QED
      BY <1>3, <3>1, <3>2
  <2>11. Moving(u)'
    <3>1. Used(Other(u))' = Used(Other(u)) /\ Held(u)' = Held(u) /\ Kept' = Kept
      BY <2>8, HeadersWritten, Others
    <3>2. Begun' = 0 /\ losses \in Nat
      BY <2>2, EnvConstants DEF Begun, RamType, EnvConstants, Job, JobSteps, Copying
    <3>3. Used(Other(u))' + Held(u)' <= Cardinality(Kept)' + losses' + Begun'
      BY <1>1, <2>10, <3>1, <3>2, Counts
    <3> QED
      BY <2>9, <3>3 DEF Moving, Other
  <2>12. RamType' /\ CleanSoFar'
    BY <1>1, <2>2, <2>3 DEF RamType, CleanSoFar
  <2>13. Control'
    BY <1>1, <1>2, <1>4, <2>2, <2>3 DEF Control, Unasked, JobSteps, Copying, InGc, GcWork, Job, Recovering
  <2>14. Phase'
    BY <2>2, <2>3, <2>4, <2>11 DEF Phase, Resting, GcWork, Job, JobSteps, Copying
  <2>15. Source' /\ Destination'
    BY <2>2 DEF Source, Destination, JobSteps, Copying, Job
  <2>16. Progress'
    BY <2>2, <2>3 DEF Progress, JobSteps, Copying, Job, HeldIn
  <2>17. Cached'
    BY <1>1, <2>8, SameNodesRead DEF Cached, CachedAt, Copying, RamType
  <2>18. Debt <= Debt'
    BY <1>1, <2>2 DEF Debt, Copying
  <2> QED
    BY <1>1, <2>2, <2>8, <2>12, <2>13, <2>14, <2>15, <2>16, <2>17, <2>18, HeaderStep
<1>7. CASE /\ gc.s <= SECTOR_NUM
           /\ ~(flash[gc.s].magic /\ flash[gc.s].dirty \in {"TRUE", "GC"})
  <2>1. PICK s \in Sectors : s = gc.s
    BY <1>2, <1>4, <1>7
  <2>2. /\ gc' = [gc EXCEPT !.s = @ + 1] /\ flash' = flash /\ pc' = pc /\ gc_request' = gc_request
    <3>1. ~(gc.s > SECTOR_NUM)
      BY <1>2, <1>4, <1>7
    <3> QED
      BY <1>7, <3>1, Zenon DEF GcSector
  <2>3. gc'.s = s + 1 /\ gc'.i = gc.i /\ gc'.then = gc.then
        /\ gc' \in [s : Nat, i : Nat, then : {"none", "retry", "setend", "gcscan", "envscan"}]
    BY <1>4, <2>1, <2>2 DEF RamType
  <2>4. Clean(s) /\ (Moving(u) => s # u)
    <3>1. flash[Other(u)].dirty = "FALSE" /\ flash[u].magic /\ flash[Other(u)].magic
      BY <1>3 DEF AtRest, Normal, Moving, Collecting, Target, Clean, Formatted, InUse
    <3>2. Moving(u) => flash[u].dirty = "GC"
      BY DEF Moving, Collecting
    <3>3. AtRest(u) => flash[u].dirty \in {"FALSE", "TRUE"}
      BY DEF AtRest, Normal
    <3> QED
      BY <1>3, <1>7, <2>1, <3>1, <3>2, <3>3, Others DEF Clean
  <2>5. RamType'
    BY <1>1, <2>2, <2>3 DEF RamType
  <2>6. CleanSoFar'
    <3> SUFFICES ASSUME NEW t \in Sectors, t < s + 1 PROVE Clean(t)'
      BY <1>1, <2>2, <2>3 DEF CleanSoFar
    <3>1. t < s \/ t = s
      BY <1>4
    <3> QED
      BY <1>1, <2>1, <2>2, <2>4, <3>1 DEF CleanSoFar, Clean
  <2>7. Control'
    BY <1>1, <1>2, <1>4, <2>1, <2>2, <2>3 DEF Control, Unasked, JobSteps, Copying, InGc, GcWork, Job, Recovering
  <2>8. Phase'
    <3>1. AtRest(u)' \/ (Moving(u)' /\ s + 1 <= u)
      <4>1. CASE AtRest(u)
        BY <1>1, <2>2, <4>1, PhaseKept DEF Open
      <4>2. CASE Moving(u) /\ gc.s <= u
        <5>1. s + 1 <= u
          BY <1>4, <2>1, <2>4, <4>2
        <5>2. Moving(u)'
          BY <1>1, <2>2, <4>2, PhaseKept DEF Begun, Job, JobSteps, Copying
        <5> QED
          BY <5>1, <5>2
      <4> QED
        BY <1>3, <4>1, <4>2
    <3> QED
      BY <1>1, <2>2, <2>3, <3>1 DEF Phase, Resting, GcWork, Job, JobSteps, Copying
  <2>9. Source' /\ Destination' /\ Progress'
    BY <1>1, <2>2 DEF Source, Destination, Progress, JobSteps, Copying, Job
  <2>10. Cached'
    BY <1>1, <2>2, CacheKept DEF JobSteps, Copying
  <2>11. CachedOnly'
    BY <1>1, <2>2 DEF CachedOnly, Used
  <2>12. Debt <= Debt'
    BY <1>1, <2>2 DEF Debt, Copying
  <2> QED
    BY <1>1, <2>2, <2>5, <2>6, <2>7, <2>8, <2>9, <2>10, <2>11, <2>12, QuietStep
<1> QED
  BY <1>5, <1>6, <1>7

LEMMA StepPreDeleteDirty ==
    ASSUME TwoSectors, StoreInv, PreDeleteDirty
    PROVE  StoreInv'
<1> USE DEF StoreInv
<1>1. /\ pc = "predirty" /\ MarkDirty(job.src[1]) /\ losses' = losses
      /\ pc' = (IF job.then = "setend" THEN "status" ELSE "move")
      /\ request' = request /\ job' = job /\ gc' = gc /\ gc_request' = gc_request
      /\ in_recovery_check' = in_recovery_check /\ env_cache_table' = env_cache_table
      /\ last_is_complete_del' = last_is_complete_del
  BY DEF PreDeleteDirty, ram
<1>2. /\ job.key \in Keys /\ job.then \in {"setend", "gcnode"} /\ job.src # None
      /\ InUse(job.src[1]) /\ Replaced(job.src) /\ (job.then = "gcnode" => job.src[1] = gc.s)
  BY <1>1 DEF Control, Source, JobSteps
<1>3. PICK s \in Sectors : s = job.src[1]
  BY <1>2 DEF Replaced, Places
<1>4. /\ flash' \in [Sectors -> Sector] /\ SameNodes
      /\ flash'[s].magic = flash[s].magic /\ flash'[s].store = flash[s].store
      /\ flash'[s].dirty = IF flash[s].dirty = "FALSE" THEN "TRUE" ELSE flash[s].dirty
      /\ \A t \in Sectors : t # s => flash'[t] = flash[t]
  BY <1>1, <1>3, DirtyMarked
<1>5. RamType' /\ CleanSoFar'
  BY <1>1 DEF RamType, CleanSoFar
<1>6. Control'
  BY <1>1, <1>2 DEF Control, Unasked, JobSteps, Copying, InGc, GcWork, Job, Recovering
<1>7. \A t \in Sectors : InUse(t)' <=> InUse(t)
  BY <1>4 DEF InUse
<1>8. job.src \in Places
  BY <1>2 DEF Replaced
<1>9. Replaced(job.src)'
  BY <1>1, <1>2, <1>4, <1>8, SameNodesRead DEF Replaced
<1>10. \A t \in Sectors : Used(t)' = Used(t) /\ HeldIn(t)' = HeldIn(t)
  BY <1>4, HeadersWritten
<1>11. /\ Valid' = Valid /\ Kept' = Kept
  BY <1>4, HeadersWritten
<1>12. Cached'
  BY <1>1, <1>4, SameNodesRead DEF Cached, CachedAt, Copying, RamType
<1>13. Debt <= Debt'
  BY <1>1, <1>2, <1>11 DEF Debt, Copying
<1>14. Progress'
  BY <1>1, <1>2, <1>6, <1>10 DEF Progress, JobSteps, Copying, Job, GcWork, Control
<1>15. CASE job.then = "setend"
  <2>1. PICK u \in Sectors : AtRest(u)
    BY <1>1, <1>15 DEF Phase, Resting, Job, JobSteps
  <2>2. s = u
    BY <1>2, <1>3, <2>1, TheOneInUse DEF AtRest
  <2>3. flash'[s].dirty = "TRUE"
    BY <1>4, <2>1, <2>2 DEF AtRest, Normal
  <2>4. Normal(u)'
    BY <1>4, <1>7, <2>1, <2>2, <2>3, Others DEF AtRest, Normal, Other
  <2>5. AtRest(u)'
    BY <2>2, <2>3, <2>4 DEF AtRest, Clean
  <2>6. Phase'
    BY <1>1, <1>15, <2>5 DEF Phase, Resting, GcWork, Job, JobSteps, Copying
  <2>7. ~in_recovery_check
    BY <1>1, <1>15 DEF Control, Recovering, InGc, GcWork, Job, JobSteps, Copying
  <2>8. Source'
    BY <1>1, <1>2, <1>3, <1>7, <1>9, <1>15, <2>3, <2>7 DEF Source, JobSteps, Copying, Job
  <2>9. Destination'
    BY <1>1, <1>7, <1>10, <1>15 DEF Destination, JobSteps, Copying, Job
  <2> QED
    BY <1>1, <1>4, <1>5, <1>6, <1>12, <1>13, <1>14, <2>6, <2>8, <2>9, HeaderStep
<1>16. CASE job.then = "gcnode"
  <2>1. s = gc.s /\ Moving(s)
    BY <1>1, <1>2, <1>3, <1>16 DEF Phase, GcWork, Job, JobSteps
  <2>2. flash[s].dirty = "GC"
    BY <2>1 DEF Moving, Collecting
  <2>3. flash' = flash
    BY <1>1, <1>3, <2>2 DEF MarkDirty
  <2>4. Moving(s)'
    BY <1>1, <2>1, <2>3, PhaseKept DEF Begun
  <2>5. Phase'
    BY <1>1, <1>16, <2>1, <2>4 DEF Phase, Resting, GcWork, Job, JobSteps, Copying
  <2>6. Source'
    BY <1>1, <1>2, <1>3, <1>7, <1>9, <1>16 DEF Source, JobSteps, Copying, Job
  <2>7. Destination'
    BY <1>1, <1>16 DEF Destination, JobSteps, Copying, Job
  <2> QED
    BY <1>1, <1>4, <1>5, <1>6, <1>12, <1>13, <1>14, <2>5, <2>6, <2>7, HeaderStep
<1> QED
  BY <1>2, <1>15, <1>16

LEMMA StepDeleteDirty ==
    ASSUME TwoSectors, StoreInv, DeleteDirty
    PROVE  StoreInv'
<1> USE DEF StoreInv
<1>1. /\ pc = "dirty" /\ MarkDirty(job.src[1]) /\ losses' = losses
      /\ pc' = job.then /\ job' = NoJob
      /\ request' = request /\ gc' = gc /\ gc_request' = gc_request
      /\ in_recovery_check' = in_recovery_check /\ env_cache_table' = env_cache_table
      /\ last_is_complete_del' = last_is_complete_del
  BY DEF DeleteDirty
<1>2. /\ job.key \in Keys /\ job.then \in {"setend", "envscan", "gcnode"} /\ job.src # None
      /\ InUse(job.src[1]) /\ (job.then = "gcnode" => job.src[1] = gc.s)
  BY <1>1 DEF Control, Source, JobSteps
<1>3. PICK s \in Sectors : s = job.src[1]
  BY <1>2 DEF RamType, Places
<1>4. /\ flash' \in [Sectors -> Sector] /\ SameNodes
      /\ flash'[s].magic = flash[s].magic /\ flash'[s].store = flash[s].store
      /\ flash'[s].dirty = IF flash[s].dirty = "FALSE" THEN "TRUE" ELSE flash[s].dirty
      /\ \A t \in Sectors : t # s => flash'[t] = flash[t]
  BY <1>1, <1>3, DirtyMarked
<1>5. RamType' /\ CleanSoFar'
  <2>1. job' \in [key : Keys \cup {None}, val : Values \cup {None}, src : Places \cup {None},
                  dst : Nat, full : BOOLEAN, then : {"none", "setend", "envscan", "gcnode"}]
    BY <1>1 DEF NoJob
  <2> QED
    BY <1>1, <1>2, <2>1 DEF RamType, CleanSoFar
<1>6. Control'
  BY <1>1, <1>2 DEF Control, Unasked, JobSteps, Copying, InGc, GcWork, Job, Recovering
<1>7. Source' /\ Destination'
  BY <1>1, <1>2 DEF Source, Destination, JobSteps, Copying, Job
<1>8. \A t \in Sectors : Used(t)' = Used(t) /\ HeldIn(t)' = HeldIn(t)
  BY <1>4, HeadersWritten
<1>9. Cached'
  BY <1>1, <1>4, SameNodesRead DEF Cached, CachedAt, Copying, RamType
<1>10. Debt <= Debt'
  BY <1>1, <1>2 DEF Debt, Copying
<1>11. Progress'
  BY <1>1, <1>2, <1>6, <1>8 DEF Progress, JobSteps, Copying, Job, GcWork, Control
<1>12. Phase'
  <2>1. CASE job.then # "gcnode"
    <3>1. PICK u \in Sectors : AtRest(u)
      BY <1>1, <1>2, <2>1 DEF Phase, Resting, Job, JobSteps
    <3>2. s = u
      BY <1>2, <1>3, <3>1, TheOneInUse DEF AtRest
    <3>3. flash'[s].dirty = "TRUE"
      BY <1>4, <3>1, <3>2 DEF AtRest, Normal
    <3>4. Normal(u)'
      BY <1>4, <3>1, <3>2, <3>3, Others DEF AtRest, Normal, InUse, Other
    <3>5. AtRest(u)'
      BY <3>2, <3>3, <3>4 DEF AtRest, Clean
    <3> QED
      BY <1>1, <1>2, <2>1, <3>5 DEF Phase, Resting, GcWork, Job, JobSteps, Copying
  <2>2. CASE job.then = "gcnode"
    <3>1. s = gc.s /\ Moving(s)
      BY <1>1, <1>2, <1>3, <2>2 DEF Phase, GcWork, Job, JobSteps
    <3>2. flash[s].dirty = "GC"
      BY <3>1 DEF Moving, Collecting
    <3>3. flash' = flash
      BY <1>1, <1>3, <3>2 DEF MarkDirty
    <3>4. Moving(s)'
      BY <1>1, <3>1, <3>3, PhaseKept DEF Begun
    <3> QED
      BY <1>1, <2>2, <3>1, <3>4 DEF Phase, Resting, GcWork, Job, JobSteps, Copying
  <2> QED
    BY <2>1, <2>2
<1> QED
  BY <1>1, <1>2, <1>4, <1>5, <1>6, <1>7, <1>9, <1>10, <1>11, <1>12, HeaderStep

\* A sector is clean while a value is written into it only if the value is
\* that of a variable without a valid node.
LEMMA CleanMeansNew ==
    ASSUME TwoSectors, StoreInv, pc \in Copying, job.then # "gcnode",
           NEW u \in Sectors, AtRest(u), Clean(u)
    PROVE  job.key \notin Valid /\ Cardinality(Valid) + 1 <= Cardinality(Keys)
<1> USE DEF StoreInv
<1>1. job.key \in Keys /\ job.then \in {"setend", "envscan"} /\ pc \in JobSteps
  BY DEF Control, JobSteps
<1>2. job.key \notin Valid
  <2>1. CASE job.then = "envscan"
    <3>1. in_recovery_check
      BY <1>1, <2>1 DEF Control, Recovering, Job
    <3> QED
      BY <3>1 DEF Source
  <2>2. CASE job.then = "setend"
    <3> SUFFICES ASSUME job.src # None PROVE FALSE
      BY DEF Source
    <3>1. InUse(job.src[1]) /\ flash[job.src[1]].dirty = "TRUE" /\ job.src \in Places
      BY <1>1, <2>2 DEF Source, Job, RamType
    <3>2. job.src[1] \in Sectors
      BY <3>1 DEF Places
    <3>3. job.src[1] = u
      BY <3>1, <3>2, TheOneInUse DEF AtRest
    <3> QED
      BY <3>1, <3>3 DEF Clean
  <2> QED
    BY <1>1, <2>1, <2>2
<1>3. IsFiniteSet(Keys)
  BY EnvConstants DEF EnvConstants
<1>4. Valid \cup {job.key} \in SUBSET Keys
  BY <1>1 DEF Valid
<1>5. Cardinality(Valid \cup {job.key}) <= Cardinality(Keys)
  BY <1>3, <1>4, FS_Subset
<1>6. Cardinality(Valid \cup {job.key}) = Cardinality(Valid) + 1
  BY <1>2, Counts, FS_AddElement
<1> QED
  BY <1>2, <1>5, <1>6

LEMMA StepStatus ==
    ASSUME TwoSectors, StoreInv, update_sec_status
    PROVE  StoreInv'
<1> USE DEF StoreInv
<1>1. PICK s \in Sectors : s = job.dst
  BY DEF update_sec_status, Destination, Copying
<1>2. PICK full \in BOOLEAN : full = (flash[s].store = "USING" /\ Remain(s) - 1 < RemainThreshold)
  OBVIOUS
<1>3. /\ pc = "status" /\ pc' = "prewrite" /\ losses' = losses
      /\ flash' = [flash EXCEPT ![s].store = IF full THEN "FULL" ELSE "USING"]
      /\ job' = [job EXCEPT !.full = full]
      /\ request' = request /\ gc' = gc /\ gc_request' = gc_request
      /\ in_recovery_check' = in_recovery_check /\ env_cache_table' = env_cache_table
      /\ last_is_complete_del' = last_is_complete_del
  BY <1>1, <1>2 DEF update_sec_status
<1>4. /\ job'.key = job.key /\ job'.src = job.src /\ job'.then = job.then /\ job'.dst = s
      /\ job' \in [key : Keys \cup {None}, val : Values \cup {None}, src : Places \cup {None},
                   dst : Nat, full : BOOLEAN, then : {"none", "setend", "envscan", "gcnode"}]
  BY <1>1, <1>3 DEF RamType
<1>5. /\ job.key \in Keys /\ job.then \in {"setend", "envscan", "gcnode"}
      /\ IF job.then = "gcnode" THEN s = Other(gc.s) ELSE InUse(s)
      /\ Used(s) + 1 < Slots
  BY <1>1, <1>3 DEF Control, Destination, JobSteps, Copying
<1> DEFINE h == [flash[s] EXCEPT !.store = IF full THEN "FULL" ELSE "USING"]
<1>6. flash \in [Sectors -> Sector] /\ flash[s] \in Sector
  BY DEF FlashType
<1>7. /\ h \in Sector /\ h.nodes = flash[s].nodes /\ h.magic = flash[s].magic
      /\ h.store = (IF full THEN "FULL" ELSE "USING") /\ h.dirty = flash[s].dirty
  BY <1>6 DEF Sector
<1>8. flash' = [flash EXCEPT ![s] = h]
  BY <1>3, <1>6
<1> HIDE DEF h
<1>9. /\ flash' \in [Sectors -> Sector] /\ SameNodes
      /\ flash'[s] = h /\ \A t \in Sectors : t # s => flash'[t] = flash[t]
  BY <1>7, <1>8, HeaderChange
<1>10. RamType' /\ CleanSoFar'
  BY <1>3, <1>4 DEF RamType, CleanSoFar
<1>11. Control'
  BY <1>3, <1>4 DEF Control, Unasked, JobSteps, Copying, InGc, GcWork, Job, Recovering
<1>12. /\ \A t \in Sectors : Used(t)' = Used(t) /\ HeldIn(t)' = HeldIn(t) /\ Held(t)' = Held(t)
       /\ Valid' = Valid /\ Kept' = Kept
  BY <1>9, HeadersWritten
<1>13. Cached'
  BY <1>3, <1>4, <1>9, SameNodesRead DEF Cached, CachedAt, Copying, RamType
<1>14. Debt <= Debt'
  BY <1>3, <1>4, <1>12 DEF Debt, Copying
<1>15. Progress'
  BY <1>3, <1>4, <1>11, <1>12 DEF Progress, JobSteps, Copying, Job, GcWork, Control
<1>16. \A t \in Sectors : InUse(t) => InUse(t)'
  BY <1>7, <1>9 DEF InUse
<1>17. Source'
  <2>1. ASSUME job.src # None
        PROVE  InUse(job.src[1])' /\ Replaced(job.src)' /\ flash'[job.src[1]].dirty = flash[job.src[1]].dirty
    <3>1. InUse(job.src[1]) /\ Replaced(job.src) /\ job.src \in Places
      BY <1>3, <2>1 DEF Source, JobSteps, Copying, RamType
    <3>2. PICK p \in Places : p = job.src
      BY <3>1
    <3>3. p[1] \in Sectors
      BY DEF Places
    <3>4. InUse(p[1])' /\ flash'[p[1]].dirty = flash[p[1]].dirty
      BY <1>7, <1>9, <1>16, <3>1, <3>2, <3>3
    <3>5. Replaced(p)'
      BY <1>4, <1>9, <3>1, <3>2, SameNodesRead DEF Replaced
    <3> QED
      BY <1>4, <3>2, <3>4, <3>5 DEF InUse, Replaced, At, Used
  <2> QED
    BY <1>3, <1>4, <1>12, <2>1 DEF Source, JobSteps, Copying, Job
<1>18. Slots \in Nat /\ RemainThreshold \in Nat /\ Used(s) \in Nat /\ Remain(s) = Slots - Used(s)
  BY EnvConstants, NodesTyped DEF EnvConstants, Remain, Used
<1>19. CASE job.then = "gcnode"
  <2>1. PICK u \in Sectors : u = gc.s /\ Moving(u)
    BY <1>3, <1>19 DEF Phase, GcWork, Job, JobSteps, Copying, Control
  <2>2. s = Other(u) /\ s # u
    BY <1>5, <1>19, <2>1, Others
  <2>3. Job("gcnode") /\ Begun = 0
    BY <1>3, <1>19 DEF Job, JobSteps, Copying, Begun
  <2>4. HeldIn(u) # {}
    BY <1>3, <2>1, <2>3, SourceIsHeld
  <2>5. Used(s) + 1 + RemainThreshold <= Slots
    BY <2>1, <2>2, <2>3, <2>4, MoveHasRoom
  <2>6. ~full
    <3>1. ~(Remain(s) - 1 < RemainThreshold)
      BY <1>18, <2>5
    <3> QED
      BY <1>2, <3>1, Zenon
  <2>7. Target(s)'
    <3>1. flash[s] = Formatted \/ Target(s)
      BY <2>1, <2>2 DEF Moving, Collecting
    <3>2. flash[s].magic /\ flash[s].dirty = "FALSE"
      BY <3>1 DEF Formatted, Target, Clean
    <3>3. \A i \in 1 .. Used(s) : flash[s].nodes[i].st # "PRE_DELETE"
      BY <3>1, EmptyHoldsNothing DEF Target
    <3> QED
      BY <1>7, <1>9, <1>12, <2>6, <3>2, <3>3 DEF Target, Clean
  <2>8. Moving(u)'
    <3>1. flash'[u] = flash[u]
      BY <1>9, <2>2
    <3>2. Collecting(u)'
      BY <2>1, <2>2, <2>7, <3>1 DEF Moving, Collecting, InUse, Other
    <3>3. Used(Other(u))' = Used(Other(u)) /\ Held(u)' = Held(u) /\ Begun' = 0
      BY <1>3, <1>12, <2>2 DEF Begun, Other
    <3>4. Used(Other(u))' + Held(u)' <= Cardinality(Kept)' + losses' + Begun'
      BY <1>3, <1>12, <2>1, <2>3, <3>3 DEF Moving
    <3> QED
      BY <3>2, <3>4 DEF Moving, Other
  <2>9. Phase'
    BY <1>3, <1>4, <1>19, <2>1, <2>8 DEF Phase, Resting, GcWork, Job, JobSteps, Copying
  <2>10. Destination'
    BY <1>1, <1>3, <1>4, <1>5, <1>12, <1>19, <2>7 DEF Destination, JobSteps, Copying, Job
  <2> QED
    BY <1>3, <1>9, <1>10, <1>11, <1>13, <1>14, <1>15, <1>17, <2>9, <2>10, HeaderStep
<1>20. CASE job.then # "gcnode"
  <2>1. PICK u \in Sectors : AtRest(u)
    BY <1>3, <1>5, <1>20 DEF Phase, Resting, Job, JobSteps, Copying
  <2>2. s = u
    BY <1>5, <1>20, <2>1, TheOneInUse DEF AtRest
  <2>3. Normal(u)'
    BY <1>7, <1>9, <1>16, <2>1, <2>2, Others DEF AtRest, Normal, Other
  <2>4. ASSUME Clean(u)' PROVE flash'[u].store = "USING" /\ Used(u) <= Cardinality(Valid) + losses
    <3>1. Clean(u)
      BY <1>7, <1>9, <2>2, <2>4 DEF Clean
    <3>2. Cardinality(Valid) + 1 <= Cardinality(Keys)
      BY <1>3, <1>20, <2>1, <3>1, CleanMeansNew DEF Copying
    <3>3. Open = 0 /\ losses \in Nat /\ losses <= MaxLosses /\ MaxLosses \in Nat
      BY <1>3, EnvConstants DEF Open, RamType, EnvConstants
    <3>4. Used(u) <= Cardinality(Valid) + losses
      BY <2>1, <3>1, <3>3, Counts DEF AtRest
    <3>5. Slots >= Cardinality(Keys) + MaxLosses + RemainThreshold
      BY EnvConstants DEF EnvConstants
    <3>6. Used(u) + 1 + RemainThreshold <= Slots
      BY <1>18, <2>2, <3>2, <3>3, <3>4, <3>5, Counts
    <3>7. ~full
      <4>1. ~(Remain(s) - 1 < RemainThreshold)
        BY <1>18, <2>2, <3>6
      <4> QED
        BY <1>2, <4>1, Zenon
    <3> QED
      BY <1>7, <1>9, <2>2, <3>4, <3>7
  <2>5. AtRest(u)'
    <3>1. Open' = 0 /\ losses \in Nat
      BY <1>3, EnvConstants DEF Open, RamType, EnvConstants
    <3> QED
      BY <1>3, <1>12, <2>3, <2>4, <3>1, Counts DEF AtRest
  <2>6. Phase'
    BY <1>3, <1>4, <1>20, <2>5 DEF Phase, Resting, GcWork, Job, JobSteps, Copying
  <2>7. Destination'
    BY <1>1, <1>3, <1>4, <1>5, <1>12, <1>16, <1>20 DEF Destination, JobSteps, Copying, Job
  <2> QED
    BY <1>3, <1>9, <1>10, <1>11, <1>13, <1>14, <1>15, <1>17, <2>6, <2>7, HeaderStep
<1> QED
  BY <1>19, <1>20
----------------------------------------------------------------------------
(* Steps that write a node.                                                *)

LEMMA OtherSectors ==
    ASSUME FlashType, NEW s \in Sectors, NEW i, NEW n, SetNode(<<s, i>>, n),
           NEW t \in Sectors, t # s
    PROVE  flash'[t] = flash[t]
BY DEF FlashType, SetNode

LEMMA NormalAfter ==
    ASSUME TwoSectors, NEW u \in Sectors, Normal(u), SameHeads, flash'[Other(u)] = flash[Other(u)]
    PROVE  Normal(u)' /\ Clean(u)' = Clean(u) /\ flash'[u].store = flash[u].store
BY DEF Normal, InUse, Clean, SameHeads, Other

LEMMA CollectingAfterSource ==
    ASSUME TwoSectors, NEW u \in Sectors, Collecting(u), SameHeads,
           flash'[Other(u)] = flash[Other(u)]
    PROVE  Collecting(u)'
<1>1. flash'[Other(u)] = Formatted \/ Target(Other(u))'
  BY TargetKept DEF Collecting
<1> QED
  BY <1>1 DEF Collecting, InUse, SameHeads, Other

LEMMA CollectingAfterTarget ==
    ASSUME TwoSectors, NEW u \in Sectors, Collecting(u), SameHeads, Target(Other(u)),
           \A i \in 1 .. Used(Other(u))' : flash'[Other(u)].nodes[i].st # "PRE_DELETE"
    PROVE  Collecting(u)' /\ Target(Other(u))'
<1>1. Target(Other(u))'
  BY Others DEF Target, Clean, SameHeads, Other
<1> QED
  BY <1>1 DEF Collecting, InUse, SameHeads, Other

\* What the heads decide.
LEMMA HeadsRead ==
    ASSUME SameHeads
    PROVE  \A s \in Sectors : InUse(s)' = InUse(s) /\ Clean(s)' = Clean(s)
BY DEF SameHeads, InUse, Clean

LEMMA StepPreDeleteOld ==
    ASSUME TwoSectors, StoreInv, PreDeleteOld
    PROVE  StoreInv'
<1> USE DEF StoreInv
<1>1. /\ pc = "find" /\ CacheFound(job.key) /\ losses' = losses /\ request' = request /\ gc' = gc
      /\ gc_request' = gc_request /\ in_recovery_check' = in_recovery_check
  BY DEF PreDeleteOld
<1>2. /\ job.key \in Keys /\ job.then = "setend" /\ job.src = None /\ ~gc_request
      /\ ~in_recovery_check
  BY <1>1 DEF Control, Unasked, Recovering, InGc, GcWork, Job, JobSteps, Copying
<1>3. PICK u \in Sectors : AtRest(u)
  BY <1>1 DEF Phase, Resting
<1>4. PICK old : old = find_env(job.key)
  OBVIOUS
<1>5. \/ old = None /\ job.key \notin Valid
      \/ /\ old \in Places /\ old[2] <= Used(old[1]) /\ IsValid(At(old)) /\ At(old).key = job.key
         /\ job.key \in Valid
  BY <1>1, <1>2, <1>3, <1>4, FindEnv DEF AtRest, JobSteps, Copying
<1>6. None \notin Places
  BY EnvConstants DEF EnvConstants
<1>7. /\ job.dst \in Sectors /\ InUse(job.dst) /\ Used(job.dst) + 1 < Slots
  BY <1>1, <1>2 DEF Destination
<1>8. CASE old = None
  <2>1. /\ pc' = "status" /\ flash' = flash /\ job' = job
        /\ last_is_complete_del' = last_is_complete_del
    BY <1>4, <1>8 DEF PreDeleteOld
  <2>2. env_cache_table' = env_cache_table
    BY <1>1, <1>4, <1>8 DEF CacheFound
  <2>3. RamType' /\ CleanSoFar'
    BY <1>1, <2>1, <2>2 DEF RamType, CleanSoFar
  <2>4. Control'
    BY <1>1, <1>2, <2>1 DEF Control, Unasked, JobSteps, Copying, InGc, GcWork, Job, Recovering
  <2>5. Phase'
    <3>1. AtRest(u)'
      BY <1>1, <1>3, <2>1, PhaseKept DEF Open
    <3> QED
      BY <1>2, <2>1, <3>1 DEF Phase, Resting, GcWork, Job, JobSteps, Copying
  <2>6. Source' /\ Progress'
    BY <1>2, <1>5, <1>6, <1>8, <2>1, FlashKept DEF Source, Progress, JobSteps, Copying, Job
  <2>7. Destination'
    BY <1>2, <1>7, <2>1, FlashKept DEF Destination, JobSteps, Copying, Job
  <2>8. Cached' /\ CachedOnly'
    BY <1>1, <1>2, <2>1, <2>2, CacheKept DEF CachedOnly, JobSteps, Copying
  <2>9. Debt <= Debt'
    BY <1>1, <1>2, <2>1 DEF Debt, Copying
  <2> QED
    BY <1>1, <2>1, <2>3, <2>4, <2>5, <2>6, <2>7, <2>8, <2>9, QuietStep
<1>9. CASE old # None
  <2>1. /\ pc' = "predirty" /\ SetNode(old, [NodeAt(old) EXCEPT !.st = "PRE_DELETE"])
        /\ job' = [job EXCEPT !.src = old] /\ last_is_complete_del' = TRUE
    BY <1>4, <1>9 DEF PreDeleteOld
  <2>2. /\ old \in Places /\ old[2] <= Used(old[1]) /\ IsValid(At(old)) /\ At(old).key = job.key
    BY <1>5, <1>9
  <2>3. PICK s \in Sectors, i \in 1 .. Slots : old = <<s, i>>
    BY <2>2 DEF Places
  <2>4. i \in 1 .. Used(s) /\ IsValid(flash[s].nodes[i]) /\ flash[s].nodes[i].key = job.key
    BY <2>2, <2>3, NodesTyped DEF At
  <2>5. SetNode(<<s, i>>, [flash[s].nodes[i] EXCEPT !.st = "PRE_DELETE"])
    BY <2>1, <2>3 DEF NodeAt
  <2>6. /\ FlashType' /\ SameHeads
        /\ \A t \in Sectors : Used(t)' = Used(t) /\ HeldIn(t)' = HeldIn(t) /\ Held(t)' = Held(t)
        /\ \A t \in Sectors : \A j \in 1 .. Used(t) : ~(t = s /\ j = i) =>
              flash'[t].nodes[j] = flash[t].nodes[j]
        /\ flash'[s].nodes[i].crc /\ flash'[s].nodes[i].st = "PRE_DELETE"
        /\ flash'[s].nodes[i].key = flash[s].nodes[i].key
        /\ Kept' = Kept /\ Valid' \subseteq Valid
        /\ Cardinality(Valid') = IF flash[s].nodes[i].key \in Valid'
                                 THEN Cardinality(Valid) ELSE Cardinality(Valid) - 1
    BY <2>4, <2>5, PreDeleteWrite
  <2>7. \A t \in Sectors : t # s => flash'[t] = flash[t]
    BY <2>5, OtherSectors
  <2>8. /\ job'.key = job.key /\ job'.src = old /\ job'.then = "setend" /\ job'.dst = job.dst
        /\ job' \in [key : Keys \cup {None}, val : Values \cup {None}, src : Places \cup {None},
                     dst : Nat, full : BOOLEAN, then : {"none", "setend", "envscan", "gcnode"}]
    BY <1>2, <2>1, <2>2 DEF RamType
  <2>9. s = u
    <3>1. Used(s) > 0
      BY <2>4, NodesTyped
    <3>2. s = Other(u) => Used(s) = 0
      BY <1>3, EmptyHoldsNothing DEF AtRest, Normal
    <3> QED
      BY <3>1, <3>2, Others
  <2>10. /\ env_cache_table' \in [Keys -> Places \cup {None}]
         /\ Cardinality({q \in Keys : env_cache_table'[q] # None}) <= CacheSize
         /\ env_cache_table'[job.key] = old
         /\ \A q \in Keys : q # job.key => env_cache_table'[q] \in {env_cache_table[q], None}
    <3>1. CASE env_cache_table[job.key] = None
      BY <1>1, <1>2, <1>4, <1>9, <2>2, <3>1, CacheEntered DEF CacheFound
    <3>2. CASE env_cache_table[job.key] # None
      BY <1>1, <1>4, <3>2 DEF CacheFound, find_env, RamType
    <3> QED
      BY <3>1, <3>2
  <2>11. RamType' /\ CleanSoFar'
    BY <1>1, <2>1, <2>8, <2>10 DEF RamType, CleanSoFar
  <2>12. Control'
    BY <1>1, <1>2, <2>1, <2>8 DEF Control, Unasked, JobSteps, Copying, InGc, GcWork, Job, Recovering
  <2>13. losses \in Nat /\ Cardinality(Valid) \in Nat /\ Used(u) \in Nat
    BY Counts, EnvConstants DEF RamType, EnvConstants
  <2>14. AtRest(u)'
    <3>1. Normal(u)' /\ Clean(u)' = Clean(u) /\ flash'[u].store = flash[u].store
      BY <1>3, <2>6, <2>7, <2>9, Others, NormalAfter DEF AtRest
    <3>2. Open = 0 /\ Open' = 1
      BY <1>1, <2>1 DEF Open
    <3>3. Clean(u) => Used(u) <= Cardinality(Valid') + losses + 1
      BY <1>3, <2>6, <2>13, <3>2 DEF AtRest
    <3> QED
      BY <1>1, <1>3, <2>6, <3>1, <3>2, <3>3 DEF AtRest
  <2>15. Phase'
    BY <2>1, <2>8, <2>14 DEF Phase, Resting, GcWork, Job, JobSteps, Copying
  <2>16. Excess'
    <3>1. Debt = 0 /\ Debt' = IF job.key \in Valid' THEN 0 ELSE 1
      BY <1>1, <1>6, <2>1, <2>2, <2>8 DEF Debt, Copying
    <3>2. Held(1)' = Held(1) /\ Held(2)' = Held(2) /\ Held(1) \in Nat /\ Held(2) \in Nat
      BY <2>6, SectorsOneTwo, Counts
    <3>3. Held(1) + Held(2) <= Cardinality(Valid') + losses + Debt'
      BY <2>4, <2>6, <2>13, <3>1, <3>2 DEF Excess
    <3> QED
      BY <1>1, <3>2, <3>3 DEF Excess
  <2>17. Something'
    BY <2>6 DEF Something
  <2>18. Source'
    <3>1. InUse(s)'
      BY <1>3, <2>6, <2>9, HeadsRead DEF AtRest, Normal
    <3>2. Replaced(old)'
      BY <2>2, <2>3, <2>4, <2>6, <2>8 DEF Replaced, At
    <3> QED
      BY <1>6, <2>1, <2>2, <2>3, <2>8, <3>1, <3>2 DEF Source, JobSteps, Copying, Job, Replaced, At, Used
  <2>19. Destination'
    <3>1. InUse(job.dst)'
      BY <1>7, <2>6, <2>8 DEF SameHeads, InUse
    <3>2. Used(job.dst)' + 1 < Slots
      BY <1>7, <2>6, <2>8 DEF Used
    <3> QED
      BY <1>7, <2>1, <2>8, <3>1, <3>2 DEF Destination, JobSteps, Copying, Job
  <2>20. Progress'
    BY <2>1, <2>8 DEF Progress, JobSteps, Copying, Job
  <2>21. Cached'
    <3> SUFFICES ASSUME NEW q \in Keys, env_cache_table'[q] # None
                 PROVE  CachedAt(q, env_cache_table[q])'
      BY DEF Cached
    <3>1. CASE q = job.key
      BY <2>1, <2>2, <2>3, <2>4, <2>6, <2>8, <2>10, <3>1 DEF CachedAt, At, Used
    <3>2. CASE q # job.key
      <4>1. env_cache_table'[q] = env_cache_table[q]
        BY <2>10, <3>2
      <4>2. PICK p \in Places : p = env_cache_table[q]
        BY <4>1 DEF RamType
      <4>3. p[2] <= Used(p[1]) /\ At(p).key = q /\ IsValid(At(p))
        BY <1>1, <4>1, <4>2 DEF Cached, CachedAt, Copying
      <4>4. p[1] \in Sectors /\ p[2] \in 1 .. Used(p[1])
        BY <4>2, <4>3, NodesTyped DEF Places
      <4>5. ~(p[1] = s /\ p[2] = i)
        BY <2>4, <3>2, <4>3 DEF At
      <4>6. At(p)' = At(p) /\ Used(p[1])' = Used(p[1])
        BY <2>6, <4>4, <4>5 DEF At
      <4> QED
        BY <4>1, <4>2, <4>3, <4>6 DEF CachedAt, At, Used
    <3> QED
      BY <3>1, <3>2
  <2>22. CachedOnly'
    BY <1>1, <1>2, <2>1 DEF CachedOnly
  <2> QED
    BY <2>6, <2>11, <2>12, <2>15, <2>16, <2>17, <2>18, <2>19, <2>20, <2>21, <2>22
<1> QED
  BY <1>8, <1>9

\* Where the node that is being written goes.
LEMMA WhereTo ==
    ASSUME TwoSectors, StoreInv, pc \in Copying
    PROVE  /\ job.key \in Keys /\ job.then \in {"setend", "envscan", "gcnode"} /\ pc \in JobSteps
           /\ job.dst \in Sectors
           /\ \E u \in Sectors : IF job.then = "gcnode"
                                 THEN /\ u = gc.s /\ Moving(u) /\ job.dst = Other(u)
                                      /\ pc # "status" => Target(Other(u))
                                 ELSE AtRest(u) /\ job.dst = u
<1> USE DEF StoreInv
<1>1. job.key \in Keys /\ job.then \in {"setend", "envscan", "gcnode"} /\ pc \in JobSteps
  BY DEF Control, JobSteps
<1>2. job.dst \in Sectors /\ IF job.then = "gcnode" THEN job.dst = Other(gc.s) ELSE InUse(job.dst)
  BY DEF Destination
<1>3. CASE job.then = "gcnode"
  <2>1. gc.s \in Sectors /\ Moving(gc.s)
    BY <1>1, <1>3 DEF Control, Phase, GcWork, Job
  <2>2. pc # "status" => Target(job.dst)
    BY <1>1, <1>3 DEF Destination, Job
  <2> QED
    BY <1>1, <1>2, <1>3, <2>1, <2>2
<1>4. CASE job.then # "gcnode"
  <2>1. PICK u \in Sectors : AtRest(u)
    BY <1>1, <1>4 DEF Phase, Resting, Job
  <2>2. job.dst = u
    BY <1>2, <1>4, <2>1, TheOneInUse DEF AtRest
  <2> QED
    BY <1>1, <1>2, <1>4, <2>1, <2>2
<1> QED
  BY <1>3, <1>4

\* What the cache leads to is a complete node.
LEMMA CachedComplete ==
    ASSUME StoreInv, NEW q \in Keys, NEW p \in Places, env_cache_table[q] = p
    PROVE  /\ p[1] \in Sectors /\ p[2] \in 1 .. Used(p[1])
           /\ CachedAt(q, p) /\ flash[p[1]].nodes[p[2]].crc
<1> USE DEF StoreInv
<1>1. CachedAt(q, p)
  BY EnvConstants DEF EnvConstants, Cached
<1>2. p[1] \in Sectors /\ p[2] \in 1 .. Used(p[1])
  BY <1>1, NodesTyped DEF CachedAt, Places
<1>3. flash[p[1]].nodes[p[2]].crc
  <2>1. CASE IsValid(At(p))
    BY <2>1 DEF IsValid, At
  <2>2. CASE pc \in {"predirty", "move"} \cup Copying /\ p = job.src
    <3>1. Replaced(p)
      BY <2>2, EnvConstants DEF Source, JobSteps, Copying, EnvConstants
    <3> QED
      BY <3>1 DEF Replaced, At
  <2>3. CASE pc = "write" /\ job.then = "setend" /\ p = <<job.dst, Used(job.dst)>>
    BY <2>3 DEF Destination
  <2> QED
    BY <1>1, <2>1, <2>2, <2>3 DEF CachedAt
<1> QED
  BY <1>1, <1>2, <1>3

LEMMA StepPreWrite ==
    ASSUME TwoSectors, StoreInv, WritePreWrite
    PROVE  StoreInv'
<1> USE DEF StoreInv
<1>1. /\ pc = "prewrite" /\ pc' = "header" /\ losses' = losses
      /\ request' = request /\ job' = job /\ gc' = gc /\ gc_request' = gc_request
      /\ in_recovery_check' = in_recovery_check /\ env_cache_table' = env_cache_table
      /\ last_is_complete_del' = last_is_complete_del
  BY DEF WritePreWrite, ram
<1>2. PICK u \in Sectors : /\ job.key \in Keys /\ job.then \in {"setend", "envscan", "gcnode"}
                           /\ pc \in JobSteps /\ job.dst \in Sectors
                           /\ IF job.then = "gcnode"
                              THEN /\ u = gc.s /\ Moving(u) /\ job.dst = Other(u)
                                   /\ Target(Other(u))
                              ELSE AtRest(u) /\ job.dst = u
  BY <1>1, WhereTo DEF Copying
<1>3. PICK d \in Sectors : d = job.dst
  BY <1>2
<1>4. Used(d) < Slots /\ Slots \in Nat /\ Used(d) \in Nat
  BY <1>1, <1>3, Counts, EnvConstants DEF Destination, EnvConstants, Copying
<1>5. flash' = [flash EXCEPT ![d].nodes = Append(@, Dead)]
  BY <1>3 DEF WritePreWrite
<1>6. /\ FlashType' /\ SameHeads
      /\ Used(d)' = Used(d) + 1
      /\ \A t \in Sectors : t # d => Used(t)' = Used(t)
      /\ \A t \in Sectors : \A j \in 1 .. Used(t) : flash'[t].nodes[j] = flash[t].nodes[j]
      /\ flash'[d].nodes[Used(d)'] = Dead
      /\ \A t \in Sectors : HeldIn(t)' = HeldIn(t) /\ Held(t)' = Held(t)
      /\ Valid' = Valid /\ Kept' = Kept
  BY <1>4, <1>5, AppendWrite
<1>7. \A t \in Sectors : t # d => flash'[t] = flash[t]
  BY <1>5 DEF FlashType
<1>8. RamType' /\ CleanSoFar'
  BY <1>1 DEF RamType, CleanSoFar
<1>9. Control'
  BY <1>1, <1>2 DEF Control, Unasked, JobSteps, Copying, InGc, GcWork, Job, Recovering
<1>10. losses \in Nat /\ Cardinality(Valid) \in Nat /\ Cardinality(Kept) \in Nat
  BY Counts, EnvConstants DEF RamType, EnvConstants
<1>11. Phase'
  <2>1. CASE job.then = "gcnode"
    <3>1. u = gc.s /\ Moving(u) /\ d = Other(u) /\ Target(Other(u)) /\ d # u
      BY <1>2, <1>3, <2>1, Others
    <3>2. \A i \in 1 .. Used(d)' : flash'[d].nodes[i].st # "PRE_DELETE"
      <4> SUFFICES ASSUME NEW i \in 1 .. Used(d)' PROVE flash'[d].nodes[i].st # "PRE_DELETE"
        OBVIOUS
      <4>1. i \in 1 .. Used(d) \/ i = Used(d)'
        BY <1>4, <1>6
      <4> QED
        BY <1>6, <3>1, <4>1 DEF Target, Dead
    <3>3. Collecting(u)'
      BY <1>6, <3>1, <3>2, CollectingAfterTarget DEF Moving
    <3>4. Begun = 0 /\ Begun' = 1
      BY <1>1, <2>1 DEF Begun, Job, JobSteps, Copying
    <3>5. Used(d)' + Held(u)' <= Cardinality(Kept)' + losses' + Begun'
      BY <1>1, <1>4, <1>6, <1>10, <3>1, <3>4, Counts DEF Moving
    <3>6. Moving(u)'
      BY <3>1, <3>3, <3>5 DEF Moving, Other
    <3> QED
      BY <1>1, <2>1, <3>1, <3>6 DEF Phase, Resting, GcWork, Job, JobSteps, Copying
  <2>2. CASE job.then # "gcnode"
    <3>1. AtRest(u) /\ d = u
      BY <1>2, <1>3, <2>2
    <3>2. Normal(u)' /\ Clean(u)' = Clean(u) /\ flash'[u].store = flash[u].store
      BY <1>6, <1>7, <3>1, Others, NormalAfter DEF AtRest
    <3>3. Open = 0 /\ Open' = 1
      BY <1>1 DEF Open
    <3>4. Clean(u) => Used(u)' <= Cardinality(Valid) + losses + 1
      BY <1>4, <1>6, <1>10, <3>1, <3>3 DEF AtRest
    <3>5. AtRest(u)'
      BY <1>1, <1>6, <3>1, <3>2, <3>3, <3>4 DEF AtRest
    <3> QED
      BY <1>1, <1>2, <2>2, <3>5 DEF Phase, Resting, GcWork, Job, JobSteps, Copying
  <2> QED
    BY <2>1, <2>2
<1>12. Excess'
  <2>1. Debt' = Debt /\ Held(1)' = Held(1) /\ Held(2)' = Held(2)
    BY <1>1, <1>6, SectorsOneTwo DEF Debt, Copying
  <2> QED
    BY <1>1, <1>6, <2>1 DEF Excess
<1>13. Something'
  BY <1>6 DEF Something
<1>14. \A t \in Sectors : Used(t) \in Nat /\ Used(t)' \in Nat /\ Used(t) <= Used(t)'
  BY <1>6, Counts
<1>15. Source'
  <2>1. ASSUME job.src # None
        PROVE  InUse(job.src[1])' /\ Replaced(job.src)' /\ flash'[job.src[1]].dirty = flash[job.src[1]].dirty
    <3>1. InUse(job.src[1]) /\ Replaced(job.src)
      BY <1>1, <1>2, <2>1 DEF Source
    <3>2. PICK s \in Sectors, i \in 1 .. Slots : job.src = <<s, i>>
      BY <3>1 DEF Replaced, Places
    <3>3. i \in 1 .. Used(s)
      BY <1>14, <3>1, <3>2 DEF Replaced
    <3>4. flash'[s].nodes[i] = flash[s].nodes[i] /\ i <= Used(s)'
      BY <1>6, <1>14, <3>3
    <3>5. InUse(s)' = InUse(s) /\ flash'[s].dirty = flash[s].dirty
      BY <1>6, HeadsRead DEF SameHeads
    <3> QED
      BY <1>1, <3>1, <3>2, <3>4, <3>5 DEF Replaced, At, InUse, Used
  <2> QED
    BY <1>1, <1>2, <1>6, <2>1 DEF Source, JobSteps, Copying, Job
<1>16. Destination'
  <2>1. job.then # "gcnode" => InUse(d)'
    BY <1>1, <1>3, <1>6, HeadsRead DEF Destination, Copying
  <2>2. job.then = "gcnode" => Target(d)'
    <3> SUFFICES ASSUME job.then = "gcnode" PROVE Target(d)'
      OBVIOUS
    <3>1. Target(d)
      BY <1>2, <1>3
    <3>2. \A i \in 1 .. Used(d)' : flash'[d].nodes[i].st # "PRE_DELETE"
      <4> SUFFICES ASSUME NEW i \in 1 .. Used(d)' PROVE flash'[d].nodes[i].st # "PRE_DELETE"
        OBVIOUS
      <4>1. i \in 1 .. Used(d) \/ i = Used(d)'
        BY <1>4, <1>6
      <4> QED
        BY <1>6, <3>1, <4>1 DEF Target, Dead
    <3> QED
      BY <1>6, <3>1, <3>2, HeadsRead DEF Target, SameHeads
  <2>3. Used(d)' > 0 /\ ~flash'[d].nodes[Used(d)'].crc /\ flash'[d].nodes[Used(d)'].st = "DEAD"
    BY <1>4, <1>6 DEF Dead
  <2>4. job.then = "gcnode" => d = Other(gc.s)
    BY <1>2, <1>3
  <2> QED
    BY <1>1, <1>3, <2>1, <2>2, <2>3, <2>4 DEF Destination, JobSteps, Copying, Job, Used, Target, InUse, Clean
<1>17. Progress'
  <2>1. job.then = "gcnode" => gc.s \in Sectors
    BY <1>2
  <2> QED
    BY <1>1, <1>2, <1>6, <2>1 DEF Progress, JobSteps, Copying, Job
<1>18. Cached'
  <2> SUFFICES ASSUME NEW q \in Keys, NEW p \in Places, env_cache_table[q] = p
               PROVE  CachedAt(q, p)'
    BY <1>1 DEF Cached, RamType, CachedAt, At, Used
  <2>1. p[1] \in Sectors /\ p[2] \in 1 .. Used(p[1]) /\ CachedAt(q, p)
    BY CachedComplete
  <2>2. At(p)' = At(p)
    BY <1>6, <2>1 DEF At
  <2>3. p[2] <= Used(p[1])'
    <3>1. PICK t \in Sectors : t = p[1]
      BY <2>1
    <3>2. p[2] <= Used(t)'
      BY <1>14, <2>1, <3>1
    <3> QED
      BY <3>1, <3>2
  <2> QED
    BY <1>1, <2>1, <2>2, <2>3 DEF CachedAt, Copying
<1>19. CachedOnly'
  <2> SUFFICES ASSUME in_recovery_check, NEW k \in Keys, env_cache_table[k] # None,
                      NEW s \in Sectors, NEW i \in 1 .. Used(s)',
                      IsValid(flash'[s].nodes[i]), flash'[s].nodes[i].key = k
               PROVE  env_cache_table[k] = <<s, i>>
    BY <1>1 DEF CachedOnly
  <2>1. i \in 1 .. Used(s)
    <3>1. i \in 1 .. Used(s) \/ (s = d /\ i = Used(d)')
      BY <1>4, <1>6
    <3> QED
      BY <1>6, <3>1 DEF IsValid, Dead
  <2> QED
    BY <1>6, <2>1 DEF CachedOnly
<1> QED
  BY <1>6, <1>8, <1>9, <1>11, <1>12, <1>13, <1>15, <1>16, <1>17, <1>18, <1>19

\* Header and data are written into a node nobody looks for yet.
LEMMA UnderWay ==
    ASSUME TwoSectors, StoreInv, pc \in {"header", "data"}, pc' \in {"data", "write"},
           losses' = losses, request' = request, job' = job, gc' = gc, gc_request' = gc_request,
           in_recovery_check' = in_recovery_check, last_is_complete_del' = last_is_complete_del,
           NEW d \in Sectors, d = job.dst, NEW i \in 1 .. Used(d), i = Used(d),
           NEW n \in Node, n.st = "PRE_WRITE", n.key = job.key, SetNode(<<d, i>>, n)
    PROVE  /\ FlashType' /\ Control' /\ CleanSoFar' /\ Phase' /\ Excess' /\ Something'
           /\ Source' /\ Progress'
           /\ IF job.then = "gcnode" THEN d = Other(gc.s) /\ Target(d)' ELSE InUse(d)'
           /\ Used(d)' = i /\ i > 0 /\ flash'[d].nodes[i] = n
           /\ \A q \in Keys, p \in Places :
                 env_cache_table[q] = p /\ ~(pc' = "write" /\ job.then = "setend" /\ q = job.key)
                    => CachedAt(q, p)'
           /\ env_cache_table' = env_cache_table => CachedOnly'
<1> USE DEF StoreInv
<1>1. PICK u \in Sectors : /\ job.key \in Keys /\ job.then \in {"setend", "envscan", "gcnode"}
                           /\ pc \in JobSteps /\ job.dst \in Sectors
                           /\ IF job.then = "gcnode"
                              THEN /\ u = gc.s /\ Moving(u) /\ job.dst = Other(u)
                                   /\ Target(Other(u))
                              ELSE AtRest(u) /\ job.dst = u
  BY WhereTo DEF Copying
<1>2. ~flash[d].nodes[i].crc
  BY DEF Destination
<1>3. ~IsHeld(flash[d].nodes[i]) /\ ~IsHeld(n) /\ ~IsValid(flash[d].nodes[i]) /\ ~IsValid(n)
  BY <1>2 DEF IsHeld, IsValid
<1>4. /\ FlashType' /\ SameHeads
      /\ \A t \in Sectors : Used(t)' = Used(t)
      /\ \A t \in Sectors : \A j \in 1 .. Used(t) :
            flash'[t].nodes[j] = IF t = d /\ j = i THEN n ELSE flash[t].nodes[j]
  BY <1>1, NodeWritten
<1>5. /\ \A t \in Sectors : HeldIn(t)' = HeldIn(t) /\ Held(t)' = Held(t)
      /\ Valid' = Valid /\ Kept' = Kept
  BY <1>1, <1>3, NeutralWrite
<1>6. \A t \in Sectors : t # d => flash'[t] = flash[t]
  BY OtherSectors
<1>7. CleanSoFar'
  BY DEF CleanSoFar
<1>8. Control'
  BY <1>1 DEF Control, Unasked, JobSteps, Copying, InGc, GcWork, Job, Recovering
<1>9. job.then = "gcnode" => Collecting(u)' /\ Target(d)'
  <2> SUFFICES ASSUME job.then = "gcnode" PROVE Collecting(u)' /\ Target(d)'
    OBVIOUS
  <2>1. Moving(u) /\ d = Other(u) /\ Target(d)
    BY <1>1
  <2>2. \A j \in 1 .. Used(d)' : flash'[d].nodes[j].st # "PRE_DELETE"
    BY <1>4, <2>1 DEF Target
  <2> QED
    BY <1>4, <2>1, <2>2, CollectingAfterTarget DEF Moving
<1>10. Open' = Open /\ Begun' = Begun /\ Debt' = Debt
  BY <1>5 DEF Open, Begun, Debt, Job, JobSteps, Copying
<1>11. Phase'
  <2>1. CASE job.then = "gcnode"
    <3>1. Moving(u)'
      BY <1>1, <1>4, <1>5, <1>9, <1>10, <2>1, Others DEF Moving, Other
    <3> QED
      BY <1>1, <2>1, <3>1 DEF Phase, Resting, GcWork, Job, JobSteps, Copying
  <2>2. CASE job.then # "gcnode"
    <3>1. AtRest(u) /\ d = u
      BY <1>1, <2>2
    <3>2. Normal(u)' /\ Clean(u)' = Clean(u) /\ flash'[u].store = flash[u].store
      BY <1>4, <1>6, <3>1, Others, NormalAfter DEF AtRest
    <3>3. AtRest(u)'
      BY <1>4, <1>5, <1>10, <3>1, <3>2 DEF AtRest
    <3> QED
      BY <1>1, <2>2, <3>3 DEF Phase, Resting, GcWork, Job, JobSteps, Copying
  <2> QED
    BY <2>1, <2>2
<1>12. Excess'
  <2>1. Held(1)' = Held(1) /\ Held(2)' = Held(2)
    BY <1>5, SectorsOneTwo
  <2> QED
    BY <1>5, <1>10, <2>1 DEF Excess
<1>13. Something'
  BY <1>5 DEF Something
<1>14. Source'
  <2>1. ASSUME job.src # None
        PROVE  InUse(job.src[1])' /\ Replaced(job.src)' /\ flash'[job.src[1]].dirty = flash[job.src[1]].dirty
    <3>1. InUse(job.src[1]) /\ Replaced(job.src)
      BY <1>1, <2>1 DEF Source
    <3>2. PICK s \in Sectors, j \in 1 .. Slots : job.src = <<s, j>>
      BY <3>1 DEF Replaced, Places
    <3>3. j \in 1 .. Used(s)
      BY <3>1, <3>2, Counts DEF Replaced
    <3>4. ~(s = d /\ j = i)
      BY <1>2, <3>1, <3>2 DEF Replaced, At
    <3>5. flash'[s].nodes[j] = flash[s].nodes[j] /\ Used(s)' = Used(s)
      BY <1>4, <3>3, <3>4
    <3>6. InUse(s)' = InUse(s) /\ flash'[s].dirty = flash[s].dirty
      BY <1>4, HeadsRead DEF SameHeads
    <3> QED
      BY <3>1, <3>2, <3>5, <3>6 DEF Replaced, At, InUse, Used
  <2> QED
    BY <1>1, <1>5, <2>1 DEF Source, JobSteps, Copying, Job
<1>15. Progress'
  <2>1. job.then = "gcnode" => gc.s \in Sectors
    BY <1>1
  <2> QED
    BY <1>1, <1>5, <2>1 DEF Progress, JobSteps, Copying, Job
<1>16. IF job.then = "gcnode" THEN d = Other(gc.s) /\ Target(d)' ELSE InUse(d)'
  BY <1>1, <1>4, <1>9, HeadsRead DEF AtRest, Normal
<1>17. Used(d)' = i /\ i > 0 /\ flash'[d].nodes[i] = n
  BY <1>4
<1>18. ASSUME NEW q \in Keys, NEW p \in Places, env_cache_table[q] = p,
              ~(pc' = "write" /\ job.then = "setend" /\ q = job.key)
       PROVE  CachedAt(q, p)'
  <2>1. p[1] \in Sectors /\ p[2] \in 1 .. Used(p[1]) /\ CachedAt(q, p)
        /\ flash[p[1]].nodes[p[2]].crc
    BY <1>18, CachedComplete
  <2>2. ~(p[1] = d /\ p[2] = i)
    BY <1>2, <2>1
  <2>3. At(p)' = At(p) /\ Used(p[1])' = Used(p[1])
    BY <1>4, <2>1, <2>2 DEF At
  <2> QED
    BY <1>1, <1>18, <2>1, <2>3 DEF CachedAt, Copying
<1>19. ASSUME env_cache_table' = env_cache_table PROVE CachedOnly'
  <2> SUFFICES ASSUME in_recovery_check, NEW k \in Keys, env_cache_table[k] # None,
                      NEW s \in Sectors, NEW j \in 1 .. Used(s)',
                      IsValid(flash'[s].nodes[j]), flash'[s].nodes[j].key = k
               PROVE  env_cache_table[k] = <<s, j>>
    BY <1>19 DEF CachedOnly
  <2>1. j \in 1 .. Used(s) /\ ~(s = d /\ j = i)
    BY <1>3, <1>4
  <2> QED
    BY <1>4, <2>1 DEF CachedOnly
<1> QED
  BY <1>4, <1>7, <1>8, <1>11, <1>12, <1>13, <1>14, <1>15, <1>16, <1>17, <1>18, <1>19

LEMMA StepHeader ==
    ASSUME TwoSectors, StoreInv, write_env_hdr
    PROVE  StoreInv'
<1> USE DEF StoreInv
<1>1. /\ pc = "header" /\ pc' = "data" /\ losses' = losses
      /\ request' = request /\ job' = job /\ gc' = gc /\ gc_request' = gc_request
      /\ in_recovery_check' = in_recovery_check /\ env_cache_table' = env_cache_table
      /\ last_is_complete_del' = last_is_complete_del
  BY DEF write_env_hdr, ram
<1>2. PICK d \in Sectors : d = job.dst /\ Used(d) > 0
  BY <1>1 DEF Destination, Copying
<1>3. PICK i \in 1 .. Used(d) : i = Used(d)
  BY <1>2, Counts
<1>4. PICK n : n = [st |-> "PRE_WRITE", key |-> job.key, val |-> job.val, crc |-> FALSE]
  OBVIOUS
<1>5. n \in Node /\ n.st = "PRE_WRITE" /\ n.key = job.key /\ ~n.crc
  BY <1>4 DEF Node, RamType
<1>6. SetNode(<<d, i>>, n)
  BY <1>2, <1>3, <1>4 DEF write_env_hdr, Slot, Used
<1>7. /\ FlashType' /\ Control' /\ CleanSoFar' /\ Phase' /\ Excess' /\ Something'
      /\ Source' /\ Progress'
      /\ IF job.then = "gcnode" THEN d = Other(gc.s) /\ Target(d)' ELSE InUse(d)'
      /\ Used(d)' = i /\ i > 0 /\ flash'[d].nodes[i] = n
      /\ \A q \in Keys, p \in Places : env_cache_table[q] = p => CachedAt(q, p)'
      /\ CachedOnly'
  BY <1>1, <1>2, <1>3, <1>5, <1>6, UnderWay
<1>8. RamType'
  BY <1>1 DEF RamType
<1>9. Cached'
  BY <1>1, <1>7 DEF Cached, RamType, CachedAt, At, Used
<1>10. Destination'
  BY <1>1, <1>2, <1>5, <1>7 DEF Destination, JobSteps, Copying, Job, Used, Target, InUse, Clean
<1> QED
  BY <1>7, <1>8, <1>9, <1>10

LEMMA StepData ==
    ASSUME TwoSectors, StoreInv, WriteData
    PROVE  StoreInv'
<1> USE DEF StoreInv
<1>1. /\ pc = "data" /\ pc' = "write" /\ losses' = losses
      /\ request' = request /\ job' = job /\ gc' = gc /\ gc_request' = gc_request
      /\ in_recovery_check' = in_recovery_check
      /\ last_is_complete_del' = last_is_complete_del
  BY DEF WriteData
<1>2. PICK d \in Sectors : d = job.dst /\ Used(d) > 0
  BY <1>1 DEF Destination, Copying
<1>3. PICK i \in 1 .. Used(d) : i = Used(d)
  BY <1>2, Counts
<1>4. PICK n : n = [flash[d].nodes[i] EXCEPT !.crc = TRUE]
  OBVIOUS
<1>5. flash[d].nodes[i] \in Node /\ flash[d].nodes[i].st = "PRE_WRITE" /\ flash[d].nodes[i].key = job.key
  BY <1>1, <1>2, <1>3, NodesTyped DEF Destination
<1>6. n \in Node /\ n.st = "PRE_WRITE" /\ n.key = job.key /\ n.crc
  BY <1>4, <1>5 DEF Node
<1>7. Slot = <<d, i>> /\ SetNode(<<d, i>>, n)
  BY <1>2, <1>3, <1>4 DEF WriteData, Slot, Used, NodeAt
<1>8. /\ FlashType' /\ Control' /\ CleanSoFar' /\ Phase' /\ Excess' /\ Something'
      /\ Source' /\ Progress'
      /\ IF job.then = "gcnode" THEN d = Other(gc.s) /\ Target(d)' ELSE InUse(d)'
      /\ Used(d)' = i /\ i > 0 /\ flash'[d].nodes[i] = n
      /\ \A q \in Keys, p \in Places :
            env_cache_table[q] = p /\ ~(job.then = "setend" /\ q = job.key) => CachedAt(q, p)'
      /\ env_cache_table' = env_cache_table => CachedOnly'
  BY <1>1, <1>2, <1>3, <1>6, <1>7, UnderWay
<1>9. job.key \in Keys
  BY <1>1 DEF Control, JobSteps, Copying
<1>10. Destination'
  BY <1>1, <1>2, <1>6, <1>8 DEF Destination, JobSteps, Copying, Job, Used, Target, InUse, Clean
<1>11. CASE job.then = "setend"
  <2>1. <<d, i>> \in Places
    <3>1. Used(d) <= Slots /\ Slots \in Nat /\ Used(d) \in Nat
      BY Counts, EnvConstants DEF FlashType, EnvConstants
    <3> QED
      BY <1>3, <3>1 DEF Places
  <2>2. update_env_cache(job.key, <<d, i>>)
    BY <1>7, <1>11 DEF WriteData
  <2>3. /\ env_cache_table' \in [Keys -> Places \cup {None}]
        /\ Cardinality({q \in Keys : env_cache_table'[q] # None}) <= CacheSize
        /\ env_cache_table'[job.key] = <<d, i>>
        /\ \A q \in Keys : q # job.key => env_cache_table'[q] \in {env_cache_table[q], None}
    BY <1>9, <2>1, <2>2, CacheEntered
  <2>4. RamType'
    BY <1>1, <2>3 DEF RamType
  <2>5. ~in_recovery_check
    BY <1>1, <1>11 DEF Control, Recovering, InGc, GcWork, Job, JobSteps, Copying
  <2>6. CachedOnly'
    BY <1>1, <2>5 DEF CachedOnly
  <2>7. Cached'
    <3> SUFFICES ASSUME NEW q \in Keys, NEW p \in Places, env_cache_table'[q] = p
                 PROVE  CachedAt(q, p)'
      BY <2>3 DEF Cached, CachedAt, At, Used
    <3>1. CASE q = job.key
      <4>1. p = <<d, i>> /\ p[1] = d /\ p[2] = i
        BY <2>3, <3>1
      <4>2. Used(p[1])' = i /\ i <= i
        BY <1>8, <4>1
      <4>3. At(p)' = n
        BY <1>8, <4>1 DEF At
      <4>4. p = <<job.dst, Used(job.dst)>>'
        BY <1>1, <1>2, <1>8, <4>1 DEF Used
      <4> QED
        BY <1>1, <1>6, <1>11, <3>1, <4>1, <4>2, <4>3, <4>4 DEF CachedAt
    <3>2. CASE q # job.key
      <4>1. env_cache_table[q] = p
        BY <2>3, <3>2, EnvConstants DEF EnvConstants
      <4> QED
        BY <1>8, <3>2, <4>1
    <3> QED
      BY <3>1, <3>2
  <2> QED
    BY <1>8, <1>10, <2>4, <2>6, <2>7
<1>12. CASE job.then # "setend"
  <2>1. env_cache_table' = env_cache_table
    BY <1>12 DEF WriteData
  <2>2. RamType'
    BY <1>1, <2>1 DEF RamType
  <2>3. Cached'
    BY <1>8, <1>12, <2>1 DEF Cached, RamType, CachedAt, At, Used
  <2> QED
    BY <1>8, <1>10, <2>1, <2>2, <2>3
<1> QED
  BY <1>11, <1>12

LEMMA StepDone ==
    ASSUME TwoSectors, StoreInv, WriteDone
    PROVE  StoreInv'
<1> USE DEF StoreInv
<1>1. /\ pc = "write" /\ pc' = (IF job.src # None THEN "delete" ELSE "setend")
      /\ losses' = losses /\ request' = request /\ job' = job /\ gc' = gc
      /\ in_recovery_check' = in_recovery_check
      /\ last_is_complete_del' = last_is_complete_del
  BY DEF WriteDone
<1>2. PICK u \in Sectors : /\ job.key \in Keys /\ job.then \in {"setend", "envscan", "gcnode"}
                           /\ pc \in JobSteps /\ job.dst \in Sectors
                           /\ IF job.then = "gcnode"
                              THEN /\ u = gc.s /\ Moving(u) /\ job.dst = Other(u)
                                   /\ Target(Other(u))
                              ELSE AtRest(u) /\ job.dst = u
  BY <1>1, WhereTo DEF Copying
<1>3. PICK d \in Sectors : d = job.dst /\ Used(d) > 0
  BY <1>1 DEF Destination, Copying
<1>4. PICK i \in 1 .. Used(d) : i = Used(d)
  BY <1>3, Counts
<1>5. flash[d].nodes[i].crc /\ flash[d].nodes[i].st = "PRE_WRITE" /\ flash[d].nodes[i].key = job.key
  BY <1>1, <1>3, <1>4 DEF Destination
<1>6. Slot = <<d, i>> /\ SetNode(<<d, i>>, [flash[d].nodes[i] EXCEPT !.st = "WRITE"])
  BY <1>3, <1>4 DEF WriteDone, Slot, Used, NodeAt
<1>7. /\ FlashType' /\ SameHeads
      /\ \A t \in Sectors : Used(t)' = Used(t)
      /\ \A t \in Sectors : \A j \in 1 .. Used(t) : ~(t = d /\ j = i) =>
            flash'[t].nodes[j] = flash[t].nodes[j]
      /\ IsValid(flash'[d].nodes[i]) /\ flash'[d].nodes[i].key = job.key
      /\ HeldIn(d)' = HeldIn(d) \cup {i} /\ Held(d)' = Held(d) + 1
      /\ \A t \in Sectors : t # d => HeldIn(t)' = HeldIn(t) /\ Held(t)' = Held(t)
      /\ Kept' = Kept \cup {job.key}
      /\ Valid' = Valid \cup {job.key}
      /\ Cardinality(Valid') = IF job.key \in Valid THEN Cardinality(Valid) ELSE Cardinality(Valid) + 1
  BY <1>5, <1>6, FinishWrite
<1>8. \A t \in Sectors : t # d => flash'[t] = flash[t]
  BY <1>6, OtherSectors
<1>9. /\ job.then # "setend" => gc_request' = gc_request
      /\ gc_request' \in BOOLEAN
  BY DEF WriteDone, RamType
<1>10. job.then # "setend" => job.src # None
  BY <1>1, <1>2 DEF Source
<1>11. /\ env_cache_table' \in [Keys -> Places \cup {None}]
       /\ Cardinality({q \in Keys : env_cache_table'[q] # None}) <= CacheSize
       /\ job.then = "setend" => env_cache_table' = env_cache_table
       /\ job.then # "setend" =>
             /\ env_cache_table'[job.key] = <<d, i>>
             /\ \A q \in Keys : q # job.key => env_cache_table'[q] \in {env_cache_table[q], None}
  <2>1. CASE job.then = "setend"
    BY <2>1 DEF WriteDone, RamType
  <2>2. CASE job.then # "setend"
    <3>1. <<d, i>> \in Places
      <4>1. Used(d) <= Slots /\ Slots \in Nat /\ Used(d) \in Nat
        BY Counts, EnvConstants DEF FlashType, EnvConstants
      <4> QED
        BY <1>4, <4>1 DEF Places
    <3>2. update_env_cache(job.key, <<d, i>>)
      BY <1>6, <2>2 DEF WriteDone
    <3> QED
      BY <1>2, <2>2, <3>1, <3>2, CacheEntered
  <2> QED
    BY <2>1, <2>2
<1>12. RamType' /\ CleanSoFar'
  BY <1>1, <1>9, <1>11 DEF RamType, CleanSoFar
<1>13. Control'
  BY <1>1, <1>2, <1>9, <1>10 DEF Control, Unasked, JobSteps, Copying, InGc, GcWork, Job, Recovering
<1>14. /\ losses \in Nat /\ Cardinality(Valid) \in Nat /\ Cardinality(Kept) \in Nat
       /\ Cardinality(Kept') \in Nat /\ Cardinality(Kept) <= Cardinality(Kept')
  <2>1. Cardinality(Kept') = IF job.key \in Kept THEN Cardinality(Kept) ELSE Cardinality(Kept) + 1
    BY <1>7, Counts, FS_AddElement
  <2>2. losses \in Nat
    BY EnvConstants DEF RamType, EnvConstants
  <2> QED
    BY <2>1, <2>2, Counts
<1>15. Phase'
  <2>1. CASE job.then = "gcnode"
    <3>1. u = gc.s /\ Moving(u) /\ d = Other(u) /\ Target(Other(u)) /\ d # u
      BY <1>2, <1>3, <2>1, Others
    <3>2. \A j \in 1 .. Used(d)' : flash'[d].nodes[j].st # "PRE_DELETE"
      BY <1>7, <3>1 DEF Target, IsValid
    <3>3. Collecting(u)'
      BY <1>7, <3>1, <3>2, CollectingAfterTarget DEF Moving
    <3>4. Begun = 1 /\ Begun' = 1
      BY <1>1, <1>10, <2>1 DEF Begun, Job, JobSteps, Copying
    <3>5. Used(d)' + Held(u)' <= Cardinality(Kept)' + losses' + Begun'
      BY <1>1, <1>7, <1>14, <3>1, <3>4, Counts DEF Moving
    <3>6. Moving(u)'
      BY <3>1, <3>3, <3>5 DEF Moving, Other
    <3> QED
      BY <1>1, <1>10, <2>1, <3>1, <3>6 DEF Phase, Resting, GcWork, Job, JobSteps, Copying
  <2>2. CASE job.then # "gcnode"
    <3>1. AtRest(u) /\ d = u
      BY <1>2, <1>3, <2>2
    <3>2. Normal(u)' /\ Clean(u)' = Clean(u) /\ flash'[u].store = flash[u].store
      BY <1>7, <1>8, <3>1, Others, NormalAfter DEF AtRest
    <3>3. Open = 1 /\ Open' = 0
      BY <1>1 DEF Open
    <3>4. Clean(u) => Used(u) <= Cardinality(Valid') + losses
      <4> SUFFICES ASSUME Clean(u) PROVE Used(u) <= Cardinality(Valid') + losses
        OBVIOUS
      <4>1. job.key \notin Valid
        BY <1>1, <2>2, <3>1, CleanMeansNew DEF Copying
      <4> QED
        BY <1>7, <1>14, <3>1, <3>3, <4>1, Counts DEF AtRest
    <3>5. AtRest(u)'
      <4>1. losses' + Open' = losses /\ Cardinality(Valid)' = Cardinality(Valid') /\ Cardinality(Valid') \in Nat
        BY <1>1, <1>7, <1>14, <3>3
      <4>2. Clean(u)' => Used(u)' <= Cardinality(Valid)' + losses' + Open'
        BY <1>1, <1>7, <1>14, <3>2, <3>3, <3>4, <4>1
      <4> QED
        BY <3>1, <3>2, <4>2 DEF AtRest
    <3> QED
      BY <1>1, <1>2, <2>2, <3>5 DEF Phase, Resting, GcWork, Job, JobSteps, Copying
  <2> QED
    BY <2>1, <2>2
<1>16. Excess'
  <2>1. Held(1)' + Held(2)' = Held(1) + Held(2) + 1 /\ Held(1) + Held(2) \in Nat
    <3>1. Held(1) \in Nat /\ Held(2) \in Nat
      BY Counts, SectorsOneTwo
    <3>2. d = 1 \/ d = 2
      BY SectorsOneTwo
    <3> QED
      BY <1>7, <3>1, <3>2, SectorsOneTwo
  <2>2. CASE job.src = None
    <3>1. job.key \notin Valid
      BY <1>1, <2>2 DEF Source, Copying
    <3>2. Debt = 0 /\ Debt' = 0
      BY <1>1, <2>2 DEF Debt, Copying
    <3>3. Held(1)' + Held(2)' <= Cardinality(Valid') + losses + 0
      BY <1>7, <1>14, <2>1, <3>1, <3>2 DEF Excess
    <3> QED
      BY <1>1, <3>2, <3>3 DEF Excess
  <2>3. CASE job.src # None
    <3>1. Debt = (IF job.key \in Valid THEN 0 ELSE 1) /\ Debt' = 1
      BY <1>1, <2>3 DEF Debt, Copying
    <3>2. Held(1)' + Held(2)' <= Cardinality(Valid') + losses + 1
      BY <1>7, <1>14, <2>1, <3>1 DEF Excess
    <3> QED
      BY <1>1, <3>1, <3>2 DEF Excess
  <2> QED
    BY <2>2, <2>3
<1>17. Something'
  BY <1>7 DEF Something
<1>18. Source'
  <2>1. ASSUME job.src # None
        PROVE  InUse(job.src[1])' /\ Replaced(job.src)'
    <3>1. InUse(job.src[1]) /\ Replaced(job.src)
      BY <1>1, <1>2, <2>1 DEF Source
    <3>2. PICK s \in Sectors, j \in 1 .. Slots : job.src = <<s, j>>
      BY <3>1 DEF Replaced, Places
    <3>3. j \in 1 .. Used(s)
      BY <3>1, <3>2, Counts DEF Replaced
    <3>4. ~(s = d /\ j = i)
      BY <1>5, <3>1, <3>2 DEF Replaced, At
    <3>5. flash'[s].nodes[j] = flash[s].nodes[j] /\ Used(s)' = Used(s)
      BY <1>7, <3>3, <3>4
    <3>6. InUse(s)' = InUse(s)
      BY <1>7, HeadsRead
    <3> QED
      BY <1>1, <3>1, <3>2, <3>5, <3>6 DEF Replaced, At, InUse, Used
  <2> QED
    BY <1>1, <1>2, <1>7, <1>10, <2>1 DEF Source, JobSteps, Copying, Job
<1>19. Destination'
  BY <1>1, <1>10 DEF Destination, JobSteps, Copying, Job
<1>20. Progress'
  <2>1. job.then = "gcnode" => gc.s \in Sectors /\ gc.s # d
    BY <1>2, <1>3, Others
  <2> QED
    BY <1>1, <1>2, <1>7, <1>10, <2>1 DEF Progress, JobSteps, Copying, Job
<1>21. ASSUME NEW q \in Keys, NEW p \in Places, env_cache_table[q] = p,
              IsValid(At(p)) \/ p = <<d, i>>
       PROVE  CachedAt(q, p)'
  <2>1. p[1] \in Sectors /\ p[2] \in 1 .. Used(p[1]) /\ CachedAt(q, p)
    BY <1>21, CachedComplete
  <2>2. CASE p = <<d, i>>
    <3>1. At(p)' = flash'[d].nodes[i] /\ Used(p[1])' = Used(p[1]) /\ At(p) = flash[d].nodes[i]
      BY <1>7, <2>1, <2>2 DEF At
    <3> QED
      BY <1>5, <1>7, <2>1, <3>1 DEF CachedAt
  <2>3. CASE p # <<d, i>>
    <3>1. ~(p[1] = d /\ p[2] = i)
      BY <1>21, <2>3 DEF Places
    <3>2. At(p)' = At(p) /\ Used(p[1])' = Used(p[1])
      BY <1>7, <2>1, <3>1 DEF At
    <3> QED
      BY <1>21, <2>1, <2>3, <3>2 DEF CachedAt
  <2> QED
    BY <2>2, <2>3
<1>22. Cached'
  <2> SUFFICES ASSUME NEW q \in Keys, NEW p \in Places, env_cache_table'[q] = p
               PROVE  CachedAt(q, p)'
    BY <1>11 DEF Cached, CachedAt, At, Used
  <2>1. CASE job.then = "setend"
    <3>1. env_cache_table[q] = p
      BY <1>11, <2>1
    <3>2. CachedAt(q, p)
      BY <3>1, CachedComplete
    <3>3. IsValid(At(p)) \/ p = <<d, i>>
      BY <1>3, <1>4, <1>1, <2>1, <3>2 DEF CachedAt
    <3> QED
      BY <1>21, <3>1, <3>3
  <2>2. CASE job.then # "setend" /\ q # job.key
    <3>1. env_cache_table[q] = p
      BY <1>11, <2>2, EnvConstants DEF EnvConstants
    <3>2. CachedAt(q, p)
      BY <3>1, CachedComplete
    <3>3. IsValid(At(p))
      BY <2>2, <3>2 DEF CachedAt
    <3> QED
      BY <1>21, <3>1, <3>3
  <2>3. CASE job.then # "setend" /\ q = job.key
    <3>1. p = <<d, i>> /\ p[1] = d /\ p[2] = i
      BY <1>11, <2>3
    <3>2. At(p)' = flash'[d].nodes[i] /\ Used(p[1])' = Used(d)
      BY <1>7, <3>1 DEF At
    <3>3. i <= Used(d)
      BY <1>4, Counts
    <3> QED
      BY <1>7, <2>3, <3>1, <3>2, <3>3 DEF CachedAt
  <2> QED
    BY <2>1, <2>2, <2>3
<1>23. CachedOnly'
  <2> SUFFICES ASSUME in_recovery_check, NEW k \in Keys, env_cache_table'[k] # None,
                      NEW s \in Sectors, NEW j \in 1 .. Used(s)',
                      IsValid(flash'[s].nodes[j]), flash'[s].nodes[j].key = k
               PROVE  env_cache_table'[k] = <<s, j>>
    BY <1>1 DEF CachedOnly
  <2>1. job.key \notin Valid
    BY <1>1 DEF Source, Copying
  <2>2. job.then # "setend"
    BY <1>1, <1>2 DEF Control, Recovering, InGc, GcWork, Job, JobSteps, Copying
  <2>3. CASE s = d /\ j = i
    BY <1>7, <1>11, <2>2, <2>3
  <2>4. CASE ~(s = d /\ j = i)
    <3>1. j \in 1 .. Used(s) /\ flash'[s].nodes[j] = flash[s].nodes[j]
      BY <1>7, <2>4
    <3>2. k \in Valid
      BY <3>1 DEF Valid
    <3>3. env_cache_table'[k] = env_cache_table[k]
      BY <1>11, <2>1, <2>2, <3>2
    <3> QED
      BY <3>1, <3>3 DEF CachedOnly
  <2> QED
    BY <2>3, <2>4
<1> QED
  BY <1>7, <1>12, <1>13, <1>15, <1>16, <1>17, <1>18, <1>19, <1>20, <1>22, <1>23

LEMMA StepDeleteOld ==
    ASSUME TwoSectors, StoreInv, DeleteOld
    PROVE  StoreInv'
<1> USE DEF StoreInv
<1>1. /\ pc = "delete" /\ pc' = "dirty" /\ Kill(job.src) /\ losses' = losses /\ request' = request
      /\ job' = job /\ gc' = gc /\ gc_request' = gc_request
      /\ in_recovery_check' = in_recovery_check /\ last_is_complete_del' = FALSE
      /\ env_cache_table' = IF last_is_complete_del THEN env_cache_table
                            ELSE [env_cache_table EXCEPT ![job.key] = None]
  BY DEF DeleteOld
<1>2. /\ job.key \in Keys /\ job.then \in {"setend", "envscan", "gcnode"} /\ job.src # None
      /\ InUse(job.src[1]) /\ Replaced(job.src) /\ (job.then = "gcnode" => job.src[1] = gc.s)
      /\ job.key \in Valid
  BY <1>1 DEF Control, Source, JobSteps
<1>3. PICK s \in Sectors, i \in 1 .. Slots : job.src = <<s, i>>
  BY <1>2 DEF Replaced, Places
<1>4. /\ i \in 1 .. Used(s) /\ flash[s].nodes[i].crc /\ flash[s].nodes[i].st = "PRE_DELETE"
      /\ flash[s].nodes[i].key = job.key /\ InUse(s) /\ Kill(<<s, i>>)
      /\ (job.then = "gcnode" => s = gc.s)
  BY <1>1, <1>2, <1>3, Counts DEF Replaced, At
<1>5. /\ FlashType' /\ SameHeads
      /\ \A t \in Sectors : Used(t)' = Used(t)
      /\ \A t \in Sectors : \A j \in 1 .. Used(t) : ~(t = s /\ j = i) =>
            flash'[t].nodes[j] = flash[t].nodes[j]
      /\ flash'[s].nodes[i] = Dead
      /\ HeldIn(s)' = HeldIn(s) \ {i} /\ Held(s)' = Held(s) - 1
      /\ \A t \in Sectors : t # s => HeldIn(t)' = HeldIn(t) /\ Held(t)' = Held(t)
      /\ Valid' = Valid /\ Kept' = Kept
  BY <1>2, <1>4, KillWrite
<1>6. \A t \in Sectors : t # s => flash'[t] = flash[t]
  BY <1>4, OtherSectors DEF Kill
<1>7. /\ env_cache_table' \in [Keys -> Places \cup {None}]
      /\ Cardinality({q \in Keys : env_cache_table'[q] # None}) <= CacheSize
      /\ \A q \in Keys : env_cache_table'[q] \in {env_cache_table[q], None}
  <2>1. env_cache_table \in [Keys -> Places \cup {None}]
    BY DEF RamType
  <2>2. /\ env_cache_table' \in [Keys -> Places \cup {None}]
        /\ \A q \in Keys : env_cache_table'[q] \in {env_cache_table[q], None}
    BY <1>1, <2>1
  <2> DEFINE S == {q \in Keys : env_cache_table[q] # None}
             T == {q \in Keys : env_cache_table'[q] # None}
  <2>3. IsFiniteSet(Keys) /\ CacheSize \in Nat /\ S \in SUBSET Keys
    BY EnvConstants DEF EnvConstants
  <2>4. IsFiniteSet(S) /\ Cardinality(S) \in Nat /\ Cardinality(S) <= CacheSize
    BY <2>3, FS_Subset, FS_CardinalityType DEF RamType
  <2>5. T \in SUBSET S
    BY <2>2
  <2> HIDE DEF S, T
  <2>6. IsFiniteSet(T) /\ Cardinality(T) <= Cardinality(S) /\ Cardinality(T) \in Nat
    BY <2>4, <2>5, FS_Subset, FS_CardinalityType
  <2>7. Cardinality(T) <= CacheSize
    BY <2>3, <2>4, <2>6
  <2> QED
    BY <2>2, <2>7 DEF T
<1>8. RamType' /\ CleanSoFar'
  BY <1>1, <1>7 DEF RamType, CleanSoFar
<1>9. Control'
  BY <1>1, <1>2 DEF Control, Unasked, JobSteps, Copying, InGc, GcWork, Job, Recovering
<1>10. losses \in Nat /\ Cardinality(Valid) \in Nat /\ Cardinality(Kept) \in Nat
  BY Counts, EnvConstants DEF RamType, EnvConstants
<1>11. Phase'
  <2>1. CASE job.then = "gcnode"
    <3>1. s = gc.s /\ Moving(s)
      BY <1>1, <1>4, <2>1 DEF Phase, GcWork, Job, JobSteps
    <3>2. flash'[Other(s)] = flash[Other(s)] /\ Used(Other(s))' = Used(Other(s)) /\ Used(Other(s)) \in Nat
      BY <1>5, <1>6, Others, Counts
    <3>3. Collecting(s)'
      BY <1>5, <3>1, <3>2, CollectingAfterSource DEF Moving
    <3>4. Begun = 1 /\ Begun' = 0
      BY <1>1, <2>1 DEF Begun, Job, JobSteps, Copying
    <3>5. Used(Other(s))' + Held(s)' <= Cardinality(Kept)' + losses' + Begun'
      BY <1>1, <1>5, <1>10, <3>1, <3>2, <3>4, Counts DEF Moving
    <3>6. Moving(s)'
      BY <3>3, <3>5 DEF Moving, Other
    <3> QED
      BY <1>1, <2>1, <3>1, <3>6 DEF Phase, Resting, GcWork, Job, JobSteps, Copying
  <2>2. CASE job.then # "gcnode"
    <3>0. PICK u \in Sectors : AtRest(u)
      BY <1>1, <1>2, <2>2 DEF Phase, Resting, Job, JobSteps
    <3>1. s = u
      BY <1>4, <3>0, TheOneInUse DEF AtRest
    <3>2. Normal(u)' /\ Clean(u)' = Clean(u) /\ flash'[u].store = flash[u].store
      BY <1>5, <1>6, <3>0, <3>1, Others, NormalAfter DEF AtRest
    <3>3. Open' = Open
      BY <1>1 DEF Open
    <3>4. AtRest(u)'
      BY <1>1, <1>5, <3>0, <3>2, <3>3 DEF AtRest
    <3> QED
      BY <1>1, <1>2, <2>2, <3>4 DEF Phase, Resting, GcWork, Job, JobSteps, Copying
  <2> QED
    BY <2>1, <2>2
<1>12. Excess'
  <2>1. /\ Held(1)' + Held(2)' = Held(1) + Held(2) - 1 /\ Held(1) \in Nat /\ Held(2) \in Nat
        /\ Held(1)' \in Int /\ Held(2)' \in Int
    <3>1. Held(1) \in Nat /\ Held(2) \in Nat
      BY Counts, SectorsOneTwo
    <3>2. s = 1 \/ s = 2
      BY SectorsOneTwo
    <3> QED
      BY <1>5, <3>1, <3>2, SectorsOneTwo
  <2>2. Debt = 1 /\ Debt' = 0
    BY <1>1 DEF Debt, Copying
  <2>3. Held(1)' + Held(2)' <= Cardinality(Valid) + losses + 0
    <3>1. Held(1) + Held(2) <= Cardinality(Valid) + losses + 1
      BY <2>2 DEF Excess
    <3> QED
      BY <1>10, <2>1, <3>1
  <2> QED
    BY <1>1, <1>5, <2>2, <2>3 DEF Excess
<1>13. Something'
  BY <1>5 DEF Something
<1>14. Source'
  <2>1. InUse(job.src[1])'
    BY <1>1, <1>3, <1>4, <1>5 DEF SameHeads, InUse
  <2> QED
    BY <1>1, <1>2, <2>1 DEF Source, JobSteps, Copying, Job
<1>15. Destination'
  BY <1>1, <1>2 DEF Destination, JobSteps, Copying, Job
<1>16. Progress'
  <2>1. ASSUME job.then = "gcnode", NEW j \in HeldIn(s)' PROVE j >= gc.i
    BY <1>1, <1>3, <1>4, <1>5, <2>1 DEF Progress, JobSteps, Job
  <2> QED
    BY <1>1, <1>4, <2>1 DEF Progress, JobSteps, Copying, Job, HeldIn, Used
<1>17. ASSUME NEW q \in Keys, NEW p \in Places, env_cache_table[q] = p PROVE CachedAt(q, p)'
  <2>1. p[1] \in Sectors /\ p[2] \in 1 .. Used(p[1]) /\ CachedAt(q, p)
    BY <1>17, CachedComplete
  <2>2. IsValid(At(p))
    BY <1>1, <2>1 DEF CachedAt, Copying
  <2>3. ~(p[1] = s /\ p[2] = i)
    BY <1>4, <2>2 DEF At, IsValid
  <2>4. At(p)' = At(p) /\ Used(p[1])' = Used(p[1])
    BY <1>5, <2>1, <2>3 DEF At
  <2> QED
    BY <2>1, <2>2, <2>4 DEF CachedAt
<1>18. Cached'
  <2> SUFFICES ASSUME NEW q \in Keys, NEW p \in Places, env_cache_table'[q] = p
               PROVE  CachedAt(q, p)'
    BY <1>7 DEF Cached, CachedAt, At, Used
  <2>1. env_cache_table[q] = p
    BY <1>7, EnvConstants DEF EnvConstants
  <2> QED
    BY <1>17, <2>1
<1>19. CachedOnly'
  <2> SUFFICES ASSUME in_recovery_check, NEW k \in Keys, env_cache_table'[k] # None,
                      NEW t \in Sectors, NEW j \in 1 .. Used(t)',
                      IsValid(flash'[t].nodes[j]), flash'[t].nodes[j].key = k
               PROVE  env_cache_table'[k] = <<t, j>>
    BY <1>1 DEF CachedOnly
  <2>1. j \in 1 .. Used(t) /\ flash'[t].nodes[j] = flash[t].nodes[j]
    BY <1>5 DEF IsValid, Dead
  <2>2. env_cache_table'[k] = env_cache_table[k]
    BY <1>7
  <2> QED
    BY <2>1, <2>2 DEF CachedOnly
<1> QED
  BY <1>5, <1>8, <1>9, <1>11, <1>12, <1>13, <1>14, <1>15, <1>16, <1>18, <1>19

LEMMA StepGcNode ==
    ASSUME TwoSectors, StoreInv, GcNode
    PROVE  StoreInv'
<1> USE DEF StoreInv
<1>1. /\ pc = "gcnode" /\ losses' = losses /\ request' = request
      /\ gc_request' = gc_request /\ in_recovery_check' = in_recovery_check
      /\ env_cache_table' = env_cache_table
  BY DEF GcNode
<1>2. PICK s \in Sectors : s = gc.s /\ Moving(s)
  BY <1>1 DEF Control, Phase, GcWork
<1>3. gc.i \in Nat /\ gc.i > 0 /\ gc_request /\ gc.then # "none" /\ gc.s \in 1 .. 3
  BY <1>1 DEF RamType, Control, InGc, GcWork
<1>4. Used(s) \in Nat /\ \A j \in HeldIn(s) : j \in 1 .. Used(s) /\ j >= gc.i
  BY <1>1, <1>2, Counts DEF Progress, HeldIn
<1>5. Movable(s, gc.i) = HeldIn(s)
  <2>1. Movable(s, gc.i) \subseteq HeldIn(s)
    BY <1>3, <1>4 DEF Movable, HeldIn, Used, IsHeld
  <2>2. HeldIn(s) \subseteq Movable(s, gc.i)
    BY <1>3, <1>4 DEF Movable, HeldIn, Used, IsHeld
  <2> QED
    BY <2>1, <2>2
<1>6. CASE HeldIn(s) = {}
  <2>1. pc' = "erase" /\ flash' = flash /\ job' = job /\ gc' = gc
        /\ last_is_complete_del' = last_is_complete_del
    BY <1>2, <1>5, <1>6 DEF GcNode
  <2>2. RamType' /\ CleanSoFar'
    BY <1>1, <2>1 DEF RamType, CleanSoFar
  <2>3. Control'
    BY <1>1, <2>1 DEF Control, Unasked, JobSteps, Copying, InGc, GcWork, Job, Recovering
  <2>4. Moving(s)'
    BY <1>1, <1>2, <2>1, PhaseKept DEF Begun, Job, JobSteps, Copying
  <2>5. Phase'
    BY <1>2, <2>1, <2>4 DEF Phase, Resting, GcWork, Job, JobSteps, Copying
  <2>6. Source' /\ Destination'
    BY <2>1 DEF Source, Destination, JobSteps, Copying, Job
  <2>7. Progress'
    BY <1>2, <1>6, <2>1, FlashKept DEF Progress, JobSteps, Copying, Job
  <2>8. Cached'
    BY <1>1, <2>1, CacheKept DEF JobSteps, Copying
  <2>9. CachedOnly'
    BY <1>1, <2>1 DEF CachedOnly, Used
  <2>10. Debt <= Debt'
    BY <1>1, <2>1 DEF Debt, Copying
  <2> QED
    BY <1>1, <2>1, <2>2, <2>3, <2>5, <2>6, <2>7, <2>8, <2>9, <2>10, QuietStep
<1>7. CASE HeldIn(s) # {}
  <2>1. PICK i \in HeldIn(s) : i = Lowest(HeldIn(s)) /\ \A j \in HeldIn(s) : i <= j
    <3>1. HeldIn(s) \subseteq Nat
      BY <1>4
    <3> QED
      BY <1>7, <3>1, LowestIsLeast
  <2>2. i \in 1 .. Used(s) /\ IsHeld(flash[s].nodes[i]) /\ flash[s].nodes[i] \in Node
        /\ flash[s].nodes[i].key \in Keys /\ i \in Nat
    BY <1>4, NodesTyped DEF HeldIn, FlashType, IsHeld
  <2>3. <<s, i>> \in Places /\ <<s, i>> # None
    <3>1. Used(s) <= Slots /\ Slots \in Nat
      BY EnvConstants DEF FlashType, EnvConstants
    <3>2. <<s, i>> \in Places
      BY <1>4, <2>2, <3>1 DEF Places
    <3> QED
      BY <3>2, EnvConstants DEF EnvConstants
  <2>4. PICK n : n = flash[s].nodes[i]
    OBVIOUS
  <2>5. n \in Node /\ n.key \in Keys /\ n.crc /\ n.st \in {"WRITE", "PRE_DELETE"} /\ NodeAt(<<s, i>>) = n
    BY <2>2, <2>4 DEF IsHeld, NodeAt
  <2>6. /\ job' = MoveJob(<<s, i>>, "gcnode") /\ gc' = [gc EXCEPT !.i = i + 1]
        /\ IF n.st = "WRITE"
           THEN /\ SetNode(<<s, i>>, [n EXCEPT !.st = "PRE_DELETE"])
                /\ last_is_complete_del' = TRUE /\ pc' = "predirty"
           ELSE pc' = "move" /\ flash' = flash /\ last_is_complete_del' = last_is_complete_del
    BY <1>2, <1>5, <1>7, <2>1, <2>5 DEF GcNode
  <2>7. /\ job'.key = n.key /\ job'.src = <<s, i>> /\ job'.then = "gcnode"
        /\ job' \in [key : Keys \cup {None}, val : Values \cup {None}, src : Places \cup {None},
                     dst : Nat, full : BOOLEAN, then : {"none", "setend", "envscan", "gcnode"}]
    <3>1. job' = [key |-> n.key, val |-> n.val, src |-> <<s, i>>, dst |-> 0, full |-> FALSE,
                  then |-> "gcnode"]
      BY <2>5, <2>6 DEF MoveJob, NoJob
    <3>2. n.val \in Values \cup {None}
      BY <2>5 DEF Node
    <3> QED
      BY <2>3, <2>5, <3>1, <3>2
  <2>8. gc'.s = s /\ gc'.i = i + 1 /\ gc'.then = gc.then
        /\ gc' \in [s : Nat, i : Nat, then : {"none", "retry", "setend", "gcscan", "envscan"}]
    BY <1>2, <2>2, <2>6 DEF RamType
  <2>9. RamType' /\ CleanSoFar'
    BY <1>1, <2>6, <2>7, <2>8 DEF RamType, CleanSoFar
  <2>10. Control'
    BY <1>1, <1>2, <1>3, <2>2, <2>5, <2>6, <2>7, <2>8
       DEF Control, Unasked, JobSteps, Copying, InGc, GcWork, Job, Recovering
  <2>11. /\ FlashType' /\ SameHeads
         /\ \A t \in Sectors : Used(t)' = Used(t) /\ HeldIn(t)' = HeldIn(t) /\ Held(t)' = Held(t)
         /\ \A t \in Sectors : \A j \in 1 .. Used(t) : ~(t = s /\ j = i) =>
               flash'[t].nodes[j] = flash[t].nodes[j]
         /\ flash'[s].nodes[i].crc /\ flash'[s].nodes[i].st = "PRE_DELETE"
         /\ flash'[s].nodes[i].key = n.key
         /\ Kept' = Kept /\ Valid' \subseteq Valid
         /\ \/ Cardinality(Valid') = Cardinality(Valid)
            \/ Cardinality(Valid') = Cardinality(Valid) - 1 /\ n.key \notin Valid'
    <3>1. CASE n.st = "WRITE"
      <4>1. IsValid(flash[s].nodes[i]) /\ SetNode(<<s, i>>, [flash[s].nodes[i] EXCEPT !.st = "PRE_DELETE"])
        BY <2>4, <2>5, <2>6, <3>1 DEF IsValid
      <4> QED
        BY <2>2, <2>4, <4>1, PreDeleteWrite
    <3>2. CASE n.st # "WRITE"
      <4>1. flash' = flash
        BY <2>6, <3>2
      <4>2. n.st = "PRE_DELETE"
        BY <2>5, <3>2
      <4>3. /\ FlashType' /\ Valid' = Valid /\ Kept' = Kept
            /\ \A t : Used(t)' = Used(t) /\ HeldIn(t)' = HeldIn(t) /\ Held(t)' = Held(t)
        BY <4>1, FlashKept
      <4> QED
        BY <2>4, <2>5, <4>1, <4>2, <4>3 DEF SameHeads
    <3> QED
      BY <3>1, <3>2
  <2>12. \A t \in Sectors : t # s => flash'[t] = flash[t]
    BY <2>6, OtherSectors
  <2>13. Moving(s)'
    <3>1. flash'[Other(s)] = flash[Other(s)]
      BY <2>12, Others
    <3>2. Collecting(s)'
      BY <1>2, <2>11, <3>1, CollectingAfterSource DEF Moving
    <3>3. Begun = 0 /\ Begun' = 0 /\ Used(Other(s))' = Used(Other(s))
      BY <1>1, <2>6, <2>11, Others DEF Begun, Job, JobSteps, Copying
    <3> QED
      BY <1>1, <1>2, <2>11, <3>2, <3>3 DEF Moving, Other
  <2>14. Phase'
    BY <2>6, <2>7, <2>8, <2>13 DEF Phase, Resting, GcWork, Job, JobSteps, Copying
  <2>15. Excess'
    <3>1. Debt = 0 /\ Debt' = IF n.key \in Valid' THEN 0 ELSE 1
      BY <1>1, <2>3, <2>6, <2>7 DEF Debt, Copying
    <3>2. Held(1)' = Held(1) /\ Held(2)' = Held(2) /\ Held(1) \in Nat /\ Held(2) \in Nat
      BY <2>11, SectorsOneTwo, Counts
    <3>3. losses \in Nat /\ Cardinality(Valid) \in Nat
      BY Counts, EnvConstants DEF RamType, EnvConstants
    <3>4. Held(1) + Held(2) <= Cardinality(Valid') + losses + Debt'
      BY <2>11, <3>1, <3>2, <3>3 DEF Excess
    <3> QED
      BY <1>1, <3>2, <3>4 DEF Excess
  <2>16. Something'
    BY <2>11 DEF Something
  <2>17. Source'
    <3>1. InUse(s)'
      BY <1>2, <2>11, HeadsRead DEF Moving, Collecting
    <3>2. <<s, i>>[1] = s /\ <<s, i>>[2] = i /\ i <= Used(s)'
      BY <1>4, <2>2, <2>11
    <3>3. Replaced(<<s, i>>)'
      BY <2>3, <2>7, <2>11, <3>2 DEF Replaced, At
    <3>4. InUse(job.src[1])' /\ job'.src[1] = gc'.s /\ job'.src # None
      BY <2>3, <2>7, <2>8, <3>1, <3>2 DEF InUse
    <3>5. Replaced(job.src)'
      BY <2>7, <3>3 DEF Replaced, At, Used
    <3>6. pc' \in {"predirty", "move"} /\ job'.then = "gcnode"
      BY <2>6, <2>7, <2>11
    <3> QED
      BY <3>4, <3>5, <3>6 DEF Source, JobSteps, Copying, Job
  <2>18. Destination'
    BY <2>6, <2>7 DEF Destination, JobSteps, Copying, Job
  <2>19. Progress'
    <3>1. ASSUME NEW j \in HeldIn(s)' PROVE j >= i + 1 \/ j = i
      <4>1. j \in HeldIn(s)
        BY <2>11
      <4>2. j \in Nat
        BY <1>4, <4>1
      <4>3. i <= j
        BY <2>1, <4>1
      <4> QED
        BY <2>2, <4>2, <4>3
    <3> QED
      BY <2>6, <2>7, <2>8, <3>1 DEF Progress, JobSteps, Copying, Job, HeldIn, Used
  <2>20. Cached'
    <3> SUFFICES ASSUME NEW q \in Keys, NEW p \in Places, env_cache_table[q] = p
                 PROVE  CachedAt(q, p)'
      BY <1>1 DEF Cached, CachedAt, At, Used, RamType
    <3>1. p[1] \in Sectors /\ p[2] \in 1 .. Used(p[1]) /\ CachedAt(q, p)
      BY CachedComplete
    <3>2. IsValid(At(p)) /\ At(p).key = q
      BY <1>1, <3>1 DEF CachedAt, Copying
    <3>3. CASE p = <<s, i>>
      <4>1. n.st = "WRITE" /\ q = n.key
        BY <2>4, <3>2, <3>3 DEF At, IsValid
      <4>2. At(p)' = flash'[s].nodes[i] /\ Used(p[1])' = Used(p[1])
        BY <2>11, <3>1, <3>3 DEF At
      <4> QED
        BY <2>6, <2>7, <2>11, <3>1, <3>3, <4>1, <4>2 DEF CachedAt
    <3>4. CASE p # <<s, i>>
      <4>1. ~(p[1] = s /\ p[2] = i)
        BY <3>4 DEF Places
      <4>2. At(p)' = At(p) /\ Used(p[1])' = Used(p[1])
        BY <2>11, <3>1, <4>1 DEF At
      <4> QED
        BY <3>1, <3>2, <4>2 DEF CachedAt
    <3> QED
      BY <3>3, <3>4
  <2>21. CachedOnly'
    <3> SUFFICES ASSUME in_recovery_check, NEW k \in Keys, env_cache_table[k] # None,
                        NEW t \in Sectors, NEW j \in 1 .. Used(t)',
                        IsValid(flash'[t].nodes[j]), flash'[t].nodes[j].key = k
                 PROVE  env_cache_table[k] = <<t, j>>
      BY <1>1, <2>6 DEF CachedOnly
    <3>1. j \in 1 .. Used(t) /\ flash'[t].nodes[j] = flash[t].nodes[j]
      BY <2>11 DEF IsValid
    <3> QED
      BY <3>1 DEF CachedOnly
  <2> QED
    BY <2>9, <2>10, <2>11, <2>14, <2>15, <2>16, <2>17, <2>18, <2>19, <2>20, <2>21
<1> QED
  BY <1>6, <1>7
----------------------------------------------------------------------------
(* Erasing and formatting; the rest of the boot.                           *)

\* The cache does not lead into a sector that is erased or formatted.
LEMMA CacheAfterErase ==
    ASSUME StoreInv, NEW s \in Sectors, HeldIn(s) = {}, Used(s)' = 0,
           \A t \in Sectors : t # s => flash'[t] = flash[t],
           env_cache_table' = env_cache_table, in_recovery_check' = in_recovery_check,
           pc \notin JobSteps, pc # "off", pc' # "off"
    PROVE  Cached' /\ CachedOnly'
<1> USE DEF StoreInv
<1>1. Cached'
  <2> SUFFICES ASSUME NEW q \in Keys, NEW p \in Places, env_cache_table[q] = p
               PROVE  CachedAt(q, p)'
    BY DEF Cached, CachedAt, At, Used, RamType
  <2>1. p[1] \in Sectors /\ p[2] \in 1 .. Used(p[1]) /\ CachedAt(q, p)
    BY CachedComplete
  <2>2. IsValid(At(p))
    BY <2>1 DEF CachedAt, JobSteps, Copying
  <2>3. p[1] # s
    BY <2>1, <2>2 DEF HeldIn, IsHeld, IsValid, At
  <2>4. At(p)' = At(p) /\ Used(p[1])' = Used(p[1])
    BY <2>1, <2>3 DEF At, Used
  <2> QED
    BY <2>1, <2>2, <2>4 DEF CachedAt
<1>2. CachedOnly'
  <2> SUFFICES ASSUME in_recovery_check, NEW k \in Keys, env_cache_table[k] # None,
                      NEW t \in Sectors, NEW j \in 1 .. Used(t)',
                      IsValid(flash'[t].nodes[j]), flash'[t].nodes[j].key = k
               PROVE  env_cache_table[k] = <<t, j>>
    BY DEF CachedOnly
  <2>1. t # s
    OBVIOUS
  <2>2. flash'[t] = flash[t] /\ j \in 1 .. Used(t)
    BY <2>1 DEF Used
  <2> QED
    BY <2>2 DEF CachedOnly
<1> QED
  BY <1>1, <1>2

LEMMA StepErase ==
    ASSUME TwoSectors, StoreInv, EraseSector
    PROVE  StoreInv'
<1> USE DEF StoreInv
<1>1. /\ pc = "erase" /\ pc' = "format" /\ losses' = losses
      /\ request' = request /\ job' = job /\ gc' = gc /\ gc_request' = gc_request
      /\ in_recovery_check' = in_recovery_check /\ env_cache_table' = env_cache_table
      /\ last_is_complete_del' = last_is_complete_del
  BY DEF EraseSector, ram
<1>2. PICK s \in Sectors : s = gc.s /\ Moving(s) /\ HeldIn(s) = {}
  BY <1>1 DEF Control, Phase, GcWork, Progress
<1>3. /\ FlashType'
      /\ flash'[s] = Erased /\ Used(s)' = 0
      /\ \A t \in Sectors : t # s => flash'[t] = flash[t]
      /\ \A t \in Sectors : t # s => Used(t)' = Used(t)
      /\ \A t \in Sectors : HeldIn(t)' = HeldIn(t) /\ Held(t)' = Held(t)
      /\ Valid' = Valid /\ Kept' = Kept
  BY <1>1, <1>2, SectorWritten DEF EraseSector
<1>4. PICK d \in Sectors : d = Other(s) /\ d # s /\ \A t \in Sectors : t = s \/ t = d
  BY Others
<1>5. HeldIn(d) # {}
  <2>1. PICK k \in Kept : TRUE
    BY DEF Something
  <2>2. PICK t \in Sectors : HeldIn(t) # {}
    BY DEF Kept, HeldIn
  <2> QED
    BY <1>2, <1>4, <2>2
<1>6. Target(d)
  BY <1>2, <1>4, <1>5, EmptyHoldsNothing DEF Moving, Collecting
<1>7. Target(d)'
  BY <1>3, <1>4, <1>6 DEF Target, Clean, Used
<1>8. Moved(s)'
  <2>1. Begun = 0 /\ Held(s) = 0 /\ losses \in Nat
    BY <1>1, <1>2, FS_EmptySet, EnvConstants DEF Begun, Job, JobSteps, Copying, Held, RamType, EnvConstants
  <2>2. Used(d) <= Cardinality(Kept) + losses
    BY <1>2, <1>4, <2>1, Counts DEF Moving
  <2> QED
    BY <1>1, <1>3, <1>4, <1>7, <2>2 DEF Moved, Erasing, Other
<1>9. RamType' /\ CleanSoFar'
  BY <1>1 DEF RamType, CleanSoFar
<1>10. Control'
  BY <1>1 DEF Control, Unasked, JobSteps, Copying, InGc, GcWork, Job, Recovering
<1>11. Phase'
  BY <1>1, <1>2, <1>8 DEF Phase, Resting, GcWork, Job, JobSteps, Copying
<1>12. Excess' /\ Something'
  <2>1. Debt = Debt' /\ Held(1)' = Held(1) /\ Held(2)' = Held(2)
    BY <1>1, <1>3, SectorsOneTwo DEF Debt, Copying
  <2> QED
    BY <1>1, <1>3, <2>1 DEF Excess, Something
<1>13. Source' /\ Destination' /\ Progress'
  BY <1>1 DEF Source, Destination, Progress, JobSteps, Copying, Job
<1>14. Cached' /\ CachedOnly'
  BY <1>1, <1>2, <1>3, CacheAfterErase DEF JobSteps, Copying
<1> QED
  BY <1>3, <1>9, <1>10, <1>11, <1>12, <1>13, <1>14

\* The exchange of the two sectors is complete.
LEMMA Exchanged ==
    ASSUME TwoSectors, FlashType, RamType, NEW s \in Sectors, Moved(s),
           flash' = [flash EXCEPT ![s] = Formatted], losses' = losses, Open' = 0
    PROVE  /\ FlashType' /\ AtRest(Other(s))' /\ \A t \in Sectors : Clean(t)'
           /\ HeldIn(s) = {} /\ Used(s)' = 0
           /\ \A t \in Sectors : t # s => flash'[t] = flash[t]
           /\ \A t \in Sectors : HeldIn(t)' = HeldIn(t) /\ Held(t)' = Held(t)
           /\ Valid' = Valid /\ Kept' = Kept
<1>1. PICK d \in Sectors : d = Other(s) /\ d # s /\ Other(d) = s /\ \A t \in Sectors : t = s \/ t = d
  BY Others
<1>2. flash[s] = Erased /\ Target(d) /\ Used(d) <= Cardinality(Kept) + losses
  BY <1>1 DEF Moved, Erasing
<1>3. HeldIn(s) = {} /\ Used(s) = 0
  BY <1>2, EmptyHoldsNothing
<1>4. /\ FlashType'
      /\ flash'[s] = Formatted /\ Used(s)' = 0
      /\ \A t \in Sectors : t # s => flash'[t] = flash[t]
      /\ \A t \in Sectors : t # s => Used(t)' = Used(t)
      /\ \A t \in Sectors : HeldIn(t)' = HeldIn(t) /\ Held(t)' = Held(t)
      /\ Valid' = Valid /\ Kept' = Kept
  BY <1>3, SectorWritten
<1>5. Kept = Valid
  <2>1. Valid \subseteq Kept
    BY DEF Valid, Kept, IsValid, IsHeld
  <2>2. ASSUME NEW k \in Kept PROVE k \in Valid
    <3>1. PICK t \in Sectors : \E i \in 1 .. Used(t) :
             IsHeld(flash[t].nodes[i]) /\ flash[t].nodes[i].key = k
      BY DEF Kept
    <3>2. PICK i \in 1 .. Used(t) : IsHeld(flash[t].nodes[i]) /\ flash[t].nodes[i].key = k
      BY <3>1
    <3>3. t = d
      BY <1>1, <1>3
    <3>4. IsValid(flash[t].nodes[i])
      BY <1>2, <3>2, <3>3 DEF Target, IsHeld, IsValid
    <3> QED
      BY <3>2, <3>4 DEF Valid, Kept
  <2> QED
    BY <2>1, <2>2
<1>6. \A t \in Sectors : Clean(t)'
  BY <1>1, <1>2, <1>4 DEF Clean, Target, Formatted
<1>7. AtRest(d)'
  <2>1. flash'[d] = flash[d] /\ Used(d)' = Used(d)
    BY <1>1, <1>4
  <2>2. Normal(d)'
    BY <1>1, <1>2, <1>4, <2>1 DEF Normal, InUse, Target, Clean, Other
  <2>3. losses \in Nat /\ Used(d) \in Nat /\ Cardinality(Valid) \in Nat
    BY Counts, EnvConstants DEF RamType, EnvConstants
  <2>4. Used(d)' <= Cardinality(Valid)' + losses' + Open'
    BY <1>2, <1>4, <1>5, <2>1, <2>3
  <2> QED
    BY <1>2, <2>1, <2>2, <2>4 DEF AtRest, Target
<1> QED
  BY <1>1, <1>3, <1>4, <1>6, <1>7 DEF Other

LEMMA StepFormat ==
    ASSUME TwoSectors, StoreInv, FormatSector
    PROVE  StoreInv'
<1> USE DEF StoreInv
<1>1. /\ pc = "format" /\ pc' = "gc" /\ losses' = losses /\ gc' = [gc EXCEPT !.s = @ + 1]
      /\ request' = request /\ job' = job /\ gc_request' = gc_request
      /\ in_recovery_check' = in_recovery_check /\ env_cache_table' = env_cache_table
      /\ last_is_complete_del' = last_is_complete_del
  BY DEF FormatSector
<1>2. PICK s \in Sectors : s = gc.s /\ Moved(s)
  BY <1>1 DEF Control, Phase
<1>3. Open' = 0
  BY <1>1 DEF Open
<1>4. /\ FlashType' /\ AtRest(Other(s))' /\ \A t \in Sectors : Clean(t)'
      /\ HeldIn(s) = {} /\ Used(s)' = 0
      /\ \A t \in Sectors : t # s => flash'[t] = flash[t]
      /\ \A t \in Sectors : HeldIn(t)' = HeldIn(t) /\ Held(t)' = Held(t)
      /\ Valid' = Valid /\ Kept' = Kept
  BY <1>1, <1>2, <1>3, Exchanged DEF FormatSector
<1>5. s \in 1 .. 2
  BY Others
<1>6. /\ gc'.s = s + 1 /\ gc'.i = gc.i /\ gc'.then = gc.then
      /\ gc' \in [s : Nat, i : Nat, then : {"none", "retry", "setend", "gcscan", "envscan"}]
  BY <1>1, <1>2, <1>5 DEF RamType
<1>7. RamType' /\ CleanSoFar'
  BY <1>1, <1>4, <1>6 DEF RamType, CleanSoFar
<1>8. Control'
  BY <1>1, <1>5, <1>6 DEF Control, Unasked, JobSteps, Copying, InGc, GcWork, Job, Recovering
<1>9. Phase'
  <2>1. PICK d \in Sectors : d = Other(s)
    BY Others
  <2>2. AtRest(d)'
    BY <1>4, <2>1 DEF Other
  <2> QED
    BY <1>1, <2>2 DEF Phase, Resting, GcWork, Job, JobSteps, Copying
<1>10. Excess' /\ Something'
  <2>1. Debt = Debt' /\ Held(1)' = Held(1) /\ Held(2)' = Held(2)
    BY <1>1, <1>4, SectorsOneTwo DEF Debt, Copying
  <2> QED
    BY <1>1, <1>4, <2>1 DEF Excess, Something
<1>11. Source' /\ Destination' /\ Progress'
  BY <1>1 DEF Source, Destination, Progress, JobSteps, Copying, Job
<1>12. Cached' /\ CachedOnly'
  BY <1>1, <1>4, CacheAfterErase DEF JobSteps, Copying
<1> QED
  BY <1>4, <1>7, <1>8, <1>9, <1>10, <1>11, <1>12

LEMMA StepHeaders ==
    ASSUME TwoSectors, StoreInv, CheckHeaders
    PROVE  StoreInv'
<1> USE DEF StoreInv
<1>1. /\ pc = "headers" /\ losses' = losses
      /\ request' = request /\ job' = job /\ gc' = gc /\ gc_request' = gc_request
      /\ in_recovery_check' = in_recovery_check /\ env_cache_table' = env_cache_table
      /\ last_is_complete_del' = last_is_complete_del
  BY DEF CheckHeaders, ram
<1>2. PICK u \in Sectors : AtRest(u) \/ Moving(u) \/ Moved(u)
  BY <1>1 DEF Phase
<1>3. PICK d \in Sectors : d = Other(u) /\ d # u /\ \A t \in Sectors : t = u \/ t = d
  BY Others
<1> DEFINE bad == {s \in Sectors : ~flash[s].magic}
<1>4. CASE AtRest(u) \/ Moving(u)
  <2>1. bad = {}
    <3>1. flash[u].magic /\ flash[d].magic
      BY <1>3, <1>4 DEF AtRest, Normal, Moving, Collecting, InUse, Target, Formatted
    <3> QED
      BY <1>3, <3>1
  <2>2. pc' = "gcscan" /\ flash' = flash
    BY <2>1 DEF CheckHeaders
  <2>3. RamType' /\ CleanSoFar'
    BY <1>1, <2>2 DEF RamType, CleanSoFar
  <2>4. Control'
    BY <1>1, <2>2 DEF Control, Unasked, JobSteps, Copying, InGc, GcWork, Job, Recovering
  <2>5. Phase'
    <3>1. AtRest(u)' \/ Moving(u)'
      BY <1>1, <1>4, <2>2, PhaseKept DEF Open, Begun, Job, JobSteps, Copying
    <3> QED
      BY <2>2, <3>1 DEF Phase, Resting, GcWork, Job, JobSteps, Copying
  <2>6. Source' /\ Destination' /\ Progress'
    BY <2>2 DEF Source, Destination, Progress, JobSteps, Copying, Job
  <2>7. Cached'
    BY <1>1, <2>2, CacheKept DEF JobSteps, Copying
  <2>8. CachedOnly'
    BY <1>1, <2>2 DEF CachedOnly, Used
  <2>9. Debt <= Debt'
    BY <1>1, <2>2 DEF Debt, Copying
  <2> QED
    BY <1>1, <2>2, <2>3, <2>4, <2>5, <2>6, <2>7, <2>8, <2>9, QuietStep
<1>5. CASE Moved(u)
  <2>1. bad = {u}
    <3>1. ~flash[u].magic /\ flash[d].magic
      BY <1>3, <1>5 DEF Moved, Erasing, Erased, Target
    <3> QED
      BY <1>3, <3>1
  <2>2. Lowest({u}) = u
    BY LowestOfOne, Others
  <2>3. pc' = "headers" /\ flash' = [flash EXCEPT ![u] = Formatted]
    BY <1>1, <2>1, <2>2 DEF CheckHeaders
  <2>4. Open' = 0
    BY <2>3 DEF Open
  <2>5. /\ FlashType' /\ AtRest(Other(u))' /\ \A t \in Sectors : Clean(t)'
        /\ HeldIn(u) = {} /\ Used(u)' = 0
        /\ \A t \in Sectors : t # u => flash'[t] = flash[t]
        /\ \A t \in Sectors : HeldIn(t)' = HeldIn(t) /\ Held(t)' = Held(t)
        /\ Valid' = Valid /\ Kept' = Kept
    BY <1>1, <1>5, <2>3, <2>4, Exchanged
  <2>6. RamType' /\ CleanSoFar'
    BY <1>1, <2>3 DEF RamType, CleanSoFar
  <2>7. Control'
    BY <1>1, <2>3 DEF Control, Unasked, JobSteps, Copying, InGc, GcWork, Job, Recovering
  <2>8. Phase'
    <3>1. AtRest(d)'
      BY <1>3, <2>5 DEF Other
    <3> QED
      BY <2>3, <3>1 DEF Phase, Resting, GcWork, Job, JobSteps, Copying
  <2>9. Excess' /\ Something'
    <3>1. Debt = Debt' /\ Held(1)' = Held(1) /\ Held(2)' = Held(2)
      BY <1>1, <2>3, <2>5, SectorsOneTwo DEF Debt, Copying
    <3> QED
      BY <1>1, <2>5, <3>1 DEF Excess, Something
  <2>10. Source' /\ Destination' /\ Progress'
    BY <2>3 DEF Source, Destination, Progress, JobSteps, Copying, Job
  <2>11. Cached' /\ CachedOnly'
    BY <1>1, <2>3, <2>5, CacheAfterErase DEF JobSteps, Copying
  <2> QED
    BY <2>5, <2>6, <2>7, <2>8, <2>9, <2>10, <2>11
<1> QED
  BY <1>2, <1>4, <1>5
LEMMA StepRecoverEnv ==
    ASSUME TwoSectors, StoreInv, RecoverEnv
    PROVE  StoreInv'
<1> USE DEF StoreInv
<1>1. /\ pc = "envscan" /\ losses' = losses /\ request' = request /\ gc' = gc
      /\ gc_request' = gc_request /\ in_recovery_check' = in_recovery_check
      /\ env_cache_table' = env_cache_table /\ last_is_complete_del' = last_is_complete_del
  BY DEF RecoverEnv
<1>2. ~gc_request /\ in_recovery_check
  BY <1>1 DEF Control, Unasked, Recovering
<1>3. PICK u \in Sectors : AtRest(u)
  BY <1>1 DEF Phase, Resting
<1>4. PICK f : f = FirstOf(Unsettled)
  OBVIOUS
<1>5. ASSUME NEW q \in Keys, env_cache_table[q] # None
      PROVE  CachedAt(q, env_cache_table[q]) /\ IsValid(At(env_cache_table[q]))
             /\ env_cache_table[q] \in Places
  BY <1>1, <1>5 DEF Cached, CachedAt, Copying, RamType
<1>6. CASE Unsettled = {}
  <2>1. pc' = "scanned" /\ flash' = flash /\ job' = job
    BY <1>6 DEF RecoverEnv
  <2>2. RamType' /\ CleanSoFar'
    BY <1>1, <2>1 DEF RamType, CleanSoFar
  <2>3. Control'
    BY <1>1, <1>2, <2>1 DEF Control, Unasked, JobSteps, Copying, InGc, GcWork, Job, Recovering
  <2>4. Phase'
    <3>1. AtRest(u)'
      BY <1>1, <1>3, <2>1, PhaseKept DEF Open
    <3> QED
      BY <2>1, <3>1 DEF Phase, Resting, GcWork, Job, JobSteps, Copying
  <2>5. Source' /\ Destination' /\ Progress'
    BY <2>1 DEF Source, Destination, Progress, JobSteps, Copying, Job
  <2>6. Cached'
    BY <1>1, <2>1, CacheKept DEF JobSteps, Copying
  <2>7. CachedOnly'
    BY <1>1, <1>2, <2>1 DEF CachedOnly, Used
  <2>8. Debt <= Debt'
    BY <1>1, <2>1 DEF Debt, Copying
  <2> QED
    BY <1>1, <2>1, <2>2, <2>3, <2>4, <2>5, <2>6, <2>7, <2>8, QuietStep
<1>7. CASE Unsettled # {}
  <2>1. Unsettled \subseteq Places
    BY DEF Unsettled, Iterated
  <2>2. f \in Unsettled
    BY <1>4, <1>7, <2>1, FirstIsIn
  <2>3. PICK s \in Sectors, i \in 1 .. Slots : f = <<s, i>>
    BY <2>1, <2>2 DEF Places
  <2>4. i <= Used(s) /\ Readable(s)
    BY <2>2, <2>3 DEF Unsettled, Iterated, Used
  <2>5. i \in 1 .. Used(s) /\ flash[s].nodes[i] \in Node /\ flash[s].nodes \in Seq(Node)
    BY <2>4, NodesTyped
  <2>6. \/ flash[s].nodes[i].st = "PRE_WRITE"
        \/ flash[s].nodes[i].st = "PRE_DELETE" /\ flash[s].nodes[i].crc
    BY <2>2, <2>3 DEF Unsettled, NodeAt
  <2>7. f \in Places /\ None \notin Places
    BY <2>1, <2>2, EnvConstants DEF EnvConstants
  <2>8. s = u
    <3>1. s = Other(u) => Used(s) = 0
      BY <1>3, EmptyHoldsNothing DEF AtRest, Normal
    <3> QED
      BY <2>5, <3>1, Others
  <2>9. CASE flash[s].nodes[i].st = "PRE_DELETE"
    <3>1. job' = MoveJob(f, "envscan") /\ pc' = "move" /\ flash' = flash
      BY <1>4, <1>7, <2>3, <2>9 DEF RecoverEnv, NodeAt
    <3>2. flash[s].nodes[i].crc /\ flash[s].nodes[i].key \in Keys
      BY <2>5, <2>6, <2>9 DEF FlashType
    <3>3. /\ job'.key = flash[s].nodes[i].key /\ job'.src = f /\ job'.then = "envscan"
          /\ job' \in [key : Keys \cup {None}, val : Values \cup {None}, src : Places \cup {None},
                       dst : Nat, full : BOOLEAN, then : {"none", "setend", "envscan", "gcnode"}]
      BY <2>3, <2>5, <2>7, <3>1, <3>2 DEF MoveJob, NoJob, NodeAt, Node
    <3>4. RamType' /\ CleanSoFar'
      BY <1>1, <3>1, <3>3 DEF RamType, CleanSoFar
    <3>5. Control'
      BY <1>1, <1>2, <3>1, <3>2, <3>3
      DEF Control, Unasked, JobSteps, Copying, InGc, GcWork, Job, Recovering
    <3>6. Phase'
      <4>1. AtRest(u)'
        BY <1>1, <1>3, <3>1, PhaseKept DEF Open
      <4> QED
        BY <3>1, <3>3, <4>1 DEF Phase, Resting, GcWork, Job, JobSteps, Copying
    <3>7. Source'
      <4>1. InUse(s)'
        BY <2>4, <3>1 DEF Readable, InUse
      <4>2. Replaced(f)'
        BY <2>3, <2>4, <2>7, <2>9, <3>1, <3>2, <3>3 DEF Replaced, At, Used
      <4> QED
        BY <2>3, <2>7, <3>1, <3>3, <4>1, <4>2 DEF Source, JobSteps, Copying, Job, Replaced, At, Used
    <3>8. Destination' /\ Progress'
      BY <3>1, <3>3 DEF Destination, Progress, JobSteps, Copying, Job
    <3>9. Cached'
      BY <1>1, <1>5, <3>1 DEF Cached, CachedAt, At, Used
    <3>10. CachedOnly'
      BY <1>1, <1>2, <3>1 DEF CachedOnly, Used
    <3>11. Debt <= Debt'
      BY <1>1, <3>1, <3>3 DEF Debt, Copying
    <3> QED
      BY <1>1, <3>1, <3>4, <3>5, <3>6, <3>7, <3>8, <3>9, <3>10, <3>11, QuietStep
  <2>10. CASE flash[s].nodes[i].st = "PRE_WRITE"
    <3>1. SetNode(<<s, i>>, Dead) /\ pc' = "scanned" /\ job' = job
      BY <1>4, <1>7, <2>3, <2>10 DEF RecoverEnv, NodeAt, Kill
    <3>2. Dead \in Node /\ ~Dead.crc /\ ~IsHeld(Dead) /\ ~IsHeld(flash[s].nodes[i]) /\ ~IsValid(Dead)
          /\ ~IsValid(flash[s].nodes[i])
      BY <2>10 DEF Dead, Node, IsHeld, IsValid
    <3>3. /\ FlashType' /\ SameHeads
          /\ \A t \in Sectors : Used(t)' = Used(t)
          /\ \A t \in Sectors : \A j \in 1 .. Used(t) :
                flash'[t].nodes[j] = IF t = s /\ j = i THEN Dead ELSE flash[t].nodes[j]
      BY <2>5, <3>1, <3>2, NodeWritten
    <3>4. /\ \A t \in Sectors : HeldIn(t)' = HeldIn(t) /\ Held(t)' = Held(t)
          /\ Valid' = Valid /\ Kept' = Kept
      BY <2>5, <3>1, <3>2, NeutralWrite
    <3>5. \A t \in Sectors : t # s => flash'[t] = flash[t]
      BY <3>1, OtherSectors
    <3>6. RamType' /\ CleanSoFar'
      BY <1>1, <3>1 DEF RamType, CleanSoFar
    <3>7. Control'
      BY <1>1, <1>2, <3>1 DEF Control, Unasked, JobSteps, Copying, InGc, GcWork, Job, Recovering
    <3>8. AtRest(u)'
      <4>1. Normal(u)' /\ Clean(u)' = Clean(u) /\ flash'[u].store = flash[u].store
        BY <1>3, <2>8, <3>3, <3>5, Others, NormalAfter DEF AtRest
      <4>2. Open = 0 /\ Open' = 0
        BY <1>1, <3>1 DEF Open
      <4> QED
        BY <1>1, <1>3, <3>3, <3>4, <4>1, <4>2 DEF AtRest
    <3>9. Phase'
      BY <3>1, <3>8 DEF Phase, Resting, GcWork, Job, JobSteps, Copying
    <3>10. Excess' /\ Something'
      <4>1. Debt = Debt' /\ Held(1)' = Held(1) /\ Held(2)' = Held(2)
        BY <1>1, <3>1, <3>4, SectorsOneTwo DEF Debt, Copying
      <4> QED
        BY <1>1, <3>4, <4>1 DEF Excess, Something
    <3>11. Source' /\ Destination' /\ Progress'
      BY <3>1 DEF Source, Destination, Progress, JobSteps, Copying, Job
    <3>12. Cached'
      <4> SUFFICES ASSUME NEW q \in Keys, env_cache_table'[q] # None
                   PROVE  CachedAt(q, env_cache_table[q])'
        BY DEF Cached
      <4>1. PICK p \in Places : p = env_cache_table[q]
        BY <1>1, <1>5
      <4>2. p[2] <= Used(p[1]) /\ At(p).key = q /\ IsValid(At(p))
        BY <1>1, <1>5, <4>1 DEF CachedAt
      <4>3. p[1] \in Sectors /\ p[2] \in 1 .. Used(p[1])
        BY <4>1, <4>2, NodesTyped DEF Places
      <4>4. ~(p[1] = s /\ p[2] = i)
        BY <3>2, <4>2 DEF At
      <4>5. At(p)' = At(p) /\ Used(p[1])' = Used(p[1])
        BY <3>3, <4>3, <4>4 DEF At
      <4> QED
        BY <1>1, <4>1, <4>2, <4>5 DEF CachedAt, At, Used
    <3>13. CachedOnly'
      <4> SUFFICES ASSUME NEW q \in Keys, env_cache_table'[q] # None,
                          NEW t \in Sectors, NEW j \in 1 .. Used(t)',
                          IsValid(flash'[t].nodes[j]), flash'[t].nodes[j].key = q
                   PROVE  env_cache_table'[q] = <<t, j>>
        BY DEF CachedOnly
      <4>1. j \in 1 .. Used(t) /\ ~(t = s /\ j = i)
        BY <3>2, <3>3
      <4>2. flash'[t].nodes[j] = flash[t].nodes[j]
        BY <3>3, <4>1
      <4> QED
        BY <1>1, <1>2, <4>1, <4>2 DEF CachedOnly
    <3> QED
      BY <3>3, <3>6, <3>7, <3>9, <3>10, <3>11, <3>12, <3>13
  <2> QED
    BY <2>6, <2>9, <2>10
<1> QED
  BY <1>6, <1>7

----------------------------------------------------------------------------
(* The first state.                                                        *)

\* The defaults are valid nodes of different variables.
LEMMA Defaults ==
    ASSUME NEW n \in 1 .. Cardinality(Keys)
    PROVE  /\ DefaultNodes(n) \in Seq(Node) /\ Len(DefaultNodes(n)) = n
           /\ \A i \in 1 .. n : IsValid(DefaultNodes(n)[i]) /\ DefaultNodes(n)[i].key \in Keys
           /\ \A i, j \in 1 .. n : DefaultNodes(n)[i].key = DefaultNodes(n)[j].key => i = j
<1> DEFINE N == Cardinality(Keys)
           InOrder(f) == \A k \in Keys : \E i \in DOMAIN f : f[i] = k
           order == CHOOSE f \in [1 .. N -> Keys] : InOrder(f)
           default == CHOOSE v \in Values : TRUE
           node(i) == [st |-> "WRITE", key |-> order[i], val |-> default, crc |-> TRUE]
<1>1. IsFiniteSet(Keys) /\ N \in Nat
  BY EnvConstants, FS_CardinalityType DEF EnvConstants
<1>2. \E f \in [1 .. N -> Keys] : InOrder(f)
  <2>1. ExistsBijection(1 .. N, Keys)
    BY <1>1, FS_CardinalityType
  <2>2. PICK f : f \in Bijection(1 .. N, Keys)
    BY <2>1 DEF ExistsBijection
  <2>3. f \in Surjection(1 .. N, Keys)
    BY <2>2 DEF Bijection
  <2> QED
    BY <2>3 DEF Surjection
<1>3. order \in [1 .. N -> Keys] /\ InOrder(order)
  <2> HIDE DEF InOrder, N
  <2> QED
    BY <1>2, Zenon
<1>4. default \in Values
  BY EnvConstants DEF EnvConstants
<1>5. DefaultNodes(n) = [i \in 1 .. n |-> node(i)]
  BY DEF DefaultNodes
<1> HIDE DEF order, default
<1>6. \A i, j \in 1 .. N : order[i] = order[j] => i = j
  <2>1. order \in Surjection(1 .. N, Keys)
    BY <1>3 DEF Surjection
  <2>2. IsFiniteSet(1 .. N) /\ Cardinality(1 .. N) = N
    BY <1>1, FS_Interval
  <2>3. order \in Injection(1 .. N, Keys)
    BY <2>1, <2>2, FS_SurjSameCardinalityImpliesInj
  <2> QED
    BY <2>3 DEF Injection, IsInjective
<1>7. 1 .. n \subseteq 1 .. N /\ n \in Nat
  BY <1>1
<1> HIDE DEF N
<1>8. \A i \in 1 .. n : order[i] \in Keys /\ node(i) \in Node
  BY <1>3, <1>4, <1>7 DEF Node
<1>9. DefaultNodes(n) \in Seq(Node) /\ Len(DefaultNodes(n)) = n
  BY <1>5, <1>7, <1>8
<1> QED
  BY <1>5, <1>6, <1>7, <1>8, <1>9 DEF IsValid

LEMMA StartsWell ==
    ASSUME TwoSectors, Init
    PROVE  StoreInv
<1>1. PICK n \in 1 .. Cardinality(Keys) :
         flash = [s \in Sectors |-> IF s = 1
                  THEN [Formatted EXCEPT !.store = "USING", !.nodes = DefaultNodes(n)]
                  ELSE Formatted]
  BY DEF Init
<1>2. /\ pc = "idle" /\ request = None /\ job = NoJob /\ gc = NoGc /\ gc_request = FALSE
      /\ in_recovery_check = FALSE /\ env_cache_table = [k \in Keys |-> None]
      /\ last_is_complete_del = FALSE /\ losses = 0
  BY DEF Init
<1>3. PICK nodes : nodes = DefaultNodes(n)
  OBVIOUS
<1>4. /\ nodes \in Seq(Node) /\ Len(nodes) = n
      /\ \A i \in 1 .. n : IsValid(nodes[i]) /\ nodes[i].key \in Keys
      /\ \A i, j \in 1 .. n : nodes[i].key = nodes[j].key => i = j
  BY <1>3, Defaults
<1>5. /\ flash[1].magic /\ flash[1].store = "USING" /\ flash[1].dirty = "FALSE"
      /\ flash[1].nodes = nodes /\ flash[1] \in Sector
      /\ flash[2] = Formatted /\ DOMAIN flash = Sectors
  <2>1. 1 \in Sectors /\ 2 \in Sectors
    BY SectorsOneTwo
  <2>2. /\ flash[1] = [Formatted EXCEPT !.store = "USING", !.nodes = nodes]
        /\ flash[2] = Formatted /\ DOMAIN flash = Sectors
    BY <1>1, <1>3, <2>1
  <2> DEFINE r == [Formatted EXCEPT !.store = "USING", !.nodes = nodes]
  <2>3. Formatted \in Sector /\ Formatted.magic /\ Formatted.dirty = "FALSE"
    BY DEF Formatted, Sector
  <2>4. r \in Sector /\ r.magic /\ r.store = "USING" /\ r.dirty = "FALSE" /\ r.nodes = nodes
    BY <1>4, <2>3 DEF Sector
  <2> QED
    BY <2>2, <2>4
<1>6. IsFiniteSet(Keys) /\ Cardinality(Keys) \in Nat /\ n \in Nat /\ n > 0
      /\ n <= Cardinality(Keys) /\ Slots \in Nat /\ Cardinality(Keys) <= Slots
  BY EnvConstants, FS_CardinalityType DEF EnvConstants
<1>7. Used(1) = n /\ Used(2) = 0
  BY <1>4, <1>5 DEF Used, Formatted
<1>8. FlashType
  <2>1. flash[1] \in Sector /\ flash[2] \in Sector
    BY <1>4, <1>5 DEF Sector, Formatted
  <2>2. flash = [s \in Sectors |-> flash[s]]
    BY <1>1
  <2>3. flash \in [Sectors -> Sector]
    BY <2>1, <2>2, SectorsOneTwo
  <2>4. ASSUME NEW s \in Sectors, NEW i \in 1 .. Used(s) PROVE flash[s].nodes[i].key \in Keys
    BY <1>4, <1>5, <1>6, <1>7, SectorsOneTwo
  <2> QED
    BY <1>6, <1>7, <2>3, <2>4, SectorsOneTwo DEF FlashType
<1>9. HeldIn(1) = 1 .. n /\ HeldIn(2) = {}
  BY <1>4, <1>5, <1>7 DEF HeldIn, IsHeld, IsValid
<1>10. Held(1) = n /\ Held(2) = 0
  <2>1. Cardinality(1 .. n) = n
    BY <1>6, FS_Interval
  <2> QED
    BY <1>9, <2>1, FS_EmptySet DEF Held
<1> DEFINE g == [i \in 1 .. n |-> nodes[i].key]
<1>11. g \in Bijection(1 .. n, Valid)
  <2>1. \A i \in 1 .. n : g[i] \in Valid
    BY <1>4, <1>5, <1>7, SectorsOneTwo DEF Valid
  <2>2. ASSUME NEW k \in Valid PROVE \E i \in 1 .. n : g[i] = k
    <3>1. PICK s \in Sectors : \E i \in 1 .. Used(s) : flash[s].nodes[i].key = k
      BY DEF Valid
    <3>2. s = 1 /\ 1 .. Used(s) = 1 .. n
      BY <1>6, <1>7, <3>1, SectorsOneTwo
    <3>3. PICK i \in 1 .. n : flash[1].nodes[i].key = k
      BY <3>1, <3>2
    <3>4. flash[1].nodes = nodes
      BY <1>5
    <3> QED
      BY <3>3, <3>4
  <2>3. g \in [1 .. n -> Valid]
    BY <2>1
  <2>4. \A i, j \in 1 .. n : g[i] = g[j] => i = j
    BY <1>4
  <2>5. DOMAIN g = 1 .. n
    OBVIOUS
  <2> HIDE DEF g
  <2> QED
    BY <2>2, <2>3, <2>4, <2>5 DEF Bijection, Injection, Surjection, IsInjective
<1>12. Cardinality(Valid) = n
  <2>1. IsFiniteSet(1 .. n) /\ Cardinality(1 .. n) = n
    BY <1>6, FS_Interval
  <2>2. ExistsBijection(1 .. n, Valid)
    BY <1>11 DEF ExistsBijection
  <2> QED
    BY <2>1, <2>2, FS_Bijection
<1>13. Something
  <2>1. nodes[1].key \in Kept
    BY <1>4, <1>5, <1>6, <1>7, SectorsOneTwo DEF Kept, IsHeld, IsValid
  <2> QED
    BY <2>1 DEF Something
<1>14. RamType
  <2>1. {k \in Keys : env_cache_table[k] # None} = {}
    BY <1>2
  <2>2. Cardinality({k \in Keys : env_cache_table[k] # None}) <= CacheSize /\ 0 \in 0 .. MaxLosses
    BY <2>1, FS_EmptySet, EnvConstants DEF EnvConstants
  <2> QED
    BY <1>2, <2>2 DEF RamType, NoJob, NoGc
<1>15. Control /\ CleanSoFar
  BY <1>2 DEF Control, CleanSoFar, Unasked, JobSteps, Copying, InGc, GcWork, Job, Recovering
<1>16. Phase
  <2>1. Normal(1) /\ flash[1].store = "USING"
    BY <1>5 DEF Normal, InUse, Other
  <2>2. Used(1) <= Cardinality(Valid) + losses + Open
    BY <1>2, <1>6, <1>7, <1>12 DEF Open
  <2>3. AtRest(1)
    BY <2>1, <2>2 DEF AtRest
  <2> QED
    BY <1>2, <2>3, SectorsOneTwo DEF Phase, Resting, GcWork, Job, JobSteps, Copying
<1>17. Excess
  <2>1. Debt = 0
    BY <1>2 DEF Debt, Copying
  <2> QED
    BY <1>2, <1>6, <1>10, <1>12, <2>1 DEF Excess
<1>18. Source /\ Destination /\ Progress
  BY <1>2 DEF Source, Destination, Progress, JobSteps, Copying, Job
<1>19. Cached /\ CachedOnly
  BY <1>2 DEF Cached, CachedOnly
<1> QED
  BY <1>8, <1>13, <1>14, <1>15, <1>16, <1>17, <1>18, <1>19 DEF StoreInv

\* Nothing happens.
LEMMA StepStutter ==
    ASSUME StoreInv, UNCHANGED vars
    PROVE  StoreInv'
<1>1. /\ flash' = flash /\ pc' = pc /\ request' = request /\ job' = job /\ gc' = gc
      /\ gc_request' = gc_request /\ in_recovery_check' = in_recovery_check
      /\ env_cache_table' = env_cache_table /\ last_is_complete_del' = last_is_complete_del
      /\ losses' = losses
  BY DEF vars, ram
<1>2. FlashType' /\ RamType' /\ CleanSoFar' /\ Something'
  BY <1>1, FlashKept DEF StoreInv, RamType, CleanSoFar, Something
<1>3. Control'
  BY <1>1 DEF StoreInv, Control, Unasked, JobSteps, Copying, InGc, GcWork, Job, Recovering
<1>4. Phase'
  <2>1. Open' = Open /\ Begun' = Begun
    BY <1>1 DEF Open, Begun, Job
  <2>2. \A u : AtRest(u)' = AtRest(u) /\ Moving(u)' = Moving(u) /\ Moved(u)' = Moved(u)
    BY <1>1, <2>1, FlashKept DEF AtRest, Moving, Moved
  <2> QED
    BY <1>1, <2>2 DEF StoreInv, Phase, Resting, GcWork, Job
<1>5. Excess'
  <2>1. Debt' = Debt
    BY <1>1, FlashKept DEF Debt
  <2> QED
    BY <1>1, <2>1, FlashKept DEF StoreInv, Excess
<1>6. Source'
  BY <1>1, FlashKept DEF StoreInv, Source, Job, Replaced, At
<1>7. Destination'
  BY <1>1, FlashKept DEF StoreInv, Destination, Job
<1>8. Progress'
  BY <1>1, FlashKept DEF StoreInv, Progress, Job
<1>9. Cached' /\ CachedOnly'
  BY <1>1, FlashKept DEF StoreInv, Cached, CachedAt, At, Used, CachedOnly
<1> QED
  BY <1>2, <1>3, <1>4, <1>5, <1>6, <1>7, <1>8, <1>9 DEF StoreInv

\* Every step of a call, of garbage collection and of a boot.
LEMMA StepInv ==
    ASSUME TwoSectors, StoreInv, [Next]_vars
    PROVE  StoreInv'
<1>1. ASSUME NEW k \in Keys, NEW v \in Values, Call(k, v) PROVE StoreInv'
  BY <1>1, StepCall
<1>2. ASSUME NEW k \in Keys, ef_get_env(k) PROVE StoreInv'
  BY <1>2, StepGet
<1>3. ASSUME new_env \/ SetEnd \/ PowerLoss PROVE StoreInv'
  BY <1>3, StepNew, StepSetEnd, StepPowerLoss
<1>4. ASSUME WriteNode PROVE StoreInv'
  BY <1>4, StepStatus, StepPreWrite, StepHeader, StepData, StepDone DEF WriteNode
<1>5. ASSUME Delete PROVE StoreInv'
  BY <1>5, StepPreDeleteOld, StepPreDeleteDirty, StepDeleteOld, StepDeleteDirty DEF Delete
<1>6. ASSUME gc_collect PROVE StoreInv'
  BY <1>6, StepGcSector, StepGcNode, StepMoveAlloc, StepErase, StepFormat DEF gc_collect
<1>7. ASSUME ef_load_env PROVE StoreInv'
  BY <1>7, StepBoot, StepHeaders, StepRecoverGc, StepRecoverEnv, StepLoadEnd DEF ef_load_env
<1>8. ASSUME UNCHANGED vars PROVE StoreInv'
  BY <1>8, StepStutter
<1> QED
  BY <1>1, <1>2, <1>3, <1>4, <1>5, <1>6, <1>7, <1>8, Zenon DEF Next, Step
----------------------------------------------------------------------------
(* The theorems.                                                           *)

\* Whatever is written, collected and interrupted, the flash is in one of the
\* phases of StoreInv: at rest, with nodes on their way, or erased.
THEOREM StoreInvariant ==
    ASSUME TwoSectors PROVE Spec => []StoreInv
<1>1. Init => StoreInv
  BY StartsWell
<1>2. StoreInv /\ [Next]_vars => StoreInv'
  BY StepInv
<1> QED
  BY <1>1, <1>2, PTL DEF Spec

\* Sectors, nodes and cache keep their ranges; in particular no sector is ever
\* written beyond its end by alloc_env's callers (ef_env.c).
THEOREM TypeCorrect ==
    ASSUME TwoSectors PROVE Spec => []TypeOK
<1>1. StoreInv => TypeOK
  <2> SUFFICES ASSUME StoreInv PROVE TypeOK
    OBVIOUS
  <2>1. FlashType /\ RamType
    BY DEF StoreInv
  <2>2. DOMAIN flash = Sectors
    BY <2>1 DEF FlashType
  <2>3. ASSUME NEW s \in Sectors
        PROVE  /\ flash[s].magic \in BOOLEAN
               /\ flash[s].store \in {"UNUSED", "EMPTY", "USING", "FULL"}
               /\ flash[s].dirty \in {"UNUSED", "FALSE", "TRUE", "GC"}
               /\ Len(flash[s].nodes) <= Slots
               /\ \A i \in DOMAIN flash[s].nodes : flash[s].nodes[i] \in Node
    <3>1. flash[s] \in Sector /\ flash[s].nodes \in Seq(Node)
      BY <2>1, NodesTyped
    <3>2. Len(flash[s].nodes) <= Slots
      BY <2>1 DEF FlashType, Used
    <3> QED
      BY <3>1, <3>2 DEF Sector
  <2> QED
    BY <2>1, <2>2, <2>3 DEF TypeOK, RamType
<1> QED
  BY <1>1, StoreInvariant, PTL

\* A sector in use, or the one its nodes went to, has a valid header that says
\* so in every state: check_sec_hdr_cb never counts all sectors as failed and
\* ef_load_env never sets the default values over the variables (ef_env.c).
THEOREM HeaderAlwaysValid ==
    ASSUME TwoSectors PROVE Spec => []HeaderSurvives
<1>1. StoreInv => HeaderSurvives
  <2> SUFFICES ASSUME StoreInv PROVE HeaderSurvives
    OBVIOUS
  <2>1. PICK u \in Sectors : AtRest(u) \/ Moving(u) \/ Moved(u)
    BY SomePhase
  <2>2. CASE AtRest(u) \/ Moving(u)
    BY <2>2 DEF AtRest, Normal, Moving, Collecting, InUse, HeaderSurvives
  <2>3. CASE Moved(u)
    BY <2>3, Others DEF Moved, Erasing, Target, HeaderSurvives
  <2> QED
    BY <2>1, <2>2, <2>3
<1> QED
  BY <1>1, StoreInvariant, PTL

\* Between calls the other sector is empty: gc_collect at the end of set_env or
\* of ef_load_env has moved every node, so that the next one has room.
THEOREM SpareSectorKept ==
    ASSUME TwoSectors PROVE Spec => []EmptyKept
<1>1. StoreInv => EmptyKept
  <2> SUFFICES ASSUME StoreInv, pc = "idle" PROVE Cardinality(Empties) >= EmptyThreshold
    BY DEF EmptyKept
  <2>1. PICK u \in Sectors : AtRest(u)
    BY DEF StoreInv, Phase, Resting
  <2> QED
    BY <2>1, EmptyAtRest, SectorsOneTwo DEF AtRest
<1> QED
  BY <1>1, StoreInvariant, PTL

\* Garbage collection formats no sector with a node that is valid or would be
\* recovered: all of them have been moved, though do_gc goes on when move_env
\* finds no room and erases the sector whatever is left in it.
NothingErased ==
    pc = "erase" => \A j \in DOMAIN flash[gc.s].nodes :
        LET n == flash[gc.s].nodes[j] IN n.crc => n.st \notin {"WRITE", "PRE_DELETE"}

\* Whatever do_gc erases (ef_env.c, format_sector) has been moved or is garbage,
\* in a collection that was interrupted and resumed by a boot as well.
THEOREM OnlyGarbageErased ==
    ASSUME TwoSectors PROVE Spec => []NothingErased
<1>1. StoreInv => NothingErased
  <2> SUFFICES ASSUME StoreInv, pc = "erase", NEW j \in DOMAIN flash[gc.s].nodes
               PROVE  ~IsHeld(flash[gc.s].nodes[j])
    BY DEF NothingErased, IsHeld
  <2>1. gc.s \in Sectors
    BY DEF StoreInv, Control, GcWork
  <2>2. flash[gc.s].nodes \in Seq(Node)
    BY <2>1, NodesTyped DEF StoreInv
  <2>3. j \in 1 .. Used(gc.s) /\ HeldIn(gc.s) = {}
    BY <2>2 DEF StoreInv, Progress, Used
  <2> QED
    BY <2>3 DEF HeldIn
<1> QED
  BY <1>1, StoreInvariant, PTL

\* A node that has to be moved always finds a sector with room (alloc_env does
\* not fail in move_env while garbage is collected), with the configured
\* threshold and a sector that holds every variable once.
THEOREM RoomToMove ==
    ASSUME TwoSectors PROVE Spec => [](pc = "move" /\ job.then = "gcnode" => alloc_env # None)
<1>1. StoreInv => (pc = "move" /\ job.then = "gcnode" => alloc_env # None)
  <2> SUFFICES ASSUME StoreInv, pc = "move", job.then = "gcnode" PROVE alloc_env # None
    OBVIOUS
  <2>1. Job("gcnode") /\ GcWork /\ Begun = 0
    BY DEF GcWork, Job, JobSteps, Begun
  <2>2. PICK u \in Sectors : u = gc.s /\ Moving(u)
    BY <2>1 DEF StoreInv, Control, Phase
  <2>3. HeldIn(u) # {}
    BY <2>1, <2>2, SourceIsHeld
  <2>4. Used(Other(u)) + 1 < Slots
    BY <2>1, <2>2, <2>3, MoveHasRoom DEF StoreInv
  <2>5. gc_request
    BY <2>1 DEF StoreInv, Control, InGc
  <2> QED
    BY <2>2, <2>4, <2>5, AllocMoving DEF StoreInv, Moving
<1> QED
  BY <1>1, StoreInvariant, PTL

\* Between calls an address in the cache is that of a valid node of its variable,
\* in a sector that is read: find_env, which does not check it (ef_env.c), never
\* leads to a node that was deleted, moved or erased.
CacheLeadsToValid ==
    pc = "idle" => \A k \in Keys : env_cache_table[k] # None =>
        /\ find_env(k) \in Iterated
        /\ NodeAt(find_env(k)).key = k /\ NodeAt(find_env(k)).crc
        /\ NodeAt(find_env(k)).st = "WRITE"

\* The part of Findable that holds for any number of losses of power: however
\* nodes were moved, what the cache says is in the flash.
THEOREM CacheTrusted ==
    ASSUME TwoSectors PROVE Spec => []CacheLeadsToValid
<1>1. StoreInv => CacheLeadsToValid
  <2> SUFFICES ASSUME StoreInv, pc = "idle", NEW k \in Keys, env_cache_table[k] # None
               PROVE  /\ find_env(k) \in Iterated
                      /\ NodeAt(find_env(k)).key = k /\ NodeAt(find_env(k)).crc
                      /\ NodeAt(find_env(k)).st = "WRITE"
    BY DEF CacheLeadsToValid
  <2>1. PICK p \in Places : p = env_cache_table[k] /\ p = find_env(k)
    BY DEF StoreInv, RamType, find_env
  <2>2. p[2] <= Used(p[1]) /\ At(p).key = k /\ IsValid(At(p))
    BY <2>1 DEF StoreInv, Cached, CachedAt, Copying
  <2>3. PICK u \in Sectors : AtRest(u)
    BY DEF StoreInv, Phase, Resting
  <2>4. p[1] \in Sectors /\ p[2] \in 1 .. Slots
    BY DEF Places
  <2>5. Used(p[1]) > 0
    BY <2>2, <2>4, NodesTyped DEF StoreInv
  <2>6. Readable(p[1])
    BY <2>3, <2>4, <2>5, AllReadable DEF StoreInv, AtRest
  <2>7. p \in Iterated
    BY <2>2, <2>6 DEF Iterated, Used
  <2> QED
    BY <2>1, <2>2, <2>7 DEF NodeAt, At, IsValid
<1> QED
  BY <1>1, StoreInvariant, PTL

----------------------------------------------------------------------------
(* No variable is ever lost.                                               *)

\* No step loses the last node of a variable.
LEMMA KeptGrows ==
    ASSUME TwoSectors, StoreInv, [Next]_vars
    PROVE  Kept \subseteq Kept'
<1> USE DEF StoreInv
<1>1. ASSUME flash' = flash PROVE Kept \subseteq Kept'
  BY <1>1, FlashKept
<1>2. ASSUME flash' \in [Sectors -> Sector], SameNodes PROVE Kept \subseteq Kept'
  BY <1>2, HeadersWritten
<1>3. ASSUME NEW s \in Sectors, MarkDirty(s) PROVE Kept \subseteq Kept'
  BY <1>2, <1>3, DirtyMarked
<1>4. ASSUME NEW s \in Sectors, NEW i \in 1 .. Used(s), IsValid(flash[s].nodes[i]),
             SetNode(<<s, i>>, [flash[s].nodes[i] EXCEPT !.st = "PRE_DELETE"])
      PROVE  Kept \subseteq Kept'
  BY <1>4, PreDeleteWrite
<1>5. CASE (\E k \in Keys, v \in Values : Call(k, v)) \/ (\E k \in Keys : ef_get_env(k))
           \/ new_env \/ SetEnd \/ PowerLoss \/ MoveAlloc \/ Boot \/ RecoverGc \/ LoadEnd
           \/ UNCHANGED vars
  BY <1>1, <1>5 DEF Call, ef_get_env, new_env, SetEnd, PowerLoss, MoveAlloc, Boot, RecoverGc,
                    LoadEnd, vars
<1>6. CASE update_sec_status
  <2>1. PICK s \in Sectors : s = job.dst
    BY <1>6 DEF update_sec_status, Destination, Copying
  <2>2. PICK store \in {"FULL", "USING"} : flash' = [flash EXCEPT ![s].store = store]
    BY <1>6, <2>1 DEF update_sec_status
  <2>3. flash' \in [Sectors -> Sector] /\ SameNodes
    BY <2>2 DEF FlashType, Sector, SameNodes
  <2> QED
    BY <1>2, <2>3
<1>7. CASE WritePreWrite
  <2>1. PICK d \in Sectors : d = job.dst /\ Used(d) + 1 < Slots
    BY <1>7 DEF WritePreWrite, Destination, Copying
  <2>2. Used(d) < Slots /\ Slots \in Nat
    BY <2>1, Counts, EnvConstants DEF EnvConstants
  <2>3. flash' = [flash EXCEPT ![d].nodes = Append(@, Dead)]
    BY <1>7, <2>1 DEF WritePreWrite
  <2> QED
    BY <2>2, <2>3, AppendWrite
<1>8. CASE write_env_hdr \/ WriteData \/ WriteDone
  <2>1. pc \in {"header", "data", "write"}
    BY <1>8 DEF write_env_hdr, WriteData, WriteDone
  <2>2. PICK d \in Sectors : d = job.dst /\ Used(d) > 0
    BY <2>1 DEF Destination, Copying
  <2>3. PICK i \in 1 .. Used(d) : i = Used(d)
    BY <2>2, Counts
  <2>4. Slot = <<d, i>>
    BY <2>2, <2>3 DEF Slot, Used
  <2>5. flash[d].nodes[i] \in Node
    BY NodesTyped
  <2>6. CASE write_env_hdr
    <3>1. ~flash[d].nodes[i].crc
      BY <2>2, <2>3, <2>6 DEF write_env_hdr, Destination
    <3>2. PICK n : n = [st |-> "PRE_WRITE", key |-> job.key, val |-> job.val, crc |-> FALSE]
      OBVIOUS
    <3>3. n \in Node /\ ~n.crc /\ SetNode(<<d, i>>, n)
      BY <2>4, <2>6, <3>2 DEF write_env_hdr, Node, RamType
    <3> QED
      BY <3>1, <3>3, NeutralWrite DEF IsHeld
  <2>7. CASE WriteData
    <3>1. /\ ~flash[d].nodes[i].crc /\ flash[d].nodes[i].st = "PRE_WRITE"
          /\ flash[d].nodes[i].key = job.key
      BY <2>2, <2>3, <2>7 DEF WriteData, Destination
    <3>2. PICK n : n = [flash[d].nodes[i] EXCEPT !.crc = TRUE]
      OBVIOUS
    <3>3. job.key \in Keys
      BY <2>7 DEF WriteData, Control, JobSteps, Copying
    <3>4. n \in Node /\ n.key \in Keys /\ n.st = "PRE_WRITE"
      BY <2>5, <3>1, <3>2, <3>3 DEF Node
    <3>5. SetNode(<<d, i>>, n)
      BY <2>4, <2>7, <3>2 DEF WriteData, NodeAt
    <3> QED
      BY <3>1, <3>4, <3>5, NeutralWrite DEF IsHeld
  <2>8. CASE WriteDone
    <3>1. flash[d].nodes[i].crc /\ flash[d].nodes[i].st = "PRE_WRITE"
      BY <2>2, <2>3, <2>8 DEF WriteDone, Destination
    <3>2. SetNode(<<d, i>>, [flash[d].nodes[i] EXCEPT !.st = "WRITE"])
      BY <2>4, <2>8 DEF WriteDone, NodeAt
    <3> QED
      BY <3>1, <3>2, FinishWrite
  <2> QED
    BY <1>8, <2>6, <2>7, <2>8
<1>9. CASE PreDeleteOld
  <2>1. pc = "find" /\ job.key \in Keys
    BY <1>9 DEF PreDeleteOld, Control
  <2>2. PICK u \in Sectors : AtRest(u)
    BY <2>1 DEF Phase, Resting
  <2>3. PICK old : old = find_env(job.key)
    OBVIOUS
  <2>4. \/ old = None
        \/ old \in Places /\ old[2] <= Used(old[1]) /\ IsValid(At(old))
    BY <2>1, <2>2, <2>3, FindEnv DEF AtRest, JobSteps, Copying
  <2>5. CASE old = None
    BY <1>1, <1>9, <2>3, <2>5 DEF PreDeleteOld
  <2>6. CASE old # None
    <3>1. PICK s \in Sectors, i \in 1 .. Slots : old = <<s, i>>
      BY <2>4, <2>6 DEF Places
    <3>2. i \in 1 .. Used(s) /\ IsValid(flash[s].nodes[i])
      BY <2>4, <2>6, <3>1, NodesTyped DEF At
    <3>3. SetNode(<<s, i>>, [flash[s].nodes[i] EXCEPT !.st = "PRE_DELETE"])
      BY <1>9, <2>3, <2>6, <3>1 DEF PreDeleteOld, NodeAt
    <3> QED
      BY <1>4, <3>2, <3>3
  <2> QED
    BY <2>5, <2>6
<1>10. CASE PreDeleteDirty \/ DeleteDirty \/ DeleteOld
  <2>1. pc \in {"predirty", "dirty", "delete"}
    BY <1>10 DEF PreDeleteDirty, DeleteDirty, DeleteOld
  <2>2. job.src # None
    BY <2>1 DEF Source, JobSteps
  <2>3. PICK s \in Sectors, i \in 1 .. Slots : job.src = <<s, i>>
    BY <2>2 DEF RamType, Places
  <2>4. CASE PreDeleteDirty \/ DeleteDirty
    BY <1>3, <2>3, <2>4 DEF PreDeleteDirty, DeleteDirty
  <2>5. CASE DeleteOld
    <3>1. pc = "delete" /\ Kill(<<s, i>>)
      BY <2>3, <2>5 DEF DeleteOld
    <3>2. Replaced(job.src) /\ job.key \in Valid
      BY <2>2, <3>1 DEF Source, JobSteps
    <3>3. /\ i \in 1 .. Used(s) /\ flash[s].nodes[i].crc /\ flash[s].nodes[i].st = "PRE_DELETE"
          /\ flash[s].nodes[i].key \in Valid
      BY <2>3, <3>2, Counts DEF Replaced, At
    <3> QED
      BY <3>1, <3>3, KillWrite
  <2> QED
    BY <1>10, <2>4, <2>5
<1>11. CASE GcSector
  <2>1. CASE flash' = flash
    BY <1>1, <2>1
  <2>2. CASE gc.s <= SECTOR_NUM /\ flash' = [flash EXCEPT ![gc.s].dirty = "GC"]
    <3>1. PICK s \in Sectors : s = gc.s
      BY <1>11, <2>2, EnvConstants DEF GcSector, Control, InGc, Sectors, EnvConstants
    <3>2. flash' \in [Sectors -> Sector] /\ SameNodes
      BY <2>2, <3>1 DEF FlashType, Sector, SameNodes
    <3> QED
      BY <1>2, <3>2
  <2> QED
    BY <1>11, <2>1, <2>2 DEF GcSector
<1>12. CASE GcNode
  <2>1. CASE flash' = flash
    BY <1>1, <2>1
  <2>2. CASE flash' # flash
    <3>1. PICK s \in Sectors : s = gc.s
      BY <1>12 DEF GcNode, Control, GcWork
    <3>2. gc.i \in Nat /\ gc.i > 0
      BY <1>12 DEF GcNode, RamType, Control, InGc, GcWork
    <3>3. PICK j : /\ j = Lowest(Movable(s, gc.i)) /\ Movable(s, gc.i) # {}
                   /\ flash[s].nodes[j].st = "WRITE"
                   /\ SetNode(<<s, j>>, [flash[s].nodes[j] EXCEPT !.st = "PRE_DELETE"])
      BY <1>12, <2>2, <3>1 DEF GcNode, NodeAt
    <3>4. Movable(s, gc.i) \subseteq HeldIn(s) /\ HeldIn(s) \subseteq Nat
      BY <3>2, NodesTyped DEF Movable, HeldIn, Used, IsHeld
    <3>5. j \in HeldIn(s)
      BY <3>3, <3>4, LowestIsLeast
    <3>6. j \in 1 .. Used(s) /\ IsValid(flash[s].nodes[j])
      BY <3>3, <3>5 DEF HeldIn, IsHeld, IsValid
    <3> QED
      BY <1>4, <3>3, <3>6
  <2> QED
    BY <2>1, <2>2
<1>13. CASE EraseSector \/ FormatSector
  <2>1. PICK s \in Sectors : s = gc.s /\ HeldIn(s) = {}
    <3>1. gc.s \in Sectors
      BY <1>13 DEF EraseSector, FormatSector, Control, GcWork
    <3>2. CASE EraseSector
      BY <3>1, <3>2 DEF EraseSector, Progress
    <3>3. CASE FormatSector
      <4>1. flash[gc.s] = Erased
        BY <3>3 DEF FormatSector, Phase, Moved, Erasing
      <4> QED
        BY <3>1, <4>1, EmptyHoldsNothing
    <3> QED
      BY <1>13, <3>1, <3>2, <3>3
  <2>2. PICK new \in {Erased, Formatted} : flash' = [flash EXCEPT ![s] = new]
    BY <1>13, <2>1 DEF EraseSector, FormatSector
  <2> QED
    BY <2>1, <2>2, SectorWritten
<1>14. CASE CheckHeaders
  <2> DEFINE bad == {s \in Sectors : ~flash[s].magic}
  <2>1. CASE bad = {}
    BY <1>1, <1>14, <2>1 DEF CheckHeaders
  <2>2. CASE bad # {}
    <3>1. PICK u \in Sectors : AtRest(u) \/ Moving(u) \/ Moved(u)
      BY SomePhase
    <3>2. bad \subseteq Nat
      BY SectorsOneTwo
    <3>3. PICK s \in Sectors : s = Lowest(bad) /\ ~flash[s].magic
      BY <2>2, <3>2, LowestIsLeast
    <3>4. flash[s] = Erased
      <4>1. s = u \/ s = Other(u)
        BY Others
      <4>2. CASE AtRest(u) \/ Moving(u)
        BY <3>3, <4>1, <4>2 DEF AtRest, Normal, Moving, Collecting, InUse, Target, Formatted
      <4>3. CASE Moved(u)
        BY <3>3, <4>1, <4>3 DEF Moved, Erasing, Target
      <4> QED
        BY <3>1, <4>2, <4>3
    <3>5. HeldIn(s) = {}
      BY <3>4, EmptyHoldsNothing
    <3>6. flash' = [flash EXCEPT ![s] = Formatted]
      BY <1>14, <2>2, <3>3 DEF CheckHeaders
    <3> QED
      BY <3>5, <3>6, SectorWritten
  <2> QED
    BY <2>1, <2>2
<1>15. CASE RecoverEnv
  <2>1. CASE flash' = flash
    BY <1>1, <2>1
  <2>2. CASE flash' # flash
    <3>1. PICK f : /\ f = FirstOf(Unsettled) /\ Unsettled # {}
                   /\ NodeAt(f).st = "PRE_WRITE" /\ Kill(f)
      BY <1>15, <2>2 DEF RecoverEnv
    <3>2. Unsettled \subseteq Places
      BY DEF Unsettled, Iterated
    <3>3. f \in Unsettled
      BY <3>1, <3>2, FirstIsIn
    <3>4. PICK s \in Sectors, i \in 1 .. Slots : f = <<s, i>>
      BY <3>2, <3>3 DEF Places
    <3>5. i \in 1 .. Used(s) /\ ~IsHeld(flash[s].nodes[i])
      <4>1. i <= Used(s)
        BY <3>3, <3>4 DEF Unsettled, Iterated, Used
      <4>2. flash[s].nodes[i].st = "PRE_WRITE"
        BY <3>1, <3>4 DEF NodeAt
      <4> QED
        BY <4>1, <4>2, NodesTyped DEF IsHeld
    <3>6. Dead \in Node /\ ~Dead.crc /\ ~IsHeld(Dead) /\ SetNode(<<s, i>>, Dead)
      BY <3>1, <3>4 DEF Dead, Node, IsHeld, Kill
    <3> QED
      BY <3>5, <3>6, NeutralWrite
  <2> QED
    BY <2>1, <2>2
<1> QED
  BY <1>5, <1>6, <1>7, <1>8, <1>9, <1>10, <1>11, <1>12, <1>13, <1>14, <1>15, Zenon
  DEF Next, Step, WriteNode, Delete, gc_collect, ef_load_env

\* A variable that find_env_no_cache finds, or that the next boot recovers.
Present(k) == \E p \in Iterated : /\ NodeAt(p).key = k /\ NodeAt(p).crc
                                  /\ NodeAt(p).st \in {"WRITE", "PRE_DELETE"}

\* Sectors that hold nodes are read.
LEMMA PresentIsKept ==
    ASSUME TwoSectors, StoreInv, NEW k \in Keys
    PROVE  Present(k) <=> k \in Kept
<1>1. PICK u \in Sectors : AtRest(u) \/ Moving(u) \/ Moved(u)
  BY SomePhase
<1>2. \A s \in Sectors : Used(s) > 0 => Readable(s)
  <2>1. CASE AtRest(u) \/ Moving(u)
    BY <2>1, AllReadable DEF StoreInv, AtRest, Moving
  <2>2. CASE Moved(u)
    <3>1. Used(u) = 0
      BY <2>2 DEF Moved, Erasing, Erased, Used
    <3>2. Readable(Other(u))
      BY <2>2 DEF Moved, Erasing, Target, Readable
    <3> QED
      BY <3>1, <3>2, Others
  <2> QED
    BY <1>1, <2>1, <2>2
<1>3. ASSUME Present(k) PROVE k \in Kept
  <2>1. PICK p \in Iterated : NodeAt(p).key = k /\ IsHeld(NodeAt(p))
    BY <1>3 DEF Present, IsHeld
  <2>2. PICK s \in Sectors, i \in 1 .. Slots : p = <<s, i>>
    BY DEF Iterated, Places
  <2>3. i <= Used(s)
    BY <2>2 DEF Iterated, Used
  <2>4. i \in 1 .. Used(s)
    BY <2>3, NodesTyped DEF StoreInv
  <2>5. IsHeld(flash[s].nodes[i]) /\ flash[s].nodes[i].key = k
    BY <2>1, <2>2 DEF NodeAt
  <2> QED
    BY <2>4, <2>5 DEF Kept
<1>4. ASSUME k \in Kept PROVE Present(k)
  <2>1. PICK s \in Sectors : \E i \in 1 .. Used(s) :
           IsHeld(flash[s].nodes[i]) /\ flash[s].nodes[i].key = k
    BY <1>4 DEF Kept
  <2>2. PICK i \in 1 .. Used(s) : IsHeld(flash[s].nodes[i]) /\ flash[s].nodes[i].key = k
    BY <2>1
  <2>3. Used(s) \in Nat /\ Slots \in Nat /\ Used(s) <= Slots
    BY Counts, EnvConstants DEF StoreInv, FlashType, EnvConstants
  <2>4. <<s, i>> \in Places /\ Readable(s) /\ i <= Used(s)
    BY <1>2, <2>3 DEF Places
  <2>5. <<s, i>> \in Iterated
    BY <2>4 DEF Iterated, Used
  <2> QED
    BY <2>2, <2>5 DEF Present, NodeAt, IsHeld
<1> QED
  BY <1>3, <1>4

\* Once it has been written a variable is in the flash for ever: no step of
\* set_env, move_env, do_gc or the recovery (ef_env.c), and no loss of power
\* among them, takes its last node away.
NeverForgotten == [][\A k \in Keys : Present(k) => Present(k)']_vars

\* NeverForgotten for any number of losses of power, also those after which
\* Findable and ImplementsSettings fail: there a variable may come back with an
\* older value, but it is not lost.
THEOREM VariablesKept ==
    ASSUME TwoSectors PROVE Spec => NeverForgotten
<1> DEFINE Same == \A k \in Keys : Present(k) <=> k \in Kept
<1>1. StoreInv => Same
  BY PresentIsKept
<1>2. StoreInv /\ Same /\ Same' /\ [Next]_vars
         => [\A k \in Keys : Present(k) => Present(k)']_vars
  <2> SUFFICES ASSUME StoreInv, Same, Same', [Next]_vars
               PROVE  \A k \in Keys : Present(k) => Present(k)'
    OBVIOUS
  <2>1. Kept \subseteq Kept'
    BY KeptGrows
  <2> QED
    BY <2>1
<1> HIDE DEF Same
<1> QED
  BY <1>1, <1>2, StoreInvariant, PTL DEF Spec, NeverForgotten
----------------------------------------------------------------------------
(* One value per variable.                                                 *)

\* The node of a variable, one that is replaced, one that is not finished.
Placed(p) == p[2] <= Used(p[1])
Current(p) == Placed(p) /\ IsValid(At(p))
Doomed(p) == Placed(p) /\ At(p).crc /\ At(p).st = "PRE_DELETE"
Unfinished(p) == Placed(p) /\ At(p).st = "PRE_WRITE"

\* What the call or the boot is working on.
Active(p) == pc \in JobSteps \ {"dirty"} /\ p = job.src
Underway(p) == pc \in {"data", "write"} /\ p = <<job.dst, Used(job.dst)>>
Down == in_recovery_check \/ pc = "off"

\* A node with status WRITE is complete; a complete one has a value.
Whole == \A s \in Sectors : \A i \in 1 .. Used(s) :
            /\ flash[s].nodes[i].st = "WRITE" => flash[s].nodes[i].crc
            /\ flash[s].nodes[i].crc => flash[s].nodes[i].val \in Values

\* A variable has one node; what it replaces is one node, in front of it.
Alone == \A p, q \in Places : Current(p) /\ Current(q) /\ At(p).key = At(q).key => p = q
OneOld == \A p, q \in Places : Doomed(p) /\ Doomed(q) /\ At(p).key = At(q).key => p = q
OldFirst == \A p, q \in Places :
    Doomed(p) /\ Current(q) /\ At(p).key = At(q).key /\ p[1] = q[1] => p[2] < q[2]

\* The scan that ends at the first unfinished node has seen all others.
InOrder == Down => \A p, q \in Places :
    Doomed(p) /\ Unfinished(q) /\ p[1] = q[1] /\ flash[p[1]].dirty # "GC" => p[2] < q[2]
Finished == ~Down \/ (pc = "scanned" /\ ~gc_request) =>
    \A p \in Places : Doomed(p) => Active(p)

\* Until it is finished the new node is the only one to become valid; it carries
\* the value of the request, or that of the node it is copied from.
Fresh == ~Down /\ pc \in {"predirty", "move"} \cup Copying => job.key \notin Valid
Carried ==
    /\ pc \in JobSteps \cup {"find"} => job.val \in Values
    /\ pc \in JobSteps \ {"dirty"} /\ job.then # "setend" => At(job.src).val = job.val
    /\ pc \in {"data", "write"} => flash[job.dst].nodes[Used(job.dst)].val = job.val
    /\ pc = "find" \/ Job("setend") => request.key = job.key /\ request.val = job.val
Asked ==
    /\ Down \/ pc = "idle" => request = None
    /\ ~Down /\ pc # "idle" => request \in [key : Keys, val : Values]

Tidy == /\ Whole /\ Alone /\ OneOld /\ OldFirst /\ InOrder /\ Finished /\ Fresh /\ Carried
        /\ Asked

\* What a step leaves of the node at p.
Keeps(p) ==
    /\ Current(p)' <=> Current(p)
    /\ Doomed(p)' <=> Doomed(p)
    /\ Current(p) \/ Doomed(p) => At(p)'.key = At(p).key /\ At(p)'.val = At(p).val
    /\ Unfinished(p)' => Unfinished(p)
    /\ Doomed(p) /\ flash'[p[1]].dirty # "GC" => flash[p[1]].dirty # "GC"

\* A step that leaves all values where they are, one that writes ENV_WRITE
\* to the node at q, one that writes ENV_PRE_DELETE, one that deletes it.
SameHolders == \A p \in Places :
    /\ Current(p)' <=> Current(p)
    /\ Doomed(p)' <=> Doomed(p)
    /\ Current(p) \/ Doomed(p) => At(p)'.key = At(p).key /\ At(p)'.val = At(p).val
KeepsBut(q) == ~Unfinished(q)' /\ \A p \in Places : p # q => Keeps(p)
Written(q, k, v) ==
    /\ KeepsBut(q) /\ k \notin Valid /\ ~Current(q) /\ ~Doomed(q) /\ ~Doomed(q)'
    /\ Current(q)' /\ At(q)'.key = k /\ At(q)'.val = v
Outdated(q) ==
    /\ KeepsBut(q) /\ Current(q) /\ Doomed(q)' /\ At(q).key \notin Valid'
    /\ At(q)'.key = At(q).key /\ At(q)'.val = At(q).val
Removed(q) ==
    /\ KeepsBut(q) /\ Doomed(q) /\ At(q).key \in Valid /\ ~Doomed(q)' /\ ~Current(q)'

LEMMA PlaceOf ==
    ASSUME FlashType, NEW p \in Places
    PROVE  /\ p[1] \in Sectors /\ p[2] \in 1 .. Slots /\ p = <<p[1], p[2]>>
           /\ Placed(p) <=> p[2] \in 1 .. Used(p[1])
           /\ At(p) = flash[p[1]].nodes[p[2]]
<1>1. p[1] \in Sectors /\ p[2] \in 1 .. Slots /\ p = <<p[1], p[2]>>
  BY DEF Places
<1>2. Used(p[1]) \in Nat /\ Slots \in Nat
  BY <1>1, NodesTyped, EnvConstants DEF EnvConstants
<1> QED
  BY <1>1, <1>2 DEF Placed, At

LEMMA PlaceFor ==
    ASSUME FlashType, NEW s \in Sectors, NEW i \in 1 .. Used(s)
    PROVE  /\ <<s, i>> \in Places /\ Placed(<<s, i>>) /\ At(<<s, i>>) = flash[s].nodes[i]
           /\ <<s, i>> # None
<1>1. Used(s) \in Nat /\ Slots \in Nat /\ Used(s) <= Slots
  BY NodesTyped, EnvConstants DEF EnvConstants, FlashType
<1>2. <<s, i>> \in Places
  BY <1>1 DEF Places
<1> QED
  BY <1>1, <1>2, EnvConstants DEF Placed, At, EnvConstants

LEMMA ValidIs ==
    ASSUME FlashType, NEW k \in Keys
    PROVE  k \in Valid <=> \E p \in Places : Current(p) /\ At(p).key = k
<1>1. ASSUME k \in Valid PROVE \E p \in Places : Current(p) /\ At(p).key = k
  <2>1. PICK s \in Sectors : \E i \in 1 .. Used(s) :
           IsValid(flash[s].nodes[i]) /\ flash[s].nodes[i].key = k
    BY <1>1 DEF Valid
  <2>2. PICK i \in 1 .. Used(s) : IsValid(flash[s].nodes[i]) /\ flash[s].nodes[i].key = k
    BY <2>1
  <2>3. <<s, i>> \in Places /\ Placed(<<s, i>>) /\ At(<<s, i>>) = flash[s].nodes[i]
    BY PlaceFor
  <2> QED
    BY <2>2, <2>3 DEF Current
<1>2. ASSUME NEW p \in Places, Current(p), At(p).key = k PROVE k \in Valid
  <2>1. p[1] \in Sectors /\ p[2] \in 1 .. Used(p[1]) /\ At(p) = flash[p[1]].nodes[p[2]]
    BY <1>2, PlaceOf DEF Current
  <2> QED
    BY <1>2, <2>1 DEF Valid, Current
<1> QED
  BY <1>1, <1>2

\* Headers only.
LEMMA KeepsHeaders ==
    ASSUME FlashType, flash' \in [Sectors -> Sector], SameNodes, Whole,
           \A s \in Sectors : flash'[s].dirty # "GC" => flash[s].dirty # "GC"
    PROVE  Whole' /\ \A p \in Places : Keeps(p)
<1>1. \A t \in Sectors : Used(t)' = Used(t)
  BY DEF SameNodes, Used
<1>2. Whole'
  BY <1>1 DEF Whole, SameNodes
<1>3. ASSUME NEW p \in Places PROVE Keeps(p)
  <2>1. p[1] \in Sectors
    BY PlaceOf
  <2>2. Used(p[1])' = Used(p[1]) /\ flash'[p[1]].nodes = flash[p[1]].nodes
    BY <1>1, <2>1 DEF SameNodes
  <2>3. At(p)' = At(p) /\ Placed(p)' = Placed(p)
    BY <2>2 DEF At, Placed, Used
  <2> QED
    BY <2>1, <2>3 DEF Keeps, Current, Doomed, Unfinished
<1> QED
  BY <1>2, <1>3

\* One node.
LEMMA KeepsOthers ==
    ASSUME FlashType, NEW s \in Sectors, NEW i \in 1 .. Used(s),
           NEW n \in Node, n.crc => n.key \in Keys, SetNode(<<s, i>>, n)
    PROVE  /\ \A p \in Places : p # <<s, i>> => Keeps(p)
           /\ <<s, i>> \in Places /\ Placed(<<s, i>>) /\ Placed(<<s, i>>)' /\ At(<<s, i>>)' = n
           /\ At(<<s, i>>) = flash[s].nodes[i]
           /\ \A t \in Sectors : flash'[t].dirty = flash[t].dirty
           /\ Whole /\ (n.st = "WRITE" => n.crc) /\ (n.crc => n.val \in Values) => Whole'
<1>1. /\ FlashType' /\ SameHeads
      /\ \A t \in Sectors : Used(t)' = Used(t)
      /\ \A t \in Sectors : \A j \in 1 .. Used(t) :
            flash'[t].nodes[j] = IF t = s /\ j = i THEN n ELSE flash[t].nodes[j]
  BY NodeWritten
<1>2. ASSUME NEW p \in Places, p # <<s, i>> PROVE Keeps(p)
  <2>1. p[1] \in Sectors /\ p = <<p[1], p[2]>> /\ (Placed(p) <=> p[2] \in 1 .. Used(p[1]))
    BY PlaceOf
  <2>2. Placed(p)' = Placed(p)
    BY <1>1, <2>1 DEF Placed
  <2>3. Placed(p) => At(p)' = At(p)
    BY <1>1, <1>2, <2>1 DEF At
  <2>4. flash'[p[1]].dirty = flash[p[1]].dirty
    BY <1>1, <2>1 DEF SameHeads
  <2> QED
    BY <2>2, <2>3, <2>4 DEF Keeps, Current, Doomed, Unfinished
<1>3. <<s, i>> \in Places /\ Placed(<<s, i>>) /\ At(<<s, i>>) = flash[s].nodes[i]
  BY PlaceFor
<1>4. Placed(<<s, i>>)' /\ At(<<s, i>>)' = n
  BY <1>1, <1>3 DEF Placed, At
<1>5. ASSUME Whole, n.st = "WRITE" => n.crc, n.crc => n.val \in Values PROVE Whole'
  BY <1>1, <1>5 DEF Whole
<1> QED
  BY <1>1, <1>2, <1>3, <1>4, <1>5 DEF SameHeads

\* A new node that has no header yet.
LEMMA KeepsAppend ==
    ASSUME FlashType, NEW s \in Sectors, Used(s) < Slots, Slots \in Nat, Whole,
           flash' = [flash EXCEPT ![s].nodes = Append(@, Dead)]
    PROVE  Whole' /\ \A p \in Places : Keeps(p)
<1>1. /\ FlashType' /\ SameHeads
      /\ Used(s)' = Used(s) + 1
      /\ \A t \in Sectors : t # s => Used(t)' = Used(t)
      /\ \A t \in Sectors : \A j \in 1 .. Used(t) : flash'[t].nodes[j] = flash[t].nodes[j]
      /\ flash'[s].nodes[Used(s)'] = Dead
  BY AppendWrite
<1>2. Used(s) \in Nat
  BY NodesTyped
<1>3. ASSUME NEW t \in Sectors, NEW j \in 1 .. Used(t)'
      PROVE  \/ j \in 1 .. Used(t)
             \/ ~(j <= Used(t)) /\ flash'[t].nodes[j] = Dead
  <2>1. CASE t # s
    BY <1>1, <2>1
  <2>2. CASE t = s
    <3>1. j \in 1 .. Used(s) \/ j = Used(s) + 1
      BY <1>1, <1>2, <2>2
    <3>2. ~(Used(s) + 1 <= Used(s))
      BY <1>2
    <3> QED
      BY <1>1, <2>2, <3>1, <3>2
  <2> QED
    BY <2>1, <2>2
<1>4. Whole'
  <2> SUFFICES ASSUME NEW t \in Sectors, NEW j \in 1 .. Used(t)'
               PROVE  /\ flash'[t].nodes[j].st = "WRITE" => flash'[t].nodes[j].crc
                      /\ flash'[t].nodes[j].crc => flash'[t].nodes[j].val \in Values
    BY DEF Whole
  <2>1. CASE j \in 1 .. Used(t)
    <3>1. flash'[t].nodes[j] = flash[t].nodes[j]
      BY <1>1, <2>1
    <3> QED
      BY <2>1, <3>1 DEF Whole
  <2>2. CASE flash'[t].nodes[j] = Dead
    <3>1. Dead.st # "WRITE" /\ ~Dead.crc
      BY DEF Dead
    <3> QED
      BY <2>2, <3>1
  <2> QED
    BY <1>3, <2>1, <2>2
<1>5. ASSUME NEW p \in Places PROVE Keeps(p)
  <2>1. p[1] \in Sectors /\ p = <<p[1], p[2]>> /\ (Placed(p) <=> p[2] \in 1 .. Used(p[1]))
    BY PlaceOf
  <2>2. flash'[p[1]].dirty = flash[p[1]].dirty
    BY <1>1, <2>1 DEF SameHeads
  <2>3. CASE Placed(p)
    <3>1. Placed(p)' /\ At(p)' = At(p)
      <4>1. p[2] <= Used(p[1])'
        BY <1>1, <1>2, <2>1, <2>3
      <4> QED
        BY <1>1, <2>1, <2>3, <4>1 DEF Placed, At
    <3> QED
      BY <2>2, <2>3, <3>1 DEF Keeps, Current, Doomed, Unfinished
  <2>4. CASE ~Placed(p)
    <3>1. Placed(p)' => At(p)' = Dead
      <4> SUFFICES ASSUME p[2] <= Used(p[1])' PROVE flash'[p[1]].nodes[p[2]] = Dead
        BY DEF Placed, At
      <4>1. p[2] \in 1 .. Slots /\ Used(p[1])' \in Nat
        BY <1>1, <2>1, PlaceOf, NodesTyped
      <4>2. p[2] \in 1 .. Used(p[1])' /\ p[2] \notin 1 .. Used(p[1])
        BY <2>1, <2>4, <4>1
      <4> QED
        BY <1>3, <2>1, <4>2
    <3>2. Dead.st = "DEAD" /\ ~Dead.crc
      BY DEF Dead
    <3> QED
      BY <2>2, <2>4, <3>1, <3>2 DEF Keeps, Current, Doomed, Unfinished, IsValid
  <2> QED
    BY <2>3, <2>4
<1> QED
  BY <1>4, <1>5

\* A sector without nodes in use.
LEMMA KeepsSector ==
    ASSUME FlashType, NEW s \in Sectors, HeldIn(s) = {}, NEW new \in {Erased, Formatted},
           Whole, flash' = [flash EXCEPT ![s] = new]
    PROVE  Whole' /\ \A p \in Places : Keeps(p)
<1>1. /\ FlashType'
      /\ flash'[s] = new /\ Used(s)' = 0
      /\ \A t \in Sectors : t # s => flash'[t] = flash[t]
      /\ \A t \in Sectors : t # s => Used(t)' = Used(t)
  BY SectorWritten
<1>2. Whole'
  BY <1>1 DEF Whole
<1>3. ASSUME NEW p \in Places PROVE Keeps(p)
  <2>1. p[1] \in Sectors /\ p[2] \in 1 .. Slots /\ (Placed(p) <=> p[2] \in 1 .. Used(p[1]))
        /\ At(p) = flash[p[1]].nodes[p[2]]
    BY PlaceOf
  <2>2. CASE p[1] = s
    <3>1. ~Placed(p)'
      BY <1>1, <2>1, <2>2 DEF Placed
    <3>2. Placed(p) => ~IsHeld(At(p))
      BY <2>1, <2>2 DEF HeldIn
    <3> QED
      BY <3>1, <3>2 DEF Keeps, Current, Doomed, Unfinished, IsHeld, IsValid
  <2>3. CASE p[1] # s
    <3>1. flash'[p[1]] = flash[p[1]]
      BY <1>1, <2>1, <2>3
    <3>2. Placed(p)' = Placed(p) /\ At(p)' = At(p)
      BY <3>1 DEF Placed, At, Used
    <3> QED
      BY <3>1, <3>2 DEF Keeps, Current, Doomed, Unfinished
  <2> QED
    BY <2>2, <2>3
<1> QED
  BY <1>2, <1>3

LEMMA KeepsAll ==
    ASSUME flash' = flash
    PROVE  Whole' = Whole /\ \A p \in Places : Keeps(p)
BY DEF Whole, Used, Keeps, Current, Doomed, Unfinished, Placed, At

\* ValidIs in the state after a step.
LEMMA ValidIsThen ==
    ASSUME FlashType', NEW k \in Keys
    PROVE  k \in Valid' <=> \E p \in Places : Current(p)' /\ At(p)'.key = k
<1>0. /\ \A s \in Sectors : Used(s)' \in Nat /\ Used(s)' <= Slots
      /\ Slots \in Nat
  BY NodesTyped, EnvConstants DEF FlashType, Sector, Used, EnvConstants
<1>1. ASSUME k \in Valid' PROVE \E p \in Places : Current(p)' /\ At(p)'.key = k
  <2>1. PICK s \in Sectors : \E i \in 1 .. Used(s)' :
           IsValid(flash'[s].nodes[i]) /\ flash'[s].nodes[i].key = k
    BY <1>1 DEF Valid
  <2>2. PICK i \in 1 .. Used(s)' : IsValid(flash'[s].nodes[i]) /\ flash'[s].nodes[i].key = k
    BY <2>1
  <2>3. <<s, i>> \in Places /\ i <= Used(s)'
    BY <1>0 DEF Places
  <2>4. Current(<<s, i>>)' /\ At(<<s, i>>)'.key = k
    BY <2>2, <2>3 DEF Current, Placed, At
  <2> QED
    BY <2>3, <2>4
<1>2. ASSUME NEW p \in Places, Current(p)', At(p)'.key = k PROVE k \in Valid'
  <2>1. p[1] \in Sectors /\ p[2] \in 1 .. Slots /\ p[2] <= Used(p[1])'
    BY <1>2 DEF Places, Current, Placed
  <2>2. p[2] \in 1 .. Used(p[1])' /\ IsValid(flash'[p[1]].nodes[p[2]])
        /\ flash'[p[1]].nodes[p[2]].key = k
    BY <1>0, <1>2, <2>1 DEF Current, At
  <2> QED
    BY <2>1, <2>2 DEF Valid
<1> QED
  BY <1>1, <1>2

LEMMA NodesKept ==
    ASSUME FlashType, FlashType', Alone, OneOld, OldFirst, \A p \in Places : Keeps(p)
    PROVE  /\ Alone' /\ OneOld' /\ OldFirst' /\ Valid' = Valid
           /\ InOrder /\ (Down' => Down) => InOrder'
<1>1. Alone' /\ OneOld' /\ OldFirst'
  <2>1. Alone'
    BY DEF Alone, Keeps
  <2>2. OneOld'
    BY DEF OneOld, Keeps
  <2>3. OldFirst'
    BY DEF OldFirst, Keeps
  <2> QED
    BY <2>1, <2>2, <2>3
<1>2. Valid' = Valid
  <2>1. ASSUME NEW k \in Keys PROVE k \in Valid' <=> k \in Valid
    BY ValidIs, ValidIsThen DEF Keeps
  <2>2. Valid \subseteq Keys /\ Valid' \subseteq Keys
    BY DEF Valid
  <2> QED
    BY <2>1, <2>2
<1>3. ASSUME InOrder, Down' => Down PROVE InOrder'
  <2> SUFFICES ASSUME Down', NEW p \in Places, NEW q \in Places, Doomed(p)', Unfinished(q)',
                      p[1] = q[1], flash'[p[1]].dirty # "GC"
               PROVE  p[2] < q[2]
    BY DEF InOrder
  <2>1. Doomed(p) /\ Unfinished(q) /\ flash[p[1]].dirty # "GC"
    BY DEF Keeps
  <2> QED
    BY <1>3, <2>1 DEF InOrder
<1> QED
  BY <1>1, <1>2, <1>3

\* The boot is under way, or the call.
LEMMA WhenDown ==
    ASSUME StoreInv
    PROVE  /\ pc \in {"idle", "alloc", "retry", "find", "setend"} \/ Job("setend") => ~Down
           /\ pc \in {"headers", "gcscan", "envscan", "scanned", "off"} \/ Job("envscan") => Down
           /\ InGc => (Down <=> gc.then \in {"gcscan", "envscan"})
<1>1. in_recovery_check <=> Recovering
  BY DEF StoreInv, Control
<1>2. pc \in {"idle", "alloc", "retry", "find", "setend"} \/ Job("setend") => ~Down
  BY <1>1 DEF Down, Recovering, InGc, GcWork, Job, JobSteps, Copying
<1>3. pc \in {"headers", "gcscan", "envscan", "scanned", "off"} \/ Job("envscan") => Down
  BY <1>1 DEF Down, Recovering
<1>4. InGc => (Down <=> gc.then \in {"gcscan", "envscan"})
  BY <1>1 DEF Down, Recovering, InGc, GcWork, Job, JobSteps, Copying
<1> QED
  BY <1>2, <1>3, <1>4

\* A step that leaves every node in its place.
LEMMA QuietTidy ==
    ASSUME StoreInv, StoreInv', Tidy, Whole', \A p \in Places : Keeps(p), Down' => Down,
           Asked', Carried',
           ~Down' \/ (pc' = "scanned" /\ ~gc_request') =>
              /\ ~Down \/ (pc = "scanned" /\ ~gc_request)
              /\ \A p \in Places : Active(p) => Active(p)',
           ~Down' /\ pc' \in {"predirty", "move"} \cup Copying =>
              \/ job'.key \notin Valid'
              \/ ~Down /\ pc \in {"predirty", "move"} \cup Copying /\ job'.key = job.key
    PROVE  Tidy'
<1>1. Alone' /\ OneOld' /\ OldFirst' /\ InOrder' /\ Valid' = Valid
  BY NodesKept DEF StoreInv, Tidy
<1>2. Finished'
  BY DEF Tidy, Finished, Keeps
<1>3. Fresh'
  BY <1>1 DEF Tidy, Fresh
<1> QED
  BY <1>1, <1>2, <1>3 DEF Tidy

\* The job goes on.
LEMMA CarriedOn ==
    ASSUME StoreInv, Carried, \A p \in Places : Keeps(p), request' = request,
           job'.key = job.key, job'.val = job.val, job'.src = job.src, job'.then = job.then,
           pc \in JobSteps \ {"dirty"}, pc' \in JobSteps \ {"data", "write"}
    PROVE  Carried'
<1>0. PICK q : q = job.src
  OBVIOUS
<1>1. job.then # "setend" => q \in Places /\ Doomed(q) /\ At(q).val = job.val
  BY <1>0 DEF StoreInv, Source, Replaced, Doomed, Placed, Carried
<1>2. job'.then # "setend" => At(q)'.val = job.val
  BY <1>1 DEF Keeps
<1>3. job'.then # "setend" => At(job.src)'.val = job'.val
  BY <1>0, <1>2 DEF At
<1>4. pc' # "find" /\ pc' \notin {"data", "write"} /\ job.val \in Values
  BY DEF JobSteps, Copying, Carried
<1>5. Job("setend")' => request'.key = job'.key /\ request'.val = job'.val
  BY DEF Carried, Job
<1> QED
  BY <1>3, <1>4, <1>5 DEF Carried
----------------------------------------------------------------------------
(* One lemma per step.                                                     *)

LEMMA TidyCall ==
    ASSUME StoreInv, StoreInv', Tidy, NEW k \in Keys, NEW v \in Values, Call(k, v)
    PROVE  Tidy' /\ \A p \in Places : Keeps(p)
<1>1. /\ pc = "idle" /\ pc' = "alloc" /\ request' = [key |-> k, val |-> v] /\ flash' = flash
      /\ job' = job /\ in_recovery_check' = in_recovery_check /\ gc_request' = gc_request
  BY DEF Call
<1>2. ~Down /\ ~Down'
  BY <1>1, WhenDown DEF Down
<1>3. Asked' /\ Carried'
  BY <1>1, <1>2 DEF Asked, Carried, Job, JobSteps, Copying
<1> QED
  BY <1>1, <1>2, <1>3, KeepsAll, QuietTidy DEF Tidy, Active, JobSteps, Copying

LEMMA TidyGet ==
    ASSUME StoreInv, StoreInv', Tidy, NEW k \in Keys, ef_get_env(k)
    PROVE  Tidy' /\ \A p \in Places : Keeps(p)
<1>1. /\ pc = "idle" /\ pc' = "idle" /\ request' = request /\ flash' = flash
      /\ job' = job /\ in_recovery_check' = in_recovery_check /\ gc_request' = gc_request
  BY DEF ef_get_env
<1>2. ~Down /\ ~Down'
  BY <1>1, WhenDown DEF Down
<1>3. Asked' /\ Carried'
  BY <1>1, <1>2 DEF Tidy, Asked, Carried, Job, JobSteps, Copying
<1> QED
  BY <1>1, <1>2, <1>3, KeepsAll, QuietTidy DEF Tidy, Active, JobSteps, Copying

\* new_env never gives up: there is room, or garbage, or there is room
\* after the garbage has been collected.
LEMMA NeverFull ==
    ASSUME TwoSectors, StoreInv, new_env
    PROVE  /\ request' = request
           /\ \/ /\ pc' = "find" /\ job'.key = request.key /\ job'.val = request.val
                 /\ job'.then = "setend"
              \/ pc' = "gc" /\ job' = job /\ gc'.then = "retry"
<1> USE DEF new_env, StoreInv
<1>1. PICK u \in Sectors : AtRest(u)
  BY DEF Phase, Resting
<1>2. pc \in {"alloc", "retry"} /\ ~gc_request
  BY DEF Control, Unasked, Job, JobSteps, Copying
<1>3. /\ alloc_env = IF flash[u].store = "USING" /\ Used(u) + 1 < Slots THEN u ELSE None
      /\ None # u
  BY <1>1, <1>2, AllocAtRest DEF AtRest
<1>4. CASE alloc_env # None
  <2>1. /\ job' = [NoJob EXCEPT !.key = request.key, !.val = request.val,
                                !.dst = alloc_env, !.then = "setend"]
        /\ pc' = "find" /\ request' = request
    BY <1>4
  <2> QED
    BY <2>1 DEF NoJob
<1>5. CASE alloc_env = None
  <2>1. pc = "alloc"
    <3> SUFFICES ASSUME pc = "retry" PROVE FALSE
      BY <1>2
    <3>1. Clean(u) /\ Open = 0
      BY DEF CleanSoFar, Open
    <3> QED
      BY <1>1, <1>3, <1>5, <3>1, CleanHasRoom
  <2>2. gc_request' = TRUE
    BY <1>1, <1>5, EmptyAtRest DEF RequestAfterAlloc, AtRest
  <2> QED
    BY <1>5, <2>1, <2>2 DEF StartGc
<1> QED
  BY <1>4, <1>5

LEMMA TidyNew ==
    ASSUME TwoSectors, StoreInv, StoreInv', Tidy, new_env
    PROVE  Tidy' /\ \A p \in Places : Keeps(p)
<1>1. /\ pc \in {"alloc", "retry"} /\ flash' = flash
      /\ in_recovery_check' = in_recovery_check
  BY DEF new_env
<1>2. /\ request' = request /\ pc' \in {"find", "gc"}
      /\ pc' = "find" => job'.key = request.key /\ job'.val = request.val
  BY NeverFull
<1>3. ~Down /\ ~Down' /\ request \in [key : Keys, val : Values]
  BY <1>1, <1>2, WhenDown DEF Down, Tidy, Asked
<1>4. Asked' /\ Carried'
  BY <1>1, <1>2, <1>3 DEF Tidy, Asked, Carried, Job, JobSteps, Copying
<1> QED
  BY <1>1, <1>2, <1>3, <1>4, KeepsAll, QuietTidy DEF Tidy, Active, JobSteps, Copying

LEMMA TidySetEnd ==
    ASSUME StoreInv, StoreInv', Tidy, SetEnd
    PROVE  Tidy' /\ \A p \in Places : Keeps(p)
<1>1. /\ pc = "setend" /\ flash' = flash /\ in_recovery_check' = in_recovery_check
      /\ \/ pc' = "gc" /\ request' = request
         \/ pc' = "idle" /\ request' = None
  BY DEF SetEnd, StartGc
<1>2. ~Down /\ ~Down'
  BY <1>1, WhenDown DEF Down
<1>3. Asked' /\ Carried'
  BY <1>1, <1>2 DEF Tidy, Asked, Carried, Job, JobSteps, Copying
<1> QED
  BY <1>1, <1>2, <1>3, KeepsAll, QuietTidy DEF Tidy, Active, JobSteps, Copying

\* The steps of the boot that only go on.
LEMMA TidyBoot ==
    ASSUME StoreInv, StoreInv', Tidy, Boot \/ RecoverGc
    PROVE  Tidy' /\ \A p \in Places : Keeps(p)
<1>1. /\ pc \in {"off", "gcscan"} /\ flash' = flash /\ request' = request
      /\ pc' \in {"headers", "gc", "envscan"} /\ in_recovery_check' = TRUE
  <2>1. CASE Boot
    BY <2>1 DEF Boot
  <2>2. CASE RecoverGc
    <3>1. pc = "gcscan" /\ in_recovery_check' = in_recovery_check
      BY <2>2 DEF RecoverGc
    <3>2. in_recovery_check
      BY <3>1 DEF StoreInv, Control, Recovering
    <3> QED
      BY <2>2, <3>1, <3>2 DEF RecoverGc, StartGc, StoreInv, RamType
  <2> QED
    BY <2>1, <2>2
<1>2. Down /\ Down'
  BY <1>1, WhenDown DEF Down
<1>3. Asked' /\ Carried'
  BY <1>1, <1>2 DEF Tidy, Asked, Carried, Job, JobSteps, Copying
<1> QED
  BY <1>1, <1>2, <1>3, KeepsAll, QuietTidy DEF Tidy

LEMMA TidyLoadEnd ==
    ASSUME StoreInv, StoreInv', Tidy, LoadEnd
    PROVE  Tidy' /\ \A p \in Places : Keeps(p)
<1>1. /\ pc = "scanned" /\ flash' = flash /\ request' = request /\ gc_request' = gc_request
      /\ \/ pc' = "gc" /\ gc_request /\ in_recovery_check' = in_recovery_check
         \/ pc' = "idle" /\ ~gc_request /\ in_recovery_check' = FALSE
  BY DEF LoadEnd, StartGc
<1>2. Down
  BY <1>1, WhenDown
<1>3. in_recovery_check
  BY <1>1, <1>2 DEF Down
<1>4. Asked' /\ Carried'
  BY <1>1, <1>2, <1>3 DEF Tidy, Asked, Carried, Down, Job, JobSteps, Copying
<1>5. Down' => pc' = "gc"
  BY <1>1 DEF Down
<1>6. ~Down' => ~gc_request
  BY <1>1, <1>3 DEF Down
<1> QED
  BY <1>1, <1>2, <1>4, <1>5, <1>6, KeepsAll, QuietTidy DEF Tidy, Active, JobSteps, Copying

LEMMA TidyPowerLoss ==
    ASSUME StoreInv, StoreInv', Tidy, PowerLoss,
           in_recovery_check \/ \A p \in Places : Unfinished(p) => Underway(p)
    PROVE  Tidy' /\ \A p \in Places : Keeps(p)
<1>1. pc # "off" /\ pc' = "off" /\ flash' = flash /\ request' = None
  BY DEF PowerLoss
<1>2. Down'
  BY <1>1 DEF Down
<1>3. Asked' /\ Carried' /\ Finished' /\ Fresh'
  BY <1>1, <1>2 DEF Asked, Carried, Finished, Fresh, Job, JobSteps, Copying
<1>4. Whole' /\ \A p \in Places : Keeps(p)
  BY <1>1, KeepsAll DEF Tidy
<1>5. Alone' /\ OneOld' /\ OldFirst' /\ (InOrder /\ (Down' => Down) => InOrder')
  BY <1>4, NodesKept DEF StoreInv, Tidy
<1>6. InOrder'
  <2>1. CASE in_recovery_check
    BY <1>5, <2>1 DEF Down, Tidy
  <2>2. CASE ~in_recovery_check
    <3> SUFFICES ASSUME NEW p \in Places, NEW q \in Places, Doomed(p)', Unfinished(q)',
                        p[1] = q[1]
                 PROVE  p[2] < q[2]
      BY DEF InOrder
    <3>1. Doomed(p) /\ Unfinished(q)
      BY <1>4 DEF Keeps
    <3>2. q = <<job.dst, Used(job.dst)>>
      BY <2>2, <3>1 DEF Underway
    <3>3. p[2] <= Used(p[1]) /\ p # q
      BY <3>1 DEF Doomed, Placed, Unfinished
    <3>4. p = <<p[1], p[2]>> /\ q = <<q[1], q[2]>> /\ p[2] \in 1 .. Slots /\ q[2] \in 1 .. Slots
      BY DEF Places
    <3>5. q[1] = job.dst /\ q[2] = Used(job.dst)
      BY <3>2
    <3>6. p[2] # q[2] /\ p[2] <= q[2]
      BY <3>3, <3>4, <3>5
    <3>7. Slots \in Nat
      BY EnvConstants DEF EnvConstants
    <3> QED
      BY <3>4, <3>6, <3>7
  <2> QED
    BY <2>1, <2>2
<1> QED
  BY <1>3, <1>4, <1>5, <1>6 DEF Tidy

LEMMA TidyPreDeleteDirty ==
    ASSUME StoreInv, StoreInv', Tidy, PreDeleteDirty
    PROVE  Tidy' /\ \A p \in Places : Keeps(p)
<1>1. /\ pc = "predirty" /\ pc' \in {"status", "move"} /\ MarkDirty(job.src[1])
      /\ request' = request /\ job' = job /\ in_recovery_check' = in_recovery_check
  BY DEF PreDeleteDirty, ram
<1>2. PICK s \in Sectors : s = job.src[1]
  BY <1>1, EnvConstants DEF StoreInv, Source, Replaced, Places, JobSteps, EnvConstants
<1>3. flash' \in [Sectors -> Sector] /\ SameNodes
  BY <1>1, <1>2, DirtyMarked DEF StoreInv
<1>4. \A t \in Sectors : flash'[t].dirty # "GC" => flash[t].dirty # "GC"
  BY <1>1, <1>2 DEF MarkDirty, StoreInv, FlashType, Sector
<1>5. Whole' /\ \A p \in Places : Keeps(p)
  BY <1>3, <1>4, KeepsHeaders DEF StoreInv, Tidy
<1>6. Carried'
  BY <1>1, <1>5, CarriedOn DEF Tidy, JobSteps, Copying
<1>7. Down' = Down
  BY <1>1 DEF Down
<1>8. Asked'
  BY <1>1, <1>7 DEF Tidy, Asked
<1> QED
  BY <1>1, <1>5, <1>6, <1>7, <1>8, QuietTidy DEF Active, JobSteps, Copying

LEMMA TidyDeleteDirty ==
    ASSUME StoreInv, StoreInv', Tidy, DeleteDirty
    PROVE  Tidy' /\ \A p \in Places : Keeps(p)
<1>1. /\ pc = "dirty" /\ pc' = job.then /\ MarkDirty(job.src[1]) /\ request' = request
      /\ in_recovery_check' = in_recovery_check /\ job.then \in {"setend", "envscan", "gcnode"}
  BY DEF DeleteDirty, StoreInv, Control, JobSteps
<1>2. PICK s \in Sectors : s = job.src[1]
  <2>1. job.src \in Places
    BY <1>1 DEF StoreInv, RamType, Source, JobSteps
  <2> QED
    BY <2>1 DEF Places
<1>3. flash' \in [Sectors -> Sector] /\ SameNodes
  BY <1>1, <1>2, DirtyMarked DEF StoreInv
<1>4. \A t \in Sectors : flash'[t].dirty # "GC" => flash[t].dirty # "GC"
  BY <1>1, <1>2 DEF MarkDirty, StoreInv, FlashType, Sector
<1>5. Whole' /\ \A p \in Places : Keeps(p)
  BY <1>3, <1>4, KeepsHeaders DEF StoreInv, Tidy
<1>6. Carried'
  BY <1>1 DEF Carried, Job, JobSteps, Copying
<1>7. Down' = Down
  BY <1>1 DEF Down
<1>8. Asked'
  BY <1>1, <1>7 DEF Tidy, Asked
<1> QED
  BY <1>1, <1>5, <1>6, <1>7, <1>8, QuietTidy DEF Active, JobSteps, Copying

LEMMA TidyStatus ==
    ASSUME StoreInv, StoreInv', Tidy, update_sec_status
    PROVE  Tidy' /\ \A p \in Places : Keeps(p)
<1>1. /\ pc = "status" /\ pc' = "prewrite" /\ request' = request
      /\ in_recovery_check' = in_recovery_check
  BY DEF update_sec_status
<1>2. PICK s \in Sectors : s = job.dst
  BY <1>1 DEF StoreInv, Destination, Copying
<1>3. PICK store \in {"FULL", "USING"} : flash' = [flash EXCEPT ![s].store = store]
  BY <1>2 DEF update_sec_status
<1>4. flash' \in [Sectors -> Sector] /\ SameNodes
  BY <1>3 DEF StoreInv, FlashType, Sector, SameNodes
<1>5. \A t \in Sectors : flash'[t].dirty # "GC" => flash[t].dirty # "GC"
  BY <1>3 DEF StoreInv, FlashType, Sector
<1>6. Whole' /\ \A p \in Places : Keeps(p)
  BY <1>4, <1>5, KeepsHeaders DEF StoreInv, Tidy
<1>7. job'.key = job.key /\ job'.val = job.val /\ job'.src = job.src /\ job'.then = job.then
  BY DEF update_sec_status, StoreInv, RamType
<1>8. Carried'
  BY <1>1, <1>6, <1>7, CarriedOn DEF Tidy, JobSteps, Copying
<1>9. Down' = Down
  BY <1>1 DEF Down
<1>10. Asked'
  BY <1>1, <1>9 DEF Tidy, Asked
<1> QED
  BY <1>1, <1>6, <1>7, <1>8, <1>9, <1>10, QuietTidy DEF Active, JobSteps, Copying

LEMMA TidyPreWrite ==
    ASSUME StoreInv, StoreInv', Tidy, WritePreWrite
    PROVE  Tidy' /\ \A p \in Places : Keeps(p)
<1>1. /\ pc = "prewrite" /\ pc' = "header" /\ request' = request /\ job' = job
      /\ in_recovery_check' = in_recovery_check
  BY DEF WritePreWrite, ram
<1>2. PICK d \in Sectors : d = job.dst /\ Used(d) + 1 < Slots
  BY <1>1 DEF StoreInv, Destination, Copying
<1>3. Used(d) < Slots /\ Slots \in Nat
  BY <1>2, Counts, EnvConstants DEF EnvConstants, StoreInv
<1>4. flash' = [flash EXCEPT ![d].nodes = Append(@, Dead)]
  BY <1>2 DEF WritePreWrite
<1>5. Whole' /\ \A p \in Places : Keeps(p)
  BY <1>3, <1>4, KeepsAppend DEF StoreInv, Tidy
<1>6. Carried'
  BY <1>1, <1>5, CarriedOn DEF Tidy, JobSteps, Copying
<1>7. Down' = Down
  BY <1>1 DEF Down
<1>8. Asked'
  BY <1>1, <1>7 DEF Tidy, Asked
<1> QED
  BY <1>1, <1>5, <1>6, <1>7, <1>8, QuietTidy DEF Active, JobSteps, Copying

LEMMA TidyErase ==
    ASSUME TwoSectors, StoreInv, StoreInv', Tidy, EraseSector \/ FormatSector
    PROVE  Tidy' /\ \A p \in Places : Keeps(p)
<1>1. /\ pc \in {"erase", "format"} /\ pc' \in {"format", "gc"} /\ request' = request
      /\ in_recovery_check' = in_recovery_check
  BY DEF EraseSector, FormatSector, ram
<1>2. PICK s \in Sectors : s = gc.s /\ HeldIn(s) = {}
  <2>1. gc.s \in Sectors
    BY DEF EraseSector, FormatSector, StoreInv, Control, GcWork
  <2>2. CASE EraseSector
    BY <2>1, <2>2 DEF EraseSector, StoreInv, Progress
  <2>3. CASE FormatSector
    <3>1. flash[gc.s] = Erased
      BY <2>3 DEF FormatSector, StoreInv, Phase, Moved, Erasing
    <3> QED
      BY <2>1, <3>1, EmptyHoldsNothing
  <2> QED
    BY <2>1, <2>2, <2>3
<1>3. PICK new \in {Erased, Formatted} : flash' = [flash EXCEPT ![s] = new]
  BY <1>2 DEF EraseSector, FormatSector
<1>4. Whole' /\ \A p \in Places : Keeps(p)
  BY <1>2, <1>3, KeepsSector DEF StoreInv, Tidy
<1>5. Carried'
  BY <1>1 DEF Carried, Job, JobSteps, Copying
<1>6. Down' = Down
  BY <1>1 DEF Down
<1>7. Asked'
  BY <1>1, <1>6 DEF Tidy, Asked
<1> QED
  BY <1>1, <1>4, <1>5, <1>6, <1>7, QuietTidy DEF Active, JobSteps, Copying

LEMMA TidyHeaders ==
    ASSUME TwoSectors, StoreInv, StoreInv', Tidy, CheckHeaders
    PROVE  Tidy' /\ \A p \in Places : Keeps(p)
<1>1. /\ pc = "headers" /\ pc' \in {"headers", "gcscan"} /\ request' = request
      /\ in_recovery_check' = in_recovery_check
  BY DEF CheckHeaders, ram
<1>2. Whole' /\ \A p \in Places : Keeps(p)
  <2> DEFINE bad == {s \in Sectors : ~flash[s].magic}
  <2>1. CASE bad = {}
    BY <2>1, KeepsAll DEF CheckHeaders, Tidy
  <2>2. CASE bad # {}
    <3>1. PICK u \in Sectors : AtRest(u) \/ Moving(u) \/ Moved(u)
      BY SomePhase
    <3>2. bad \subseteq Nat
      BY SectorsOneTwo
    <3>3. PICK s \in Sectors : s = Lowest(bad) /\ ~flash[s].magic
      BY <2>2, <3>2, LowestIsLeast
    <3>4. flash[s] = Erased
      <4>1. s = u \/ s = Other(u)
        BY Others
      <4>2. CASE AtRest(u) \/ Moving(u)
        BY <3>3, <4>1, <4>2 DEF AtRest, Normal, Moving, Collecting, InUse, Target, Formatted
      <4>3. CASE Moved(u)
        BY <3>3, <4>1, <4>3 DEF Moved, Erasing, Target
      <4> QED
        BY <3>1, <4>2, <4>3
    <3>5. HeldIn(s) = {}
      BY <3>4, EmptyHoldsNothing
    <3>6. flash' = [flash EXCEPT ![s] = Formatted]
      BY <2>2, <3>3 DEF CheckHeaders
    <3> QED
      BY <3>5, <3>6, KeepsSector DEF StoreInv, Tidy
  <2> QED
    BY <2>1, <2>2
<1>3. Carried'
  BY <1>1 DEF Carried, Job, JobSteps, Copying
<1>4. Down /\ Down'
  BY <1>1, WhenDown DEF Down
<1>5. Asked'
  BY <1>1, <1>4 DEF Tidy, Asked
<1> QED
  BY <1>1, <1>2, <1>3, <1>4, <1>5, QuietTidy DEF Tidy

LEMMA TidyGcSector ==
    ASSUME TwoSectors, StoreInv, StoreInv', Tidy, GcSector
    PROVE  Tidy' /\ \A p \in Places : Keeps(p)
<1>1. /\ pc = "gc" /\ pc' \in {"gc", "gcnode", gc.then} /\ request' = request
      /\ in_recovery_check' = in_recovery_check
      /\ gc.then \in {"retry", "setend", "gcscan", "envscan"}
  <2>1. pc = "gc" /\ gc.then \in {"retry", "setend", "gcscan", "envscan"}
    BY DEF GcSector, StoreInv, RamType, Control, InGc
  <2> QED
    BY <2>1 DEF GcSector
<1>2. Whole' /\ \A p \in Places : Keeps(p)
  <2>1. CASE flash' = flash
    BY <2>1, KeepsAll DEF Tidy
  <2>2. CASE gc.s <= SECTOR_NUM /\ flash' = [flash EXCEPT ![gc.s].dirty = "GC"]
    <3>1. PICK s \in Sectors : s = gc.s
      BY <1>1, <2>2, EnvConstants DEF StoreInv, Control, InGc, Sectors, EnvConstants
    <3>2. flash' \in [Sectors -> Sector] /\ SameNodes
      BY <2>2, <3>1 DEF StoreInv, FlashType, Sector, SameNodes
    <3>3. \A t \in Sectors : flash'[t].dirty # "GC" => flash[t].dirty # "GC"
      BY <2>2, <3>1 DEF StoreInv, FlashType, Sector
    <3> QED
      BY <3>2, <3>3, KeepsHeaders DEF StoreInv, Tidy
  <2> QED
    BY <2>1, <2>2 DEF GcSector
<1>3. Carried'
  BY <1>1 DEF Carried, Job, JobSteps, Copying
<1>4. Down' = Down
  BY <1>1 DEF Down
<1>5. Asked'
  BY <1>1, <1>4 DEF Tidy, Asked
<1> QED
  BY <1>1, <1>2, <1>3, <1>4, <1>5, QuietTidy DEF Active, JobSteps, Copying

\* The node that is being written is the last one of its sector.
LEMMA LastOne ==
    ASSUME StoreInv, pc \in {"header", "data", "write"}
    PROVE  \E d \in Sectors : \E i \in 1 .. Used(d) :
              /\ d = job.dst /\ i = Used(d) /\ Slot = <<d, i>> /\ flash[d].nodes[i] \in Node
              /\ ~IsHeld(flash[d].nodes[i])
              /\ pc = "header" => ~flash[d].nodes[i].crc
              /\ pc = "data" => /\ ~flash[d].nodes[i].crc /\ flash[d].nodes[i].st = "PRE_WRITE"
                                /\ flash[d].nodes[i].key = job.key
              /\ pc = "write" => /\ flash[d].nodes[i].crc /\ flash[d].nodes[i].st = "PRE_WRITE"
                                 /\ flash[d].nodes[i].key = job.key
<1>1. PICK d \in Sectors : d = job.dst /\ Used(d) > 0
  BY DEF StoreInv, Destination, Copying
<1>2. PICK i \in 1 .. Used(d) : i = Used(d)
  BY <1>1, Counts DEF StoreInv
<1>3. Slot = <<d, i>> /\ flash[d].nodes[i] \in Node
  BY <1>1, <1>2, NodesTyped DEF Slot, Used, StoreInv
<1>4. /\ pc = "header" => ~flash[d].nodes[i].crc
      /\ pc = "data" => /\ ~flash[d].nodes[i].crc /\ flash[d].nodes[i].st = "PRE_WRITE"
                        /\ flash[d].nodes[i].key = job.key
      /\ pc = "write" => /\ flash[d].nodes[i].crc /\ flash[d].nodes[i].st = "PRE_WRITE"
                         /\ flash[d].nodes[i].key = job.key
  BY <1>1, <1>2 DEF StoreInv, Destination
<1> QED
  BY <1>1, <1>2, <1>3, <1>4 DEF IsHeld

LEMMA TidyHeader ==
    ASSUME StoreInv, StoreInv', Tidy, write_env_hdr
    PROVE  /\ Tidy' /\ SameHolders
           /\ \A p \in Places : Unfinished(p)' => Unfinished(p) \/ Underway(p)'
<1>1. /\ pc = "header" /\ pc' = "data" /\ request' = request /\ job' = job
      /\ in_recovery_check' = in_recovery_check
  BY DEF write_env_hdr, ram
<1>2. PICK d \in Sectors : \E i \in 1 .. Used(d) :
         /\ d = job.dst /\ i = Used(d) /\ Slot = <<d, i>> /\ flash[d].nodes[i] \in Node
         /\ ~IsHeld(flash[d].nodes[i])
  BY <1>1, LastOne
<1>3. PICK i \in 1 .. Used(d) :
         /\ d = job.dst /\ i = Used(d) /\ Slot = <<d, i>> /\ flash[d].nodes[i] \in Node
         /\ ~IsHeld(flash[d].nodes[i])
  BY <1>2
<1>4. PICK n : n = [st |-> "PRE_WRITE", key |-> job.key, val |-> job.val, crc |-> FALSE]
  OBVIOUS
<1>5. /\ n \in Node /\ ~n.crc /\ SetNode(<<d, i>>, n)
      /\ n.st = "PRE_WRITE" /\ n.val = job.val
  BY <1>3, <1>4 DEF write_env_hdr, Node, StoreInv, RamType
<1>6. /\ \A p \in Places : p # <<d, i>> => Keeps(p)
      /\ <<d, i>> \in Places /\ Placed(<<d, i>>) /\ Placed(<<d, i>>)' /\ At(<<d, i>>)' = n
      /\ At(<<d, i>>) = flash[d].nodes[i]
      /\ \A t \in Sectors : flash'[t].dirty = flash[t].dirty
      /\ Whole'
  BY <1>5, KeepsOthers DEF StoreInv, Tidy
<1>7. /\ ~Current(<<d, i>>) /\ ~Current(<<d, i>>)' /\ ~Doomed(<<d, i>>) /\ ~Doomed(<<d, i>>)'
  BY <1>3, <1>5, <1>6 DEF Current, Doomed, IsValid, IsHeld
<1>8. Alone' /\ OneOld' /\ OldFirst'
  <2>1. Alone'
    BY <1>6, <1>7 DEF Tidy, Alone, Keeps
  <2>2. OneOld'
    BY <1>6, <1>7 DEF Tidy, OneOld, Keeps
  <2>3. OldFirst'
    BY <1>6, <1>7 DEF Tidy, OldFirst, Keeps
  <2> QED
    BY <2>1, <2>2, <2>3
<1>9. Down' = Down
  BY <1>1 DEF Down
<1>10. InOrder'
  <2> SUFFICES ASSUME Down', NEW p \in Places, NEW q \in Places, Doomed(p)', Unfinished(q)',
                      p[1] = q[1], flash'[p[1]].dirty # "GC"
               PROVE  p[2] < q[2]
    BY DEF InOrder
  <2>1. Doomed(p) /\ p # <<d, i>> /\ flash[p[1]].dirty # "GC"
    BY <1>6, <1>7 DEF Keeps
  <2>2. CASE q # <<d, i>>
    BY <1>6, <1>9, <2>1, <2>2 DEF Tidy, InOrder, Keeps
  <2>3. CASE q = <<d, i>>
    <3>1. p[1] = d /\ q[2] = i /\ p[2] <= Used(d) /\ p = <<p[1], p[2]>> /\ p[2] \in 1 .. Slots
      BY <2>1, <2>3 DEF Doomed, Placed, Places
    <3>2. p[2] # i /\ i \in Nat /\ Slots \in Nat
      BY <2>1, <2>3, <3>1, Counts, EnvConstants DEF EnvConstants, StoreInv
    <3> QED
      BY <1>3, <3>1, <3>2
  <2> QED
    BY <2>2, <2>3
<1>11. Finished'
  BY <1>1, <1>6, <1>7, <1>9 DEF Tidy, Finished, Keeps, Active, JobSteps, Copying
<1>12. Fresh'
  <2>1. Valid' = Valid
    BY <1>3, <1>5, NeutralWrite DEF StoreInv, IsHeld
  <2> QED
    BY <1>1, <1>9, <2>1 DEF Tidy, Fresh, Copying
<1>13. Carried'
  <2>1. PICK q : q = job.src
    OBVIOUS
  <2>2. job.then # "setend" => q \in Places /\ Doomed(q) /\ At(q).val = job.val
    BY <1>1, <2>1 DEF StoreInv, Source, Replaced, Doomed, Placed, Tidy, Carried, JobSteps, Copying
  <2>3. job'.then # "setend" => At(q)'.val = job.val
    BY <1>1, <1>6, <1>7, <2>2 DEF Keeps
  <2>4. job'.then # "setend" => At(job.src)'.val = job'.val
    BY <1>1, <2>1, <2>3 DEF At
  <2>5. flash'[job.dst].nodes[Used(job.dst)'] = n
    <3>1. Used(d)' = Used(d)
      BY <1>5, NodeWritten DEF StoreInv
    <3> QED
      BY <1>1, <1>3, <1>6, <3>1 DEF At
  <2>6. job.val \in Values
    BY <1>1 DEF Tidy, Carried, JobSteps, Copying
  <2>7. Job("setend")' => request'.key = job'.key /\ request'.val = job'.val
    BY <1>1 DEF Tidy, Carried, Job, JobSteps, Copying
  <2> QED
    BY <1>1, <1>5, <2>4, <2>5, <2>6, <2>7 DEF Carried
<1>14. Asked'
  BY <1>1, <1>9 DEF Tidy, Asked
<1>15. SameHolders
  BY <1>6, <1>7 DEF SameHolders, Keeps
<1>16. ASSUME NEW p \in Places, Unfinished(p)' PROVE Unfinished(p) \/ Underway(p)'
  <2>1. CASE p # <<d, i>>
    BY <1>6, <1>16, <2>1 DEF Keeps
  <2>2. CASE p = <<d, i>>
    <3>1. Used(d)' = Used(d)
      BY <1>5, NodeWritten DEF StoreInv
    <3>2. job'.dst = d /\ Used(job.dst)' = i
      BY <1>1, <1>3, <3>1 DEF Used
    <3> QED
      BY <1>1, <2>2, <3>2 DEF Underway
  <2> QED
    BY <2>1, <2>2
<1> QED
  BY <1>6, <1>8, <1>10, <1>11, <1>12, <1>13, <1>14, <1>15, <1>16 DEF Tidy

LEMMA TidyData ==
    ASSUME StoreInv, StoreInv', Tidy, WriteData
    PROVE  Tidy' /\ \A p \in Places : Keeps(p) /\ (Underway(p) => Underway(p)')
<1>1. /\ pc = "data" /\ pc' = "write" /\ request' = request /\ job' = job
      /\ in_recovery_check' = in_recovery_check
  BY DEF WriteData
<1>2. PICK d \in Sectors : \E i \in 1 .. Used(d) :
         /\ d = job.dst /\ i = Used(d) /\ Slot = <<d, i>> /\ flash[d].nodes[i] \in Node
         /\ ~IsHeld(flash[d].nodes[i])
         /\ flash[d].nodes[i].st = "PRE_WRITE" /\ flash[d].nodes[i].key = job.key
  BY <1>1, LastOne
<1>3. PICK i \in 1 .. Used(d) :
         /\ d = job.dst /\ i = Used(d) /\ Slot = <<d, i>> /\ flash[d].nodes[i] \in Node
         /\ ~IsHeld(flash[d].nodes[i])
         /\ flash[d].nodes[i].st = "PRE_WRITE" /\ flash[d].nodes[i].key = job.key
  BY <1>2
<1>4. PICK n : n = [flash[d].nodes[i] EXCEPT !.crc = TRUE]
  OBVIOUS
<1>5. job.key \in Keys /\ job.val \in Values /\ flash[d].nodes[i].val = job.val
  BY <1>1, <1>3 DEF StoreInv, Control, Tidy, Carried, JobSteps, Copying
<1>6. /\ n \in Node /\ n.key \in Keys /\ n.st = "PRE_WRITE" /\ n.val = job.val
      /\ SetNode(<<d, i>>, n)
  BY <1>3, <1>4, <1>5 DEF WriteData, Node, NodeAt
<1>7. /\ \A p \in Places : p # <<d, i>> => Keeps(p)
      /\ <<d, i>> \in Places /\ Placed(<<d, i>>) /\ Placed(<<d, i>>)' /\ At(<<d, i>>)' = n
      /\ At(<<d, i>>) = flash[d].nodes[i]
      /\ \A t \in Sectors : flash'[t].dirty = flash[t].dirty
      /\ Whole'
  BY <1>5, <1>6, KeepsOthers DEF StoreInv, Tidy
<1>8. Keeps(<<d, i>>)
  BY <1>3, <1>6, <1>7 DEF Keeps, Current, Doomed, Unfinished, IsValid, IsHeld
<1>9. \A p \in Places : Keeps(p)
  BY <1>7, <1>8
<1>10. Down' = Down
  BY <1>1 DEF Down
<1>11. Carried'
  <2>1. PICK q : q = job.src
    OBVIOUS
  <2>2. job.then # "setend" => q \in Places /\ Doomed(q) /\ At(q).val = job.val
    BY <1>1, <2>1 DEF StoreInv, Source, Replaced, Doomed, Placed, Tidy, Carried, JobSteps, Copying
  <2>3. job'.then # "setend" => At(q)'.val = job.val
    BY <1>1, <1>9, <2>2 DEF Keeps
  <2>4. job'.then # "setend" => At(job.src)'.val = job'.val
    BY <1>1, <2>1, <2>3 DEF At
  <2>5. flash'[job.dst].nodes[Used(job.dst)'] = n
    <3>1. Used(d)' = Used(d)
      BY <1>6, NodeWritten DEF StoreInv
    <3> QED
      BY <1>1, <1>3, <1>7, <3>1 DEF At
  <2>6. Job("setend")' => request'.key = job'.key /\ request'.val = job'.val
    BY <1>1 DEF Tidy, Carried, Job, JobSteps, Copying
  <2> QED
    BY <1>1, <1>5, <1>6, <2>4, <2>5, <2>6 DEF Carried
<1>12. Asked'
  BY <1>1, <1>10 DEF Tidy, Asked
<1>13. ASSUME NEW p \in Places, Underway(p) PROVE Underway(p)'
  <2>1. Used(d)' = Used(d)
    BY <1>6, NodeWritten DEF StoreInv
  <2>2. job'.dst = d /\ Used(job.dst)' = i
    BY <1>1, <1>3, <2>1 DEF Used
  <2> QED
    BY <1>1, <1>3, <1>13, <2>2 DEF Underway
<1> QED
  BY <1>1, <1>7, <1>9, <1>10, <1>11, <1>12, <1>13, QuietTidy DEF Active, JobSteps, Copying

LEMMA TidyDone ==
    ASSUME StoreInv, StoreInv', Tidy, WriteDone
    PROVE  Tidy' /\ \E q \in Places : Underway(q) /\ Written(q, job.key, job.val)
<1>1. /\ pc = "write" /\ pc' = (IF job.src # None THEN "delete" ELSE "setend")
      /\ request' = request /\ job' = job /\ in_recovery_check' = in_recovery_check
  BY DEF WriteDone
<1>2. PICK d \in Sectors : \E i \in 1 .. Used(d) :
         /\ d = job.dst /\ i = Used(d) /\ Slot = <<d, i>> /\ flash[d].nodes[i] \in Node
         /\ flash[d].nodes[i].crc
         /\ flash[d].nodes[i].st = "PRE_WRITE" /\ flash[d].nodes[i].key = job.key
  BY <1>1, LastOne
<1>3. PICK i \in 1 .. Used(d) :
         /\ d = job.dst /\ i = Used(d) /\ Slot = <<d, i>> /\ flash[d].nodes[i] \in Node
         /\ flash[d].nodes[i].crc
         /\ flash[d].nodes[i].st = "PRE_WRITE" /\ flash[d].nodes[i].key = job.key
  BY <1>2
<1>4. PICK n : n = [flash[d].nodes[i] EXCEPT !.st = "WRITE"]
  OBVIOUS
<1>5. job.key \in Keys /\ job.val \in Values /\ flash[d].nodes[i].val = job.val
  BY <1>1, <1>3 DEF StoreInv, Control, Tidy, Carried, JobSteps, Copying
<1>6. /\ n \in Node /\ n.key = job.key /\ n.st = "WRITE" /\ n.val = job.val /\ n.crc
      /\ SetNode(<<d, i>>, n)
  BY <1>3, <1>4, <1>5 DEF WriteDone, Node, NodeAt
<1>7. /\ \A p \in Places : p # <<d, i>> => Keeps(p)
      /\ <<d, i>> \in Places /\ Placed(<<d, i>>) /\ Placed(<<d, i>>)' /\ At(<<d, i>>)' = n
      /\ At(<<d, i>>) = flash[d].nodes[i]
      /\ \A t \in Sectors : flash'[t].dirty = flash[t].dirty
      /\ Whole'
  BY <1>5, <1>6, KeepsOthers DEF StoreInv, Tidy
<1>8. ~Doomed(<<d, i>>) /\ ~Doomed(<<d, i>>)' /\ ~Unfinished(<<d, i>>)'
  BY <1>3, <1>6, <1>7 DEF Doomed, Unfinished
<1>9. job.key \notin Valid
  <2>1. CASE Down
    BY <1>1, <2>1 DEF Down, StoreInv, Source, Copying
  <2>2. CASE ~Down
    BY <1>1, <2>2 DEF Tidy, Fresh, Copying
  <2> QED
    BY <2>1, <2>2
<1>10. \A p \in Places : Current(p) => At(p).key # job.key
  BY <1>5, <1>9, ValidIs DEF StoreInv
<1>11. \A p \in Places : Current(p)' => p = <<d, i>> \/ At(p)'.key # job.key
  BY <1>7, <1>10 DEF Keeps
<1>12. Alone'
  <2> SUFFICES ASSUME NEW p \in Places, NEW q \in Places, Current(p)', Current(q)',
                      At(p)'.key = At(q)'.key
               PROVE  p = q
    BY DEF Alone
  <2>1. CASE p = <<d, i>> \/ q = <<d, i>>
    BY <1>6, <1>7, <1>11, <2>1
  <2>2. CASE p # <<d, i>> /\ q # <<d, i>>
    BY <1>7, <2>2 DEF Keeps, Tidy, Alone
  <2> QED
    BY <2>1, <2>2
<1>13. OneOld'
  BY <1>7, <1>8 DEF Tidy, OneOld, Keeps
<1>14. OldFirst'
  <2> SUFFICES ASSUME NEW p \in Places, NEW q \in Places, Doomed(p)', Current(q)',
                      At(p)'.key = At(q)'.key, p[1] = q[1]
               PROVE  p[2] < q[2]
    BY DEF OldFirst
  <2>1. Doomed(p) /\ p # <<d, i>> /\ At(p)'.key = At(p).key
    BY <1>7, <1>8 DEF Keeps
  <2>2. CASE q # <<d, i>>
    BY <1>7, <2>1, <2>2 DEF Tidy, OldFirst, Keeps
  <2>3. CASE q = <<d, i>>
    <3>1. p[1] = d /\ q[2] = i /\ p[2] <= Used(d) /\ p = <<p[1], p[2]>> /\ p[2] \in 1 .. Slots
      BY <2>1, <2>3 DEF Doomed, Placed, Places
    <3>2. p[2] # i /\ i \in Nat /\ Slots \in Nat
      BY <2>1, <2>3, <3>1, Counts, EnvConstants DEF EnvConstants, StoreInv
    <3> QED
      BY <1>3, <3>1, <3>2
  <2> QED
    BY <2>2, <2>3
<1>15. Down' = Down
  BY <1>1 DEF Down
<1>16. InOrder'
  <2> SUFFICES ASSUME Down', NEW p \in Places, NEW q \in Places, Doomed(p)', Unfinished(q)',
                      p[1] = q[1], flash'[p[1]].dirty # "GC"
               PROVE  p[2] < q[2]
    BY DEF InOrder
  <2>1. Doomed(p) /\ Unfinished(q) /\ flash[p[1]].dirty # "GC"
    BY <1>7, <1>8 DEF Keeps
  <2> QED
    BY <1>15, <2>1 DEF Tidy, InOrder
<1>17. Finished'
  <2> SUFFICES ASSUME ~Down', NEW p \in Places, Doomed(p)' PROVE Active(p)'
    BY <1>1 DEF Finished
  <2>1. Doomed(p) /\ Active(p)
    BY <1>1, <1>7, <1>8, <1>15 DEF Keeps, Tidy, Finished
  <2>2. job.src # None
    BY <2>1, EnvConstants DEF Active, EnvConstants
  <2> QED
    BY <1>1, <2>1, <2>2 DEF Active, JobSteps
<1>18. Fresh'
  BY <1>1 DEF Fresh, Copying
<1>19. Carried'
  <2>1. PICK q : q = job.src
    OBVIOUS
  <2>2. job.then # "setend" => q \in Places /\ Doomed(q) /\ At(q).val = job.val
    BY <1>1, <2>1 DEF StoreInv, Source, Replaced, Doomed, Placed, Tidy, Carried, JobSteps, Copying
  <2>3. job'.then # "setend" => At(q)'.val = job.val
    BY <1>1, <1>7, <1>8, <2>2 DEF Keeps
  <2>4. job'.then # "setend" => At(job.src)'.val = job'.val
    BY <1>1, <2>1, <2>3 DEF At
  <2>5. Job("setend")' => request'.key = job'.key /\ request'.val = job'.val
    BY <1>1 DEF Tidy, Carried, Job, JobSteps, Copying
  <2> QED
    BY <1>1, <1>5, <2>4, <2>5 DEF Carried
<1>20. Asked'
  BY <1>1, <1>15 DEF Tidy, Asked
<1>21. Underway(<<d, i>>) /\ Written(<<d, i>>, job.key, job.val)
  BY <1>1, <1>3, <1>6, <1>7, <1>8, <1>9 DEF Underway, Written, KeepsBut, Current, IsValid
<1> QED
  BY <1>7, <1>12, <1>13, <1>14, <1>16, <1>17, <1>18, <1>19, <1>20, <1>21 DEF Tidy

LEMMA TidyDeleteOld ==
    ASSUME StoreInv, StoreInv', Tidy, DeleteOld
    PROVE  Tidy' /\ \E q \in Places : Removed(q)
<1>1. /\ pc = "delete" /\ pc' = "dirty" /\ request' = request /\ job' = job
      /\ in_recovery_check' = in_recovery_check /\ Kill(job.src)
  BY DEF DeleteOld
<1>2. job.src # None /\ Replaced(job.src)
  BY <1>1 DEF StoreInv, Source, JobSteps
<1>3. PICK s \in Sectors, i \in 1 .. Slots : job.src = <<s, i>>
  BY <1>2 DEF StoreInv, RamType, Places
<1>4. i \in 1 .. Used(s) /\ Kill(<<s, i>>)
  BY <1>1, <1>2, <1>3, Counts DEF Replaced, StoreInv
<1>5. Dead \in Node /\ ~Dead.crc /\ Dead.st = "DEAD" /\ SetNode(<<s, i>>, Dead)
  BY <1>4 DEF Dead, Node, Kill
<1>6. /\ \A p \in Places : p # <<s, i>> => Keeps(p)
      /\ <<s, i>> \in Places /\ Placed(<<s, i>>)' /\ At(<<s, i>>)' = Dead
      /\ Whole'
  BY <1>4, <1>5, KeepsOthers DEF StoreInv, Tidy
<1>7. ~Current(<<s, i>>)' /\ ~Doomed(<<s, i>>)' /\ ~Unfinished(<<s, i>>)'
  BY <1>5, <1>6 DEF Current, Doomed, Unfinished, IsValid
<1>8. Alone' /\ OneOld' /\ OldFirst'
  <2>1. Alone'
    BY <1>6, <1>7 DEF Tidy, Alone, Keeps
  <2>2. OneOld'
    BY <1>6, <1>7 DEF Tidy, OneOld, Keeps
  <2>3. OldFirst'
    BY <1>6, <1>7 DEF Tidy, OldFirst, Keeps
  <2> QED
    BY <2>1, <2>2, <2>3
<1>9. Down' = Down
  BY <1>1 DEF Down
<1>10. InOrder'
  <2> SUFFICES ASSUME Down', NEW p \in Places, NEW q \in Places, Doomed(p)', Unfinished(q)',
                      p[1] = q[1], flash'[p[1]].dirty # "GC"
               PROVE  p[2] < q[2]
    BY DEF InOrder
  <2>1. Doomed(p) /\ Unfinished(q) /\ flash[p[1]].dirty # "GC"
    BY <1>6, <1>7 DEF Keeps
  <2> QED
    BY <1>9, <2>1 DEF Tidy, InOrder
<1>11. Finished'
  <2> SUFFICES ASSUME ~Down', NEW p \in Places, Doomed(p)' PROVE FALSE
    BY <1>1 DEF Finished
  <2>1. Doomed(p) /\ p # <<s, i>>
    BY <1>6, <1>7 DEF Keeps
  <2> QED
    BY <1>3, <1>9, <2>1 DEF Tidy, Finished, Active
<1>12. Fresh' /\ Carried'
  BY <1>1 DEF Tidy, Fresh, Carried, Job, JobSteps, Copying
<1>13. Asked'
  BY <1>1, <1>9 DEF Tidy, Asked
<1>14. Removed(<<s, i>>)
  <2>1. Replaced(<<s, i>>) /\ job.key \in Valid
    BY <1>1, <1>2, <1>3 DEF StoreInv, Source
  <2> QED
    BY <1>6, <1>7, <2>1 DEF Removed, KeepsBut, Replaced, Doomed, Placed
<1> QED
  BY <1>6, <1>8, <1>10, <1>11, <1>12, <1>13, <1>14 DEF Tidy

\* ENV_PRE_DELETE takes a variable its only valid node.
LEMMA PreDeleted ==
    ASSUME StoreInv, StoreInv', Whole, Alone, NEW s \in Sectors, NEW i \in 1 .. Used(s),
           IsValid(flash[s].nodes[i]),
           SetNode(<<s, i>>, [flash[s].nodes[i] EXCEPT !.st = "PRE_DELETE"])
    PROVE  /\ Whole' /\ Alone' /\ \A p \in Places : p # <<s, i>> => Keeps(p)
           /\ <<s, i>> \in Places /\ Current(<<s, i>>) /\ At(<<s, i>>) = flash[s].nodes[i]
           /\ Doomed(<<s, i>>)' /\ ~Unfinished(<<s, i>>)'
           /\ At(<<s, i>>)'.key = flash[s].nodes[i].key
           /\ At(<<s, i>>)'.val = flash[s].nodes[i].val
           /\ flash[s].nodes[i].key \in Keys /\ flash[s].nodes[i].val \in Values
           /\ \A q \in Places : Current(q)' => At(q)'.key # flash[s].nodes[i].key
           /\ flash[s].nodes[i].key \notin Valid'
           /\ \A t \in Sectors : flash'[t].dirty = flash[t].dirty
<1> DEFINE old == flash[s].nodes[i]
<1>1. PICK n : n = [old EXCEPT !.st = "PRE_DELETE"]
  OBVIOUS
<1>2. old \in Node /\ old.key \in Keys /\ old.crc /\ old.val \in Values
  BY NodesTyped DEF StoreInv, FlashType, IsValid, Whole
<1>3. /\ n \in Node /\ n.key = old.key /\ n.val = old.val /\ n.st = "PRE_DELETE" /\ n.crc
      /\ SetNode(<<s, i>>, n)
  BY <1>1, <1>2 DEF Node
<1>4. /\ \A p \in Places : p # <<s, i>> => Keeps(p)
      /\ <<s, i>> \in Places /\ Placed(<<s, i>>) /\ Placed(<<s, i>>)' /\ At(<<s, i>>)' = n
      /\ At(<<s, i>>) = old
      /\ \A t \in Sectors : flash'[t].dirty = flash[t].dirty
      /\ Whole'
  BY <1>2, <1>3, KeepsOthers DEF StoreInv
<1>5. /\ Current(<<s, i>>) /\ ~Current(<<s, i>>)' /\ Doomed(<<s, i>>)' /\ ~Unfinished(<<s, i>>)'
  BY <1>3, <1>4 DEF Current, Doomed, Unfinished, IsValid
<1>6. ASSUME NEW q \in Places, Current(q)' PROVE At(q)'.key # old.key
  <2>1. q # <<s, i>> /\ Current(q) /\ At(q)'.key = At(q).key
    BY <1>4, <1>5, <1>6 DEF Keeps
  <2> QED
    BY <1>4, <1>5, <2>1 DEF Alone
<1>7. old.key \notin Valid'
  BY <1>2, <1>6, ValidIsThen DEF StoreInv
<1>8. Alone'
  BY <1>4, <1>5 DEF Alone, Keeps
<1> QED
  BY <1>2, <1>3, <1>4, <1>5, <1>6, <1>7, <1>8

LEMMA TidyPreDeleteOld ==
    ASSUME TwoSectors, StoreInv, StoreInv', Tidy, PreDeleteOld
    PROVE  Tidy' /\ ((\A p \in Places : Keeps(p)) \/ \E q \in Places : Outdated(q))
<1>1. /\ pc = "find" /\ request' = request /\ in_recovery_check' = in_recovery_check
      /\ pc' \in {"predirty", "status"}
  BY DEF PreDeleteOld
<1>2. job.key \in Keys /\ job.then = "setend" /\ job.src = None
  BY <1>1 DEF StoreInv, Control
<1>3. ~Down /\ ~Down'
  BY <1>1, WhenDown DEF Down
<1>4. \A p \in Places : ~Doomed(p)
  BY <1>1, <1>3 DEF Tidy, Finished, Active, JobSteps, Copying
<1>5. Asked'
  BY <1>1, <1>3 DEF Tidy, Asked
<1>6. PICK u \in Sectors : AtRest(u)
  BY <1>1 DEF StoreInv, Phase, Resting
<1>7. PICK old : old = find_env(job.key)
  OBVIOUS
<1>8. \/ old = None
      \/ old \in Places /\ old[2] <= Used(old[1]) /\ IsValid(At(old)) /\ At(old).key = job.key
  BY <1>1, <1>2, <1>6, <1>7, FindEnv DEF StoreInv, AtRest, JobSteps, Copying
<1>9. CASE old = None
  <2>1. pc' = "status" /\ flash' = flash /\ job' = job
    BY <1>7, <1>9 DEF PreDeleteOld
  <2>2. Carried'
    BY <1>1, <1>2, <2>1 DEF Tidy, Carried, Job, JobSteps, Copying
  <2>3. job'.key \notin Valid'
    BY <1>2, <2>1 DEF StoreInv, Source, Copying
  <2> QED
    BY <1>1, <1>3, <1>5, <2>1, <2>2, <2>3, KeepsAll, QuietTidy
    DEF Tidy, Active, JobSteps, Copying
<1>10. CASE old # None
  <2>1. PICK s \in Sectors, i \in 1 .. Slots : old = <<s, i>>
    BY <1>8, <1>10 DEF Places
  <2>2. i \in 1 .. Used(s) /\ IsValid(flash[s].nodes[i]) /\ flash[s].nodes[i].key = job.key
    BY <1>8, <1>10, <2>1, NodesTyped DEF At, StoreInv
  <2>3. /\ SetNode(<<s, i>>, [flash[s].nodes[i] EXCEPT !.st = "PRE_DELETE"])
        /\ pc' = "predirty" /\ job' = [job EXCEPT !.src = <<s, i>>]
    BY <1>7, <1>10, <2>1 DEF PreDeleteOld, NodeAt
  <2>4. /\ job'.src = <<s, i>> /\ job'.key = job.key /\ job'.val = job.val
        /\ job'.then = "setend"
    BY <1>2, <2>3 DEF StoreInv, RamType
  <2>5. /\ Whole' /\ Alone' /\ \A p \in Places : p # <<s, i>> => Keeps(p)
        /\ \A q \in Places : Current(q)' => At(q)'.key # job.key
        /\ At(<<s, i>>)'.key = job.key
        /\ job.key \notin Valid'
    BY <2>2, <2>3, PreDeleted DEF Tidy
  <2>6. \A p \in Places : Doomed(p)' => p = <<s, i>>
    BY <1>4, <2>5 DEF Keeps
  <2>7. OneOld'
    BY <2>6 DEF OneOld
  <2>8. OldFirst'
    BY <2>5, <2>6 DEF OldFirst
  <2>9. InOrder'
    BY <1>3 DEF InOrder
  <2>10. Finished'
    BY <2>3, <2>4, <2>6 DEF Finished, Active, JobSteps
  <2>11. Fresh'
    BY <2>4, <2>5 DEF Fresh
  <2>12. Carried'
    BY <1>1, <2>3, <2>4 DEF Tidy, Carried, Job
  <2>13. Outdated(<<s, i>>) /\ <<s, i>> \in Places
    BY <2>2, <2>3, PreDeleted DEF Tidy, Outdated, KeepsBut
  <2> QED
    BY <1>5, <2>5, <2>7, <2>8, <2>9, <2>10, <2>11, <2>12, <2>13 DEF Tidy
<1> QED
  BY <1>9, <1>10

\* do_gc takes the nodes in the order of their addresses.
LEMMA NextToMove ==
    ASSUME StoreInv, GcNode
    PROVE  /\ gc.s \in Sectors
           /\ \/ pc' = "erase" /\ flash' = flash
              \/ \E i \in HeldIn(gc.s) :
                    /\ \A j \in HeldIn(gc.s) : i <= j
                    /\ job' = MoveJob(<<gc.s, i>>, "gcnode")
                    /\ IF flash[gc.s].nodes[i].st = "WRITE"
                       THEN /\ SetNode(<<gc.s, i>>, [flash[gc.s].nodes[i] EXCEPT !.st = "PRE_DELETE"])
                            /\ pc' = "predirty"
                       ELSE pc' = "move" /\ flash' = flash
<1> USE DEF StoreInv
<1>1. pc = "gcnode"
  BY DEF GcNode
<1>2. PICK s \in Sectors : s = gc.s
  BY <1>1 DEF Control, GcWork
<1>3. gc.i \in Nat /\ gc.i > 0
  BY <1>1 DEF RamType, Control, InGc, GcWork
<1>4. Used(s) \in Nat /\ \A j \in HeldIn(s) : j \in 1 .. Used(s) /\ j >= gc.i
  BY <1>1, <1>2, Counts DEF Progress, HeldIn
<1>5. Movable(s, gc.i) = HeldIn(s)
  <2>1. Movable(s, gc.i) \subseteq HeldIn(s)
    BY <1>3, <1>4 DEF Movable, HeldIn, Used, IsHeld
  <2>2. HeldIn(s) \subseteq Movable(s, gc.i)
    BY <1>3, <1>4 DEF Movable, HeldIn, Used, IsHeld
  <2> QED
    BY <2>1, <2>2
<1>6. CASE HeldIn(s) = {}
  <2>1. pc' = "erase" /\ flash' = flash
    BY <1>2, <1>5, <1>6 DEF GcNode
  <2> QED
    BY <1>2, <2>1
<1>7. CASE HeldIn(s) # {}
  <2>1. PICK i \in HeldIn(s) : i = Lowest(HeldIn(s)) /\ \A j \in HeldIn(s) : i <= j
    <3>1. HeldIn(s) \subseteq Nat
      BY <1>4
    <3> QED
      BY <1>7, <3>1, LowestIsLeast
  <2>2. /\ job' = MoveJob(<<s, i>>, "gcnode")
        /\ IF flash[s].nodes[i].st = "WRITE"
           THEN /\ SetNode(<<s, i>>, [flash[s].nodes[i] EXCEPT !.st = "PRE_DELETE"])
                /\ pc' = "predirty"
           ELSE pc' = "move" /\ flash' = flash
    BY <1>2, <1>5, <1>7, <2>1 DEF GcNode, NodeAt
  <2> QED
    BY <1>2, <2>1, <2>2
<1> QED
  BY <1>6, <1>7

LEMMA TidyGcNode ==
    ASSUME TwoSectors, StoreInv, StoreInv', Tidy, GcNode
    PROVE  Tidy' /\ ((\A p \in Places : Keeps(p)) \/ \E q \in Places : Outdated(q))
<1>1. /\ pc = "gcnode" /\ request' = request /\ in_recovery_check' = in_recovery_check
      /\ pc' \in {"erase", "predirty", "move"}
  BY DEF GcNode
<1>2. Down' = Down /\ Asked'
  BY <1>1 DEF Down, Tidy, Asked
<1>3. ~Down => \A p \in Places : ~Doomed(p)
  BY <1>1 DEF Tidy, Finished, Active, JobSteps, Copying
<1>4. PICK s \in Sectors : s = gc.s
  BY NextToMove
<1>5. CASE pc' = "erase" /\ flash' = flash
  <2>1. Carried'
    BY <1>5 DEF Carried, Job, JobSteps, Copying
  <2> QED
    BY <1>1, <1>2, <1>5, <2>1, KeepsAll, QuietTidy DEF Tidy, Active, JobSteps, Copying
<1>6. CASE ~(pc' = "erase" /\ flash' = flash)
  <2>1. PICK i \in HeldIn(s) :
           /\ \A j \in HeldIn(s) : i <= j
           /\ job' = MoveJob(<<s, i>>, "gcnode")
           /\ IF flash[s].nodes[i].st = "WRITE"
              THEN /\ SetNode(<<s, i>>, [flash[s].nodes[i] EXCEPT !.st = "PRE_DELETE"])
                   /\ pc' = "predirty"
              ELSE pc' = "move" /\ flash' = flash
    BY <1>4, <1>6, NextToMove
  <2>2. i \in 1 .. Used(s) /\ IsHeld(flash[s].nodes[i])
    BY DEF HeldIn
  <2>3. flash[s].nodes[i].val \in Values /\ flash[s].nodes[i].key \in Keys
    BY <2>2 DEF Tidy, Whole, IsHeld, StoreInv, FlashType
  <2>4. <<s, i>> \in Places /\ Placed(<<s, i>>) /\ At(<<s, i>>) = flash[s].nodes[i]
    BY <2>2, PlaceFor DEF StoreInv
  <2>5. /\ job'.key = flash[s].nodes[i].key /\ job'.val = flash[s].nodes[i].val
        /\ job'.src = <<s, i>> /\ job'.then = "gcnode"
    BY <2>1 DEF MoveJob, NoJob, NodeAt
  <2>6. CASE flash[s].nodes[i].st = "WRITE"
    <3>1. IsValid(flash[s].nodes[i]) /\ pc' = "predirty"
          /\ SetNode(<<s, i>>, [flash[s].nodes[i] EXCEPT !.st = "PRE_DELETE"])
      BY <2>1, <2>2, <2>6 DEF IsValid, IsHeld
    <3>2. /\ Whole' /\ Alone' /\ \A p \in Places : p # <<s, i>> => Keeps(p)
          /\ Current(<<s, i>>) /\ ~Unfinished(<<s, i>>)'
          /\ At(<<s, i>>)'.key = job'.key /\ At(<<s, i>>)'.val = job'.val
          /\ \A q \in Places : Current(q)' => At(q)'.key # job'.key
          /\ job'.key \notin Valid'
          /\ \A t \in Sectors : flash'[t].dirty = flash[t].dirty
      BY <2>2, <2>5, <3>1, PreDeleted DEF Tidy
    <3>3. Collecting(s)
      BY <1>1, <1>4 DEF StoreInv, Phase, GcWork, Moving
    <3>4. ASSUME NEW p \in Places, Doomed(p), At(p).key = job'.key PROVE FALSE
      <4>1. p[1] \in Sectors /\ p[2] \in 1 .. Used(p[1]) /\ At(p) = flash[p[1]].nodes[p[2]]
        BY <3>4, PlaceOf DEF Doomed, StoreInv
      <4>2. p[1] = s
        <5>1. CASE p[1] = Other(s)
          <6>1. flash[p[1]] = Formatted \/ Target(p[1])
            BY <3>3, <5>1 DEF Collecting
          <6>2. flash[p[1]] # Formatted
            BY <4>1, EmptyHoldsNothing
          <6> QED
            BY <3>4, <4>1, <6>1, <6>2 DEF Target, Doomed
        <5> QED
          BY <4>1, <5>1, Others
      <4>3. p[2] \in HeldIn(s)
        BY <3>4, <4>1, <4>2 DEF HeldIn, IsHeld, Doomed
      <4>4. i <= p[2] /\ i \in Nat /\ p[2] \in Nat
        BY <2>1, <2>2, <4>1, <4>2, <4>3, Counts DEF StoreInv
      <4>5. p[2] < i
        BY <2>4, <2>5, <3>2, <3>4, <4>2 DEF Tidy, OldFirst
      <4> QED
        BY <4>4, <4>5
    <3>5. OneOld'
      <4> SUFFICES ASSUME NEW p \in Places, NEW q \in Places, Doomed(p)', Doomed(q)',
                          At(p)'.key = At(q)'.key
                   PROVE  p = q
        BY DEF OneOld
      <4>1. CASE p # <<s, i>> /\ q # <<s, i>>
        BY <3>2, <4>1 DEF Keeps, Tidy, OneOld
      <4>2. CASE p = <<s, i>> /\ q # <<s, i>>
        BY <3>2, <3>4, <4>2 DEF Keeps
      <4>3. CASE p # <<s, i>> /\ q = <<s, i>>
        BY <3>2, <3>4, <4>3 DEF Keeps
      <4> QED
        BY <4>1, <4>2, <4>3
    <3>6. OldFirst'
      <4> SUFFICES ASSUME NEW p \in Places, NEW q \in Places, Doomed(p)', Current(q)',
                          At(p)'.key = At(q)'.key, p[1] = q[1]
                   PROVE  p[2] < q[2]
        BY DEF OldFirst
      <4>1. q # <<s, i>> /\ p # <<s, i>>
        BY <3>2
      <4> QED
        BY <3>2, <4>1 DEF Keeps, Tidy, OldFirst
    <3>7. InOrder'
      <4> SUFFICES ASSUME Down', NEW p \in Places, NEW q \in Places, Doomed(p)', Unfinished(q)',
                          p[1] = q[1], flash'[p[1]].dirty # "GC"
                   PROVE  p[2] < q[2]
        BY DEF InOrder
      <4>1. p[1] # s
        BY <3>2, <3>3 DEF Collecting
      <4>2. p # <<s, i>> /\ q # <<s, i>>
        BY <4>1
      <4> QED
        BY <1>2, <3>2, <4>2 DEF Keeps, Tidy, InOrder
    <3>8. Finished'
      BY <1>2, <1>3, <2>5, <3>1, <3>2 DEF Finished, Active, JobSteps, Keeps
    <3>9. Fresh'
      BY <3>2 DEF Fresh
    <3>10. Carried'
      <4>1. At(job.src)'.val = job'.val
        BY <2>5, <3>2 DEF At
      <4> QED
        BY <2>3, <2>5, <3>1, <4>1 DEF Carried, Job
    <3>11. Outdated(<<s, i>>)
      BY <2>2, <3>1, PreDeleted DEF Tidy, Outdated, KeepsBut
    <3> QED
      BY <1>2, <2>4, <3>2, <3>5, <3>6, <3>7, <3>8, <3>9, <3>10, <3>11 DEF Tidy
  <2>7. CASE flash[s].nodes[i].st # "WRITE"
    <3>1. pc' = "move" /\ flash' = flash
      BY <2>1, <2>7
    <3>2. Doomed(<<s, i>>)
      BY <2>2, <2>4, <2>7 DEF Doomed, IsHeld
    <3>3. Down
      BY <1>3, <2>4, <3>2
    <3>4. Carried'
      <4>1. At(job.src)'.val = job'.val
        BY <2>5, <3>1 DEF At
      <4> QED
        BY <2>3, <2>5, <3>1, <4>1 DEF Carried, Job
    <3> QED
      BY <1>2, <3>1, <3>3, <3>4, KeepsAll, QuietTidy DEF Tidy
  <2> QED
    BY <2>6, <2>7
<1> QED
  BY <1>5, <1>6

LEMMA TidyMoveAlloc ==
    ASSUME TwoSectors, StoreInv, StoreInv', Tidy, MoveAlloc
    PROVE  Tidy' /\ \A p \in Places : Keeps(p)
<1>1. /\ pc = "move" /\ flash' = flash /\ request' = request
      /\ in_recovery_check' = in_recovery_check
      /\ job.then \in {"envscan", "gcnode"} /\ job.src # None
  <2>1. pc = "move"
    BY DEF MoveAlloc
  <2> QED
    BY <2>1 DEF MoveAlloc, StoreInv, Control, Source, JobSteps
<1>2. Down' = Down /\ Asked'
  <2>1. pc' \notin {"off", "idle"}
    BY <1>1 DEF MoveAlloc
  <2> QED
    BY <1>1, <2>1 DEF Down, Tidy, Asked
<1>3. \A p \in Places : Keeps(p)
  BY <1>1, KeepsAll
<1>4. CASE alloc_env # None
  <2>1. /\ pc' \in {"delete", "status"}
        /\ job'.key = job.key /\ job'.val = job.val /\ job'.src = job.src /\ job'.then = job.then
    BY <1>4 DEF MoveAlloc, StoreInv, RamType
  <2>2. Carried'
    BY <1>1, <1>3, <2>1, CarriedOn DEF Tidy, JobSteps, Copying
  <2> QED
    BY <1>1, <1>2, <1>3, <2>1, <2>2, KeepsAll, QuietTidy DEF Tidy, Active, JobSteps, Copying
<1>5. CASE alloc_env = None
  <2>1. job.then = "envscan"
    <3> SUFFICES ASSUME job.then = "gcnode" PROVE FALSE
      BY <1>1
    <3>1. Job("gcnode") /\ GcWork /\ Begun = 0
      BY <1>1 DEF Job, JobSteps, GcWork, Begun
    <3>2. gc.s \in Sectors /\ Moving(gc.s) /\ gc_request
      BY <3>1 DEF StoreInv, Control, Phase, InGc
    <3>3. HeldIn(gc.s) # {}
      BY <1>1, <3>1, SourceIsHeld
    <3>4. Used(Other(gc.s)) + 1 < Slots
      BY <3>1, <3>2, <3>3, MoveHasRoom DEF StoreInv
    <3> QED
      BY <1>5, <3>2, <3>4, AllocMoving DEF StoreInv, Moving
  <2>2. Down
    BY <1>1, <2>1, WhenDown DEF Job, JobSteps
  <2>3. PICK u \in Sectors : AtRest(u)
    BY <1>1, <2>1 DEF StoreInv, Phase, Resting, Job, JobSteps
  <2>4. pc' = "scanned" /\ gc_request'
    BY <1>5, <2>1, <2>3, EmptyAtRest DEF MoveAlloc, RequestAfterAlloc, AtRest
  <2>5. Carried'
    BY <2>4 DEF Carried, Job, JobSteps, Copying
  <2> QED
    BY <1>1, <1>2, <1>3, <2>2, <2>4, <2>5, KeepsAll, QuietTidy DEF Tidy
<1> QED
  BY <1>4, <1>5

\* At rest the boot sees every node that is not settled.
LEMMA SeenAtRest ==
    ASSUME TwoSectors, StoreInv, NEW u \in Sectors, AtRest(u), NEW p \in Places,
           Doomed(p) \/ Unfinished(p)
    PROVE  p \in Unsettled /\ p[1] = u
<1>1. p[1] \in Sectors /\ p[2] \in 1 .. Used(p[1]) /\ At(p) = flash[p[1]].nodes[p[2]]
  BY PlaceOf DEF Doomed, Unfinished, StoreInv
<1>2. p[1] = u
  <2>1. p[1] = Other(u) => Used(p[1]) = 0
    BY EmptyHoldsNothing, Others DEF AtRest, Normal
  <2> QED
    BY <1>1, <2>1, Others
<1>3. Readable(u)
  BY DEF AtRest, Normal, InUse, Readable
<1>4. p \in Iterated
  BY <1>2, <1>3 DEF Iterated, Doomed, Unfinished, Placed, Used
<1> QED
  BY <1>2, <1>4 DEF Unsettled, NodeAt, At, Doomed, Unfinished

LEMMA TidyRecoverEnv ==
    ASSUME TwoSectors, StoreInv, StoreInv', Tidy, RecoverEnv
    PROVE  Tidy' /\ \A p \in Places : Keeps(p)
<1>1. /\ pc = "envscan" /\ request' = request /\ in_recovery_check' = in_recovery_check
      /\ pc' \in {"move", "scanned"}
  BY DEF RecoverEnv
<1>2. Down /\ Down' /\ Asked'
  <2>1. Down
    BY <1>1, WhenDown
  <2> QED
    BY <1>1, <2>1 DEF Down, Tidy, Asked
<1>3. PICK u \in Sectors : AtRest(u)
  BY <1>1 DEF StoreInv, Phase, Resting
<1>4. PICK f : f = FirstOf(Unsettled)
  OBVIOUS
<1>5. Unsettled \subseteq Places
  BY DEF Unsettled, Iterated
<1>6. CASE Unsettled = {}
  <2>1. pc' = "scanned" /\ flash' = flash
    BY <1>6 DEF RecoverEnv
  <2>2. \A p \in Places : ~Doomed(p)
    BY <1>3, <1>6, SeenAtRest
  <2>3. Whole' /\ \A p \in Places : Keeps(p)
    BY <2>1, KeepsAll DEF Tidy
  <2>4. Alone' /\ OneOld' /\ OldFirst' /\ InOrder'
    BY <1>2, <2>3, NodesKept DEF Tidy, StoreInv
  <2>5. Finished'
    BY <2>2, <2>3 DEF Finished, Keeps
  <2>6. Fresh' /\ Carried'
    BY <2>1 DEF Fresh, Carried, Job, JobSteps, Copying
  <2> QED
    BY <1>2, <2>3, <2>4, <2>5, <2>6 DEF Tidy
<1>7. CASE Unsettled # {}
  <2>1. f \in Unsettled /\ f \in Places
    BY <1>4, <1>5, <1>7, FirstIsIn
  <2>2. PICK s \in Sectors, i \in 1 .. Slots : f = <<s, i>>
    BY <2>1 DEF Places
  <2>3. i \in 1 .. Used(s)
    <3>1. i <= Used(s)
      BY <2>1, <2>2 DEF Unsettled, Iterated, Used
    <3> QED
      BY <3>1, NodesTyped DEF StoreInv
  <2>4. At(f) = flash[s].nodes[i] /\ NodeAt(f) = flash[s].nodes[i] /\ Placed(f)
    BY <2>2, <2>3, PlaceFor DEF NodeAt, StoreInv
  <2>5. CASE NodeAt(f).st = "PRE_DELETE"
    <3>1. job' = MoveJob(f, "envscan") /\ pc' = "move" /\ flash' = flash
      BY <1>4, <1>7, <2>5 DEF RecoverEnv
    <3>2. NodeAt(f).crc
      BY <2>1, <2>5 DEF Unsettled
    <3>3. flash[s].nodes[i].val \in Values
      BY <2>3, <2>4, <3>2 DEF Tidy, Whole
    <3>4. job'.val = flash[s].nodes[i].val /\ job'.src = f /\ job'.then = "envscan"
      BY <2>4, <3>1 DEF MoveJob, NoJob
    <3>5. Carried'
      <4>1. At(job.src)'.val = job'.val
        BY <2>2, <3>1, <3>4 DEF At
      <4> QED
        BY <3>1, <3>3, <3>4, <4>1 DEF Carried, Job
    <3> QED
      BY <1>2, <3>1, <3>5, KeepsAll, QuietTidy DEF Tidy
  <2>6. CASE NodeAt(f).st = "PRE_WRITE"
    <3>1. Kill(f) /\ pc' = "scanned"
      BY <1>4, <1>7, <2>6 DEF RecoverEnv
    <3>2. Dead \in Node /\ ~Dead.crc /\ Dead.st = "DEAD" /\ SetNode(<<s, i>>, Dead)
      BY <2>2, <3>1 DEF Dead, Node, Kill
    <3>3. /\ \A p \in Places : p # <<s, i>> => Keeps(p)
          /\ Placed(<<s, i>>)' /\ At(<<s, i>>)' = Dead
          /\ \A t \in Sectors : flash'[t].dirty = flash[t].dirty
          /\ Whole'
      BY <2>3, <3>2, KeepsOthers DEF StoreInv, Tidy
    <3>4. Keeps(<<s, i>>)
      BY <2>2, <2>4, <2>6, <3>2, <3>3 DEF Keeps, Current, Doomed, Unfinished, IsValid
    <3>5. \A p \in Places : Keeps(p)
      BY <3>3, <3>4
    <3>6. ASSUME NEW p \in Places, Doomed(p) PROVE FALSE
      <4>1. p \in Unsettled /\ p[1] = u /\ f[1] = u /\ Unfinished(f)
        BY <1>3, <2>1, <2>4, <2>6, <3>6, SeenAtRest DEF Unfinished, At, NodeAt
      <4>2. f = p \/ Before(f, p)
        BY <1>4, <1>5, <1>7, <4>1, FirstIsFirst
      <4>3. f # p
        BY <2>6, <3>6 DEF Doomed, NodeAt, At
      <4>4. f[2] < p[2]
        BY <4>1, <4>2, <4>3, SectorsOneTwo DEF Before
      <4>5. flash[u].dirty # "GC"
        BY <1>3 DEF AtRest, Normal
      <4>6. p[2] < f[2]
        BY <1>2, <2>1, <3>6, <4>1, <4>5 DEF Tidy, InOrder
      <4>7. p[2] \in Int /\ f[2] \in Int
        BY <2>1 DEF Places
      <4> QED
        BY <4>4, <4>6, <4>7
    <3>7. Alone' /\ OneOld' /\ OldFirst' /\ InOrder'
      BY <1>2, <3>5, NodesKept DEF Tidy, StoreInv
    <3>8. Finished'
      BY <3>5, <3>6 DEF Finished, Keeps
    <3>9. Fresh' /\ Carried'
      BY <3>1 DEF Fresh, Carried, Job, JobSteps, Copying
    <3> QED
      BY <1>2, <3>3, <3>5, <3>7, <3>8, <3>9 DEF Tidy
  <2> QED
    BY <2>1, <2>5, <2>6 DEF Unsettled
<1> QED
  BY <1>6, <1>7

LEMMA TidyStutter ==
    ASSUME StoreInv, StoreInv', Tidy, UNCHANGED vars
    PROVE  Tidy' /\ \A p \in Places : Keeps(p)
<1>1. /\ flash' = flash /\ pc' = pc /\ request' = request /\ job' = job
      /\ gc_request' = gc_request /\ in_recovery_check' = in_recovery_check
  BY DEF vars, ram
<1>2. Down' = Down
  BY <1>1 DEF Down
<1>3. Asked'
  BY <1>1, <1>2 DEF Tidy, Asked
<1>4. Carried'
  BY <1>1 DEF Tidy, Carried, Job, At, Used
<1> QED
  BY <1>1, <1>2, <1>3, <1>4, KeepsAll, QuietTidy DEF Tidy, Active

LEMMA StartsTidy ==
    ASSUME TwoSectors, Init
    PROVE  Tidy
<1>1. PICK n \in 1 .. Cardinality(Keys) :
         flash = [s \in Sectors |-> IF s = 1
                  THEN [Formatted EXCEPT !.store = "USING", !.nodes = DefaultNodes(n)]
                  ELSE Formatted]
  BY DEF Init
<1>2. /\ pc = "idle" /\ request = None /\ in_recovery_check = FALSE
  BY DEF Init
<1>3. PICK nodes : nodes = DefaultNodes(n)
  OBVIOUS
<1>4. /\ nodes \in Seq(Node) /\ Len(nodes) = n
      /\ \A i \in 1 .. n : IsValid(nodes[i]) /\ nodes[i].key \in Keys
      /\ \A i, j \in 1 .. n : nodes[i].key = nodes[j].key => i = j
  BY <1>3, Defaults
<1>5. \A i \in 1 .. n : nodes[i].val \in Values
  <2>1. (CHOOSE v \in Values : TRUE) \in Values
    BY EnvConstants DEF EnvConstants
  <2> QED
    BY <1>3, <2>1 DEF DefaultNodes
<1>6. flash[1].nodes = nodes /\ flash[2].nodes = << >>
  BY <1>1, <1>3, SectorsOneTwo DEF Formatted
<1>7. n \in Nat /\ Used(1) = n /\ Used(2) = 0
  BY <1>4, <1>6, EnvConstants, FS_CardinalityType DEF EnvConstants, Used
<1>8. Whole
  <2> SUFFICES ASSUME NEW s \in Sectors, NEW i \in 1 .. Used(s)
               PROVE  flash[s].nodes[i].crc /\ flash[s].nodes[i].val \in Values
    BY DEF Whole
  <2>1. s = 1 /\ i \in 1 .. n
    BY <1>7, SectorsOneTwo
  <2> QED
    BY <1>4, <1>5, <1>6, <2>1 DEF IsValid
<1>9. ASSUME NEW p \in Places, Placed(p)
      PROVE  p = <<1, p[2]>> /\ p[2] \in 1 .. n /\ At(p) = nodes[p[2]] /\ Current(p)
  <2>1. p = <<p[1], p[2]>> /\ p[1] \in {1, 2} /\ p[2] \in 1 .. Slots
    BY SectorsOneTwo DEF Places
  <2>2. Slots \in Nat
    BY EnvConstants DEF EnvConstants
  <2>3. p[1] = 1 /\ p[2] \in 1 .. n
    BY <1>7, <1>9, <2>1, <2>2 DEF Placed
  <2>4. At(p) = nodes[p[2]]
    BY <1>6, <2>3 DEF At
  <2> QED
    BY <1>4, <1>9, <2>1, <2>3, <2>4 DEF Current
<1>10. Alone
  BY <1>4, <1>9 DEF Alone, Current
<1>11. \A p \in Places : ~Doomed(p)
  BY <1>9 DEF Doomed, Current, IsValid
<1>12. ~Down
  BY <1>2 DEF Down
<1>13. OneOld /\ OldFirst /\ InOrder /\ Finished
  BY <1>11 DEF OneOld, OldFirst, InOrder, Finished
<1>14. Fresh /\ Carried /\ Asked
  BY <1>2, <1>12 DEF Fresh, Carried, Asked, Job, JobSteps, Copying
<1> QED
  BY <1>8, <1>10, <1>13, <1>14 DEF Tidy

\* A loss of power in a call finds no node that an earlier one left unfinished.
Orderly == losses' # losses =>
              in_recovery_check \/ \A p \in Places : Unfinished(p) => Underway(p)

LEMMA TidyStep ==
    ASSUME TwoSectors, StoreInv, Tidy, [Next]_vars, [Orderly]_vars
    PROVE  Tidy'
<1>0. StoreInv'
  BY StepInv
<1>1. ASSUME NEW k \in Keys, NEW v \in Values, Call(k, v) PROVE Tidy'
  BY <1>0, <1>1, TidyCall
<1>2. ASSUME NEW k \in Keys, ef_get_env(k) PROVE Tidy'
  BY <1>0, <1>2, TidyGet
<1>3. ASSUME new_env \/ SetEnd PROVE Tidy'
  BY <1>0, <1>3, TidyNew, TidySetEnd
<1>4. ASSUME WriteNode PROVE Tidy'
  BY <1>0, <1>4, TidyStatus, TidyPreWrite, TidyHeader, TidyData, TidyDone DEF WriteNode
<1>5. ASSUME Delete PROVE Tidy'
  BY <1>0, <1>5, TidyPreDeleteOld, TidyPreDeleteDirty, TidyDeleteOld, TidyDeleteDirty DEF Delete
<1>6. ASSUME gc_collect PROVE Tidy'
  BY <1>0, <1>6, TidyGcSector, TidyGcNode, TidyMoveAlloc, TidyErase DEF gc_collect
<1>7. ASSUME ef_load_env PROVE Tidy'
  BY <1>0, <1>7, TidyBoot, TidyHeaders, TidyRecoverEnv, TidyLoadEnd DEF ef_load_env
<1>8. ASSUME UNCHANGED vars PROVE Tidy'
  BY <1>0, <1>8, TidyStutter
<1>9. ASSUME PowerLoss PROVE Tidy'
  <2>1. losses' # losses
    BY <1>9 DEF PowerLoss, StoreInv, RamType
  <2>2. Orderly
    BY <2>1 DEF vars
  <2>3. in_recovery_check \/ \A p \in Places : Unfinished(p) => Underway(p)
    BY <2>1, <2>2 DEF Orderly
  <2> QED
    BY <1>0, <1>9, <2>3, TidyPowerLoss
<1> QED
  BY <1>1, <1>2, <1>3, <1>4, <1>5, <1>6, <1>7, <1>8, <1>9, Zenon DEF Next, Step

LEMMA TidyIsFindable ==
    ASSUME TwoSectors, StoreInv, Tidy
    PROVE  Findable
<1> SUFFICES ASSUME pc = "idle", NEW k \in Keys
             PROVE  /\ Stored(k) # None => find_env(k) # None
                    /\ find_env(k) = find_env_no_cache(k)
                    /\ \A p \in Iterated : NodeAt(p).key = k =>
                          NodeAt(p).st # "WRITE" \/ p = find_env(k)
  BY DEF Findable
<1>1. PICK u \in Sectors : AtRest(u)
  BY DEF StoreInv, Phase, Resting
<1>2. \/ find_env(k) = None /\ k \notin Valid
      \/ /\ find_env(k) \in Places /\ Current(find_env(k)) /\ At(find_env(k)).key = k
         /\ k \in Valid
  BY <1>1, FindEnv DEF StoreInv, AtRest, JobSteps, Copying, Current, Placed
<1>3. \/ find_env_no_cache(k) = None /\ k \notin Valid
      \/ /\ find_env_no_cache(k) \in Places /\ Current(find_env_no_cache(k))
         /\ At(find_env_no_cache(k)).key = k /\ k \in Valid
  BY <1>1, FindNoCache DEF StoreInv, AtRest, Current, Placed
<1>4. find_env(k) = find_env_no_cache(k)
  BY <1>2, <1>3 DEF Tidy, Alone
<1>5. ASSUME NEW p \in Iterated, NodeAt(p).key = k, NodeAt(p).st = "WRITE" PROVE p = find_env(k)
  <2>1. p \in Places /\ Placed(p)
    BY DEF Iterated, Placed, Used
  <2>2. p[1] \in Sectors /\ p[2] \in 1 .. Used(p[1]) /\ At(p) = flash[p[1]].nodes[p[2]]
    BY <2>1, PlaceOf DEF StoreInv
  <2>3. Current(p) /\ At(p).key = k
    BY <1>5, <2>1, <2>2 DEF Tidy, Whole, Current, IsValid, NodeAt
  <2>4. k \in Valid
    BY <2>1, <2>3, ValidIs DEF StoreInv
  <2> QED
    BY <1>2, <2>1, <2>3, <2>4 DEF Tidy, Alone
<1>6. ASSUME find_env(k) = None PROVE Stored(k) = None
  <2>1. ~Down
    BY WhenDown
  <2>2. \A p \in Places : ~Doomed(p)
    BY <2>1 DEF Tidy, Finished, Active, JobSteps, Copying
  <2>3. {p \in Iterated : NodeAt(p).key = k /\ NodeAt(p).crc /\ NodeAt(p).st = "PRE_DELETE"} = {}
    BY <2>2 DEF Iterated, Doomed, Placed, Used, At, NodeAt
  <2> QED
    BY <1>4, <1>6, <2>3 DEF Stored, FirstOf
<1> QED
  BY <1>4, <1>5, <1>6

\* The inductive invariant of the nodes: one valid node per variable, at most
\* one that is replaced, both where the scans of the boot find them, as long as
\* no loss of power in a call adds a second unfinished node to a first one.
THEOREM Tidies ==
    ASSUME TwoSectors PROVE Spec /\ [][Orderly]_vars => []Tidy
<1>1. Init => Tidy
  BY StartsTidy
<1>2. StoreInv /\ Tidy /\ [Next]_vars /\ [Orderly]_vars => Tidy'
  BY TidyStep
<1> QED
  BY <1>1, <1>2, StoreInvariant, PTL DEF Spec
----------------------------------------------------------------------------
(* Nothing is left unfinished.                                             *)

\* A node whose writing was interrupted is marked by the boot that finds it,
\* and the scan that ends there has missed no other one.
Settled ==
    /\ ~Down \/ (pc = "scanned" /\ ~gc_request) =>
          \A p \in Places : Unfinished(p) => Underway(p)
    /\ \A p, q \in Places :
          Unfinished(p) /\ Unfinished(q) /\ ~Underway(p) /\ ~Underway(q) => p = q

LEMMA QuietSettled ==
    ASSUME Settled, \A p \in Places : Unfinished(p)' => Unfinished(p),
           ~Down' \/ (pc' = "scanned" /\ ~gc_request') =>
              ~Down \/ (pc = "scanned" /\ ~gc_request),
           \A p \in Places : Underway(p) /\ Unfinished(p)' => Underway(p)'
    PROVE  Settled'
<1>1. ~Down' \/ (pc' = "scanned" /\ ~gc_request') =>
          \A p \in Places : Unfinished(p)' => Underway(p)'
  BY DEF Settled
<1>2. ASSUME NEW p \in Places, NEW q \in Places, Unfinished(p)', Unfinished(q)',
             ~Underway(p)', ~Underway(q)'
      PROVE  p = q
  BY <1>2 DEF Settled
<1> QED
  BY <1>1, <1>2 DEF Settled

\* The steps that do not end in a state where all must be settled.
LEMMA StillDown ==
    ASSUME TwoSectors, StoreInv, StoreInv', Step
    PROVE  /\ RecoverEnv \/ (~Down' \/ (pc' = "scanned" /\ ~gc_request') =>
                                ~Down \/ (pc = "scanned" /\ ~gc_request))
           /\ WriteData \/ WriteDone \/ ~(pc \in {"data", "write"})
<1>1. CASE new_env \/ SetEnd
  <2>1. pc \in {"alloc", "retry", "setend"}
    BY <1>1 DEF new_env, SetEnd
  <2> QED
    BY <2>1, WhenDown
<1>2. CASE WriteNode
  <2>1. in_recovery_check' = in_recovery_check /\ pc # "off" /\ pc' # "scanned"
    BY <1>2 DEF WriteNode, update_sec_status, WritePreWrite, write_env_hdr, WriteData, WriteDone, ram
  <2>2. WriteData \/ WriteDone \/ ~(pc \in {"data", "write"})
    BY <1>2 DEF WriteNode, update_sec_status, WritePreWrite, write_env_hdr
  <2> QED
    BY <2>1, <2>2 DEF Down
<1>3. CASE Delete
  <2>1. in_recovery_check' = in_recovery_check /\ pc \in {"find", "predirty", "delete", "dirty"}
    BY <1>3 DEF Delete, PreDeleteOld, PreDeleteDirty, DeleteOld, DeleteDirty, ram
  <2>2. pc' # "scanned"
    BY <1>3 DEF Delete, PreDeleteOld, PreDeleteDirty, DeleteOld, DeleteDirty, StoreInv, RamType
  <2> QED
    BY <2>1, <2>2 DEF Down
<1>4. CASE gc_collect
  <2>1. /\ in_recovery_check' = in_recovery_check
        /\ pc \in {"gc", "gcnode", "move", "erase", "format"}
    BY <1>4 DEF gc_collect, GcSector, GcNode, MoveAlloc, EraseSector, FormatSector, ram
  <2>2. CASE ~MoveAlloc
    <3>1. pc' # "scanned"
      BY <1>4, <2>2 DEF gc_collect, GcSector, GcNode, EraseSector, FormatSector, StoreInv, RamType
    <3> QED
      BY <2>1, <3>1 DEF Down
  <2>3. CASE MoveAlloc
    <3>1. pc' = "scanned" => gc_request'
      <4> SUFFICES ASSUME pc' = "scanned" PROVE gc_request'
        OBVIOUS
      <4>1. pc = "move" /\ alloc_env = None /\ job.then = "envscan"
        BY <2>3 DEF MoveAlloc, StoreInv, RamType
      <4>2. PICK u \in Sectors : AtRest(u)
        BY <4>1 DEF StoreInv, Phase, Resting, Job, JobSteps
      <4> QED
        BY <2>3, <4>1, <4>2, EmptyAtRest DEF MoveAlloc, RequestAfterAlloc, AtRest, StoreInv
    <3> QED
      BY <2>1, <3>1 DEF Down
  <2> QED
    BY <2>2, <2>3
<1>5. CASE ef_load_env
  <2>1. CASE Boot \/ CheckHeaders \/ RecoverGc
    <3>1. pc \in {"off", "headers", "gcscan"} /\ pc' \in {"headers", "gcscan", "gc", "envscan"}
      BY <2>1 DEF Boot, CheckHeaders, RecoverGc, StartGc
    <3>2. in_recovery_check'
      BY <2>1, <3>1 DEF Boot, CheckHeaders, RecoverGc, ram, StoreInv, Control, Recovering
    <3> QED
      BY <3>1, <3>2 DEF Down
  <2>2. CASE LoadEnd
    <3>1. pc = "scanned" /\ (gc_request => pc' = "gc" /\ in_recovery_check' = in_recovery_check)
      BY <2>2 DEF LoadEnd, StartGc
    <3> QED
      BY <3>1 DEF Down
  <2>3. CASE RecoverEnv
    BY <2>3 DEF RecoverEnv
  <2> QED
    BY <1>5, <2>1, <2>2, <2>3 DEF ef_load_env
<1> QED
  BY <1>1, <1>2, <1>3, <1>4, <1>5 DEF Step

LEMMA SettledHeader ==
    ASSUME StoreInv, StoreInv', Tidy, Settled, write_env_hdr
    PROVE  Settled'
<1>1. pc = "header" /\ pc' = "data" /\ in_recovery_check' = in_recovery_check
  BY DEF write_env_hdr, ram
<1>2. \A p \in Places : ~Underway(p)
  BY <1>1 DEF Underway
<1>3. \A p \in Places : Unfinished(p)' => Unfinished(p) \/ Underway(p)'
  BY TidyHeader
<1>4. Down' = Down
  BY <1>1 DEF Down
<1>5. ~Down' \/ (pc' = "scanned" /\ ~gc_request') =>
          \A p \in Places : Unfinished(p)' => Underway(p)'
  BY <1>1, <1>2, <1>3, <1>4 DEF Settled
<1>6. ASSUME NEW p \in Places, NEW q \in Places, Unfinished(p)', Unfinished(q)',
             ~Underway(p)', ~Underway(q)'
      PROVE  p = q
  BY <1>2, <1>3, <1>6 DEF Settled
<1> QED
  BY <1>5, <1>6 DEF Settled

\* The boot's scan ends at the one unfinished node there is, or finds none.
LEMMA SettledScan ==
    ASSUME TwoSectors, StoreInv, StoreInv', Tidy, Settled, RecoverEnv
    PROVE  Settled'
<1>1. pc = "envscan" /\ pc' \in {"move", "scanned"} /\ in_recovery_check' = in_recovery_check
  BY DEF RecoverEnv
<1>2. Down /\ Down' /\ \A p \in Places : ~Underway(p) /\ ~Underway(p)'
  <2>1. Down
    BY <1>1, WhenDown
  <2> QED
    BY <1>1, <2>1 DEF Down, Underway
<1>3. \A p \in Places : Unfinished(p)' => Unfinished(p)
  BY TidyRecoverEnv DEF Keeps
<1>4. ASSUME pc' = "scanned", NEW p \in Places, Unfinished(p)' PROVE FALSE
  <2>1. PICK u \in Sectors : AtRest(u)
    BY <1>1 DEF StoreInv, Phase, Resting
  <2>2. p \in Unsettled
    BY <1>3, <1>4, <2>1, SeenAtRest
  <2>3. PICK f : f = FirstOf(Unsettled)
    OBVIOUS
  <2>4. Unsettled # {} /\ Unsettled \subseteq Places
    BY <2>2 DEF Unsettled, Iterated
  <2>5. f \in Unsettled /\ f \in Places
    BY <2>3, <2>4, FirstIsIn
  <2>6. NodeAt(f).st = "PRE_WRITE" /\ Kill(f)
    BY <1>4, <2>3, <2>4 DEF RecoverEnv
  <2>7. Unfinished(f)
    BY <2>5, <2>6 DEF Unfinished, Placed, At, NodeAt, Unsettled, Iterated, Used
  <2>8. p = f
    BY <1>2, <1>3, <1>4, <2>5, <2>7 DEF Settled
  <2>9. f[1] \in Sectors /\ f[2] \in 1 .. Used(f[1]) /\ f = <<f[1], f[2]>>
    BY <2>5, <2>7, PlaceOf DEF Unfinished, StoreInv
  <2>10. Dead \in Node /\ ~Dead.crc /\ Dead.st = "DEAD" /\ SetNode(<<f[1], f[2]>>, Dead)
    BY <2>6, <2>9 DEF Dead, Node, Kill
  <2>11. At(<<f[1], f[2]>>)' = Dead
    BY <2>9, <2>10, KeepsOthers DEF StoreInv
  <2> QED
    BY <1>4, <2>8, <2>9, <2>10, <2>11 DEF Unfinished
<1>5. ASSUME NEW p \in Places, NEW q \in Places, Unfinished(p)', Unfinished(q)'
      PROVE  p = q
  BY <1>2, <1>3, <1>5 DEF Settled
<1> QED
  BY <1>2, <1>4, <1>5 DEF Settled

LEMMA SettledStep ==
    ASSUME TwoSectors, StoreInv, Tidy, Settled, [Next]_vars,
           losses' # losses => ~in_recovery_check
    PROVE  Settled'
<1>0. StoreInv'
  BY StepInv
<1>1. ASSUME NEW k \in Keys, NEW v \in Values, Call(k, v) PROVE Settled'
  <2>1. pc = "idle" /\ pc' = "alloc"
    BY <1>1 DEF Call
  <2>2. \A p \in Places : Unfinished(p)' => Unfinished(p)
    BY <1>0, <1>1, TidyCall DEF Keeps
  <2> QED
    BY <2>1, <2>2, WhenDown, QuietSettled DEF Underway
<1>2. ASSUME NEW k \in Keys, ef_get_env(k) PROVE Settled'
  <2>1. pc = "idle" /\ pc' = "idle"
    BY <1>2 DEF ef_get_env
  <2>2. \A p \in Places : Unfinished(p)' => Unfinished(p)
    BY <1>0, <1>2, TidyGet DEF Keeps
  <2> QED
    BY <2>1, <2>2, WhenDown, QuietSettled DEF Underway
<1>3. ASSUME UNCHANGED vars PROVE Settled'
  <2>1. pc' = pc /\ gc_request' = gc_request /\ Down' = Down
        /\ \A p \in Places : Unfinished(p)' = Unfinished(p) /\ Underway(p)' = Underway(p)
    BY <1>3 DEF vars, ram, Down, Unfinished, Placed, Used, At, Underway
  <2> QED
    BY <2>1, QuietSettled
<1>4. ASSUME PowerLoss PROVE Settled'
  <2>1. pc # "off" /\ pc' = "off" /\ flash' = flash /\ losses' # losses
    BY <1>4 DEF PowerLoss, StoreInv, RamType
  <2>2. ~Down /\ Down'
    BY <2>1 DEF Down
  <2>3. \A p \in Places : Unfinished(p)' => Underway(p)
    BY <2>1, <2>2 DEF Settled, Unfinished, Placed, Used, At
  <2>4. \A p, q \in Places : Underway(p) /\ Underway(q) => p = q
    BY DEF Underway
  <2> QED
    BY <2>1, <2>2, <2>3, <2>4 DEF Settled
<1>5. ASSUME Step PROVE Settled'
  <2>1. /\ RecoverEnv \/ (~Down' \/ (pc' = "scanned" /\ ~gc_request') =>
                             ~Down \/ (pc = "scanned" /\ ~gc_request))
        /\ WriteData \/ WriteDone \/ ~(pc \in {"data", "write"})
    BY <1>0, <1>5, StillDown
  <2>2. CASE write_env_hdr
    BY <1>0, <2>2, SettledHeader
  <2>3. CASE RecoverEnv
    BY <1>0, <2>3, SettledScan
  <2>4. CASE WriteData
    <3>1. \A p \in Places : (Unfinished(p)' => Unfinished(p)) /\ (Underway(p) => Underway(p)')
      BY <1>0, <2>4, TidyData DEF Keeps
    <3>2. pc # "envscan"
      BY <2>4 DEF WriteData
    <3> QED
      BY <2>1, <3>1, <3>2, QuietSettled DEF RecoverEnv
  <2>5. CASE WriteDone
    <3>1. PICK q \in Places : Underway(q) /\ KeepsBut(q)
      BY <1>0, <2>5, TidyDone DEF Written
    <3>2. \A p \in Places : Unfinished(p)' => Unfinished(p) /\ p # q
      BY <3>1 DEF KeepsBut, Keeps
    <3>3. \A p \in Places : Underway(p) => p = q
      BY <3>1 DEF Underway
    <3>4. pc # "envscan"
      BY <2>5 DEF WriteDone
    <3> QED
      BY <2>1, <3>2, <3>3, <3>4, QuietSettled DEF RecoverEnv
  <2>6. CASE ~(write_env_hdr \/ RecoverEnv \/ WriteData \/ WriteDone)
    <3>1. \A p \in Places : Unfinished(p)' => Unfinished(p)
      <4>1. CASE new_env \/ SetEnd
        BY <1>0, <4>1, TidyNew, TidySetEnd DEF Keeps
      <4>2. CASE WriteNode
        BY <1>0, <2>6, <4>2, TidyStatus, TidyPreWrite DEF WriteNode, Keeps
      <4>3. CASE Delete
        <5>1. CASE PreDeleteOld
          BY <1>0, <5>1, TidyPreDeleteOld DEF Outdated, KeepsBut, Keeps
        <5>2. CASE DeleteOld
          BY <1>0, <5>2, TidyDeleteOld DEF Removed, KeepsBut, Keeps
        <5>3. CASE PreDeleteDirty \/ DeleteDirty
          BY <1>0, <5>3, TidyPreDeleteDirty, TidyDeleteDirty DEF Keeps
        <5> QED
          BY <4>3, <5>1, <5>2, <5>3 DEF Delete
      <4>4. CASE gc_collect
        <5>1. CASE GcNode
          BY <1>0, <5>1, TidyGcNode DEF Outdated, KeepsBut, Keeps
        <5>2. CASE GcSector \/ MoveAlloc \/ EraseSector \/ FormatSector
          BY <1>0, <5>2, TidyGcSector, TidyMoveAlloc, TidyErase DEF Keeps
        <5> QED
          BY <4>4, <5>1, <5>2 DEF gc_collect
      <4>5. CASE ef_load_env
        BY <1>0, <2>6, <4>5, TidyBoot, TidyHeaders, TidyLoadEnd DEF ef_load_env, Keeps
      <4> QED
        BY <1>5, <4>1, <4>2, <4>3, <4>4, <4>5 DEF Step
    <3>2. \A p \in Places : ~Underway(p)
      BY <2>1, <2>6 DEF Underway
    <3> QED
      BY <2>1, <2>6, <3>1, <3>2, QuietSettled
  <2> QED
    BY <2>2, <2>3, <2>4, <2>5, <2>6
<1> QED
  BY <1>1, <1>2, <1>3, <1>4, <1>5, Zenon DEF Next

LEMMA StartsSettled ==
    ASSUME TwoSectors, Init
    PROVE  Settled
<1>1. PICK n \in 1 .. Cardinality(Keys) :
         flash = [s \in Sectors |-> IF s = 1
                  THEN [Formatted EXCEPT !.store = "USING", !.nodes = DefaultNodes(n)]
                  ELSE Formatted]
  BY DEF Init
<1>2. PICK nodes : nodes = DefaultNodes(n)
  OBVIOUS
<1>3. /\ nodes \in Seq(Node) /\ Len(nodes) = n
      /\ \A i \in 1 .. n : IsValid(nodes[i])
  BY <1>2, Defaults
<1>4. flash[1].nodes = nodes /\ flash[2].nodes = << >>
  BY <1>1, <1>2, SectorsOneTwo DEF Formatted
<1>5. n \in Nat /\ Used(1) = n /\ Used(2) = 0 /\ Slots \in Nat
  BY <1>3, <1>4, EnvConstants, FS_CardinalityType DEF EnvConstants, Used
<1>6. ASSUME NEW p \in Places, Unfinished(p) PROVE FALSE
  <2>1. p[1] \in {1, 2} /\ p[2] \in 1 .. Slots /\ p[2] <= Used(p[1])
    BY <1>6, SectorsOneTwo DEF Places, Unfinished, Placed
  <2>2. p[1] = 1 /\ p[2] \in 1 .. n
    BY <1>5, <2>1
  <2> QED
    BY <1>3, <1>4, <1>6, <2>2 DEF Unfinished, At, IsValid
<1> QED
  BY <1>6 DEF Settled

\* Only a loss of power takes the store down.
LEMMA GoesDown ==
    ASSUME TwoSectors, StoreInv, [Next]_vars, ~Down, losses' = losses
    PROVE  ~Down'
<1>1. ~PowerLoss /\ ~in_recovery_check /\ pc # "off"
  BY DEF PowerLoss, StoreInv, RamType, Down
<1>2. in_recovery_check' = in_recovery_check
  <2>1. ASSUME ef_load_env PROVE FALSE
    <3>1. pc \in {"off", "headers", "gcscan", "envscan", "scanned"}
      BY <2>1 DEF ef_load_env, Boot, CheckHeaders, RecoverGc, RecoverEnv, LoadEnd
    <3> QED
      BY <3>1, WhenDown
  <2>2. CASE \E k \in Keys, v \in Values : Call(k, v)
    BY <2>2 DEF Call
  <2>3. CASE \E k \in Keys : ef_get_env(k)
    BY <2>3 DEF ef_get_env
  <2>4. CASE new_env \/ SetEnd
    BY <2>4 DEF new_env, SetEnd
  <2>5. CASE WriteNode
    BY <2>5 DEF WriteNode, update_sec_status, WritePreWrite, write_env_hdr, WriteData, WriteDone, ram
  <2>6. CASE Delete
    BY <2>6 DEF Delete, PreDeleteOld, PreDeleteDirty, DeleteOld, DeleteDirty, ram
  <2>7. CASE gc_collect
    BY <2>7 DEF gc_collect, GcSector, GcNode, MoveAlloc, EraseSector, FormatSector, ram
  <2>8. CASE UNCHANGED vars
    BY <2>8 DEF vars, ram
  <2> QED
    BY <1>1, <2>1, <2>2, <2>3, <2>4, <2>5, <2>6, <2>7, <2>8, Zenon DEF Next, Step
<1>3. StoreInv'
  BY StepInv
<1>4. pc' # "off"
  <2>1. CASE UNCHANGED vars
    BY <1>1, <2>1 DEF vars
  <2>2. CASE \E k \in Keys, v \in Values : Call(k, v)
    BY <2>2 DEF Call
  <2>3. CASE \E k \in Keys : ef_get_env(k)
    BY <1>1, <2>3 DEF ef_get_env
  <2>4. CASE new_env \/ SetEnd
    BY <2>4 DEF new_env, SetEnd, StartGc
  <2>5. CASE WriteNode
    BY <2>5 DEF WriteNode, update_sec_status, WritePreWrite, write_env_hdr, WriteData, WriteDone
  <2>6. CASE Delete
    BY <2>6 DEF Delete, PreDeleteOld, PreDeleteDirty, DeleteOld, DeleteDirty, StoreInv, RamType
  <2>7. CASE gc_collect
    BY <1>1, <2>7 DEF gc_collect, GcSector, GcNode, MoveAlloc, EraseSector, FormatSector, StoreInv,
                      RamType
  <2>8. CASE ef_load_env
    BY <2>8 DEF ef_load_env, Boot, CheckHeaders, RecoverGc, RecoverEnv, LoadEnd, StartGc
  <2> QED
    BY <1>1, <2>1, <2>2, <2>3, <2>4, <2>5, <2>6, <2>7, <2>8, Zenon DEF Next, Step
<1> QED
  BY <1>1, <1>2, <1>4 DEF Down

\* No boot is interrupted.
Undisturbed == losses' # losses => ~in_recovery_check

\* Without interrupted boots every loss of power finds the store settled.
LEMMA UndisturbedStep ==
    ASSUME TwoSectors, StoreInv, Tidy, Settled, [Next]_vars, [Undisturbed]_vars
    PROVE  Tidy' /\ Settled'
<1>1. losses' # losses => ~in_recovery_check
  BY DEF Undisturbed, vars
<1>2. Settled'
  BY <1>1, SettledStep
<1>3. losses' # losses => ~Down
  <2> SUFFICES ASSUME losses' # losses PROVE ~Down
    OBVIOUS
  <2>1. PowerLoss
    BY DEF Next, Step, vars, Call, ef_get_env, new_env, SetEnd, WriteNode, update_sec_status,
           WritePreWrite, write_env_hdr, WriteData, WriteDone, Delete, PreDeleteOld,
           PreDeleteDirty, DeleteOld, DeleteDirty, gc_collect, GcSector, GcNode, MoveAlloc,
           EraseSector, FormatSector, ef_load_env, Boot, CheckHeaders, RecoverGc, RecoverEnv,
           LoadEnd
  <2> QED
    BY <1>1, <2>1 DEF PowerLoss, Down
<1>4. Orderly
  BY <1>3 DEF Orderly, Settled
<1>5. Tidy'
  BY <1>4, TidyStep
<1> QED
  BY <1>2, <1>5

\* The first loss of power finds the store up, the second one finds at most
\* what the first one left.
Twice ==
    /\ losses = 0 => ~Down
    /\ losses <= 1 => Settled

LEMMA TwiceStep ==
    ASSUME TwoSectors, MaxLosses <= 2, StoreInv, Tidy, Twice, [Next]_vars
    PROVE  Tidy' /\ Twice'
<1>0. losses \in 0 .. MaxLosses /\ MaxLosses \in Nat
  BY EnvConstants DEF EnvConstants, StoreInv, RamType
<1>1. CASE losses' = losses
  <2>1. Orderly
    BY <1>1 DEF Orderly
  <2>2. Tidy'
    BY <2>1, TidyStep
  <2>3. losses = 0 => ~Down'
    BY <1>1, GoesDown DEF Twice
  <2>4. losses <= 1 => Settled'
    BY <1>1, SettledStep DEF Twice
  <2> QED
    BY <1>1, <2>2, <2>3, <2>4 DEF Twice
<1>2. CASE losses' # losses
  <2>1. PowerLoss
    BY <1>2 DEF Next, Step, vars, Call, ef_get_env, new_env, SetEnd, WriteNode,
           update_sec_status, WritePreWrite, write_env_hdr, WriteData, WriteDone, Delete,
           PreDeleteOld, PreDeleteDirty, DeleteOld, DeleteDirty, gc_collect, GcSector, GcNode,
           MoveAlloc, EraseSector, FormatSector, ef_load_env, Boot, CheckHeaders, RecoverGc,
           RecoverEnv, LoadEnd
  <2>2. losses' = losses + 1 /\ losses <= 1 /\ pc # "off"
    BY <1>0, <2>1 DEF PowerLoss
  <2>3. Settled
    BY <2>2 DEF Twice
  <2>4. Orderly
    BY <2>2, <2>3 DEF Orderly, Settled, Down
  <2>5. Tidy'
    BY <2>4, TidyStep
  <2>6. losses' <= 1 => Settled'
    <3> SUFFICES ASSUME losses' <= 1 PROVE Settled'
      OBVIOUS
    <3>1. ~in_recovery_check
      BY <1>0, <2>2 DEF Twice, Down
    <3> QED
      BY <2>3, <3>1, SettledStep
  <2> QED
    BY <1>0, <2>2, <2>5, <2>6 DEF Twice
<1> QED
  BY <1>1, <1>2

\* Along every behaviour in which no boot is interrupted by a loss of power,
\* the store is tidy, whatever the number of losses.
THEOREM TidyUndisturbed ==
    ASSUME TwoSectors PROVE Spec /\ [][Undisturbed]_vars => [](Tidy /\ Settled)
<1>1. Init => Tidy /\ Settled
  BY StartsTidy, StartsSettled
<1>2. StoreInv /\ Tidy /\ Settled /\ [Next]_vars /\ [Undisturbed]_vars => Tidy' /\ Settled'
  BY UndisturbedStep
<1> QED
  BY <1>1, <1>2, StoreInvariant, PTL DEF Spec

\* With two losses of power it is, wherever they interrupt a call or a boot.
THEOREM TidyTwice ==
    ASSUME TwoSectors, MaxLosses <= 2 PROVE Spec => [](Tidy /\ Twice)
<1>1. Init => Tidy /\ Twice
  <2>1. Init => ~Down
    BY DEF Init, Down
  <2> QED
    BY <2>1, StartsTidy, StartsSettled DEF Twice
<1>2. StoreInv /\ Tidy /\ Twice /\ [Next]_vars => Tidy' /\ Twice'
  BY TwiceStep
<1> QED
  BY <1>1, <1>2, StoreInvariant, PTL DEF Spec

\* Whenever no call is in progress a variable is in one valid node, which the
\* cache and the search find: for all keys, values and sizes of two sectors,
\* wherever two losses of power interrupt calls and boots.
THEOREM EveryVariableFound ==
    ASSUME TwoSectors, MaxLosses <= 2 PROVE Spec => []Findable
<1>1. StoreInv /\ Tidy => Findable
  BY TidyIsFindable
<1> QED
  BY <1>1, StoreInvariant, TidyTwice, PTL

----------------------------------------------------------------------------
(* The value of a variable.                                                *)

\* Stored reads the valid node of a variable, or the one that is replaced.
Reads == \A k \in Keys :
    /\ \A p \in Places : Current(p) /\ At(p).key = k => Stored(k) = At(p).val
    /\ \A p \in Places : Doomed(p) /\ At(p).key = k /\ k \notin Valid => Stored(k) = At(p).val
    /\ (\A p \in Places : Current(p) \/ Doomed(p) => At(p).key # k) => Stored(k) = None

LEMMA StoredRead ==
    ASSUME TwoSectors, StoreInv, Tidy
    PROVE  Reads
<1> SUFFICES ASSUME NEW k \in Keys
             PROVE  /\ \A p \in Places : Current(p) /\ At(p).key = k => Stored(k) = At(p).val
                    /\ \A p \in Places : Doomed(p) /\ At(p).key = k /\ k \notin Valid
                                            => Stored(k) = At(p).val
                    /\ (\A p \in Places : Current(p) \/ Doomed(p) => At(p).key # k)
                          => Stored(k) = None
  BY DEF Reads
<1> DEFINE V == {p \in Iterated : NodeAt(p).key = k /\ NodeAt(p).crc /\ NodeAt(p).st = "WRITE"}
           O == {p \in Iterated :
                    NodeAt(p).key = k /\ NodeAt(p).crc /\ NodeAt(p).st = "PRE_DELETE"}
<1>1. PICK u \in Sectors : AtRest(u) \/ Moving(u) \/ Moved(u)
  BY SomePhase
<1>2. \A s \in Sectors : Used(s) > 0 => Readable(s)
  <2>1. CASE AtRest(u) \/ Moving(u)
    BY <2>1, AllReadable DEF StoreInv, AtRest, Moving
  <2>2. CASE Moved(u)
    <3>1. Used(u) = 0
      BY <2>2 DEF Moved, Erasing, Erased, Used
    <3>2. Readable(Other(u))
      BY <2>2 DEF Moved, Erasing, Target, Readable
    <3> QED
      BY <3>1, <3>2, Others
  <2> QED
    BY <1>1, <2>1, <2>2
<1>3. \A p \in Places : p \in Iterated <=> Placed(p)
  <2> SUFFICES ASSUME NEW p \in Places PROVE p \in Iterated <=> Placed(p)
    OBVIOUS
  <2>1. p[1] \in Sectors /\ (Placed(p) <=> p[2] \in 1 .. Used(p[1])) /\ Used(p[1]) \in Nat
    BY PlaceOf, NodesTyped DEF StoreInv
  <2>2. Placed(p) => Readable(p[1])
    BY <1>2, <2>1
  <2> QED
    BY <2>2 DEF Iterated, Placed, Used
<1>4. /\ V \subseteq Places /\ O \subseteq Places
      /\ \A p \in Places : p \in V <=> Current(p) /\ At(p).key = k
      /\ \A p \in Places : p \in O <=> Doomed(p) /\ At(p).key = k
  BY <1>3 DEF Iterated, Current, Doomed, IsValid, NodeAt, At
<1>5. Stored(k) = IF FirstOf(V) # None THEN NodeAt(FirstOf(V)).val
                  ELSE IF FirstOf(O) # None THEN NodeAt(FirstOf(O)).val ELSE None
  BY DEF Stored, find_env_no_cache
<1>6. None \notin Places
  BY EnvConstants DEF EnvConstants
<1> HIDE DEF V, O
<1>7. V = {} => FirstOf(V) = None
  BY DEF FirstOf
<1>8. O = {} => FirstOf(O) = None
  BY DEF FirstOf
<1>9. ASSUME NEW p \in Places, Current(p), At(p).key = k PROVE Stored(k) = At(p).val
  <2>1. FirstOf(V) \in V
    BY <1>4, <1>9, FirstIsIn
  <2>2. FirstOf(V) = p
    BY <1>4, <1>9, <2>1 DEF Tidy, Alone
  <2> QED
    BY <1>5, <1>6, <1>9, <2>2 DEF NodeAt, At
<1>10. ASSUME NEW p \in Places, Doomed(p), At(p).key = k, k \notin Valid
       PROVE  Stored(k) = At(p).val
  <2>1. V = {}
    BY <1>4, <1>10, ValidIs DEF StoreInv
  <2>2. FirstOf(O) \in O
    BY <1>4, <1>10, FirstIsIn
  <2>3. FirstOf(O) = p
    BY <1>4, <1>10, <2>2 DEF Tidy, OneOld
  <2> QED
    BY <1>5, <1>6, <1>7, <1>10, <2>1, <2>3 DEF NodeAt, At
<1>11. ASSUME \A p \in Places : Current(p) \/ Doomed(p) => At(p).key # k
       PROVE  Stored(k) = None
  <2>1. V = {} /\ O = {}
    BY <1>4, <1>11
  <2> QED
    BY <1>5, <1>7, <1>8, <2>1
<1> QED
  BY <1>9, <1>10, <1>11

\* A step that leaves the nodes of k where they are leaves its value.
LEMMA StoredSame ==
    ASSUME FlashType, FlashType', Reads, Reads', NEW k \in Keys,
           \A p \in Places :
              /\ Current(p)' /\ At(p)'.key = k <=> Current(p) /\ At(p).key = k
              /\ Doomed(p)' /\ At(p)'.key = k <=> Doomed(p) /\ At(p).key = k
              /\ (Current(p) \/ Doomed(p)) /\ At(p).key = k => At(p)'.val = At(p).val
    PROVE  Stored(k)' = Stored(k)
<1>1. k \in Valid' <=> k \in Valid
  BY ValidIs, ValidIsThen
<1>2. CASE k \in Valid
  <2>1. PICK p \in Places : Current(p) /\ At(p).key = k
    BY <1>2, ValidIs
  <2>2. Stored(k) = At(p).val
    BY <2>1 DEF Reads
  <2>3. Stored(k)' = At(p)'.val
    BY <2>1 DEF Reads
  <2> QED
    BY <2>1, <2>2, <2>3
<1>3. CASE k \notin Valid /\ \E p \in Places : Doomed(p) /\ At(p).key = k
  <2>1. PICK p \in Places : Doomed(p) /\ At(p).key = k
    BY <1>3
  <2>2. Stored(k) = At(p).val
    BY <1>3, <2>1 DEF Reads
  <2>3. Stored(k)' = At(p)'.val
    BY <1>1, <1>3, <2>1 DEF Reads
  <2> QED
    BY <2>1, <2>2, <2>3
<1>4. CASE k \notin Valid /\ ~\E p \in Places : Doomed(p) /\ At(p).key = k
  <2>1. \A p \in Places : Current(p) \/ Doomed(p) => At(p).key # k
    BY <1>4, ValidIs
  <2>2. \A p \in Places : Current(p)' \/ Doomed(p)' => At(p)'.key # k
    BY <2>1
  <2>3. Stored(k) = None
    BY <2>1 DEF Reads
  <2>4. Stored(k)' = None
    BY <2>2 DEF Reads
  <2> QED
    BY <2>3, <2>4
<1> QED
  BY <1>2, <1>3, <1>4

\* The value is the same whether its node is valid, about to be replaced, or
\* already replaced; only a finished node brings a new one.
LEMMA StoredKept ==
    ASSUME FlashType, FlashType', Reads, Reads', NEW k \in Keys,
           SameHolders \/ \E q \in Places : Outdated(q) \/ Removed(q)
    PROVE  Stored(k)' = Stored(k)
<1>1. CASE SameHolders
  BY <1>1, StoredSame DEF SameHolders
<1>2. ASSUME NEW q \in Places, Outdated(q) PROVE Stored(k)' = Stored(k)
  <2>1. CASE At(q).key = k
    <3>1. Stored(k) = At(q).val
      BY <1>2, <2>1 DEF Outdated, Reads
    <3>2. Stored(k)' = At(q)'.val
      BY <1>2, <2>1 DEF Outdated, Reads
    <3> QED
      BY <1>2, <3>1, <3>2 DEF Outdated
  <2>2. CASE At(q).key # k
    BY <1>2, <2>2, StoredSame DEF Outdated, KeepsBut, Keeps
  <2> QED
    BY <2>1, <2>2
<1>3. ASSUME NEW q \in Places, Removed(q) PROVE Stored(k)' = Stored(k)
  <2>1. CASE At(q).key = k
    <3>1. PICK p \in Places : Current(p) /\ At(p).key = k
      BY <1>3, <2>1, ValidIs DEF Removed
    <3>2. p # q
      BY <1>3, <3>1 DEF Removed, Current, Doomed, IsValid
    <3>3. Current(p)' /\ At(p)'.key = k /\ At(p)'.val = At(p).val
      BY <1>3, <3>1, <3>2 DEF Removed, KeepsBut, Keeps
    <3>4. Stored(k) = At(p).val
      BY <3>1 DEF Reads
    <3>5. Stored(k)' = At(p)'.val
      BY <3>3 DEF Reads
    <3> QED
      BY <3>3, <3>4, <3>5
  <2>2. CASE At(q).key # k
    BY <1>3, <2>2, StoredSame DEF Removed, KeepsBut, Keeps
  <2> QED
    BY <2>1, <2>2
<1> QED
  BY <1>1, <1>2, <1>3

LEMMA StoredWritten ==
    ASSUME FlashType, FlashType', Reads, Reads', NEW j \in Keys, NEW v, NEW k \in Keys,
           NEW q \in Places, Written(q, j, v)
    PROVE  Stored(k)' = IF k = j THEN v ELSE Stored(k)
<1>1. CASE k = j
  <2>1. Current(q)' /\ At(q)'.key = k /\ At(q)'.val = v
    BY <1>1 DEF Written
  <2>2. Stored(k)' = At(q)'.val
    BY <2>1 DEF Reads
  <2> QED
    BY <1>1, <2>1, <2>2
<1>2. CASE k # j
  <2>1. \A p \in Places :
              /\ Current(p)' /\ At(p)'.key = k <=> Current(p) /\ At(p).key = k
              /\ Doomed(p)' /\ At(p)'.key = k <=> Doomed(p) /\ At(p).key = k
              /\ (Current(p) \/ Doomed(p)) /\ At(p).key = k => At(p)'.val = At(p).val
    BY <1>2 DEF Written, KeepsBut, Keeps
  <2> QED
    BY <1>2, <2>1, StoredSame
<1> QED
  BY <1>1, <1>2

\* The new value is in place; what is left is deleting the old node and
\* collecting garbage.
Answered ==
    \/ pc = "setend"
    \/ Job("setend") /\ pc \in {"delete", "dirty"}
    \/ InGc /\ gc.then = "setend"
Committed == Answered => Stored(request.key) = request.val

LEMMA AnsweredLater ==
    ASSUME TwoSectors, StoreInv, Step, Answered', ~SetEnd
    PROVE  Answered \/ (WriteDone /\ job.then = "setend")
<1> USE DEF StoreInv, Answered, InGc, GcWork, Job, JobSteps, Copying
<1>1. CASE new_env
  BY <1>1, NeverFull
<1>2. CASE WriteNode
  <2>1. CASE update_sec_status
    <3>1. /\ pc = "status" /\ pc' = "prewrite" /\ gc' = gc /\ job'.then = job.then
      BY <2>1 DEF update_sec_status, RamType
    <3> QED
      BY <3>1
  <2>2. CASE WritePreWrite \/ write_env_hdr \/ WriteData
    <3>1. pc \in Copying /\ pc' \in Copying /\ gc' = gc /\ job' = job
      BY <2>2 DEF WritePreWrite, write_env_hdr, WriteData, ram
    <3> QED
      BY <3>1
  <2>3. CASE WriteDone
    <3>1. pc = "write" /\ pc' \in {"delete", "setend"} /\ gc' = gc /\ job' = job
      BY <2>3 DEF WriteDone
    <3>2. pc' = "setend" => job.src = None /\ job.then = "setend"
      BY <2>3, <3>1 DEF WriteDone, Source
    <3> QED
      BY <2>3, <3>1, <3>2
  <2> QED
    BY <1>2, <2>1, <2>2, <2>3 DEF WriteNode
<1>3. CASE Delete
  <2>1. CASE PreDeleteOld
    <3>1. /\ pc = "find" /\ pc' \in {"predirty", "status"} /\ gc' = gc /\ job'.then = job.then
          /\ job.then = "setend"
      BY <2>1 DEF PreDeleteOld, RamType, Control
    <3> QED
      BY <3>1
  <2>2. CASE PreDeleteDirty
    <3>1. pc = "predirty" /\ pc' \in {"status", "move"} /\ gc' = gc /\ job' = job
      BY <2>2 DEF PreDeleteDirty, ram
    <3> QED
      BY <3>1
  <2>3. CASE DeleteOld
    <3>1. pc = "delete" /\ pc' = "dirty" /\ gc' = gc /\ job' = job
      BY <2>3 DEF DeleteOld
    <3> QED
      BY <3>1
  <2>4. CASE DeleteDirty
    <3>1. /\ pc = "dirty" /\ pc' = job.then /\ gc' = gc
          /\ job.then \in {"setend", "envscan", "gcnode"}
      BY <2>4 DEF DeleteDirty, Control
    <3> QED
      BY <3>1
  <2> QED
    BY <1>3, <2>1, <2>2, <2>3, <2>4 DEF Delete
<1>4. CASE gc_collect
  <2>1. CASE GcSector
    <3>1. pc = "gc"
      BY <2>1 DEF GcSector
    <3>2. gc.then = "setend"
      <4>1. CASE pc' = gc.then /\ gc' = NoGc
        <5>1. gc'.then = "none" /\ gc.then \in {"retry", "setend", "gcscan", "envscan"}
          BY <3>1, <4>1 DEF NoGc, Control, RamType
        <5> QED
          BY <4>1, <5>1
      <4>2. CASE pc' \in {"gc", "gcnode"} /\ gc'.then = gc.then
        BY <4>2
      <4>3. (pc' = gc.then /\ gc' = NoGc) \/ (pc' \in {"gc", "gcnode"} /\ gc'.then = gc.then)
        BY <2>1 DEF GcSector, RamType
      <4> QED
        BY <4>1, <4>2, <4>3
    <3> QED
      BY <3>1, <3>2
  <2>2. CASE GcNode
    <3>1. pc = "gcnode" /\ pc' \in {"erase", "predirty", "move"} /\ gc'.then = gc.then
      BY <2>2 DEF GcNode, RamType
    <3> QED
      BY <3>1
  <2>3. CASE MoveAlloc
    <3>1. /\ pc = "move" /\ gc' = gc /\ job.then \in {"envscan", "gcnode"}
          /\ \/ pc' \in {"delete", "status"} /\ job'.then = job.then
             \/ pc' \in {"scanned", "gcnode"} /\ (pc' = "gcnode" => job.then = "gcnode")
      BY <2>3 DEF MoveAlloc, RamType, Control
    <3> QED
      BY <3>1
  <2>4. CASE EraseSector \/ FormatSector
    <3>1. pc \in {"erase", "format"} /\ pc' \in {"format", "gc"} /\ gc'.then = gc.then
      BY <2>4 DEF EraseSector, FormatSector, ram, RamType
    <3> QED
      BY <3>1
  <2> QED
    BY <1>4, <2>1, <2>2, <2>3, <2>4 DEF gc_collect
<1>5. CASE ef_load_env
  <2>1. CASE Boot \/ CheckHeaders
    <3>1. pc' \in {"headers", "gcscan"}
      BY <2>1 DEF Boot, CheckHeaders
    <3> QED
      BY <3>1
  <2>2. CASE RecoverGc \/ LoadEnd
    <3>1. pc' \in {"envscan", "idle"} \/ (pc' = "gc" /\ gc'.then \in {"gcscan", "envscan"})
      BY <2>2 DEF RecoverGc, LoadEnd, StartGc
    <3> QED
      BY <3>1
  <2>3. CASE RecoverEnv
    <3>1. pc' = "scanned" \/ (pc' = "move" /\ job'.then = "envscan")
      BY <2>3 DEF RecoverEnv, MoveJob, NoJob
    <3> QED
      BY <3>1
  <2> QED
    BY <1>5, <2>1, <2>2, <2>3 DEF ef_load_env
<1> QED
  BY <1>1, <1>2, <1>3, <1>4, <1>5 DEF Step

\* Only SetEnd ends a call, only LoadEnd the boot.
LEMMA GoesOn ==
    ASSUME TwoSectors, StoreInv, Step, ~SetEnd, ~LoadEnd
    PROVE  request' = request /\ Down' = Down
<1>1. CASE new_env
  <2>1. /\ request' = request /\ pc' \in {"find", "gc"} /\ pc \in {"alloc", "retry"}
        /\ in_recovery_check' = in_recovery_check
    BY <1>1, NeverFull DEF new_env
  <2> QED
    BY <2>1 DEF Down
<1>2. CASE WriteNode
  BY <1>2 DEF WriteNode, update_sec_status, WritePreWrite, write_env_hdr, WriteData, WriteDone,
              ram, Down
<1>3. CASE Delete
  BY <1>3 DEF Delete, PreDeleteOld, PreDeleteDirty, DeleteOld, DeleteDirty, ram, Down, StoreInv,
              RamType
<1>4. CASE gc_collect
  BY <1>4 DEF gc_collect, GcSector, GcNode, MoveAlloc, EraseSector, FormatSector, ram, Down,
              StoreInv, RamType
<1>5. CASE ef_load_env
  <2>1. CASE Boot
    BY <2>1 DEF Boot, Down
  <2>2. CASE CheckHeaders \/ RecoverGc \/ RecoverEnv
    BY <2>2 DEF CheckHeaders, RecoverGc, RecoverEnv, StartGc, ram, Down
  <2> QED
    BY <1>5, <2>1, <2>2 DEF ef_load_env
<1> QED
  BY <1>1, <1>2, <1>3, <1>4, <1>5 DEF Step

\* What a step does to the values: only ENV_WRITE of a call changes one.
LEMMA StepValues ==
    ASSUME TwoSectors, StoreInv, StoreInv', Tidy, Reads, Reads', Step
    PROVE  IF WriteDone /\ job.then = "setend"
           THEN \A k \in Keys : Stored(k)' = IF k = job.key THEN job.val ELSE Stored(k)
           ELSE \A k \in Keys : Stored(k)' = Stored(k)
<1>1. CASE WriteDone
  <2>1. pc = "write" /\ job.key \in Keys
    BY <1>1 DEF WriteDone, StoreInv, Control, JobSteps, Copying
  <2>2. PICK q \in Places : Written(q, job.key, job.val)
    BY <1>1, TidyDone
  <2>3. \A k \in Keys : Stored(k)' = IF k = job.key THEN job.val ELSE Stored(k)
    BY <2>1, <2>2, StoredWritten DEF StoreInv
  <2>4. ASSUME job.then # "setend" PROVE Stored(job.key) = job.val
    <3>1. job.src \in Places /\ Doomed(job.src) /\ At(job.src).key = job.key
      BY <2>1, <2>4 DEF StoreInv, Source, Replaced, Doomed, Placed, JobSteps, Copying
    <3>2. At(job.src).val = job.val
      BY <2>1, <2>4 DEF Tidy, Carried, JobSteps, Copying
    <3>3. job.key \notin Valid
      BY <2>2 DEF Written
    <3> QED
      BY <2>1, <3>1, <3>2, <3>3 DEF Reads
  <2> QED
    BY <1>1, <2>3, <2>4
<1>2. CASE ~WriteDone
  <2>0. (\A p \in Places : Keeps(p)) => SameHolders
    BY DEF Keeps, SameHolders
  <2>1. SameHolders \/ \E q \in Places : Outdated(q) \/ Removed(q)
    <3>1. CASE new_env \/ SetEnd
      BY <2>0, <3>1, TidyNew, TidySetEnd
    <3>2. CASE WriteNode
      BY <1>2, <2>0, <3>2, TidyStatus, TidyPreWrite, TidyHeader, TidyData DEF WriteNode
    <3>3. CASE Delete
      BY <2>0, <3>3, TidyPreDeleteOld, TidyDeleteOld, TidyPreDeleteDirty, TidyDeleteDirty
      DEF Delete
    <3>4. CASE gc_collect
      BY <2>0, <3>4, TidyGcNode, TidyGcSector, TidyMoveAlloc, TidyErase DEF gc_collect
    <3>5. CASE ef_load_env
      BY <2>0, <3>5, TidyBoot, TidyHeaders, TidyRecoverEnv, TidyLoadEnd DEF ef_load_env
    <3> QED
      BY <3>1, <3>2, <3>3, <3>4, <3>5 DEF Step
  <2>2. \A k \in Keys : Stored(k)' = Stored(k)
    BY <2>1, StoredKept DEF StoreInv
  <2> QED
    BY <1>2, <2>2
<1> QED
  BY <1>1, <1>2

LEMMA CommittedStep ==
    ASSUME TwoSectors, StoreInv, StoreInv', Tidy, Reads, Reads', Committed, [Next]_vars
    PROVE  Committed'
<1> USE DEF Answered, InGc, GcWork, Job
<1>1. ASSUME Answered', request' = request, Answered,
             \A k \in Keys : Stored(k)' = Stored(k)
      PROVE  Committed'
  <2>1. ~Down /\ pc # "idle"
    BY <1>1, WhenDown DEF JobSteps, Copying
  <2>2. PICK k \in Keys : k = request.key
    BY <2>1 DEF Tidy, Asked
  <2>3. Stored(k)' = request.val
    BY <1>1, <2>2 DEF Committed
  <2>4. k = request'.key
    BY <1>1, <2>2
  <2> QED
    BY <1>1, <2>3, <2>4 DEF Committed
<1>2. CASE UNCHANGED vars
  <2>1. \A k \in Keys : Stored(k)' = Stored(k)
    BY <1>2, KeepsAll, StoredKept DEF vars, SameHolders, Keeps, StoreInv
  <2>2. Answered' = Answered /\ request' = request
    BY <1>2 DEF vars, ram
  <2> QED
    BY <1>1, <2>1, <2>2 DEF Committed
<1>3. CASE \/ \E k \in Keys, v \in Values : Call(k, v)
           \/ \E k \in Keys : ef_get_env(k)
           \/ PowerLoss
  <2>1. pc' \in {"alloc", "idle", "off"}
    BY <1>3 DEF Call, ef_get_env, PowerLoss
  <2> QED
    BY <2>1 DEF Committed, JobSteps, Copying
<1>4. CASE Step
  <2> SUFFICES ASSUME Answered' PROVE Committed'
    BY DEF Committed
  <2>1. CASE SetEnd
    <3>1. pc = "setend" /\ (pc' = "idle" \/ (pc' = "gc" /\ request' = request))
      BY <2>1 DEF SetEnd, StartGc
    <3>2. request' = request
      BY <3>1 DEF JobSteps, Copying
    <3>3. \A k \in Keys : Stored(k)' = Stored(k)
      BY <1>4, <3>1, StepValues DEF WriteDone
    <3> QED
      BY <1>1, <3>1, <3>2, <3>3
  <2>2. CASE ~SetEnd
    <3>1. Answered \/ (WriteDone /\ job.then = "setend")
      BY <1>4, <2>2, AnsweredLater
    <3>2. request' = request
      BY <1>4, <2>2, GoesOn DEF LoadEnd
    <3>3. CASE WriteDone /\ job.then = "setend"
      <4>1. pc = "write" /\ job.key \in Keys
        BY <3>3 DEF WriteDone, StoreInv, Control, JobSteps, Copying
      <4>2. request.key = job.key /\ request.val = job.val
        BY <3>3, <4>1 DEF Tidy, Carried, JobSteps, Copying
      <4>3. PICK k \in Keys : k = job.key
        BY <4>1
      <4>4. Stored(k)' = job.val
        BY <1>4, <3>3, <4>3, StepValues
      <4>5. k = request'.key /\ request'.val = job.val
        BY <3>2, <4>2, <4>3
      <4> QED
        BY <4>4, <4>5 DEF Committed
    <3>4. CASE ~(WriteDone /\ job.then = "setend")
      <4>1. \A k \in Keys : Stored(k)' = Stored(k)
        BY <1>4, <3>4, StepValues
      <4> QED
        BY <1>1, <3>1, <3>2, <3>4, <4>1
    <3> QED
      BY <3>3, <3>4
  <2> QED
    BY <2>1, <2>2
<1> QED
  BY <1>2, <1>3, <1>4 DEF Next

\* Every step is a step of the promise, or none.
LEMMA PromiseStep ==
    ASSUME TwoSectors, StoreInv, StoreInv', Tidy, Reads, Reads', Committed, [Next]_vars
    PROVE  [Promise!Next]_(Promise!vars)
<1> DEFINE values == [k \in Keys |-> Stored(k)]
           up == IF in_recovery_check \/ pc = "off" THEN 0 ELSE 1
<1>0. up = IF Down THEN 0 ELSE 1
  BY DEF Down
<1>1. up' = IF Down' THEN 0 ELSE 1
  BY DEF Down
<1>2. (\A k \in Keys : Stored(k)' = Stored(k)) => values' = values
  OBVIOUS
<1>3. flash' = flash => values' = values
  <2> SUFFICES ASSUME flash' = flash PROVE \A k \in Keys : Stored(k)' = Stored(k)
    BY <1>2
  <2> QED
    BY KeepsAll, StoredKept DEF SameHolders, Keeps, StoreInv
<1>4. ASSUME values' = values, request' = request, Down' = Down
      PROVE  UNCHANGED Promise!vars
  BY <1>0, <1>1, <1>4 DEF Promise!vars
<1>5. CASE UNCHANGED vars
  BY <1>3, <1>4, <1>5 DEF vars, ram, Down
<1>6. ASSUME NEW k \in Keys, NEW v \in Values, Call(k, v) PROVE Promise!Next
  <2>1. /\ pc = "idle" /\ pc' = "alloc" /\ flash' = flash
        /\ request' = [key |-> k, val |-> v] /\ in_recovery_check' = in_recovery_check
    BY <1>6 DEF Call
  <2>2. ~Down /\ ~Down' /\ request = None
    BY <2>1, WhenDown DEF Tidy, Asked, Down
  <2>3. [key |-> k, val |-> v] \in Promise!Requests
    BY DEF Promise!Requests
  <2>4. Promise!Call([key |-> k, val |-> v])
    BY <1>0, <1>1, <1>3, <2>1, <2>2 DEF Promise!Call
  <2> QED
    BY <2>3, <2>4 DEF Promise!Next
<1>7. ASSUME NEW k \in Keys, ef_get_env(k) PROVE UNCHANGED Promise!vars
  BY <1>3, <1>4, <1>7 DEF ef_get_env, Down
<1>8. CASE PowerLoss
  <2>1. flash' = flash /\ request' = None /\ Down'
    BY <1>8 DEF PowerLoss, Down
  <2> QED
    BY <1>1, <1>3, <2>1 DEF Promise!Next, Promise!Lose
<1>9. CASE SetEnd
  <2>1. /\ pc = "setend" /\ flash' = flash /\ in_recovery_check' = in_recovery_check
        /\ \/ pc' = "gc" /\ request' = request
           \/ pc' = "idle" /\ request' = None
    BY <1>9 DEF SetEnd, StartGc
  <2>2. ~Down /\ ~Down'
    BY <2>1, WhenDown DEF Down
  <2>3. CASE pc' = "gc" /\ request' = request
    <3>1. Down' = Down
      BY <2>1, <2>3 DEF Down
    <3> QED
      BY <1>3, <1>4, <2>1, <2>3, <3>1
  <2>4. CASE pc' = "idle" /\ request' = None
    <3>1. request \in [key : Keys, val : Values] /\ Stored(request.key) = request.val
      BY <2>1, <2>2 DEF Tidy, Asked, Committed, Answered
    <3>2. request # None
      BY <3>1, NoneIsNoCall DEF NoneIsNoCall
    <3> QED
      BY <1>0, <1>1, <1>3, <2>1, <2>2, <2>4, <3>1, <3>2 DEF Promise!Next, Promise!Return
  <2> QED
    BY <2>1, <2>3, <2>4
<1>10. CASE LoadEnd
  <2>1. /\ pc = "scanned" /\ flash' = flash /\ request' = request
        /\ \/ pc' = "gc" /\ in_recovery_check' = in_recovery_check
           \/ pc' = "idle" /\ in_recovery_check' = FALSE
    BY <1>10 DEF LoadEnd, StartGc
  <2>2. Down
    BY <2>1, WhenDown
  <2>3. CASE pc' = "gc" /\ in_recovery_check' = in_recovery_check
    BY <1>3, <1>4, <2>1, <2>2, <2>3 DEF Down
  <2>4. CASE pc' = "idle" /\ in_recovery_check' = FALSE
    <3>1. ~Down'
      BY <2>4 DEF Down
    <3> QED
      BY <1>0, <1>1, <1>3, <2>1, <2>2, <3>1 DEF Promise!Next, Promise!Recover
  <2> QED
    BY <2>1, <2>3, <2>4
<1>11. CASE Step /\ ~SetEnd /\ ~LoadEnd
  <2>1. request' = request /\ Down' = Down
    BY <1>11, GoesOn
  <2>2. CASE WriteDone /\ job.then = "setend"
    <3>1. pc = "write" /\ job.key \in Keys
      BY <2>2 DEF WriteDone, StoreInv, Control, JobSteps, Copying
    <3>2. ~Down /\ request.key = job.key /\ request.val = job.val
      BY <2>2, <3>1, WhenDown DEF Tidy, Carried, Job, JobSteps, Copying
    <3>3. request \in [key : Keys, val : Values]
      BY <3>1, <3>2 DEF Tidy, Asked
    <3>4. values' = [values EXCEPT ![request.key] = request.val]
      BY <1>11, <2>2, <3>2, StepValues
    <3>5. request # None
      BY <3>3, NoneIsNoCall DEF NoneIsNoCall
    <3> QED
      BY <1>0, <1>1, <2>1, <3>2, <3>4, <3>5 DEF Promise!Next, Promise!Commit
  <2>3. CASE ~(WriteDone /\ job.then = "setend")
    BY <1>2, <1>4, <1>11, <2>1, <2>3, StepValues
  <2> QED
    BY <2>2, <2>3
<1> QED
  BY <1>5, <1>6, <1>7, <1>8, <1>9, <1>10, <1>11, Zenon DEF Next

\* The values are those of a store in its first state.
LEMMA PromiseInit ==
    ASSUME TwoSectors, Init
    PROVE  Promise!Init /\ Committed
<1>1. StoreInv /\ Tidy
  BY StartsWell, StartsTidy
<1>2. Reads
  BY <1>1, StoredRead
<1>3. ASSUME NEW k \in Keys PROVE Stored(k) \in Values \cup {None}
  <2>1. CASE \E p \in Places : Current(p) /\ At(p).key = k
    <3>1. PICK p \in Places : Current(p) /\ At(p).key = k
      BY <2>1
    <3>2. p[1] \in Sectors /\ p[2] \in 1 .. Used(p[1]) /\ At(p) = flash[p[1]].nodes[p[2]]
      BY <1>1, <3>1, PlaceOf DEF Current, StoreInv
    <3>3. At(p).val \in Values
      BY <1>1, <3>1, <3>2 DEF Tidy, Whole, Current, IsValid
    <3> QED
      BY <1>2, <3>1, <3>3 DEF Reads
  <2>2. CASE ~\E p \in Places : Current(p) /\ At(p).key = k
    <3>1. ~Down /\ pc = "idle"
      BY DEF Init, Down
    <3>2. \A p \in Places : ~Doomed(p)
      BY <1>1, <3>1 DEF Tidy, Finished, Active, JobSteps, Copying
    <3> QED
      BY <1>2, <2>2, <3>2 DEF Reads
  <2> QED
    BY <2>1, <2>2
<1>4. [k \in Keys |-> Stored(k)] \in [Keys -> Values \cup {None}]
  BY <1>3
<1>5. request = None /\ pc = "idle" /\ in_recovery_check = FALSE
  BY DEF Init
<1>6. Committed
  BY <1>5 DEF Committed, Answered, InGc, GcWork, Job, JobSteps, Copying
<1> QED
  BY <1>4, <1>5, <1>6 DEF Promise!Init

\* ef_set_env is atomic and durable: a tidy store implements the promise.
LEMMA TidyKeepsPromise ==
    ASSUME TwoSectors PROVE Spec /\ []Tidy => ImplementsSettings
<1>1. Init => Promise!Init /\ Committed
  BY PromiseInit
<1>2. StoreInv /\ Tidy => Reads
  BY StoredRead
<1>3. StoreInv /\ StoreInv' /\ Tidy /\ Reads /\ Reads' /\ Committed /\ [Next]_vars => Committed'
  BY CommittedStep
<1>4. StoreInv /\ StoreInv' /\ Tidy /\ Reads /\ Reads' /\ Committed /\ [Next]_vars
         => [Promise!Next]_(Promise!vars)
  BY PromiseStep
<1> QED
  BY <1>1, <1>2, <1>3, <1>4, StoreInvariant, PTL DEF Spec, ImplementsSettings, Promise!Spec

\* Wherever two losses of power interrupt the calls of ef_set_env, garbage
\* collection and the boots, every variable has the old value until one write
\* gives it the new one, and the new one when the call returns: for all keys,
\* values and sizes of two sectors.
THEOREM SetIsAtomic ==
    ASSUME TwoSectors, MaxLosses <= 2 PROVE Spec => ImplementsSettings
<1> QED
  BY TidyTwice, TidyKeepsPromise, PTL

\* Both for any number of losses, none of which interrupts a boot: a boot that
\* comes to its end marks the node that was left unfinished, so that each loss
\* meets at most the one it causes (Settled).
THEOREM UndisturbedEnough ==
    ASSUME TwoSectors PROVE Spec /\ [][Undisturbed]_vars => []Findable /\ ImplementsSettings
<1>1. StoreInv /\ Tidy => Findable
  BY TidyIsFindable
<1> QED
  BY <1>1, StoreInvariant, TidyUndisturbed, TidyKeepsPromise, PTL

\* A loss of power does harm only in a call that finds a node an earlier loss
\* has left unfinished: with any number of losses that avoid this, in calls
\* and in boots, every variable is found and ef_set_env is atomic.
THEOREM OrderlyEnough ==
    ASSUME TwoSectors PROVE Spec /\ [][Orderly]_vars => []Findable /\ ImplementsSettings
<1>1. StoreInv /\ Tidy => Findable
  BY TidyIsFindable
<1> QED
  BY <1>1, StoreInvariant, Tidies, TidyKeepsPromise, PTL

\* new_env does not end a call: ef_set_env never returns EF_ENV_FULL.
NeverRefused == [][new_env => request' = request]_vars

\* NeverRefused for any number of losses of power: the sector in use has
\* room, or garbage that is collected, or room after its collection.
THEOREM RoomForEveryCall ==
    ASSUME TwoSectors PROVE Spec => NeverRefused
<1>1. StoreInv /\ [Next]_vars => [new_env => request' = request]_vars
  BY NeverFull
<1> QED
  BY <1>1, StoreInvariant, PTL DEF Spec, NeverRefused
=============================================================================
