-------------------------- MODULE Packaging_proofs --------------------------
(***************************************************************************)
(* Proofs about Packaging, for any number of items of any length and any   *)
(* PDU sizes.                                                              *)
(***************************************************************************)
EXTENDS Packaging, SequenceTheorems, FiniteSetTheorems, WellFoundedInduction, TLAPS

(* A set of positions has a first one.                                     *)
LEMMA FirstPosition ==
  ASSUME NEW S \in SUBSET Nat, S # {}
  PROVE  \E j \in S : \A l \in S : j <= l
<1>1. PICK x \in S : \A y \in S : ~ (<<y, x>> \in OpToRel(<, Nat))
  BY NatLessThanWellFounded, WFMin
<1>2. \A y \in S : ~ (y < x)
  BY <1>1, Zenon DEF OpToRel
<1>3. \A y \in S : x <= y
  BY <1>2
<1> QED BY <1>3

(* And a last one.                                                         *)
LEMMA LastPosition ==
  ASSUME NEW n \in Nat, NEW S \in SUBSET (1..n), S # {}
  PROVE  \E j \in S : \A l \in S : l <= j
<1> DEFINE T == {n - j : j \in S}
<1>1. /\ \A j \in S : j \in Nat /\ n - j \in Nat
      /\ T \in SUBSET Nat /\ T # {}
  <2>1. \A j \in S : j \in 1..n
    OBVIOUS
  <2>2. \A j \in S : j \in Nat /\ n - j \in Nat
    BY <2>1
  <2>3. T # {}
    <3>1. PICK j \in S : TRUE
      OBVIOUS
    <3> QED BY <3>1
  <2> QED BY <2>2, <2>3
<1>2. PICK t \in T : \A u \in T : t <= u
  BY <1>1, FirstPosition
<1>3. PICK j \in S : t = n - j
  BY <1>2
<1>4. \A l \in S : n - l \in T
  OBVIOUS
<1>5. ASSUME NEW l \in S PROVE l <= j
  <2>1. n - j <= n - l
    BY <1>2, <1>3, <1>4
  <2> QED BY <1>1, <2>1
<1> QED BY <1>3, <1>5

-----------------------------------------------------------------------------
(* What is true of a package that holds an item.  Size counts the fill     *)
(* bytes of a write, and for a read exceeds the answer without them; the   *)
(* fill bytes of an answer find room because TryAdd asks for the size of   *)
(* the whole package in what is left of it.                                *)

Fits(p) ==
  /\ p.parts # << >>
  /\ p.wire <= p.max
  /\ 12 + 12 * Len(p.parts) <= p.max

Sound(p) ==
  /\ Fits(p)
  /\ kind = "read" =>
       /\ p.sizeRequest = 12 + 12 * Len(p.parts)
       /\ p.sizeRequest <= p.size
       /\ p.sizeResponse <= p.size
       /\ p.wire <= p.sizeResponse + Len(p.parts) - 1
  /\ kind = "write" =>
       /\ p.size = EvenUp(p.wire)
       /\ 12 + 16 * Len(p.parts) <= p.wire

LongestSlice == IF kind = "read" THEN before - 18 ELSE before - 28

(* The item in hand; while there is none, no package is current.           *)
HandOK ==
  /\ pc \in {"whole", "cut", "place", "check"} => hand \in Items
  /\ pc \in {"next", "send"} => current = 0
  /\ pc = "cut" => processed < length[hand]

(* What is placed in a new package was short enough when it was cut.       *)
LengthOK ==
  /\ pdu <= before
  /\ pc = "whole" => length[hand] <= LongestSlice
  /\ pc = "place" => part.count <= LongestSlice
  /\ pc = "could_not_add" => pdu < before

PackagesOK ==
  /\ \A k \in 1..Len(open) : Sound(open[k])
  /\ pc = "send" => Sound(sending)

IInv == TypeOK /\ HandOK /\ LengthOK /\ PackagesOK

-----------------------------------------------------------------------------
(* Packages.                                                               *)

(* Rounding up adds one byte at most.                                      *)
LEMMA EvenUpBound ==
  ASSUME NEW n \in Nat
  PROVE  EvenUp(n) \in Nat /\ n <= EvenUp(n) /\ EvenUp(n) <= n + 1
<1>1. n % 2 \in 0..1
  OBVIOUS
<1> QED BY <1>1 DEF EvenUp

(* A PDU has room for the headers.                                         *)
LEMMA PduBound ==
  ASSUME NEW p \in Pdus
  PROVE  p \in Nat /\ p > 28
BY PdusAssumption

(* A new package is one.                                                   *)
LEMMA NewPackageType ==
  ASSUME pdu \in Pdus, kind \in {"read", "write"}
  PROVE  NewPackage \in PackageSet
<1>1. << >> \in Seq(PartSet)
  OBVIOUS
<1> QED BY <1>1 DEF NewPackage, PackageSet

(* TryAdd makes a package of a package.                                    *)
LEMMA AddType ==
  ASSUME NEW p \in PackageSet, NEW a \in PartSet
  PROVE  /\ Add(p, a) \in PackageSet
         /\ Add(p, a).max = p.max
         /\ Add(p, a).parts = Append(p.parts, a)
<1>0. p.parts \in Seq(PartSet) /\ p.max \in Pdus
  BY DEF PackageSet
<1>1. /\ p.sizeRequest \in Nat /\ p.sizeResponse \in Nat /\ p.size \in Nat /\ p.wire \in Nat
      /\ a.count \in Nat
  BY DEF PackageSet, PartSet
<1>2. Append(p.parts, a) \in Seq(PartSet)
  BY <1>0, AppendProperties
<1>3. /\ EvenUp(p.wire) + 4 + a.count \in Nat
      /\ EvenUp(p.wire) + 16 + a.count \in Nat
      /\ EvenUp(p.size + 16 + a.count) \in Nat
  <2>1. EvenUp(p.wire) \in Nat
    BY <1>1, EvenUpBound
  <2>2. p.size + 16 + a.count \in Nat
    BY <1>1
  <2>3. EvenUp(p.size + 16 + a.count) \in Nat
    BY <2>2, EvenUpBound
  <2> QED BY <1>1, <2>1, <2>3
<1>4. /\ p.sizeRequest + 12 \in Nat /\ p.sizeResponse + a.count + 4 \in Nat
      /\ ReadSize(p, a.count) \in Nat
  BY <1>1 DEF ReadSize, Larger
<1>5. AddRead(p, a) \in PackageSet
  BY <1>0, <1>1, <1>2, <1>3, <1>4 DEF AddRead, PackageSet
<1>6. AddWrite(p, a) \in PackageSet
  BY <1>0, <1>1, <1>2, <1>3 DEF AddWrite, PackageSet
<1>7. /\ AddRead(p, a).max = p.max /\ AddRead(p, a).parts = Append(p.parts, a)
      /\ AddWrite(p, a).max = p.max /\ AddWrite(p, a).parts = Append(p.parts, a)
  BY DEF AddRead, AddWrite, PackageSet
<1> QED BY <1>5, <1>6, <1>7 DEF Add

(* The arithmetic of TryAdd.  A read package of n items whose answer takes *)
(* response bytes and, with fill bytes, wire: max - size has room for the  *)
(* size after count bytes more, and size is at least 12 for each item,     *)
(* which is more than the fill bytes.                                      *)
LEMMA ReadRoom ==
  ASSUME NEW max \in Nat, NEW old \in Nat, NEW request \in Nat, NEW response \in Nat,
         NEW wire \in Nat, NEW even \in Nat, NEW c \in Nat, NEW n \in Nat, NEW new \in Nat,
         request = 12 + 12 * n, request <= old, wire <= response + n - 1, even <= wire + 1,
         new >= response + c + 4, new >= request + 12, max - old >= new
  PROVE  /\ even + 4 + c <= response + c + 4 + n
         /\ even + 4 + c <= max
         /\ 12 + 12 * (n + 1) <= max
OBVIOUS

(* A write package: fill bytes are part of its size.                       *)
LEMMA WriteRoom ==
  ASSUME NEW max \in Nat, NEW wire \in Nat, NEW even \in Nat, NEW c \in Nat, NEW n \in Nat,
         12 + 16 * n <= wire, wire <= even, max - even >= 16 + c
  PROVE  /\ 12 + 16 * (n + 1) <= even + 16 + c
         /\ even + 16 + c <= max
         /\ 12 + 12 * (n + 1) <= max
OBVIOUS

(* An item put into a package that holds others.                           *)
LEMMA AddToOpen ==
  ASSUME kind \in {"read", "write"},
         NEW p \in PackageSet, Sound(p), NEW a \in PartSet, CanAdd(p, a.count)
  PROVE  Sound(Add(p, a))
<1> DEFINE q == Add(p, a)
           n == Len(p.parts)
<1>1. p.parts \in Seq(PartSet)
  BY DEF PackageSet
<1>2. /\ p.max \in Nat
      /\ p.sizeRequest \in Nat /\ p.sizeResponse \in Nat /\ p.size \in Nat /\ p.wire \in Nat
      /\ a.count \in Nat
  BY PduBound DEF PackageSet, PartSet
<1>3. n \in Nat /\ q.parts # << >> /\ Len(q.parts) = n + 1
  BY <1>1, AddType, AppendProperties
<1>4. q.max = p.max
  BY AddType
<1>5. PICK even \in Nat : even = EvenUp(p.wire) /\ even <= p.wire + 1 /\ p.wire <= even
  BY <1>2, EvenUpBound
<1>6. even <= p.wire + 1 /\ p.wire <= even
  BY <1>5
<1>7. CASE kind = "read"
  <2>1. /\ q.sizeRequest = p.sizeRequest + 12
        /\ q.sizeResponse = p.sizeResponse + a.count + 4
        /\ q.size = ReadSize(p, a.count)
    BY <1>7 DEF Add, AddRead, PackageSet
  <2>2. q.wire = even + 4 + a.count
    BY <1>5, <1>7 DEF Add, AddRead, PackageSet
  <2>3. /\ p.max - p.size >= q.size
        /\ q.size \in Nat /\ q.size >= q.sizeRequest /\ q.size >= q.sizeResponse
    BY <1>2, <1>7, <2>1 DEF CanAdd, Free, ReadSize, Larger
  <2>4. p.sizeRequest = 12 + 12 * n /\ p.sizeRequest <= p.size /\ p.wire <= p.sizeResponse + n - 1
    BY <1>7 DEF Sound
  <2>5. q.sizeResponse = p.sizeResponse + a.count + 4 /\ q.sizeRequest = p.sizeRequest + 12
    BY <2>1
  <2>6. /\ even + 4 + a.count <= p.sizeResponse + a.count + 4 + n
        /\ even + 4 + a.count <= p.max
        /\ 12 + 12 * (n + 1) <= p.max
    <3>1. q.size >= p.sizeResponse + a.count + 4 /\ q.size >= p.sizeRequest + 12
      BY <2>3, <2>5
    <3> HIDE DEF q, n
    <3> QED BY <1>2, <1>3, <1>6, <2>3, <2>4, <3>1, ReadRoom
  <2>7. q.wire <= q.sizeResponse + (n + 1) - 1 /\ q.wire <= q.max
    <3>1. q.wire <= q.sizeResponse + n /\ q.wire <= q.max
      BY <1>4, <2>2, <2>5, <2>6
    <3>2. (n + 1) - 1 = n
      BY <1>3
    <3> QED BY <3>1, <3>2
  <2>8. 12 + 12 * (n + 1) <= q.max /\ q.sizeRequest = 12 + 12 * (n + 1)
    BY <1>3, <1>4, <2>4, <2>5, <2>6
  <2> QED BY <1>3, <1>7, <2>3, <2>6, <2>7, <2>8 DEF Sound, Fits, q, n
<1>8. CASE kind = "write"
  <2>1. q.size = EvenUp(p.size + 16 + a.count)
    BY <1>8 DEF Add, AddWrite, PackageSet
  <2>2. q.wire = even + 16 + a.count
    BY <1>5, <1>8 DEF Add, AddWrite, PackageSet
  <2>3. p.size = even /\ 12 + 16 * n <= p.wire
    BY <1>5, <1>8 DEF Sound
  <2>4. p.max - p.size >= 16 + a.count
    BY <1>8 DEF CanAdd, Free
  <2>5. q.size = EvenUp(q.wire)
    BY <2>1, <2>2, <2>3
  <2>6. /\ 12 + 16 * (n + 1) <= even + 16 + a.count
        /\ even + 16 + a.count <= p.max
        /\ 12 + 12 * (n + 1) <= p.max
    <3>1. p.max - even >= 16 + a.count
      BY <2>3, <2>4
    <3> HIDE DEF q, n
    <3> QED BY <1>2, <1>3, <1>6, <2>3, <3>1, WriteRoom
  <2>7. 12 + 16 * (n + 1) <= q.wire /\ q.wire <= q.max /\ 12 + 12 * (n + 1) <= q.max
    BY <1>4, <2>2, <2>6
  <2> QED BY <1>3, <1>8, <2>5, <2>7 DEF Sound, Fits, q, n
<1> QED BY <1>7, <1>8

(* The first item of a package.                                            *)
LEMMA AddToNew ==
  ASSUME kind \in {"read", "write"}, pdu \in Pdus,
         NEW a \in PartSet, CanAdd(NewPackage, a.count)
  PROVE  Add(NewPackage, a) \in PackageSet /\ Sound(Add(NewPackage, a))
<1> DEFINE q == Add(NewPackage, a)
<1>1. pdu \in Nat /\ pdu > 28 /\ a.count \in Nat
  BY PduBound DEF PartSet
<1>2. NewPackage \in PackageSet
  BY NewPackageType
<1>3. /\ NewPackage.max = pdu /\ NewPackage.parts = << >>
      /\ NewPackage.sizeRequest = 12 /\ NewPackage.sizeResponse = 14
  BY DEF NewPackage
<1>4. /\ q \in PackageSet /\ q.max = pdu
      /\ q.parts # << >> /\ Len(q.parts) = 1
  <2>1. << >> \in Seq(PartSet) /\ Len(<< >>) = 0
    OBVIOUS
  <2>2. q \in PackageSet /\ q.max = pdu /\ q.parts = Append(<< >>, a)
    BY <1>2, <1>3, AddType
  <2> QED BY <2>1, <2>2, AppendProperties
<1>5. EvenUp(12) = 12 /\ EvenUp(14) = 14
  BY DEF EvenUp
<1>6. CASE kind = "read"
  <2>1. NewPackage.size = 0 /\ NewPackage.wire = 14
    BY <1>6 DEF NewPackage
  <2>2. /\ q.sizeRequest = 24
        /\ q.sizeResponse = 14 + a.count + 4
        /\ q.size = ReadSize(NewPackage, a.count)
        /\ q.wire = 14 + 4 + a.count
    BY <1>2, <1>3, <1>5, <1>6, <2>1 DEF Add, AddRead, PackageSet
  <2>3. /\ pdu - 0 >= q.size
        /\ q.size \in Nat /\ q.size >= q.sizeRequest /\ q.size >= q.sizeResponse
    BY <1>1, <1>3, <1>6, <2>1, <2>2 DEF CanAdd, Free, ReadSize, Larger
  <2> QED BY <1>1, <1>4, <1>6, <2>2, <2>3 DEF Sound, Fits
<1>7. CASE kind = "write"
  <2>1. NewPackage.size = 12 /\ NewPackage.wire = 12
    BY <1>7 DEF NewPackage
  <2>2. /\ q.size = EvenUp(12 + 16 + a.count)
        /\ q.wire = 12 + 16 + a.count
    BY <1>2, <1>3, <1>5, <1>7, <2>1 DEF Add, AddWrite, PackageSet
  <2>3. pdu - 12 >= 16 + a.count
    BY <1>3, <1>7, <2>1 DEF CanAdd, Free
  <2>4. q.wire <= q.max /\ 12 + 12 * Len(q.parts) <= q.max /\ 12 + 16 * Len(q.parts) <= q.wire
    BY <1>1, <1>4, <2>2, <2>3
  <2>5. q.size = EvenUp(q.wire)
    BY <2>2
  <2> QED BY <1>4, <1>7, <2>4, <2>5 DEF Sound, Fits
<1> QED BY <1>4, <1>6, <1>7

(* A slice of the length the context allows finds room in a new package.   *)
LEMMA SliceHasRoom ==
  ASSUME kind \in {"read", "write"}, pdu \in Pdus, pdu = before,
         NEW n \in Nat, n <= LongestSlice
  PROVE  CanAdd(NewPackage, n)
<1>1. pdu \in Nat /\ pdu > 28
  BY PduBound
<1>2. CASE kind = "read"
  BY <1>1, <1>2 DEF CanAdd, Free, ReadSize, Larger, NewPackage, LongestSlice
<1>3. CASE kind = "write"
  BY <1>1, <1>3 DEF CanAdd, Free, NewPackage, LongestSlice
<1> QED BY <1>2, <1>3

-----------------------------------------------------------------------------
(* The initial states, and the actions one by one.                         *)

LEMMA InitInvariant == Init => IInv
<1> SUFFICES ASSUME Init PROVE IInv
  OBVIOUS
<1> USE DEF Init
<1>1. TypeOK
  <2>1. todo \in Seq(Items)
    BY CountAssumption DEF Items
  <2>2. NewPackage \in PackageSet
    BY NewPackageType
  <2>3. result \in [Items -> [code : Codes \cup {"none"}, data : SUBSET Nat]]
    <3>1. Initially(kind) \in [code : Codes \cup {"none"}, data : SUBSET Nat]
      BY CodesAssumption DEF Initially, Nothing
    <3> QED BY <3>1
  <2>4. part \in PartSet
    BY DEF Part, PartSet
  <2>5. open \in Seq(PackageSet) /\ current \in 0..Len(open)
    OBVIOUS
  <2>6. log \in Seq([item : Items \cup {0}, from : Nat, count : Nat, code : Codes])
    OBVIOUS
  <2>7. pc \in {"next", "whole", "cut", "place", "check", "send"} \cup Ended
    OBVIOUS
  <2> QED BY <2>1, <2>2, <2>3, <2>4, <2>5, <2>6, <2>7 DEF TypeOK
<1>2. HandOK /\ LengthOK
  BY PduBound DEF HandOK, LengthOK
<1>3. PackagesOK
  BY DEF PackagesOK
<1> QED BY <1>1, <1>2, <1>3 DEF IInv

(* Where an item of that length is found or cut.                           *)
LEMMA LengthType ==
  ASSUME TypeOK, NEW i \in Items
  PROVE  length[i] \in Nat
BY SizesAssumption DEF TypeOK

(* A package is sound for one kind of call.                                *)
LEMMA SoundStays ==
  ASSUME kind' = kind, \A j \in 1..Len(open') : Sound(open'[j])
  PROVE  (\A j \in 1..Len(open) : Sound(open[j]))'
BY DEF Sound, Fits

(* A package that takes another part stays in its place.                   *)
LEMMA AddAt ==
  ASSUME TypeOK, PackagesOK, NEW k \in DOMAIN open, NEW a \in PartSet,
         CanAdd(open[k], a.count),
         open' = [open EXCEPT ![k] = Add(open[k], a)], kind' = kind
  PROVE  /\ open' \in Seq(PackageSet) /\ Len(open') = Len(open)
         /\ (\A j \in 1..Len(open) : Sound(open[j]))'
<1>1. open \in Seq(PackageSet) /\ kind \in {"read", "write"}
  BY DEF TypeOK
<1>2. k \in 1..Len(open) /\ open[k] \in PackageSet /\ Sound(open[k])
  BY <1>1 DEF PackagesOK
<1>3. Add(open[k], a) \in PackageSet /\ Sound(Add(open[k], a))
  BY <1>1, <1>2, AddType, AddToOpen
<1>4. /\ open' \in Seq(PackageSet) /\ Len(open') = Len(open)
      /\ \A j \in 1..Len(open) : open'[j] = IF j = k THEN Add(open[k], a) ELSE open[j]
  BY <1>1, <1>2, <1>3, ExceptSeq
<1>5. \A j \in 1..Len(open') : Sound(open'[j])
  BY <1>3, <1>4 DEF PackagesOK
<1> QED BY <1>4, <1>5, SoundStays

(* A new package at the end of the list.                                   *)
LEMMA AddAtEnd ==
  ASSUME TypeOK, PackagesOK, NEW a \in PartSet, CanAdd(NewPackage, a.count),
         open' = Append(open, Add(NewPackage, a)), kind' = kind
  PROVE  /\ open' \in Seq(PackageSet) /\ Len(open') = Len(open) + 1
         /\ (\A j \in 1..Len(open) : Sound(open[j]))'
<1>1. /\ open \in Seq(PackageSet) /\ Len(open) \in Nat
      /\ kind \in {"read", "write"} /\ pdu \in Pdus
  BY LenProperties DEF TypeOK
<1>2. Add(NewPackage, a) \in PackageSet /\ Sound(Add(NewPackage, a))
  BY <1>1, AddToNew
<1>3. /\ open' \in Seq(PackageSet) /\ Len(open') = Len(open) + 1
      /\ \A j \in 1..Len(open) : open'[j] = open[j]
      /\ open'[Len(open) + 1] = Add(NewPackage, a)
  BY <1>1, <1>2, AppendProperties
<1>4. ASSUME NEW j \in 1..Len(open') PROVE Sound(open'[j])
  <2>1. j \in 1..Len(open) \/ j = Len(open) + 1
    BY <1>1, <1>3
  <2> QED BY <1>2, <1>3, <2>1 DEF PackagesOK
<1> QED BY <1>3, <1>4, SoundStays

(* A sequence without one of its elements.                                 *)
LEMMA WithoutOne ==
  ASSUME NEW S, NEW s \in Seq(S), NEW k \in 1..Len(s)
  PROVE  /\ RemoveAt(s, k) \in Seq(S) /\ Len(RemoveAt(s, k)) = Len(s) - 1
         /\ \A j \in 1..(Len(s) - 1) : RemoveAt(s, k)[j] = IF j < k THEN s[j] ELSE s[j + 1]
<1> DEFINE front == SubSeq(s, 1, k - 1)
           back == SubSeq(s, k + 1, Len(s))
<1>1. Len(s) \in Nat
  BY LenProperties
<1>2. /\ front \in Seq(S) /\ Len(front) = k - 1
      /\ \A j \in 1..(k - 1) : front[j] = s[j]
  <2>1. /\ 1 \in Int /\ k - 1 \in Int /\ \A i \in 1..(k - 1) : s[i] \in S
        /\ (k - 1) - 1 + 1 = k - 1
    BY <1>1
  <2>2. \A j \in 1..(k - 1) : 1 + j - 1 = j
    OBVIOUS
  <2>3. /\ front \in Seq(S)
        /\ Len(front) = IF 1 <= k - 1 THEN (k - 1) - 1 + 1 ELSE 0
        /\ \A j \in 1..((k - 1) - 1 + 1) : front[j] = s[1 + j - 1]
    BY <2>1, SubSeqProperties
  <2>4. (IF 1 <= k - 1 THEN (k - 1) - 1 + 1 ELSE 0) = k - 1
    OBVIOUS
  <2> QED BY <2>1, <2>2, <2>3, <2>4
<1>3. /\ back \in Seq(S) /\ Len(back) = Len(s) - k
      /\ \A j \in 1..(Len(s) - k) : back[j] = s[k + j]
  <2>1. /\ k + 1 \in Int /\ Len(s) \in Int
        /\ \A i \in (k + 1)..Len(s) : s[i] \in S
        /\ Len(s) - (k + 1) + 1 = Len(s) - k
    BY <1>1
  <2>2. \A j \in 1..(Len(s) - k) : k + 1 + j - 1 = k + j
    BY <1>1
  <2>3. /\ back \in Seq(S)
        /\ Len(back) = IF k + 1 <= Len(s) THEN Len(s) - (k + 1) + 1 ELSE 0
        /\ \A j \in 1..(Len(s) - (k + 1) + 1) : back[j] = s[k + 1 + j - 1]
    BY <2>1, SubSeqProperties
  <2>4. (IF k + 1 <= Len(s) THEN Len(s) - (k + 1) + 1 ELSE 0) = Len(s) - k
    BY <1>1
  <2> QED BY <2>1, <2>2, <2>3, <2>4
<1>4. RemoveAt(s, k) = front \o back
  BY DEF RemoveAt
<1> HIDE DEF front, back
<1>5. /\ RemoveAt(s, k) \in Seq(S) /\ Len(RemoveAt(s, k)) = Len(front) + Len(back)
      /\ \A j \in 1..(Len(front) + Len(back)) :
           RemoveAt(s, k)[j] = IF j <= Len(front) THEN front[j] ELSE back[j - Len(front)]
  <2>1. front \in Seq(S) /\ back \in Seq(S)
    BY <1>2, <1>3
  <2>2. /\ front \o back \in Seq(S) /\ Len(front \o back) = Len(front) + Len(back)
        /\ \A j \in 1..(Len(front) + Len(back)) :
             (front \o back)[j] = IF j <= Len(front) THEN front[j] ELSE back[j - Len(front)]
    BY <2>1, ConcatProperties, Zenon
  <2> QED BY <1>4, <2>2, Zenon
<1>6. ASSUME NEW j \in 1..(Len(s) - 1)
      PROVE  RemoveAt(s, k)[j] = IF j < k THEN s[j] ELSE s[j + 1]
  <2>1. CASE j < k
    <3>1. j \in 1..(k - 1) /\ j <= Len(front) /\ j \in 1..(Len(front) + Len(back))
      BY <1>1, <1>2, <1>3, <2>1
    <3> QED BY <1>2, <1>5, <2>1, <3>1
  <2>2. CASE ~ (j < k)
    <3>1. /\ ~ (j <= Len(front)) /\ j \in 1..(Len(front) + Len(back))
          /\ j - Len(front) \in 1..(Len(s) - k) /\ k + (j - Len(front)) = j + 1
      BY <1>1, <1>2, <1>3, <2>2
    <3> QED BY <1>3, <1>5, <2>2, <3>1
  <2> QED BY <2>1, <2>2
<1>7. Len(front) + Len(back) = Len(s) - 1
  BY <1>1, <1>2, <1>3
<1>8. Len(RemoveAt(s, k)) = Len(s) - 1
  BY <1>5, <1>7
<1>9. RemoveAt(s, k) \in Seq(S)
  BY <1>5
<1> QED BY <1>6, <1>8, <1>9

(* A package taken off the list.                                           *)
LEMMA TakeAway ==
  ASSUME TypeOK, PackagesOK, NEW k \in 1..Len(open),
         open' = RemoveAt(open, k), kind' = kind
  PROVE  /\ open' \in Seq(PackageSet)
         /\ (\A j \in 1..Len(open) : Sound(open[j]))'
<1>1. open \in Seq(PackageSet) /\ Len(open) \in Nat
  BY LenProperties DEF TypeOK
<1>2. /\ open' \in Seq(PackageSet) /\ Len(open') = Len(open) - 1
      /\ \A j \in 1..(Len(open) - 1) : open'[j] = IF j < k THEN open[j] ELSE open[j + 1]
  BY <1>1, WithoutOne
<1>3. ASSUME NEW j \in 1..Len(open') PROVE Sound(open'[j])
  <2>1. j \in 1..(Len(open) - 1) /\ j \in 1..Len(open) /\ j + 1 \in 1..Len(open)
    BY <1>1, <1>2
  <2>2. CASE j < k
    BY <1>2, <2>1, <2>2 DEF PackagesOK
  <2>3. CASE ~ (j < k)
    BY <1>2, <2>1, <2>3 DEF PackagesOK
  <2> QED BY <2>2, <2>3
<1> QED BY <1>2, <1>3, SoundStays

-----------------------------------------------------------------------------
(* Packing.                                                                *)

LEMMA TakeItemStep ==
  ASSUME IInv, TakeItem
  PROVE  IInv'
<1> USE DEF IInv
<1> DEFINE i == Head(todo)
           n == length[i]
<1>1. i \in Items /\ Tail(todo) \in Seq(Items)
  BY HeadTailProperties DEF TakeItem, TypeOK
<1>2. n \in Nat /\ Part(i, 0, n) \in PartSet /\ Part(i, 0, n).count = n
  BY <1>1, LengthType DEF Part, PartSet
<1>3. hand' = i /\ todo' = Tail(todo)
  BY DEF TakeItem
<1>4. UNCHANGED <<called, pdu, part, sending, answered>>
  BY DEF TakeItem
<1>5. CASE \E k \in DOMAIN open :
             /\ FirstFit(n, k)
             /\ open' = [open EXCEPT ![k] = Add(open[k], Part(i, 0, n))]
             /\ current' = k
             /\ processed' = n
             /\ pc' = "check"
  <2>1. PICK k \in DOMAIN open :
             /\ FirstFit(n, k)
             /\ open' = [open EXCEPT ![k] = Add(open[k], Part(i, 0, n))]
             /\ current' = k
             /\ processed' = n
             /\ pc' = "check"
    BY <1>5
  <2>2. /\ open' \in Seq(PackageSet) /\ Len(open') = Len(open)
        /\ (\A j \in 1..Len(open) : Sound(open[j]))'
    BY <1>2, <1>4, <2>1, AddAt DEF FirstFit, called
  <2>3. k \in 1..Len(open)
    BY <2>1 DEF TypeOK
  <2>4. current' \in 0..Len(open')
    BY <2>1, <2>2, <2>3
  <2>5. TypeOK'
    BY <1>1, <1>2, <1>3, <1>4, <2>1, <2>2, <2>4 DEF TypeOK, called, answered
  <2>6. HandOK' /\ LengthOK' /\ PackagesOK'
    BY <1>1, <1>3, <1>4, <2>1, <2>2 DEF HandOK, LengthOK, PackagesOK, LongestSlice, called
  <2> QED BY <2>5, <2>6
<1>6. CASE /\ NoFit(n)
           /\ current' = 0
           /\ processed' = 0
           /\ pc' = IF n > ItemMaxLength THEN "cut" ELSE "whole"
           /\ UNCHANGED open
  <2>1. TypeOK'
    <3>1. current' \in 0..Len(open')
      BY <1>6, LenProperties DEF TypeOK
    <3>2. pc' \in {"cut", "whole"} /\ processed' \in Nat
      BY <1>6
    <3> QED BY <1>1, <1>3, <1>4, <1>6, <3>1, <3>2 DEF TypeOK, called, answered
  <2>2. pdu \in Nat /\ pdu > 28 /\ before \in Nat /\ pdu <= before /\ kind \in {"read", "write"}
    BY PduBound DEF TypeOK, LengthOK
  <2>3. pc' = "cut" => n > 0
    BY <1>2, <1>6, <2>2 DEF ItemMaxLength
  <2>4. pc' = "whole" => n <= LongestSlice
    BY <1>2, <1>6, <2>2 DEF ItemMaxLength, LongestSlice
  <2>5. HandOK'
    BY <1>1, <1>2, <1>3, <1>4, <1>6, <2>3 DEF HandOK, called
  <2>6. LengthOK'
    BY <1>3, <1>4, <1>6, <2>4 DEF LengthOK, LongestSlice, called
  <2>7. PackagesOK'
    BY <1>4, <1>6 DEF PackagesOK, Sound, Fits, called
  <2> QED BY <2>1, <2>5, <2>6, <2>7
<1> QED BY <1>5, <1>6 DEF TakeItem

LEMMA PlaceWholeStep ==
  ASSUME IInv, PlaceWhole
  PROVE  IInv'
<1> USE DEF IInv
<1> DEFINE n == length[hand]
<1>1. hand \in Items /\ n <= LongestSlice
  BY DEF PlaceWhole, HandOK, LengthOK
<1>2. n \in Nat /\ Part(hand, 0, n) \in PartSet /\ Part(hand, 0, n).count = n
  BY <1>1, LengthType DEF Part, PartSet
<1>3. UNCHANGED <<called, pdu, todo, hand, part, sending, answered>>
  BY DEF PlaceWhole
<1>4. CASE /\ CanAdd(NewPackage, n)
           /\ open' = Append(open, Add(NewPackage, Part(hand, 0, n)))
           /\ current' = Len(open) + 1
           /\ processed' = n
           /\ pc' = "check"
  <2>1. /\ open' \in Seq(PackageSet) /\ Len(open') = Len(open) + 1
        /\ (\A j \in 1..Len(open) : Sound(open[j]))'
    BY <1>2, <1>3, <1>4, AddAtEnd DEF called
  <2>2. current' \in 0..Len(open')
    BY <1>4, <2>1, LenProperties DEF TypeOK
  <2>3. TypeOK'
    BY <1>2, <1>3, <1>4, <2>1, <2>2 DEF TypeOK, called, answered
  <2>4. HandOK' /\ LengthOK' /\ PackagesOK'
    BY <1>1, <1>3, <1>4, <2>1 DEF HandOK, LengthOK, PackagesOK, LongestSlice, called
  <2> QED BY <2>3, <2>4
<1>5. CASE /\ ~ CanAdd(NewPackage, n)
           /\ pc' = "could_not_add"
           /\ UNCHANGED <<open, current, processed>>
  <2>1. TypeOK'
    BY <1>3, <1>5 DEF TypeOK, called, answered, Ended
  <2>2. pdu < before
    <3>1. pdu # before
      BY <1>1, <1>2, <1>5, SliceHasRoom DEF TypeOK
    <3>2. pdu \in Nat /\ before \in Nat /\ pdu <= before
      BY PduBound DEF TypeOK, LengthOK
    <3> QED BY <3>1, <3>2
  <2>3. HandOK' /\ LengthOK' /\ PackagesOK'
    BY <1>3, <1>5, <2>2 DEF HandOK, LengthOK, PackagesOK, Sound, Fits, called
  <2> QED BY <2>1, <2>3
<1> QED BY <1>4, <1>5 DEF PlaceWhole

LEMMA CutStep ==
  ASSUME IInv, Cut
  PROVE  IInv'
<1> USE DEF IInv
<1> DEFINE rest == length[hand] - processed
<1>1. hand \in Items /\ processed \in Nat /\ processed < length[hand]
  BY DEF Cut, HandOK, TypeOK
<1>2. length[hand] \in Nat /\ rest \in Nat
  BY <1>1, LengthType
<1>3. /\ pdu \in Nat /\ pdu > 28 /\ before \in Nat /\ pdu <= before
      /\ kind \in {"read", "write"}
  BY PduBound DEF TypeOK, LengthOK
<1>4. ItemMaxLength \in Nat /\ ItemMaxLength <= LongestSlice
  BY <1>3 DEF ItemMaxLength, LongestSlice
<1>5. Smaller(ItemMaxLength, rest) \in Nat /\ Smaller(ItemMaxLength, rest) <= LongestSlice
  <2>1. LongestSlice \in Int
    BY <1>3 DEF LongestSlice
  <2> HIDE DEF rest
  <2> QED BY <1>2, <1>4, <2>1 DEF Smaller
<1>6. /\ part' = Part(hand, processed, Smaller(ItemMaxLength, rest))
      /\ processed' = processed + part'.count /\ pc' = "place"
      /\ UNCHANGED <<called, pdu, todo, hand, current, open, sending, answered>>
  BY DEF Cut
<1>7. part' \in PartSet /\ part'.count \in Nat /\ part'.count <= LongestSlice
  BY <1>1, <1>5, <1>6 DEF Part, PartSet
<1>8. processed' \in Nat
  BY <1>1, <1>6, <1>7
<1>9. TypeOK'
  BY <1>6, <1>7, <1>8 DEF TypeOK, called, answered
<1>10. HandOK' /\ LengthOK' /\ PackagesOK'
  BY <1>1, <1>6, <1>7 DEF HandOK, LengthOK, LongestSlice, PackagesOK, Sound, Fits, called
<1> QED BY <1>9, <1>10

LEMMA PlaceInOpenStep ==
  ASSUME IInv, PlaceInOpen
  PROVE  IInv'
<1> USE DEF IInv
<1>1. PICK k \in DOMAIN open : /\ FirstFit(part.count, k)
                               /\ open' = [open EXCEPT ![k] = Add(open[k], part)]
                               /\ current' = k
  BY DEF PlaceInOpen
<1>2. UNCHANGED <<called, pdu, todo, hand, processed, part, sending, answered>>
  BY DEF PlaceInOpen
<1>3. /\ open' \in Seq(PackageSet) /\ Len(open') = Len(open)
      /\ (\A j \in 1..Len(open) : Sound(open[j]))'
  <2>1. part \in PartSet
    BY DEF TypeOK
  <2> QED BY <1>1, <1>2, <2>1, AddAt DEF FirstFit, called
<1>4. current' \in 0..Len(open')
  <2>1. k \in 1..Len(open)
    BY <1>1 DEF TypeOK
  <2> QED BY <1>1, <1>3, <2>1
<1>5. /\ pc' \in {"cut", "check"} /\ hand \in Items
      /\ pc' = "cut" => processed < length[hand]
  BY DEF PlaceInOpen, Onward, HandOK
<1>6. TypeOK'
  BY <1>2, <1>3, <1>4, <1>5 DEF TypeOK, called, answered
<1>7. HandOK' /\ LengthOK' /\ PackagesOK'
  BY <1>2, <1>3, <1>5 DEF HandOK, LengthOK, PackagesOK, called
<1> QED BY <1>6, <1>7

LEMMA PlaceInNewStep ==
  ASSUME IInv, PlaceInNew
  PROVE  IInv'
<1> USE DEF IInv
<1> DEFINE new == Add(NewPackage, part)
<1>1. UNCHANGED <<called, pdu, todo, hand, processed, part, answered>>
  BY DEF PlaceInNew
<1>2. /\ part \in PartSet /\ part.count \in Nat /\ part.count <= LongestSlice
      /\ kind \in {"read", "write"} /\ pdu \in Pdus /\ hand \in Items
  BY DEF TypeOK, PartSet, LengthOK, HandOK, PlaceInNew
<1>3. Onward \in {"cut", "check"} /\ (Onward = "cut" => processed < length[hand])
  BY DEF Onward
<1>4. CASE pc' = Onward /\ UNCHANGED <<open, sending, current>>
  <2>1. TypeOK'
    BY <1>1, <1>3, <1>4 DEF TypeOK, called, answered
  <2>2. HandOK' /\ LengthOK' /\ PackagesOK'
    BY <1>1, <1>2, <1>3, <1>4 DEF HandOK, LengthOK, PackagesOK, Sound, Fits, called
  <2> QED BY <2>1, <2>2
<1>5. CASE /\ CanAdd(NewPackage, part.count)
           /\ sending' = new
           /\ current' = 0
           /\ pc' = "send"
           /\ UNCHANGED open
  <2>1. new \in PackageSet /\ Sound(new)
    BY <1>2, <1>5, AddToNew
  <2>2. current' \in 0..Len(open')
    BY <1>5, LenProperties DEF TypeOK
  <2> HIDE DEF new
  <2>3. TypeOK'
    BY <1>1, <1>5, <2>1, <2>2 DEF TypeOK, called, answered
  <2>4. Sound(sending)'
    BY <1>1, <1>5, <2>1 DEF Sound, Fits, called
  <2>5. HandOK' /\ LengthOK'
    BY <1>1, <1>5 DEF HandOK, LengthOK, called
  <2>6. PackagesOK'
    BY <1>1, <1>5, <2>4 DEF PackagesOK, Sound, Fits, called
  <2> QED BY <2>3, <2>5, <2>6
<1>6. CASE /\ CanAdd(NewPackage, part.count)
           /\ open' = Append(open, new)
           /\ current' = Len(open) + 1
           /\ pc' = Onward
           /\ UNCHANGED sending
  <2>1. /\ open' \in Seq(PackageSet) /\ Len(open') = Len(open) + 1
        /\ (\A j \in 1..Len(open) : Sound(open[j]))'
    BY <1>1, <1>2, <1>6, AddAtEnd DEF called
  <2>2. current' \in 0..Len(open')
    BY <1>6, <2>1, LenProperties DEF TypeOK
  <2>3. TypeOK'
    BY <1>1, <1>3, <1>6, <2>1, <2>2 DEF TypeOK, called, answered
  <2>4. HandOK' /\ LengthOK' /\ PackagesOK'
    BY <1>1, <1>2, <1>3, <1>6, <2>1 DEF HandOK, LengthOK, PackagesOK, called
  <2> QED BY <2>3, <2>4
<1>7. CASE /\ ~ CanAdd(NewPackage, part.count)
           /\ pc' = "could_not_add"
           /\ UNCHANGED <<open, sending, current>>
  <2>1. pdu < before
    <3>1. pdu # before
      BY <1>2, <1>7, SliceHasRoom
    <3>2. pdu \in Nat /\ before \in Nat /\ pdu <= before
      BY PduBound DEF TypeOK, LengthOK
    <3> QED BY <3>1, <3>2
  <2>2. TypeOK'
    BY <1>1, <1>7 DEF TypeOK, called, answered, Ended
  <2>3. HandOK' /\ LengthOK' /\ PackagesOK'
    BY <1>1, <1>7, <2>1 DEF HandOK, LengthOK, PackagesOK, Sound, Fits, called
  <2> QED BY <2>2, <2>3
<1> QED BY <1>4, <1>5, <1>6, <1>7 DEF PlaceInNew

LEMMA CheckStep ==
  ASSUME IInv, Check
  PROVE  IInv'
<1> USE DEF IInv
<1>1. current' = 0 /\ UNCHANGED <<called, pdu, todo, hand, processed, part, answered>>
  BY DEF Check
<1>2. CASE /\ current # 0
           /\ sending' = open[current]
           /\ open' = RemoveAt(open, current)
           /\ pc' = "send"
  <2>1. current \in 1..Len(open)
    BY <1>2, LenProperties DEF TypeOK
  <2>2. open[current] \in PackageSet /\ Sound(open[current])
    BY <2>1 DEF TypeOK, PackagesOK
  <2>3. /\ open' \in Seq(PackageSet)
        /\ (\A j \in 1..Len(open) : Sound(open[j]))'
    BY <1>1, <1>2, <2>1, TakeAway DEF called
  <2>4. current' \in 0..Len(open')
    BY <1>1, <2>3, LenProperties
  <2>5. TypeOK'
    BY <1>1, <1>2, <2>2, <2>3, <2>4 DEF TypeOK, called, answered
  <2>6. Sound(sending)'
    BY <1>1, <1>2, <2>2 DEF Sound, Fits, called
  <2>7. HandOK' /\ LengthOK' /\ PackagesOK'
    BY <1>1, <1>2, <2>3, <2>6 DEF HandOK, LengthOK, PackagesOK, called
  <2> QED BY <2>5, <2>7
<1>3. CASE pc' = "next" /\ UNCHANGED <<sending, open>>
  <2>1. current' \in 0..Len(open')
    BY <1>1, <1>3, LenProperties DEF TypeOK
  <2>2. TypeOK'
    BY <1>1, <1>3, <2>1 DEF TypeOK, called, answered
  <2>3. HandOK' /\ LengthOK' /\ PackagesOK'
    BY <1>1, <1>3 DEF HandOK, LengthOK, PackagesOK, Sound, Fits, called
  <2> QED BY <2>2, <2>3
<1> QED BY <1>2, <1>3 DEF Check

LEMMA FlushStep ==
  ASSUME IInv, Flush
  PROVE  IInv'
<1> USE DEF IInv
<1>1. /\ sending' = Head(open) /\ open' = Tail(open) /\ pc' = "send" /\ current = 0
      /\ UNCHANGED <<called, pdu, todo, hand, processed, part, current, answered>>
  BY DEF Flush, HandOK
<1>2. /\ sending' \in PackageSet /\ open' \in Seq(PackageSet)
      /\ Sound(sending') /\ Len(open') = Len(open) - 1 /\ Len(open) \in Nat
      /\ \A j \in 1..Len(open') : open'[j] = open[j + 1]
  <2>1. open \in Seq(PackageSet) /\ open # << >>
    BY DEF Flush, TypeOK
  <2>2. 1 \in 1..Len(open) /\ Head(open) = open[1] /\ Len(open) \in Nat
    BY <2>1, HeadTailProperties, EmptySeq, LenProperties
  <2>3. Sound(Head(open))
    BY <2>2 DEF PackagesOK
  <2> QED BY <1>1, <2>1, <2>2, <2>3, HeadTailProperties
<1>3. current' \in 0..Len(open')
  BY <1>1, <1>2, LenProperties
<1>4. TypeOK'
  BY <1>1, <1>2, <1>3 DEF TypeOK, called, answered
<1>5. \A j \in 1..Len(open') : Sound(open'[j])
  <2>1. ASSUME NEW j \in 1..Len(open') PROVE Sound(open'[j])
    <3>1. j + 1 \in 1..Len(open) /\ open'[j] = open[j + 1]
      BY <1>2
    <3> QED BY <3>1 DEF PackagesOK
  <2> QED BY <2>1
<1>6. PackagesOK'
  BY <1>1, <1>2, <1>5 DEF PackagesOK, Sound, Fits, called
<1>7. HandOK' /\ LengthOK'
  BY <1>1 DEF HandOK, LengthOK, called
<1> QED BY <1>4, <1>6, <1>7

LEMMA FinishStep ==
  ASSUME IInv, Finish
  PROVE  IInv'
<1> USE DEF IInv
<1>1. /\ pc' \in {"thrown", "complete"}
      /\ UNCHANGED <<called, pdu, todo, hand, processed, part, current, open, sending, answered>>
  BY DEF Finish
<1>2. TypeOK'
  BY <1>1 DEF TypeOK, called, answered, Ended
<1>3. HandOK' /\ LengthOK' /\ PackagesOK'
  BY <1>1 DEF HandOK, LengthOK, PackagesOK, Sound, Fits, called
<1> QED BY <1>2, <1>3

-----------------------------------------------------------------------------
(* Exchanging a package.                                                   *)

ResultSet == [code : Codes \cup {"none"}, data : SUBSET Nat]
EntrySet == [item : Items \cup {0}, from : Nat, count : Nat, code : Codes]

(* Where the enumeration goes on.                                          *)
LEMMA ResumeBack ==
  ASSUME TypeOK
  PROVE  /\ Resume \in {"cut", "next"}
         /\ Resume = "cut" => hand \in Items /\ processed < length[hand]
BY DEF Resume, TypeOK

(* The parts of the package of one item, by position.                      *)
LEMMA PartsOfType ==
  ASSUME TypeOK, NEW i
  PROVE  /\ Len(sending.parts) \in Nat
         /\ DOMAIN sending.parts = 1..Len(sending.parts)
         /\ PartsOf(i) \in SUBSET (1..Len(sending.parts))
         /\ PartsOf(i) \in SUBSET Nat
         /\ \A j \in DOMAIN sending.parts : sending.parts[j] \in PartSet
<1>1. sending.parts \in Seq(PartSet)
  BY DEF TypeOK, PackageSet
<1>2. /\ Len(sending.parts) \in Nat
      /\ DOMAIN sending.parts = 1..Len(sending.parts)
      /\ \A j \in DOMAIN sending.parts : sending.parts[j] \in PartSet
  BY <1>1, LenProperties
<1> QED BY <1>2 DEF PartsOf

(* BildResults makes a result of a result.                                 *)
LEMMA ReadResultType ==
  ASSUME TypeOK, NEW i \in Items, NEW codes \in [DOMAIN sending.parts -> Codes]
  PROVE  ReadResult(i, codes) \in ResultSet
<1> DEFINE mine == PartsOf(i)
           filled == UNION {Bytes(sending.parts[j]) : j \in {l \in mine : codes[l] = Success}}
<1>1. result[i] \in ResultSet
  BY DEF TypeOK, ResultSet
<1>2. CASE mine = {}
  BY <1>1, <1>2 DEF ReadResult
<1>3. CASE mine # {}
  <2>1. \E j \in mine : \A l \in mine : l <= j
    BY <1>3, PartsOfType, LastPosition
  <2>2. codes[CHOOSE j \in mine : \A l \in mine : l <= j] \in Codes
    BY <2>1, PartsOfType
  <2>3. \A j \in mine : Bytes(sending.parts[j]) \subseteq Nat
    <3>1. ASSUME NEW j \in mine PROVE Bytes(sending.parts[j]) \subseteq Nat
      <4>1. sending.parts[j].from \in Nat /\ sending.parts[j].count \in Nat
        BY PartsOfType DEF PartSet
      <4> QED BY <4>1 DEF Bytes
    <3> QED BY <3>1
  <2>4. result[i].data \cup filled \in SUBSET Nat
    BY <1>1, <2>3 DEF ResultSet
  <2> HIDE DEF filled
  <2>5. ReadResult(i, codes) = [code |-> codes[CHOOSE j \in mine : \A l \in mine : l <= j],
                               data |-> result[i].data \cup filled]
    BY <1>3 DEF ReadResult, filled
  <2> QED BY <2>2, <2>4, <2>5 DEF ResultSet
<1> QED BY <1>2, <1>3

(* The code of a write after a package: kept if no part of the item was    *)
(* refused, or if an earlier one was.                                      *)
LEMMA WriteResultType ==
  ASSUME TypeOK, NEW i \in Items, NEW codes \in [DOMAIN sending.parts -> Codes]
  PROVE  /\ WriteResult(i, codes) \in ResultSet
         /\ WriteResult(i, codes).code = Success
              <=> result[i].code = Success /\ \A j \in PartsOf(i) : codes[j] = Success
<1> DEFINE bad == {j \in PartsOf(i) : codes[j] # Success}
<1>1. result[i] \in ResultSet
  BY DEF TypeOK, ResultSet
<1>2. CASE result[i].code # Success \/ bad = {}
  BY <1>1, <1>2 DEF WriteResult
<1>3. CASE result[i].code = Success /\ bad # {}
  <2>1. bad \in SUBSET Nat
    BY PartsOfType
  <2>2. \E j \in bad : \A l \in bad : j <= l
    BY <1>3, <2>1, FirstPosition
  <2>3. PICK j \in bad : j = CHOOSE k \in bad : \A l \in bad : k <= l
    BY <2>2
  <2>4. WriteResult(i, codes) = [result[i] EXCEPT !.code = codes[j]]
    BY <1>3, <2>3 DEF WriteResult
  <2>5. codes[j] \in Codes /\ codes[j] # Success
    BY PartsOfType
  <2> QED BY <1>1, <1>3, <2>4, <2>5 DEF ResultSet
<1> QED BY <1>2, <1>3

(* The answers as they are logged.                                         *)
LEMMA LogGrows ==
  ASSUME TypeOK, NEW codes \in [DOMAIN sending.parts -> Codes]
  PROVE  /\ Answers(codes) \in Seq(EntrySet)
         /\ log \o Answers(codes) \in Seq(EntrySet)
         /\ Len(log \o Answers(codes)) = Len(log) + Len(sending.parts)
         /\ \A j \in 1..Len(log) : (log \o Answers(codes))[j] = log[j]
         /\ \A j \in 1..Len(sending.parts) :
              LET a == (log \o Answers(codes))[Len(log) + j]
              IN  /\ a.item = sending.parts[j].item /\ a.code = codes[j]
                  /\ a.from = sending.parts[j].from /\ a.count = sending.parts[j].count
<1> DEFINE new == Answers(codes)
           n == Len(sending.parts)
<1>1. log \in Seq(EntrySet) /\ Len(log) \in Nat
  BY LenProperties DEF TypeOK, EntrySet
<1>2. n \in Nat /\ DOMAIN sending.parts = 1..n
  BY PartsOfType
<1>3. \A j \in 1..n : sending.parts[j] \in PartSet /\ codes[j] \in Codes
  BY <1>2, PartsOfType
<1>4. new \in [1..n -> EntrySet] /\ \A j \in 1..n : /\ new[j].item = sending.parts[j].item
                                                     /\ new[j].code = codes[j]
                                                     /\ new[j].from = sending.parts[j].from
                                                     /\ new[j].count = sending.parts[j].count
  <2> HIDE DEF n
  <2> QED BY <1>2, <1>3 DEF Answers, EntrySet, PartSet
<1> HIDE DEF new, n
<1>5. new \in Seq(EntrySet) /\ Len(new) = n
  BY <1>2, <1>4, SeqDef
<1>6. /\ log \o new \in Seq(EntrySet)
      /\ Len(log \o new) = Len(log) + n
      /\ \A j \in 1..(Len(log) + n) :
           (log \o new)[j] = IF j <= Len(log) THEN log[j] ELSE new[j - Len(log)]
  BY <1>1, <1>5, ConcatProperties
<1>7. \A j \in 1..Len(log) : (log \o new)[j] = log[j]
  BY <1>1, <1>2, <1>6
<1>8. ASSUME NEW j \in 1..n PROVE (log \o new)[Len(log) + j] = new[j]
  <2>1. /\ Len(log) + j \in 1..(Len(log) + n) /\ ~ (Len(log) + j <= Len(log))
        /\ Len(log) + j - Len(log) = j
    BY <1>1, <1>2
  <2> QED BY <1>6, <2>1
<1> QED BY <1>4, <1>5, <1>6, <1>7, <1>8 DEF new, n

LEMMA AnsweredStep ==
  ASSUME IInv, Answered
  PROVE  IInv'
<1> USE DEF IInv
<1>1. PICK codes \in [DOMAIN sending.parts -> Codes] :
        /\ result' = [i \in Items |-> IF kind = "read" THEN ReadResult(i, codes)
                                                       ELSE WriteResult(i, codes)]
        /\ log' = log \o Answers(codes)
  BY DEF Answered
<1>2. /\ pc' = Resume /\ current = 0
      /\ UNCHANGED <<called, pdu, todo, hand, processed, part, current, open, sending, rejected>>
  BY DEF Answered, HandOK
<1>3. result' \in [Items -> ResultSet]
  <2>1. \A i \in Items : ReadResult(i, codes) \in ResultSet /\ WriteResult(i, codes) \in ResultSet
    BY ReadResultType, WriteResultType
  <2> QED BY <1>1, <2>1
<1>4. log' \in Seq(EntrySet)
  BY <1>1, LogGrows
<1>5. TypeOK'
  BY <1>2, <1>3, <1>4, ResumeBack DEF TypeOK, ResultSet, EntrySet, called
<1>6. HandOK' /\ LengthOK' /\ PackagesOK'
  BY <1>2, ResumeBack DEF HandOK, LengthOK, PackagesOK, Sound, Fits, called
<1> QED BY <1>5, <1>6

LEMMA UnansweredStep ==
  ASSUME IInv, Rejected \/ Unanswered
  PROVE  IInv'
<1> USE DEF IInv
<1>1. /\ pc' \in {Resume, "thrown", "empty"} /\ rejected' \in BOOLEAN /\ current = 0
      /\ UNCHANGED <<called, pdu, todo, hand, processed, part, current, open, sending, result, log>>
  BY DEF Rejected, Unanswered, answered, HandOK, TypeOK
<1>2. TypeOK'
  BY <1>1, ResumeBack DEF TypeOK, called, Ended
<1>3. HandOK' /\ LengthOK' /\ PackagesOK'
  BY <1>1, ResumeBack DEF HandOK, LengthOK, PackagesOK, Sound, Fits, called
<1> QED BY <1>2, <1>3

LEMMA RenegotiateStep ==
  ASSUME IInv, Renegotiate
  PROVE  IInv'
<1> USE DEF IInv
<1>1. /\ pc \notin Ended /\ pdu' \in Pdus /\ pdu' < pdu
      /\ UNCHANGED <<called, pc, todo, hand, processed, part, current, open, sending, answered>>
  BY DEF Renegotiate
<1>2. TypeOK'
  BY <1>1 DEF TypeOK, called, answered
<1>3. pdu' <= before
  <2>1. pdu' \in Nat /\ pdu \in Nat /\ before \in Nat /\ pdu <= before
    BY <1>1, PduBound DEF TypeOK, LengthOK
  <2> QED BY <1>1, <2>1
<1>4. HandOK' /\ LengthOK' /\ PackagesOK'
  BY <1>1, <1>3 DEF HandOK, LengthOK, LongestSlice, PackagesOK, Sound, Fits, called, Ended
<1> QED BY <1>2, <1>4

-----------------------------------------------------------------------------
(* The theorems.                                                           *)

LEMMA StutterStep ==
  ASSUME IInv, UNCHANGED vars
  PROVE  IInv'
BY DEF IInv, vars, TypeOK, HandOK, LengthOK, LongestSlice, PackagesOK, Sound, Fits

LEMMA InvariantStep == IInv /\ [Next]_vars => IInv'
BY TakeItemStep, PlaceWholeStep, CutStep, PlaceInOpenStep, PlaceInNewStep, CheckStep,
   FlushStep, FinishStep, AnsweredStep, UnansweredStep, RenegotiateStep, StutterStep
   DEF Next, Pack, Exchange

LEMMA InvariantHolds == Spec => []IInv
BY InitInvariant, InvariantStep, PTL DEF Spec

(* The variables of a call keep their types: the lists of packages, the    *)
(* item in hand and the results, and currentPackage names a package of the *)
(* list whenever it is not null.                                           *)
THEOREM PackagingTypes == Spec => []TypeOK
<1>1. IInv => TypeOK
  BY DEF IInv
<1> QED BY <1>1, InvariantHolds, PTL

(* Of any items and for any PDU size: a package that is sent fits the PDU, *)
(* the request and the answer with the fill bytes that TryAdd of a         *)
(* ReadPackage does not count.                                             *)
THEOREM PackagesAlwaysFit == Spec => []PackagesFit
<1>1. IInv => PackagesFit
  BY DEF IInv, PackagesOK, Sound, Fits, PackagesFit
<1> QED BY <1>1, InvariantHolds, PTL

(* CouldNotAddPackage is thrown only after a smaller PDU was negotiated:   *)
(* what ReadItemMaxLength and WriteItemMaxLength allow, TryAdd takes.      *)
THEOREM SlicesFindRoom == Spec => []RoomForEverySlice
<1>1. IInv => RoomForEverySlice
  BY DEF IInv, LengthOK, RoomForEverySlice
<1> QED BY <1>1, InvariantHolds, PTL

(* At any moment of a write, the code of an item is the first one by which *)
(* a part of it was refused, and Success if none was.                      *)
FirstRefused(i, j) == j \in Refused(i) /\ \A k \in Refused(i) : j <= k

CodesOfWrites ==
  kind = "write" =>
    \A i \in Items :
      /\ result[i].code = Success <=> Refused(i) = {}
      /\ \A j \in 1..Len(log) : FirstRefused(i, j) => result[i].code = log[j].code

LEMMA CodesOfWritesStep ==
  ASSUME IInv, CodesOfWrites, Answered
  PROVE  CodesOfWrites'
<1> SUFFICES ASSUME kind = "write", NEW i \in Items
             PROVE  /\ result'[i].code = Success <=> Refused(i)' = {}
                    /\ \A j \in 1..Len(log') :
                         FirstRefused(i, j)' => result'[i].code = log'[j].code
  BY DEF Answered, called, CodesOfWrites
<1>1. PICK codes \in [DOMAIN sending.parts -> Codes] :
        /\ result' = [k \in Items |-> IF kind = "read" THEN ReadResult(k, codes)
                                                       ELSE WriteResult(k, codes)]
        /\ log' = log \o Answers(codes)
  BY DEF Answered
<1> DEFINE m == Len(log)
           n == Len(sending.parts)
           bad == {j \in PartsOf(i) : codes[j] # Success}
<1>2. m \in Nat /\ n \in Nat /\ DOMAIN sending.parts = 1..n
  BY PartsOfType, LenProperties DEF IInv, TypeOK
<1>3. /\ result'[i].code = Success
           <=> result[i].code = Success /\ \A j \in PartsOf(i) : codes[j] = Success
      /\ result[i].code # Success => result'[i] = result[i]
      /\ result'[i] = WriteResult(i, codes)
  BY <1>1, WriteResultType DEF IInv, WriteResult
<1>4. /\ DOMAIN log = 1..m
      /\ Len(log') = m + n /\ DOMAIN log' = 1..(m + n)
      /\ \A j \in 1..m : log'[j] = log[j]
      /\ \A j \in 1..n : log'[m + j].item = sending.parts[j].item /\ log'[m + j].code = codes[j]
  <2>1. log \in Seq(EntrySet)
    BY DEF IInv, TypeOK, EntrySet
  <2>2. log' \in Seq(EntrySet)
    BY <1>1, LogGrows DEF IInv
  <2>3. /\ Len(log') = m + n
        /\ \A j \in 1..m : log'[j] = log[j]
        /\ \A j \in 1..n : log'[m + j].item = sending.parts[j].item /\ log'[m + j].code = codes[j]
    BY <1>1, LogGrows DEF IInv
  <2> QED BY <2>1, <2>2, <2>3, LenProperties
<1>5. /\ result[i].code = Success <=> Refused(i) = {}
      /\ \A j \in 1..m : FirstRefused(i, j) => result[i].code = log[j].code
  BY DEF CodesOfWrites
<1>6. \A j \in 1..m : j \in Refused(i)' <=> j \in Refused(i)
  BY <1>2, <1>4 DEF Refused
<1>7. \A j \in 1..n : m + j \in Refused(i)' <=> j \in bad
  BY <1>2, <1>4 DEF Refused, PartsOf
<1>8. /\ Refused(i) \subseteq 1..m
      /\ bad \subseteq 1..n
      /\ \A j \in Refused(i)' : j \in 1..m \/ \E l \in 1..n : j = m + l
  <2>1. \A j \in 1..(m + n) : j \in 1..m \/ (j - m \in 1..n /\ j = m + (j - m))
    BY <1>2
  <2> QED BY <1>2, <1>4, <2>1 DEF Refused, PartsOf
<1>9. Refused(i)' = {} <=> Refused(i) = {} /\ bad = {}
  BY <1>6, <1>7, <1>8
<1>10. result'[i].code = Success <=> Refused(i)' = {}
  BY <1>3, <1>5, <1>9
<1>11. ASSUME NEW j \in 1..Len(log'), FirstRefused(i, j)'
       PROVE  result'[i].code = log'[j].code
  <2>1. j \in Refused(i)' /\ \A k \in Refused(i)' : j <= k
    BY <1>11 DEF FirstRefused
  <2>2. CASE result[i].code # Success
    <3>1. PICK k \in Refused(i) : TRUE
      BY <1>5, <2>2
    <3>2. j \in 1..m
      <4>1. k \in Refused(i)' /\ k \in 1..m /\ j <= k
        BY <1>6, <1>8, <2>1, <3>1
      <4> QED BY <1>2, <1>4, <4>1
    <3>3. FirstRefused(i, j)
      BY <1>6, <1>8, <2>1, <3>2 DEF FirstRefused
    <3> QED BY <1>3, <1>4, <1>5, <2>2, <3>2, <3>3
  <2>3. CASE result[i].code = Success
    <3>1. PICK l \in 1..n : j = m + l
      BY <1>5, <1>6, <1>8, <2>1, <2>3
    <3>2. l \in bad
      BY <1>7, <2>1, <3>1
    <3>3. ASSUME NEW q \in bad PROVE l <= q
      <4>1. q \in 1..n /\ m + q \in Refused(i)'
        BY <1>7, <1>8
      <4>2. m + l <= m + q
        BY <2>1, <3>1, <4>1
      <4> QED BY <1>2, <4>1, <4>2
    <3> DEFINE first == CHOOSE q \in bad : \A r \in bad : q <= r
    <3>4. first \in bad /\ \A r \in bad : first <= r
      BY <3>2, <3>3
    <3>5. first = l
      <4>1. first <= l /\ l <= first /\ first \in 1..n
        BY <1>8, <3>2, <3>3, <3>4
      <4> QED BY <1>2, <4>1
    <3>6. result'[i].code = codes[first]
      <4>1. result[i] \in [code : Codes \cup {"none"}, data : SUBSET Nat]
        BY DEF IInv, TypeOK
      <4>2. result'[i] = [result[i] EXCEPT !.code = codes[first]]
        BY <1>3, <2>3, <3>2 DEF WriteResult
      <4> QED BY <4>1, <4>2
    <3> QED BY <1>4, <3>1, <3>5, <3>6
  <2> QED BY <2>2, <2>3
<1> QED BY <1>10, <1>11

(* A write reports for an item the first refusal of a part of it, and      *)
(* Success only if there was none, however the item was cut and in         *)
(* whatever packages the parts were written, packages that were rejected   *)
(* as a whole between them or not.                                         *)
THEOREM RefusalsAreReported == Spec => []FirstRefusalStays
<1>1. Init => CodesOfWrites
  <2>1. Init => DOMAIN log = {}
    BY DEF Init
  <2>2. ASSUME Init PROVE \A i \in Items : Refused(i) = {}
    BY <2>1, <2>2 DEF Refused
  <2> QED BY <2>2 DEF Init, CodesOfWrites, Initially, Nothing, FirstRefused
<1>2. IInv /\ CodesOfWrites /\ [Next]_vars => CodesOfWrites'
  <2> SUFFICES ASSUME IInv, CodesOfWrites, [Next]_vars
               PROVE  CodesOfWrites'
    OBVIOUS
  <2>1. CASE Answered
    BY <2>1, CodesOfWritesStep
  <2>2. CASE UNCHANGED <<kind, result, log>>
    BY <2>2 DEF CodesOfWrites, FirstRefused, Refused
  <2>3. Answered \/ UNCHANGED <<kind, result, log>>
    BY DEF Next, Pack, Exchange, TakeItem, PlaceWhole, Cut, PlaceInOpen, PlaceInNew,
           Check, Flush, Finish, Rejected, Unanswered, Renegotiate, vars, called, answered
  <2> QED BY <2>1, <2>2, <2>3
<1>3. IInv /\ CodesOfWrites => FirstRefusalStays
  <2>1. IInv => DOMAIN log = 1..Len(log)
    BY LenProperties DEF IInv, TypeOK
  <2> QED BY <2>1 DEF CodesOfWrites, FirstRefusalStays, FirstRefused, Refused
<1> QED BY <1>1, <1>2, <1>3, InvariantHolds, PTL DEF Spec

-----------------------------------------------------------------------------
(* Where each byte is.  The byte b of the item i waits with its item, is   *)
(* still in hand, or is in the part in hand, in one part of one open       *)
(* package, in one part of the package that is sent, or in one part of the *)
(* log; and it is at one of these places.                                  *)

Has(a, i, b) == a.item = i /\ a.from <= b /\ b < a.from + a.count
Within(a) == a.item \in Items /\ a.from + a.count <= length[a.item]

PartAt(o, k, j) == k \in 1..Len(o) /\ j \in 1..Len(o[k].parts)

HasAt(s, j, i, b) == j \in 1..Len(s) /\ Has(s[j], i, b)
OpenAt(o, k, j, i, b) == PartAt(o, k, j) /\ Has(o[k].parts[j], i, b)

(* A package that takes another part.                                      *)
LEMMA PartsAfterAdd ==
  ASSUME TypeOK, NEW k \in 1..Len(open), NEW a \in PartSet,
         open' = [open EXCEPT ![k] = Add(open[k], a)]
  PROVE  LET n == Len(open[k].parts)
         IN  /\ ~ PartAt(open, k, n + 1)
             /\ open'[k].parts[n + 1] = a
             /\ \A m, j : PartAt(open', m, j) <=> PartAt(open, m, j) \/ (m = k /\ j = n + 1)
             /\ \A m, j : PartAt(open, m, j) => open'[m].parts[j] = open[m].parts[j]
<1> DEFINE n == Len(open[k].parts)
<1>1. open \in Seq(PackageSet) /\ open[k] \in PackageSet
  BY DEF TypeOK
<1>2. open[k].parts \in Seq(PartSet) /\ n \in Nat
  BY <1>1, LenProperties DEF PackageSet
<1>3. Add(open[k], a) \in PackageSet /\ Add(open[k], a).parts = Append(open[k].parts, a)
  BY <1>1, AddType
<1>4. /\ Len(open') = Len(open)
      /\ \A m \in 1..Len(open) : open'[m] = IF m = k THEN Add(open[k], a) ELSE open[m]
  BY <1>1, <1>3, ExceptSeq
<1>5. /\ Len(open'[k].parts) = n + 1 /\ open'[k].parts[n + 1] = a
      /\ \A j \in 1..n : open'[k].parts[j] = open[k].parts[j]
  BY <1>2, <1>3, <1>4, AppendProperties
<1> HIDE DEF n
<1>6. ASSUME NEW m, NEW j
      PROVE  /\ PartAt(open', m, j) <=> PartAt(open, m, j) \/ (m = k /\ j = n + 1)
             /\ PartAt(open, m, j) => open'[m].parts[j] = open[m].parts[j]
  <2>1. CASE m = k
    BY <1>2, <1>4, <1>5, <2>1 DEF PartAt, n
  <2>2. CASE m # k
    BY <1>4, <2>2 DEF PartAt
  <2> QED BY <2>1, <2>2
<1>7. ~ PartAt(open, k, n + 1)
  BY <1>2 DEF PartAt, n
<1>8. \A m, j : PartAt(open', m, j) <=> PartAt(open, m, j) \/ (m = k /\ j = n + 1)
  BY <1>6
<1>9. \A m, j : PartAt(open, m, j) => open'[m].parts[j] = open[m].parts[j]
  BY <1>6
<1> QED BY <1>5, <1>7, <1>8, <1>9, Zenon DEF n

(* A new package of one part.                                              *)
LEMMA PartsAfterNew ==
  ASSUME TypeOK, NEW a \in PartSet, open' = Append(open, Add(NewPackage, a))
  PROVE  LET n == Len(open)
         IN  /\ \A j : ~ PartAt(open, n + 1, j)
             /\ open'[n + 1].parts[1] = a
             /\ \A m, j : PartAt(open', m, j) <=> PartAt(open, m, j) \/ (m = n + 1 /\ j = 1)
             /\ \A m, j : PartAt(open, m, j) => open'[m].parts[j] = open[m].parts[j]
<1> DEFINE n == Len(open)
           new == Add(NewPackage, a)
<1>1. open \in Seq(PackageSet) /\ n \in Nat
  BY LenProperties DEF TypeOK
<1>2. NewPackage \in PackageSet /\ NewPackage.parts = << >>
  BY NewPackageType DEF TypeOK, NewPackage
<1>3. new \in PackageSet /\ new.parts = Append(<< >>, a)
  BY <1>2, AddType
<1>4. Len(new.parts) = 1 /\ new.parts[1] = a
  BY <1>3
<1>5. /\ Len(open') = n + 1 /\ open'[n + 1] = new
      /\ \A m \in 1..n : open'[m] = open[m]
  BY <1>1, <1>3, AppendProperties
<1> HIDE DEF new
<1>6. ASSUME NEW m, NEW j
      PROVE  /\ PartAt(open', m, j) <=> PartAt(open, m, j) \/ (m = n + 1 /\ j = 1)
             /\ PartAt(open, m, j) => open'[m].parts[j] = open[m].parts[j]
  <2>1. CASE m = n + 1
    <3>1. m \in 1..Len(open') /\ m \notin 1..n /\ open'[m] = new
      BY <1>1, <1>5, <2>1
    <3>2. ~ PartAt(open, m, j)
      BY <3>1 DEF PartAt
    <3>3. PartAt(open', m, j) <=> j \in 1..1
      BY <1>4, <3>1 DEF PartAt
    <3> QED BY <2>1, <3>2, <3>3
  <2>2. CASE m # n + 1
    <3>1. m \in 1..Len(open') <=> m \in 1..n
      BY <1>1, <1>5, <2>2
    <3>2. m \in 1..n => open'[m] = open[m]
      BY <1>5
    <3>3. PartAt(open', m, j) <=> PartAt(open, m, j)
      BY <3>1, <3>2, Zenon DEF PartAt
    <3>4. PartAt(open, m, j) => open'[m] = open[m]
      BY <3>2, Zenon DEF PartAt
    <3> QED BY <2>2, <3>3, <3>4
  <2> QED BY <2>1, <2>2
<1>7. \A j : ~ PartAt(open, n + 1, j)
  BY <1>1 DEF PartAt
<1>8. \A m, j : PartAt(open', m, j) <=> PartAt(open, m, j) \/ (m = n + 1 /\ j = 1)
  BY <1>6
<1>9. \A m, j : PartAt(open, m, j) => open'[m].parts[j] = open[m].parts[j]
  BY <1>6
<1>10. open'[n + 1].parts[1] = a
  BY <1>4, <1>5
<1> QED BY <1>7, <1>8, <1>9, <1>10, Zenon

(* A package taken off the list; those behind it move up.                  *)
TakenOff(k) == open' = RemoveAt(open, k) \/ (k = 1 /\ open' = Tail(open))

LEMMA OpenLess ==
  ASSUME TypeOK, NEW k \in 1..Len(open), TakenOff(k)
  PROVE  /\ Len(open) \in Nat /\ Len(open') = Len(open) - 1
         /\ \A j \in 1..(Len(open) - 1) : open'[j] = IF j < k THEN open[j] ELSE open[j + 1]
<1>1. open \in Seq(PackageSet) /\ Len(open) \in Nat
  BY LenProperties DEF TypeOK
<1>2. CASE open' = RemoveAt(open, k)
  BY <1>1, <1>2, WithoutOne
<1>3. CASE k = 1 /\ open' = Tail(open)
  <2>1. open # << >>
    BY <1>1, EmptySeq
  <2>2. Len(open') = Len(open) - 1 /\ \A j \in 1..(Len(open) - 1) : open'[j] = open[j + 1]
    BY <1>1, <1>3, <2>1, HeadTailProperties
  <2> QED BY <1>1, <1>3, <2>2
<1> QED BY <1>2, <1>3 DEF TakenOff

Was(m, k) == IF m < k THEN m ELSE m + 1

LEMMA PartsAfterLess ==
  ASSUME TypeOK, NEW k \in 1..Len(open), TakenOff(k)
  PROVE  \A m, j :
           PartAt(open', m, j) =>
             /\ m \in Nat /\ PartAt(open, Was(m, k), j) /\ Was(m, k) # k
             /\ open'[m].parts[j] = open[Was(m, k)].parts[j]
BY OpenLess DEF PartAt, Was

(* And nothing else is lost.                                               *)
LEMMA PartsNotLost ==
  ASSUME TypeOK, NEW k \in 1..Len(open), TakenOff(k), NEW m, NEW j, PartAt(open, m, j), m # k
  PROVE  \E l \in Nat : PartAt(open', l, j) /\ open'[l].parts[j] = open[m].parts[j]
<1>1. CASE m < k
  <2>1. m \in Nat /\ m \in 1..(Len(open) - 1) /\ open'[m] = open[m]
    BY <1>1, OpenLess DEF PartAt
  <2> QED BY <2>1, OpenLess DEF PartAt
<1>2. CASE ~ (m < k)
  <2>1. m - 1 \in Nat /\ m - 1 \in 1..(Len(open) - 1) /\ open'[m - 1] = open[m]
    <3>1. m \in 1..Len(open) /\ k \in 1..Len(open) /\ Len(open) \in Nat
      BY OpenLess DEF PartAt
    <3>2. m - 1 \in Nat /\ m - 1 \in 1..(Len(open) - 1) /\ ~ (m - 1 < k) /\ (m - 1) + 1 = m
      BY <1>2, <3>1
    <3>3. \A j1 \in 1..(Len(open) - 1) : open'[j1] = IF j1 < k THEN open[j1] ELSE open[j1 + 1]
      BY OpenLess
    <3> QED BY <3>2, <3>3
  <2> QED BY <2>1, OpenLess DEF PartAt
<1> QED BY <1>1, <1>2

(* The item in hand is packed as far as it is processed, and a slice that  *)
(* is shorter than the longest is the last one.  Hence a slice is cut only *)
(* when no package is current, and none is dropped.                        *)
ProgressOK ==
  /\ pc = "whole" => processed = 0
  /\ pc \in {"cut", "place"} => current = 0
  /\ hand # 0 => processed <= length[hand]
  /\ pc \in {"next", "check", "complete"} => hand = 0 \/ processed = length[hand]
  /\ pc = "place" /\ part.count < ItemMaxLength => processed = length[hand]
  /\ pc = "complete" => todo = << >> /\ open = << >>

(* All parts lie within their items.                                       *)
PartsOK ==
  /\ pc = "place" => Within(part) /\ part.item = hand /\ part.from + part.count = processed
  /\ \A k, j : PartAt(open, k, j) => Within(open[k].parts[j])
  /\ pc = "send" => \A j \in 1..Len(sending.parts) : Within(sending.parts[j])
  /\ \A j \in 1..Len(log) : Within(log[j])

(* A slice of the longest length fills its package.                        *)
LEMMA LongSliceFills ==
  ASSUME TypeOK, NEW a \in PartSet, a.count >= ItemMaxLength
  PROVE  Full(Add(NewPackage, a))
<1>1. pdu \in Nat /\ pdu > 28 /\ kind \in {"read", "write"} /\ a.count \in Nat
  BY PduBound DEF TypeOK, PartSet
<1>2. CASE kind = "read"
  BY <1>1, <1>2 DEF ItemMaxLength, Full, Free, Add, AddRead, NewPackage, ReadSize, Larger
<1>3. CASE kind = "write"
  <2>1. 12 + 16 + a.count \in Nat /\ 12 + 16 + a.count >= pdu
    BY <1>1, <1>3 DEF ItemMaxLength
  <2>2. EvenUp(12 + 16 + a.count) \in Nat /\ EvenUp(12 + 16 + a.count) >= 12 + 16 + a.count
    BY <2>1, EvenUpBound
  <2>3. Add(NewPackage, a).max = pdu /\ Add(NewPackage, a).size = EvenUp(12 + 16 + a.count)
    BY <1>3 DEF Add, AddWrite, NewPackage
  <2> QED BY <1>1, <1>3, <2>1, <2>2, <2>3 DEF Full, Free
<1> QED BY <1>1, <1>2, <1>3

(* The next piece of the item in hand.                                     *)
LEMMA CutProgress ==
  ASSUME IInv, ProgressOK, Cut
  PROVE  /\ hand \in Items /\ part'.item = hand /\ part'.from = processed
         /\ part'.count \in Nat /\ processed' = processed + part'.count
         /\ processed' <= length[hand] /\ processed \in Nat
         /\ part'.count < ItemMaxLength => processed' = length[hand]
         /\ pc' = "place"
         /\ UNCHANGED <<called, pdu, todo, hand, current, open, sending, answered>>
<1>1. hand \in Items /\ processed \in Nat /\ processed < length[hand] /\ length[hand] \in Nat
  BY LengthType DEF IInv, HandOK, TypeOK, Cut
<1>2. pdu \in Nat /\ pdu > 28 /\ kind \in {"read", "write"}
  BY PduBound DEF IInv, TypeOK
<1>3. ItemMaxLength \in Nat
  BY <1>2 DEF ItemMaxLength
<1>4. part' = Part(hand, processed, Smaller(ItemMaxLength, length[hand] - processed))
  BY DEF Cut
<1>5. /\ part'.item = hand /\ part'.from = processed
      /\ part'.count = Smaller(ItemMaxLength, length[hand] - processed)
  BY <1>4 DEF Part
<1>6. processed' = processed + part'.count
  BY DEF Cut
<1>7. length[hand] - processed \in Nat
  BY <1>1
<1>8. /\ part'.count \in Nat /\ part'.count <= length[hand] - processed
      /\ part'.count < ItemMaxLength => part'.count = length[hand] - processed
  BY <1>3, <1>5, <1>7 DEF Smaller
<1>9. processed' <= length[hand] /\ (part'.count < ItemMaxLength => processed' = length[hand])
  BY <1>1, <1>6, <1>8
<1> QED BY <1>1, <1>5, <1>6, <1>8, <1>9 DEF Cut

LEMMA ProgressStep ==
  ASSUME IInv, ProgressOK, [Next]_vars
  PROVE  ProgressOK'
<1>0. /\ pc \in {"next", "whole", "cut", "place", "check", "send"} \cup Ended
      /\ hand \in Items \cup {0} /\ 0 \notin Items /\ processed \in Nat
      /\ \A i \in Items : length[i] \in Nat
  BY CountAssumption, LengthType DEF IInv, TypeOK, Items
<1> USE <1>0 DEF ProgressOK, called, answered, Ended
<1>1. CASE TakeItem
  <2>1. Head(todo) \in Items
    BY <1>1, HeadTailProperties DEF TakeItem, IInv, TypeOK
  <2> QED BY <1>1, <2>1 DEF TakeItem
<1>2. CASE PlaceWhole
  BY <1>2 DEF PlaceWhole, IInv, HandOK
<1>3. CASE Cut
  BY <1>3, CutProgress DEF Cut, ItemMaxLength
<1>4. CASE PlaceInOpen
  BY <1>4 DEF PlaceInOpen, Onward, IInv, HandOK
<1>5. CASE PlaceInNew
  <2>1. hand \in Items /\ part \in PartSet /\ part.count \in Nat /\ current = 0 /\ pc = "place"
    BY <1>5 DEF PlaceInNew, IInv, HandOK, TypeOK, PartSet
  <2>2. UNCHANGED <<called, pdu, todo, hand, processed, part, answered>>
    BY <1>5 DEF PlaceInNew
  <2>3. CASE pc' = Onward /\ ~ Full(Add(NewPackage, part))
    <3>1. ~ (part.count >= ItemMaxLength)
      BY <2>1, <2>3, LongSliceFills DEF IInv
    <3>2. ItemMaxLength \in Int
      BY PduBound DEF IInv, TypeOK, ItemMaxLength
    <3>3. processed = length[hand]
      BY <2>1, <3>1, <3>2
    <3> QED BY <2>1, <2>2, <2>3, <3>3 DEF Onward
  <2>4. CASE pc' = "send" \/ pc' = "could_not_add"
    BY <2>1, <2>2, <2>4
  <2> QED BY <1>5, <2>1, <2>3, <2>4 DEF PlaceInNew
<1>6. CASE Check
  BY <1>6 DEF Check
<1>7. CASE Flush
  BY <1>7 DEF Flush
<1>8. CASE Finish
  BY <1>8 DEF Finish
<1>9. CASE Exchange
  BY <1>9 DEF Exchange, Answered, Rejected, Unanswered, Resume, IInv, HandOK
<1>10. CASE Renegotiate
  <2>1. /\ UNCHANGED <<called, pc, todo, hand, processed, part, current, open>>
        /\ pdu' \in Nat /\ pdu \in Nat /\ pdu' < pdu
    BY <1>10, PduBound DEF Renegotiate, IInv, TypeOK
  <2>2. part.count \in Nat
    BY DEF IInv, TypeOK, PartSet
  <2>3. part.count < ItemMaxLength' => part.count < ItemMaxLength
    BY <2>1, <2>2 DEF ItemMaxLength
  <2> QED BY <2>1, <2>3
<1>11. CASE UNCHANGED vars
  BY <1>11 DEF vars, ItemMaxLength
<1> QED
  BY <1>1, <1>2, <1>3, <1>4, <1>5, <1>6, <1>7, <1>8, <1>9, <1>10, <1>11 DEF Next, Pack

(* What the actions do to the list of open packages.                       *)
LEMMA OpenAfter ==
  ASSUME IInv, NEW a \in PartSet
  PROVE  /\ \A k \in DOMAIN open : open' = [open EXCEPT ![k] = Add(open[k], a)] => k \in 1..Len(open)
         /\ Check /\ pc' = "send" =>
              /\ current \in 1..Len(open) /\ sending' = open[current] /\ TakenOff(current)
         /\ Flush => 1 \in 1..Len(open) /\ sending' = open[1] /\ TakenOff(1)
<1>1. open \in Seq(PackageSet) /\ Len(open) \in Nat /\ current \in 0..Len(open)
  BY LenProperties DEF IInv, TypeOK
<1>2. DOMAIN open = 1..Len(open)
  BY <1>1, LenProperties
<1>3. ASSUME Flush PROVE 1 \in 1..Len(open) /\ sending' = open[1]
  BY <1>1, <1>3, HeadTailProperties, EmptySeq DEF Flush
<1> QED BY <1>1, <1>2, <1>3 DEF Check, Flush, TakenOff

LEMMA WithinAfter ==
  ASSUME TypeOK, PartsOK, NEW a \in PartSet, Within(a),
         \/ \E k \in 1..Len(open) : open' = [open EXCEPT ![k] = Add(open[k], a)]
         \/ open' = Append(open, Add(NewPackage, a)),
         NEW m, NEW j, PartAt(open', m, j)
  PROVE  Within(open'[m].parts[j])
<1>0. PartAt(open, m, j) => Within(open[m].parts[j])
  BY DEF PartsOK
<1>1. CASE \E k \in 1..Len(open) : open' = [open EXCEPT ![k] = Add(open[k], a)]
  <2>1. PICK k \in 1..Len(open) : open' = [open EXCEPT ![k] = Add(open[k], a)]
    BY <1>1
  <2> DEFINE n == Len(open[k].parts)
  <2>2. /\ open'[k].parts[n + 1] = a
        /\ PartAt(open, m, j) \/ (m = k /\ j = n + 1)
        /\ PartAt(open, m, j) => open'[m].parts[j] = open[m].parts[j]
    BY <2>1, PartsAfterAdd
  <2> HIDE DEF n
  <2> QED BY <1>0, <2>2
<1>2. CASE open' = Append(open, Add(NewPackage, a))
  <2> DEFINE n == Len(open)
  <2>1. /\ open'[n + 1].parts[1] = a
        /\ PartAt(open, m, j) \/ (m = n + 1 /\ j = 1)
        /\ PartAt(open, m, j) => open'[m].parts[j] = open[m].parts[j]
    BY <1>2, PartsAfterNew
  <2> HIDE DEF n
  <2> QED BY <1>0, <2>1
<1> QED BY <1>1, <1>2

LEMMA PartsStep ==
  ASSUME IInv, PartsOK, ProgressOK, [Next]_vars
  PROVE  PartsOK'
<1>0. /\ \A i \in Items : length[i] \in Nat
      /\ TypeOK /\ part \in PartSet
  BY LengthType DEF IInv, TypeOK
<1> USE <1>0 DEF PartsOK, Within, called, answered, Ended
<1>1. CASE TakeItem
  <2> DEFINE i == Head(todo)
             a == Part(i, 0, length[i])
  <2>1. i \in Items
    BY <1>1, HeadTailProperties DEF TakeItem, TypeOK
  <2>2. a \in PartSet /\ Within(a)
    BY <2>1 DEF Part, PartSet
  <2>3. CASE \E k \in DOMAIN open : open' = [open EXCEPT ![k] = Add(open[k], a)]
    <3>1. PICK k \in 1..Len(open) : open' = [open EXCEPT ![k] = Add(open[k], a)]
      BY <2>2, <2>3, OpenAfter
    <3>2. \A m, j : PartAt(open', m, j) => Within(open'[m].parts[j])
      <4> HIDE DEF a
      <4> QED BY <2>2, <3>1, WithinAfter
    <3> QED BY <1>1, <3>2 DEF TakeItem
  <2>4. CASE UNCHANGED open
    BY <1>1, <2>4 DEF TakeItem
  <2> QED BY <1>1, <2>3, <2>4 DEF TakeItem
<1>2. CASE PlaceWhole
  <2> DEFINE a == Part(hand, 0, length[hand])
  <2>1. a \in PartSet /\ Within(a)
    BY <1>2 DEF PlaceWhole, Part, PartSet, IInv, HandOK
  <2>2. CASE open' = Append(open, Add(NewPackage, a))
    <3>1. \A m, j : PartAt(open', m, j) => Within(open'[m].parts[j])
      <4> HIDE DEF a
      <4> QED BY <2>1, <2>2, WithinAfter
    <3> QED BY <1>2, <3>1 DEF PlaceWhole
  <2>3. CASE UNCHANGED open
    BY <1>2, <2>3 DEF PlaceWhole
  <2> QED BY <1>2, <2>2, <2>3 DEF PlaceWhole
<1>3. CASE Cut
  BY <1>3, CutProgress
<1>4. CASE PlaceInOpen
  <2>1. PICK k \in 1..Len(open) : open' = [open EXCEPT ![k] = Add(open[k], part)]
    BY <1>4, OpenAfter DEF PlaceInOpen
  <2>2. \A m, j : PartAt(open', m, j) => Within(open'[m].parts[j])
    <3>1. Within(part)
      BY <1>4 DEF PlaceInOpen
    <3> QED BY <2>1, <3>1, WithinAfter
  <2> QED BY <1>4, <2>2 DEF PlaceInOpen, Onward
<1>5. CASE PlaceInNew
  <2>1. Add(NewPackage, part).parts = << part >>
    BY AddType, NewPackageType DEF TypeOK, NewPackage
  <2>2. pc = "place" /\ pc' \in {"cut", "check", "send", "could_not_add"}
    BY <1>5 DEF PlaceInNew, Onward
  <2>3. CASE open' = Append(open, Add(NewPackage, part)) /\ pc' = Onward
    <3>1. \A m, j : PartAt(open', m, j) => Within(open'[m].parts[j])
      <4>1. Within(part)
        BY <2>2
      <4> QED BY <2>3, <4>1, WithinAfter
    <3> QED BY <1>5, <2>3, <3>1 DEF PlaceInNew, Onward
  <2>4. CASE sending' = Add(NewPackage, part) /\ UNCHANGED open
    <3>1. \A j \in 1..Len(sending'.parts) : Within(sending'.parts[j])
      BY <2>1, <2>2, <2>4
    <3> QED BY <1>5, <2>2, <2>4, <3>1 DEF PlaceInNew
  <2>5. CASE UNCHANGED <<open, sending>> /\ pc' # "send"
    BY <1>5, <2>2, <2>5 DEF PlaceInNew
  <2> QED BY <1>5, <2>3, <2>4, <2>5 DEF PlaceInNew, Onward
<1>6. CASE Check /\ pc' = "send"
  <2>1. current \in 1..Len(open) /\ sending' = open[current] /\ TakenOff(current)
    BY <1>6, OpenAfter
  <2>2. \A m, j : PartAt(open', m, j) => Within(open'[m].parts[j])
    BY <2>1, PartsAfterLess
  <2>3. \A j \in 1..Len(sending'.parts) : Within(sending'.parts[j])
    BY <2>1 DEF PartAt
  <2> QED BY <1>6, <2>2, <2>3 DEF Check
<1>7. CASE Check /\ pc' # "send"
  BY <1>7 DEF Check
<1>8. CASE Flush
  <2>1. 1 \in 1..Len(open) /\ sending' = open[1] /\ TakenOff(1)
    BY <1>8, OpenAfter
  <2>2. \A m, j : PartAt(open', m, j) => Within(open'[m].parts[j])
    BY <2>1, PartsAfterLess
  <2>3. \A j \in 1..Len(sending'.parts) : Within(sending'.parts[j])
    BY <2>1 DEF PartAt
  <2> QED BY <1>8, <2>2, <2>3 DEF Flush
<1>9. CASE Finish
  BY <1>9 DEF Finish
<1>10. CASE Answered
  <2>1. PICK codes \in [DOMAIN sending.parts -> Codes] : log' = log \o Answers(codes)
    BY <1>10 DEF Answered
  <2>2. /\ Len(log) \in Nat /\ Len(sending.parts) \in Nat
        /\ Len(log') = Len(log) + Len(sending.parts)
        /\ \A j \in 1..Len(log) : log'[j] = log[j]
        /\ \A j \in 1..Len(sending.parts) :
             /\ log'[Len(log) + j].item = sending.parts[j].item
             /\ log'[Len(log) + j].from = sending.parts[j].from
             /\ log'[Len(log) + j].count = sending.parts[j].count
    BY <2>1, LogGrows, PartsOfType, LenProperties DEF TypeOK
  <2>3. ASSUME NEW j \in 1..Len(log') PROVE Within(log'[j])
    <3>1. j \in 1..Len(log) \/ (j - Len(log) \in 1..Len(sending.parts)
                               /\ Len(log) + (j - Len(log)) = j)
      BY <2>2
    <3>2. CASE j \in 1..Len(log)
      BY <2>2, <3>2
    <3>3. CASE j - Len(log) \in 1..Len(sending.parts) /\ Len(log) + (j - Len(log)) = j
      <4> DEFINE l == j - Len(log)
      <4>1. l \in 1..Len(sending.parts) /\ Len(log) + l = j
        BY <3>3
      <4>2. Within(sending.parts[l])
        BY <1>10, <4>1 DEF Answered
      <4> HIDE DEF l
      <4>3. /\ log'[Len(log) + l].item = sending.parts[l].item
            /\ log'[Len(log) + l].from = sending.parts[l].from
            /\ log'[Len(log) + l].count = sending.parts[l].count
        BY <2>2, <4>1
      <4> QED BY <4>1, <4>2, <4>3
    <3> QED BY <3>1, <3>2, <3>3
  <2> QED BY <1>10, <2>3 DEF Answered, Resume
<1>11. CASE Rejected \/ Unanswered
  BY <1>11 DEF Rejected, Unanswered, Resume
<1>12. CASE Renegotiate \/ UNCHANGED vars
  BY <1>12 DEF Renegotiate, vars
<1> QED
  BY <1>1, <1>2, <1>3, <1>4, <1>5, <1>6, <1>7, <1>8, <1>9, <1>10, <1>11, <1>12
     DEF Next, Pack, Exchange

-----------------------------------------------------------------------------
(* The places of a byte.                                                   *)

Waits(i) == \E j \in 1..Len(todo) : todo[j] = i
InHand(i, b) == hand = i /\ processed <= b
InPart(i, b) == pc = "place" /\ Has(part, i, b)
InOpen(i, b) == \E k, j \in Nat : OpenAt(open, k, j, i, b)
InSent(i, b) == pc = "send" /\ \E j \in Nat : HasAt(sending.parts, j, i, b)
InLog(i, b) == \E j \in Nat : HasAt(log, j, i, b)

Somewhere(i, b) ==
  Waits(i) \/ InHand(i, b) \/ InPart(i, b) \/ InOpen(i, b) \/ InSent(i, b) \/ InLog(i, b)

AtOnePlace(i, b) ==
  /\ Waits(i) => ~ (InHand(i, b) \/ InPart(i, b) \/ InOpen(i, b) \/ InSent(i, b) \/ InLog(i, b))
  /\ InHand(i, b) => ~ (InPart(i, b) \/ InOpen(i, b) \/ InSent(i, b) \/ InLog(i, b))
  /\ InPart(i, b) => ~ (InOpen(i, b) \/ InSent(i, b) \/ InLog(i, b))
  /\ InOpen(i, b) => ~ (InSent(i, b) \/ InLog(i, b))
  /\ InSent(i, b) => ~ InLog(i, b)

InOnePart(s, i, b) ==
  \A j, l \in Nat : HasAt(s, j, i, b) /\ HasAt(s, l, i, b) => j = l
InOneOpen(i, b) ==
  \A k, j, m, l \in Nat :
    OpenAt(open, k, j, i, b) /\ OpenAt(open, m, l, i, b) => k = m /\ j = l

ByteOK(i, b) ==
  /\ Somewhere(i, b) /\ AtOnePlace(i, b)
  /\ InOneOpen(i, b) /\ InOnePart(log, i, b)
  /\ pc = "send" => InOnePart(sending.parts, i, b)

TodoOK == \A j, l \in 1..Len(todo) : todo[j] = todo[l] => j = l

Broken == {"thrown", "empty", "could_not_add"}

BytesOK ==
  /\ TodoOK
  /\ ~ rejected /\ pc \notin Broken =>
       \A i \in Items : \A b \in 0..(length[i] - 1) : ByteOK(i, b)

(* A part that is added brings its bytes.                                  *)
LEMMA OpenGains ==
  ASSUME TypeOK, NEW a \in PartSet, NEW i, NEW b,
         \/ \E k \in 1..Len(open) : open' = [open EXCEPT ![k] = Add(open[k], a)]
         \/ open' = Append(open, Add(NewPackage, a))
  PROVE  /\ InOpen(i, b)' <=> InOpen(i, b) \/ Has(a, i, b)
         /\ InOneOpen(i, b) /\ (Has(a, i, b) => ~ InOpen(i, b)) => InOneOpen(i, b)'
<1>1. \E m, l \in Nat :
        \A k, j : OpenAt(open', k, j, i, b)
                    <=> OpenAt(open, k, j, i, b) \/ (k = m /\ j = l /\ Has(a, i, b))
  <2>1. CASE \E k \in 1..Len(open) : open' = [open EXCEPT ![k] = Add(open[k], a)]
    <3>1. PICK m \in 1..Len(open) : open' = [open EXCEPT ![m] = Add(open[m], a)]
      BY <2>1
    <3> DEFINE n == Len(open[m].parts)
    <3>2. m \in Nat /\ n + 1 \in Nat
      <4>0. open[m] \in PackageSet
        BY DEF TypeOK
      <4>1. open[m].parts \in Seq(PartSet)
        BY <4>0 DEF PackageSet
      <4> QED BY <4>1, LenProperties
    <3>3. /\ ~ PartAt(open, m, n + 1)
          /\ open'[m].parts[n + 1] = a
          /\ \A k, j : PartAt(open', k, j) <=> PartAt(open, k, j) \/ (k = m /\ j = n + 1)
          /\ \A k, j : PartAt(open, k, j) => open'[k].parts[j] = open[k].parts[j]
      BY <3>1, PartsAfterAdd
    <3> DEFINE l == n + 1
    <3> HIDE DEF l
    <3>4. \A k, j : OpenAt(open', k, j, i, b)
                      <=> OpenAt(open, k, j, i, b) \/ (k = m /\ j = l /\ Has(a, i, b))
      BY <3>3, Zenon DEF OpenAt, l
    <3> QED BY <3>2, <3>4 DEF l
  <2>2. CASE open' = Append(open, Add(NewPackage, a))
    <3> DEFINE m == Len(open) + 1
    <3>1. m \in Nat
      BY LenProperties DEF TypeOK
    <3>2. /\ \A j : ~ PartAt(open, m, j)
          /\ open'[m].parts[1] = a
          /\ \A k, j : PartAt(open', k, j) <=> PartAt(open, k, j) \/ (k = m /\ j = 1)
          /\ \A k, j : PartAt(open, k, j) => open'[k].parts[j] = open[k].parts[j]
      BY <2>2, PartsAfterNew
    <3> HIDE DEF m
    <3>3. \A k, j : OpenAt(open', k, j, i, b)
                      <=> OpenAt(open, k, j, i, b) \/ (k = m /\ j = 1 /\ Has(a, i, b))
      BY <3>2, Zenon DEF OpenAt
    <3> QED BY <3>1, <3>3
  <2> QED BY <2>1, <2>2
<1>2. PICK m, l \in Nat :
        \A k, j : OpenAt(open', k, j, i, b)
                    <=> OpenAt(open, k, j, i, b) \/ (k = m /\ j = l /\ Has(a, i, b))
  BY <1>1
<1>3. InOpen(i, b)' <=> InOpen(i, b) \/ Has(a, i, b)
  BY <1>2 DEF InOpen
<1>4. ASSUME InOneOpen(i, b), Has(a, i, b) => ~ InOpen(i, b)
      PROVE  InOneOpen(i, b)'
  BY <1>2, <1>4 DEF InOneOpen, InOpen
<1> QED BY <1>3, <1>4

(* A package taken off the list takes its bytes along.                     *)
LEMMA OpenLoses ==
  ASSUME TypeOK, NEW k \in 1..Len(open), TakenOff(k), NEW i, NEW b, InOneOpen(i, b)
  PROVE  LET s == open[k].parts
         IN  /\ InOpen(i, b)' <=> InOpen(i, b) /\ ~ \E j \in Nat : HasAt(s, j, i, b)
             /\ (\E j \in Nat : HasAt(s, j, i, b)) => InOpen(i, b)
             /\ InOneOpen(i, b)'
             /\ InOnePart(s, i, b)
<1> DEFINE s == open[k].parts
<1>1. k \in Nat /\ \A j \in Nat : OpenAt(open, k, j, i, b) <=> HasAt(s, j, i, b)
  BY DEF OpenAt, HasAt, PartAt
<1>2. ASSUME NEW m, NEW j, OpenAt(open', m, j, i, b)
      PROVE  m \in Nat /\ OpenAt(open, Was(m, k), j, i, b) /\ Was(m, k) # k /\ Was(m, k) \in Nat
  <2>1. /\ m \in Nat /\ PartAt(open, Was(m, k), j) /\ Was(m, k) # k
        /\ open'[m].parts[j] = open[Was(m, k)].parts[j]
    BY <1>2, PartsAfterLess DEF OpenAt
  <2> QED BY <1>2, <2>1 DEF OpenAt, Was
<1>3. ASSUME NEW m, NEW j, OpenAt(open, m, j, i, b), m # k
      PROVE  \E l \in Nat : OpenAt(open', l, j, i, b)
  BY <1>3, PartsNotLost DEF OpenAt
<1>4. (\E j \in Nat : HasAt(s, j, i, b)) => InOpen(i, b)
  BY <1>1 DEF InOpen
<1>5. InOpen(i, b)' => InOpen(i, b) /\ ~ \E j \in Nat : HasAt(s, j, i, b)
  BY <1>1, <1>2 DEF InOpen, InOneOpen
<1>6. InOpen(i, b) /\ ~ (\E j \in Nat : HasAt(s, j, i, b)) => InOpen(i, b)'
  BY <1>1, <1>3 DEF InOpen
<1>7. InOneOpen(i, b)'
  <2> SUFFICES ASSUME NEW m \in Nat, NEW j \in Nat, NEW n \in Nat, NEW l \in Nat,
                      OpenAt(open', m, j, i, b), OpenAt(open', n, l, i, b)
               PROVE  m = n /\ j = l
    BY DEF InOneOpen
  <2>1. Was(m, k) = Was(n, k) /\ j = l
    BY <1>2 DEF InOneOpen
  <2> QED BY <1>1, <2>1 DEF Was
<1>8. InOnePart(s, i, b)
  BY <1>1 DEF InOneOpen, InOnePart
<1> QED BY <1>4, <1>5, <1>6, <1>7, <1>8

(* The item that is taken waits no more, and nothing else was in hand.     *)
LEMMA TakeItemBytes ==
  ASSUME IInv, ProgressOK, TodoOK, TakeItem
  PROVE  /\ TodoOK'
         /\ \A i \in Items : \A b \in 0..(length[i] - 1) : ByteOK(i, b) => ByteOK(i, b)'
<1> DEFINE h == Head(todo)
           a == Part(h, 0, length[h])
<1>1. /\ h \in Items /\ Len(todo) \in Nat /\ h = todo[1] /\ 1 \in 1..Len(todo)
      /\ Len(todo') = Len(todo) - 1
      /\ \A j \in 1..Len(todo') : todo'[j] = todo[j + 1]
  <2>1. todo \in Seq(Items) /\ todo # << >> /\ todo' = Tail(todo)
    BY DEF IInv, TypeOK, TakeItem
  <2>2. /\ h \in Items /\ h = todo[1] /\ Len(todo') = Len(todo) - 1
        /\ \A j \in 1..Len(todo') : todo'[j] = todo[j + 1]
    BY <2>1, HeadTailProperties
  <2>3. Len(todo) \in Nat /\ 1 \in 1..Len(todo)
    BY <2>1, EmptySeq, LenProperties
  <2> QED BY <2>2, <2>3
<1>2. TodoOK'
  <2>1. \A j \in 1..Len(todo') : j + 1 \in 1..Len(todo)
    BY <1>1
  <2> QED BY <1>1, <2>1 DEF TodoOK
<1>3. /\ pc = "next" /\ pc' \in {"check", "cut", "whole"} /\ hand' = h
      /\ UNCHANGED <<log, length>>
  BY DEF TakeItem, called, answered
<1>4. length[h] \in Nat /\ a \in PartSet
  BY <1>1, LengthType DEF IInv, Part, PartSet
<1>5. ASSUME NEW i \in Items, NEW b \in 0..(length[i] - 1), ByteOK(i, b)
      PROVE  ByteOK(i, b)'
  <2>1. Waits(i)' <=> Waits(i) /\ i # h
    <3>1. ASSUME Waits(i)' PROVE Waits(i) /\ i # h
      <4>1. PICK j \in 1..Len(todo') : todo'[j] = i
        BY <3>1 DEF Waits
      <4>2. j + 1 \in 1..Len(todo) /\ todo[j + 1] = i /\ j + 1 # 1
        BY <1>1, <4>1
      <4> QED BY <1>1, <4>2 DEF Waits, TodoOK
    <3>2. ASSUME Waits(i), i # h PROVE Waits(i)'
      <4>1. PICK j \in 1..Len(todo) : todo[j] = i
        BY <3>2 DEF Waits
      <4>2. j - 1 \in 1..Len(todo') /\ (j - 1) + 1 = j
        BY <1>1, <3>2, <4>1
      <4>3. todo'[j - 1] = i
        BY <1>1, <4>1, <4>2
      <4> QED BY <4>2, <4>3 DEF Waits
    <3> QED BY <3>1, <3>2
  <2>2. Waits(h)
    BY <1>1 DEF Waits
  <2>3. ~ InHand(i, b)
    <3>1. i # 0 /\ b < length[i] /\ length[i] \in Nat
      BY CountAssumption, LengthType DEF IInv, Items
    <3> QED BY <1>3, <3>1 DEF InHand, ProgressOK
  <2>4. ~ InPart(i, b) /\ ~ InPart(i, b)' /\ ~ InSent(i, b) /\ ~ InSent(i, b)'
    BY <1>3 DEF InPart, InSent
  <2>5. InLog(i, b)' <=> InLog(i, b)
    BY <1>3 DEF InLog
  <2>6. InOnePart(log, i, b)'
    BY <1>3, <1>5 DEF ByteOK, InOnePart
  <2>7. CASE \E k \in DOMAIN open : /\ open' = [open EXCEPT ![k] = Add(open[k], a)]
                                    /\ processed' = length[h]
    <3>1. \E k \in 1..Len(open) : open' = [open EXCEPT ![k] = Add(open[k], a)]
      <4>1. DOMAIN open = 1..Len(open)
        BY LenProperties DEF IInv, TypeOK
      <4> HIDE DEF a
      <4> QED BY <2>7, <4>1
    <3>2. Has(a, i, b) <=> i = h
      BY <1>4 DEF Has, Part
    <3> HIDE DEF a, h
    <3>3. /\ InOpen(i, b)' <=> InOpen(i, b) \/ i = h
          /\ InOneOpen(i, b) /\ (i = h => ~ InOpen(i, b)) => InOneOpen(i, b)'
      BY <1>4, <3>1, <3>2, OpenGains DEF IInv
    <3>4. ~ InHand(i, b)'
      BY <1>3, <1>4, <2>7 DEF InHand
    <3> QED
      BY <1>3, <1>5, <2>1, <2>2, <2>3, <2>4, <2>5, <2>6, <3>3, <3>4
      DEF ByteOK, Somewhere, AtOnePlace
  <2>8. CASE UNCHANGED open /\ processed' = 0
    <3>1. InOpen(i, b)' <=> InOpen(i, b)
      BY <2>8 DEF InOpen
    <3>2. InOneOpen(i, b)'
      BY <1>5, <2>8 DEF ByteOK, InOneOpen
    <3>3. InHand(i, b)' <=> i = h
      BY <1>3, <2>8 DEF InHand
    <3> HIDE DEF h
    <3> QED
      BY <1>3, <1>5, <2>1, <2>2, <2>3, <2>4, <2>5, <2>6, <3>1, <3>2, <3>3
      DEF ByteOK, Somewhere, AtOnePlace
  <2> QED BY <2>7, <2>8 DEF TakeItem
<1> QED BY <1>2, <1>5

(* Bytes in hand go into an open package or a new one.                     *)
LEMMA PlaceWholeBytes ==
  ASSUME IInv, ProgressOK, PlaceWhole, pc' \notin Broken,
         NEW i \in Items, NEW b \in 0..(length[i] - 1), ByteOK(i, b)
  PROVE  ByteOK(i, b)'
<1> DEFINE a == Part(hand, 0, length[hand])
<1>1. /\ pc = "whole" /\ pc' = "check" /\ processed = 0 /\ processed' = length[hand]
      /\ open' = Append(open, Add(NewPackage, a))
      /\ UNCHANGED <<hand, todo, log, length>>
  BY DEF PlaceWhole, Broken, ProgressOK, called, answered
<1>2. hand \in Items /\ length[hand] \in Nat /\ a \in PartSet
  BY <1>1, LengthType DEF IInv, HandOK, Part, PartSet
<1>3. Has(a, i, b) <=> InHand(i, b)
  BY <1>1, <1>2 DEF Has, Part, InHand
<1>4. ~ InHand(i, b)'
  BY <1>1, <1>2 DEF InHand
<1> HIDE DEF a
<1>5. /\ InOpen(i, b)' <=> InOpen(i, b) \/ InHand(i, b)
      /\ InOneOpen(i, b) /\ (InHand(i, b) => ~ InOpen(i, b)) => InOneOpen(i, b)'
  BY <1>1, <1>2, <1>3, OpenGains DEF IInv
<1>6. /\ ~ InPart(i, b) /\ ~ InPart(i, b)' /\ ~ InSent(i, b) /\ ~ InSent(i, b)'
      /\ InLog(i, b)' <=> InLog(i, b)
      /\ Waits(i)' <=> Waits(i)
  BY <1>1 DEF InPart, InSent, InLog, Waits
<1>7. InOnePart(log, i, b)'
  BY <1>1 DEF ByteOK, InOnePart
<1> QED
  BY <1>1, <1>4, <1>5, <1>6, <1>7 DEF ByteOK, Somewhere, AtOnePlace

(* A slice takes the first bytes of what is in hand.                       *)
LEMMA CutBytes ==
  ASSUME IInv, ProgressOK, Cut, NEW i \in Items, NEW b \in 0..(length[i] - 1), ByteOK(i, b)
  PROVE  ByteOK(i, b)'
<1>1. /\ pc = "cut" /\ pc' = "place" /\ part'.item = hand /\ part'.from = processed
      /\ part'.count \in Nat /\ processed \in Nat /\ processed' = processed + part'.count
      /\ UNCHANGED <<hand, todo, open, sending, log, length>>
  BY CutProgress DEF Cut, called, answered
<1>2. /\ InHand(i, b) <=> InHand(i, b)' \/ InPart(i, b)'
      /\ ~ (InHand(i, b)' /\ InPart(i, b)')
  BY <1>1 DEF InHand, InPart, Has
<1>3. /\ ~ InPart(i, b) /\ ~ InSent(i, b) /\ ~ InSent(i, b)'
      /\ InLog(i, b)' <=> InLog(i, b)
      /\ InOpen(i, b)' <=> InOpen(i, b)
      /\ Waits(i)' <=> Waits(i)
  BY <1>1 DEF InPart, InSent, InLog, InOpen, Waits
<1>4. InOneOpen(i, b)' /\ InOnePart(log, i, b)'
  BY <1>1 DEF ByteOK, InOneOpen, InOnePart
<1> QED BY <1>1, <1>2, <1>3, <1>4 DEF ByteOK, Somewhere, AtOnePlace
(* A slice goes into an open package.                                      *)
LEMMA PlaceInOpenBytes ==
  ASSUME IInv, PlaceInOpen, NEW i \in Items, NEW b \in 0..(length[i] - 1), ByteOK(i, b)
  PROVE  ByteOK(i, b)'
<1>1. /\ pc = "place" /\ pc' \in {"cut", "check"} /\ part \in PartSet
      /\ UNCHANGED <<hand, processed, todo, log, length>>
  BY DEF PlaceInOpen, Onward, called, answered, IInv, TypeOK
<1>2. \E k \in 1..Len(open) : open' = [open EXCEPT ![k] = Add(open[k], part)]
  BY <1>1, OpenAfter DEF PlaceInOpen
<1>3. Has(part, i, b) <=> InPart(i, b)
  BY <1>1 DEF InPart
<1>4. /\ InOpen(i, b)' <=> InOpen(i, b) \/ InPart(i, b)
      /\ InOneOpen(i, b) /\ (InPart(i, b) => ~ InOpen(i, b)) => InOneOpen(i, b)'
  BY <1>1, <1>2, <1>3, OpenGains DEF IInv
<1>5. /\ ~ InPart(i, b)' /\ ~ InSent(i, b) /\ ~ InSent(i, b)'
      /\ InLog(i, b)' <=> InLog(i, b)
      /\ InHand(i, b)' <=> InHand(i, b)
      /\ Waits(i)' <=> Waits(i)
  BY <1>1 DEF InPart, InSent, InLog, InHand, Waits
<1>6. InOnePart(log, i, b)'
  BY <1>1 DEF ByteOK, InOnePart
<1> QED
  BY <1>1, <1>4, <1>5, <1>6 DEF ByteOK, Somewhere, AtOnePlace

(* A slice goes into a new package, which may be sent at once.  No slice is*)
(* dropped: none is cut while a package is current.                        *)
LEMMA PlaceInNewBytes ==
  ASSUME IInv, ProgressOK, PlaceInNew, pc' \notin Broken,
         NEW i \in Items, NEW b \in 0..(length[i] - 1), ByteOK(i, b)
  PROVE  ByteOK(i, b)'
<1>1. /\ pc = "place" /\ part \in PartSet /\ current = 0
      /\ UNCHANGED <<hand, processed, todo, log, length>>
  BY DEF PlaceInNew, ProgressOK, called, answered, IInv, TypeOK
<1>2. \/ /\ sending' = Add(NewPackage, part) /\ pc' = "send" /\ UNCHANGED open
      \/ /\ open' = Append(open, Add(NewPackage, part)) /\ pc' \in {"cut", "check"}
  BY <1>1 DEF PlaceInNew, Onward, Broken
<1>3. Has(part, i, b) <=> InPart(i, b)
  BY <1>1 DEF InPart
<1>4. /\ ~ InPart(i, b)' /\ ~ InSent(i, b)
      /\ InLog(i, b)' <=> InLog(i, b)
      /\ InHand(i, b)' <=> InHand(i, b)
      /\ Waits(i)' <=> Waits(i)
  BY <1>1, <1>2 DEF InPart, InSent, InLog, InHand, Waits
<1>5. InOnePart(log, i, b)'
  BY <1>1 DEF ByteOK, InOnePart
<1>6. CASE sending' = Add(NewPackage, part) /\ pc' = "send" /\ UNCHANGED open
  <2>1. sending'.parts = << part >>
    BY <1>1, <1>6, AddType, NewPackageType DEF IInv, TypeOK, NewPackage
  <2>2. Len(sending'.parts) = 1 /\ sending'.parts[1] = part
    BY <2>1
  <2>3. InSent(i, b)' <=> InPart(i, b)
    BY <1>3, <1>6, <2>2 DEF InSent, HasAt
  <2>4. InOnePart(sending.parts, i, b)'
    BY <2>2 DEF InOnePart, HasAt
  <2>5. InOpen(i, b)' <=> InOpen(i, b)
    BY <1>6 DEF InOpen
  <2>6. InOneOpen(i, b)'
    BY <1>6 DEF ByteOK, InOneOpen
  <2> QED
    BY <1>4, <1>5, <2>3, <2>4, <2>5, <2>6 DEF ByteOK, Somewhere, AtOnePlace
<1>7. CASE open' = Append(open, Add(NewPackage, part)) /\ pc' \in {"cut", "check"}
  <2>1. /\ InOpen(i, b)' <=> InOpen(i, b) \/ InPart(i, b)
        /\ InOneOpen(i, b) /\ (InPart(i, b) => ~ InOpen(i, b)) => InOneOpen(i, b)'
    BY <1>1, <1>3, <1>7, OpenGains DEF IInv
  <2>2. ~ InSent(i, b)'
    BY <1>7 DEF InSent
  <2> QED
    BY <1>4, <1>5, <1>7, <2>1, <2>2 DEF ByteOK, Somewhere, AtOnePlace
<1> QED BY <1>2, <1>6, <1>7

(* A package that is sent takes its bytes along.                           *)
LEMMA SendingBytes ==
  ASSUME IInv, NEW k \in 1..Len(open), TakenOff(k), sending' = open[k],
         pc \in {"check", "next"}, pc' = "send",
         UNCHANGED <<hand, processed, todo, log, length>>,
         NEW i \in Items, NEW b \in 0..(length[i] - 1), ByteOK(i, b)
  PROVE  ByteOK(i, b)'
<1> DEFINE s == open[k].parts
<1>1. /\ InOpen(i, b)' <=> InOpen(i, b) /\ ~ \E j \in Nat : HasAt(s, j, i, b)
      /\ (\E j \in Nat : HasAt(s, j, i, b)) => InOpen(i, b)
      /\ InOneOpen(i, b)'
      /\ InOnePart(s, i, b)
  BY OpenLoses DEF IInv, ByteOK
<1>2. InSent(i, b)' <=> \E j \in Nat : HasAt(s, j, i, b)
  BY DEF InSent
<1>3. InOnePart(sending.parts, i, b)'
  BY <1>1 DEF InOnePart
<1>4. /\ ~ InPart(i, b) /\ ~ InPart(i, b)' /\ ~ InSent(i, b)
      /\ InLog(i, b)' <=> InLog(i, b)
      /\ InHand(i, b)' <=> InHand(i, b)
      /\ Waits(i)' <=> Waits(i)
  BY DEF InPart, InSent, InLog, InHand, Waits
<1>5. InOnePart(log, i, b)'
  BY DEF ByteOK, InOnePart
<1> HIDE DEF s
<1> QED
  BY <1>1, <1>2, <1>3, <1>4, <1>5 DEF ByteOK, Somewhere, AtOnePlace

(* The positions of the log after an answer.                               *)
LEMMA LogTakes ==
  ASSUME TypeOK, NEW codes \in [DOMAIN sending.parts -> Codes], log' = log \o Answers(codes),
         NEW i, NEW b
  PROVE  LET n == Len(log)
             s == sending.parts
         IN  /\ n \in Nat
             /\ \A j : HasAt(log, j, i, b) => HasAt(log', j, i, b)
             /\ \A j : HasAt(s, j, i, b) => n + j \in Nat /\ HasAt(log', n + j, i, b)
             /\ \A j : HasAt(log', j, i, b) =>
                  \/ HasAt(log, j, i, b)
                  \/ j - n \in Nat /\ n + (j - n) = j /\ HasAt(s, j - n, i, b)
             /\ InLog(i, b)' <=> InLog(i, b) \/ \E j \in Nat : HasAt(s, j, i, b)
<1> DEFINE n == Len(log)
           s == sending.parts
<1>1. /\ n \in Nat /\ Len(s) \in Nat
      /\ Len(log') = n + Len(s)
      /\ \A j \in 1..n : log'[j] = log[j]
      /\ \A j \in 1..Len(s) : Has(log'[n + j], i, b) <=> Has(s[j], i, b)
  BY LogGrows, PartsOfType, LenProperties DEF TypeOK, Has
<1>2. ASSUME NEW j
      PROVE  /\ HasAt(log, j, i, b) => HasAt(log', j, i, b)
             /\ HasAt(s, j, i, b) => n + j \in Nat /\ HasAt(log', n + j, i, b)
             /\ HasAt(log', j, i, b) =>
                  \/ HasAt(log, j, i, b)
                  \/ j - n \in Nat /\ n + (j - n) = j /\ HasAt(s, j - n, i, b)
  <2> HIDE DEF n, s
  <2>1. HasAt(log, j, i, b) => HasAt(log', j, i, b)
    BY <1>1 DEF HasAt, n
  <2>2. HasAt(s, j, i, b) => n + j \in Nat /\ HasAt(log', n + j, i, b)
    BY <1>1 DEF HasAt
  <2>3. ASSUME HasAt(log', j, i, b), j \notin 1..n
        PROVE  j - n \in Nat /\ n + (j - n) = j /\ HasAt(s, j - n, i, b)
    <3>1. j - n \in 1..Len(s) /\ n + (j - n) = j
      BY <1>1, <2>3 DEF HasAt
    <3> DEFINE l == j - n
    <3> HIDE DEF l
    <3>2. l \in 1..Len(s) /\ n + l = j
      BY <3>1 DEF l
    <3>3. HasAt(s, l, i, b)
      BY <1>1, <2>3, <3>2 DEF HasAt
    <3> QED BY <3>1, <3>3 DEF l
  <2>4. HasAt(log', j, i, b) /\ j \in 1..n => HasAt(log, j, i, b)
    BY <1>1 DEF HasAt, n
  <2> QED BY <2>1, <2>2, <2>3, <2>4
<1>3. InLog(i, b)' <=> InLog(i, b) \/ \E j \in Nat : HasAt(s, j, i, b)
  <2> HIDE DEF n, s
  <2> QED BY <1>2 DEF InLog
<1> QED BY <1>1, <1>2, <1>3, Zenon

(* The answers take the bytes of the package to the log.                   *)
LEMMA AnsweredBytes ==
  ASSUME IInv, Answered, NEW i \in Items, NEW b \in 0..(length[i] - 1), ByteOK(i, b)
  PROVE  ByteOK(i, b)'
<1>1. /\ pc = "send" /\ pc' \in {"cut", "next"}
      /\ UNCHANGED <<hand, processed, todo, open, length>>
  BY DEF Answered, Resume, called
<1>2. PICK codes \in [DOMAIN sending.parts -> Codes] : log' = log \o Answers(codes)
  BY DEF Answered
<1> DEFINE n == Len(log)
           s == sending.parts
<1>3. /\ n \in Nat
      /\ \A j : HasAt(log', j, i, b) =>
           \/ HasAt(log, j, i, b)
           \/ j - n \in Nat /\ n + (j - n) = j /\ HasAt(s, j - n, i, b)
      /\ InLog(i, b)' <=> InLog(i, b) \/ \E j \in Nat : HasAt(s, j, i, b)
  BY <1>2, LogTakes DEF IInv
<1> HIDE DEF n, s
<1>4. InSent(i, b) <=> \E j \in Nat : HasAt(s, j, i, b)
  BY <1>1 DEF InSent, s
<1>5. InOnePart(log, i, b)'
  <2> SUFFICES ASSUME NEW j \in Nat, NEW l \in Nat, HasAt(log', j, i, b), HasAt(log', l, i, b)
               PROVE  j = l
    BY DEF InOnePart
  <2>1. \A m \in Nat : HasAt(log, m, i, b) => InLog(i, b) /\ ~ InSent(i, b)
    BY DEF InLog, ByteOK, AtOnePlace
  <2>2. HasAt(log, j, i, b) /\ HasAt(log, l, i, b) => j = l
    BY DEF ByteOK, InOnePart
  <2>3. HasAt(s, j - n, i, b) /\ HasAt(s, l - n, i, b) /\ j - n \in Nat /\ l - n \in Nat
          => j - n = l - n
    BY <1>1 DEF ByteOK, InOnePart, s
  <2> QED BY <1>3, <1>4, <2>1, <2>2, <2>3
<1>6. /\ ~ InPart(i, b) /\ ~ InPart(i, b)' /\ ~ InSent(i, b)'
      /\ InHand(i, b)' <=> InHand(i, b)
      /\ InOpen(i, b)' <=> InOpen(i, b)
      /\ Waits(i)' <=> Waits(i)
  BY <1>1 DEF InPart, InSent, InOpen, InHand, Waits
<1>7. InOneOpen(i, b)'
  BY <1>1 DEF ByteOK, InOneOpen
<1> QED
  BY <1>1, <1>3, <1>4, <1>5, <1>6, <1>7 DEF ByteOK, Somewhere, AtOnePlace

(* At the start every item waits, once.                                    *)
LEMMA BytesAtStart ==
  ASSUME Init
  PROVE  BytesOK
<1>1. todo \in [Items -> Items] /\ InOrder(todo, length) /\ Len(todo) = Count /\ DOMAIN todo = Items
  <2>1. todo \in [1..Count -> Items]
    BY DEF Init, Items
  <2>2. todo \in Seq(Items) /\ Len(todo) = Count
    BY <2>1, CountAssumption, SeqDef
  <2> QED BY <2>1, <2>2 DEF Init, Items
<1>2. \A i \in Items : length[i] \in Nat /\ i \in Nat
  <2>1. \A i \in Items : length[i] \in Nat
    BY InitInvariant, LengthType DEF IInv
  <2>2. \A i \in Items : i \in Nat
    BY CountAssumption DEF Items
  <2> QED BY <2>1, <2>2
<1>3. ASSUME NEW j \in Items, NEW l \in Items, todo[j] = todo[l] PROVE j = l
  <2>1. ~ (j < l) /\ ~ (l < j)
    <3>1. length[todo[j]] \in Nat /\ todo[j] \in Nat /\ length[todo[l]] \in Nat /\ todo[l] \in Nat
      BY <1>1, <1>2
    <3> QED BY <1>1, <1>3, <3>1 DEF InOrder
  <2> QED BY <1>2, <2>1
<1>4. todo \in Surjection(Items, Items)
  <2>1. todo \in Injection(Items, Items)
    BY <1>1, <1>3 DEF Injection, IsInjective
  <2>2. IsFiniteSet(Items)
    BY CountAssumption, FS_Interval DEF Items
  <2> QED BY <2>1, <2>2, FS_Injection
<1>5. TodoOK
  BY <1>1, <1>3 DEF TodoOK, Items
<1>6. ASSUME NEW i \in Items, NEW b \in 0..(length[i] - 1) PROVE ByteOK(i, b)
  <2>1. Waits(i)
    <3>1. PICK j \in Items : todo[j] = i
      BY <1>4 DEF Surjection
    <3> QED BY <1>1, <3>1 DEF Waits, Items
  <2>2. ~ InHand(i, b) /\ ~ InPart(i, b) /\ ~ InSent(i, b)
    BY <1>6, CountAssumption DEF Init, InHand, InPart, InSent, Items
  <2>3. ~ InOpen(i, b) /\ ~ InLog(i, b) /\ InOneOpen(i, b) /\ InOnePart(log, i, b)
    <3>1. Len(open) = 0 /\ Len(log) = 0
      BY DEF Init
    <3> QED BY <3>1 DEF InOpen, InLog, InOneOpen, InOnePart, OpenAt, PartAt, HasAt
  <2> QED BY <2>1, <2>2, <2>3 DEF ByteOK, Somewhere, AtOnePlace, Init
<1> QED BY <1>5, <1>6 DEF BytesOK

(* A call that has ended stays ended, and a rejected package stays so.     *)
LEMMA Downhill ==
  ASSUME IInv, [Next]_vars
  PROVE  /\ pc \in Ended => UNCHANGED <<pc, open, sending, todo, hand, processed, part, result, log>>
         /\ rejected => rejected'
         /\ UNCHANGED <<kind, length>>
BY DEF Next, Pack, Exchange, TakeItem, PlaceWhole, Cut, PlaceInOpen, PlaceInNew, Check, Flush,
       Finish, Answered, Rejected, Unanswered, Renegotiate, vars, called, answered, Ended

LEMMA BytesStep ==
  ASSUME IInv, ProgressOK, BytesOK, [Next]_vars
  PROVE  BytesOK'
<1>1. TodoOK'
  <2>1. CASE TakeItem
    BY <2>1, TakeItemBytes DEF BytesOK
  <2>2. CASE UNCHANGED todo
    BY <2>2 DEF BytesOK, TodoOK
  <2>3. TakeItem \/ UNCHANGED todo
    BY DEF Next, Pack, Exchange, PlaceWhole, Cut, PlaceInOpen, PlaceInNew, Check, Flush, Finish,
           Answered, Rejected, Unanswered, Renegotiate, vars
  <2> QED BY <2>1, <2>2, <2>3
<1>2. ASSUME ~ rejected', pc' \notin Broken,
             NEW i \in Items, NEW b \in 0..(length[i] - 1)
      PROVE  ByteOK(i, b)'
  <2>1. ~ rejected /\ pc \notin Broken
    BY <1>2, Downhill DEF Broken, Ended
  <2>2. ByteOK(i, b)
    BY <1>2, <2>1 DEF BytesOK
  <2>3. CASE TakeItem
    BY <1>2, <2>2, <2>3, TakeItemBytes DEF BytesOK
  <2>4. CASE PlaceWhole \/ Cut
    BY <1>2, <2>2, <2>4, PlaceWholeBytes, CutBytes
  <2>5. CASE PlaceInOpen \/ PlaceInNew
    BY <1>2, <2>2, <2>5, PlaceInOpenBytes, PlaceInNewBytes
  <2>6. CASE (Check /\ pc' = "send") \/ Flush
    <3>1. PICK k \in 1..Len(open) : sending' = open[k] /\ TakenOff(k)
      BY <2>6, OpenAfter DEF IInv, TypeOK
    <3>2. /\ pc \in {"check", "next"} /\ pc' = "send"
          /\ UNCHANGED <<hand, processed, todo, log, length>>
      BY <2>6 DEF Check, Flush, called, answered
    <3> QED BY <1>2, <2>2, <3>1, <3>2, SendingBytes
  <2>7. CASE Answered
    BY <1>2, <2>2, <2>7, AnsweredBytes
  <2>8. CASE /\ UNCHANGED <<hand, processed, todo, open, log>>
             /\ \/ UNCHANGED <<pc, part, sending>>
                \/ pc \in {"check", "next"} /\ pc' \in {"next", "complete"}
    <3>1. /\ InPart(i, b)' <=> InPart(i, b)
          /\ InSent(i, b)' <=> InSent(i, b)
          /\ InHand(i, b)' <=> InHand(i, b)
          /\ InOpen(i, b)' <=> InOpen(i, b)
          /\ InLog(i, b)' <=> InLog(i, b)
          /\ Waits(i)' <=> Waits(i)
      BY <2>8 DEF InPart, InSent, InHand, InOpen, InLog, Waits
    <3>2. InOneOpen(i, b)' /\ InOnePart(log, i, b)'
      BY <2>2, <2>8 DEF ByteOK, InOneOpen, InOnePart
    <3>3. pc' = "send" => InOnePart(sending.parts, i, b)'
      BY <2>2, <2>8 DEF ByteOK, InOnePart
    <3> QED BY <2>2, <3>1, <3>2, <3>3 DEF ByteOK, Somewhere, AtOnePlace
  <2>9. CASE (Check /\ pc' # "send") \/ Finish
    <3>1. /\ UNCHANGED <<hand, processed, todo, open, log>>
          /\ pc \in {"check", "next"} /\ pc' \in {"next", "complete"}
      BY <1>2, <2>9 DEF Check, Finish, Broken, called, answered
    <3> QED BY <2>8, <3>1
  <2>10. CASE Rejected \/ Unanswered
    BY <1>2, <2>10 DEF Rejected, Unanswered, Broken
  <2>11. CASE Renegotiate \/ UNCHANGED vars
    BY <2>8, <2>11 DEF Renegotiate, vars, called, answered
  <2> QED
    BY <2>3, <2>4, <2>5, <2>6, <2>7, <2>9, <2>10, <2>11 DEF Next, Pack, Exchange
<1>3. UNCHANGED length
  BY Downhill
<1> QED BY <1>1, <1>2, <1>3 DEF BytesOK

PlacesInv == IInv /\ ProgressOK /\ PartsOK /\ BytesOK

LEMMA PlacesHold == Spec => []PlacesInv
<1>1. Init => PlacesInv
  <2> SUFFICES ASSUME Init PROVE PlacesInv
    OBVIOUS
  <2>1. ProgressOK
    BY DEF Init, ProgressOK
  <2>2. PartsOK
    <3>1. Len(open) = 0 /\ Len(log) = 0
      BY DEF Init
    <3> QED BY <3>1 DEF Init, PartsOK, PartAt
  <2> QED BY <2>1, <2>2, InitInvariant, BytesAtStart DEF PlacesInv
<1>2. PlacesInv /\ [Next]_vars => PlacesInv'
  BY InvariantStep, ProgressStep, PartsStep, BytesStep DEF PlacesInv
<1> QED BY <1>1, <1>2, PTL DEF Spec

(* What is left when a call returns: all bytes are in the log.             *)
LEMMA AllLogged ==
  ASSUME PlacesInv, pc = "complete", ~ rejected, NEW i \in Items, NEW b \in 0..(length[i] - 1)
  PROVE  InLog(i, b) /\ InOnePart(log, i, b)
<1>1. ByteOK(i, b) /\ Len(todo) = 0 /\ Len(open) = 0
  BY DEF PlacesInv, BytesOK, Broken, ProgressOK
<1>2. i # 0 /\ (hand = 0 \/ processed = length[hand]) /\ length[i] \in Nat /\ b < length[i]
  BY CountAssumption, LengthType DEF PlacesInv, IInv, ProgressOK, Items
<1>3. ~ Waits(i) /\ ~ InHand(i, b) /\ ~ InPart(i, b) /\ ~ InOpen(i, b) /\ ~ InSent(i, b)
  BY <1>1, <1>2 DEF Waits, InHand, InPart, InOpen, InSent, OpenAt, PartAt
<1> QED BY <1>1, <1>3 DEF ByteOK, Somewhere

(* The positions of the log.                                               *)
LEMMA LogPositions ==
  ASSUME TypeOK
  PROVE  /\ DOMAIN log = 1..Len(log) /\ Len(log) \in Nat
         /\ \A j \in DOMAIN log :
              /\ log[j].from \in Nat /\ log[j].count \in Nat
              /\ \A i, b : HasAt(log, j, i, b) /\ b \in Nat <=> log[j].item = i /\ b \in Bytes(log[j])
<1>1. log \in Seq(EntrySet)
  BY DEF TypeOK, EntrySet
<1>2. DOMAIN log = 1..Len(log) /\ Len(log) \in Nat
  BY <1>1, LenProperties
<1>3. ASSUME NEW j \in DOMAIN log
      PROVE  /\ log[j].from \in Nat /\ log[j].count \in Nat
             /\ \A i, b : HasAt(log, j, i, b) /\ b \in Nat <=> log[j].item = i /\ b \in Bytes(log[j])
  <2>0. log[j] \in EntrySet
    BY <1>1, <1>2
  <2>1. log[j].from \in Nat /\ log[j].count \in Nat
    BY <2>0 DEF EntrySet
  <2>2. ASSUME NEW i, NEW b
        PROVE  HasAt(log, j, i, b) /\ b \in Nat <=> log[j].item = i /\ b \in Bytes(log[j])
    BY <1>2, <2>1 DEF HasAt, Has, Bytes
  <2> QED BY <2>1, <2>2
<1> QED BY <1>2, <1>3

(* Of any items and for any PDU sizes: when a call returns, every byte of  *)
(* every item has been in exactly one part of one package that the PLC     *)
(* answered, and no part reached beyond its item.                          *)
THEOREM BytesTravelOnce == Spec => []EveryByteOnce
<1>1. PlacesInv => EveryByteOnce
  <2> SUFFICES ASSUME PlacesInv, pc = "complete", ~ rejected, NEW i \in Items
               PROVE  LET mine == {j \in DOMAIN log : log[j].item = i}
                      IN  /\ \A j \in mine : Bytes(log[j]) \subseteq 0..(length[i] - 1)
                          /\ \A b \in 0..(length[i] - 1) :
                               Cardinality({j \in mine : b \in Bytes(log[j])}) = 1
    BY DEF EveryByteOnce
  <2> DEFINE mine == {j \in DOMAIN log : log[j].item = i}
  <2>1. TypeOK /\ length[i] \in Nat
    BY LengthType DEF PlacesInv, IInv
  <2>2. ASSUME NEW j \in mine PROVE Bytes(log[j]) \subseteq 0..(length[i] - 1)
    <3>1. log[j].from \in Nat /\ log[j].count \in Nat /\ Within(log[j]) /\ log[j].item = i
      BY <2>1, LogPositions DEF PlacesInv, PartsOK
    <3> QED BY <2>1, <3>1 DEF Within, Bytes
  <2>3. ASSUME NEW b \in 0..(length[i] - 1)
        PROVE  Cardinality({j \in mine : b \in Bytes(log[j])}) = 1
    <3>1. PICK j \in Nat : HasAt(log, j, i, b)
      BY AllLogged DEF InLog
    <3>2. InOnePart(log, i, b)
      BY AllLogged
    <3>3. \A l : l \in mine /\ b \in Bytes(log[l]) <=> l = j
      BY <2>1, <3>1, <3>2, LogPositions DEF HasAt, InOnePart
    <3>4. {l \in mine : b \in Bytes(log[l])} = {j}
      BY <3>3
    <3> QED BY <3>4, FS_Singleton
  <2> QED BY <2>2, <2>3
<1> QED BY <1>1, PlacesHold, PTL

(* At any moment of a read, if all answered parts of an item succeeded, its*)
(* array holds exactly their bytes.                                        *)
FilledSoFar ==
  /\ kind = "read" =>
       \A i \in Items :
         (\A j \in 1..Len(log) : log[j].item = i => log[j].code = Success) =>
           /\ result[i].code \in {"none", Success}
           /\ \A b \in Nat : b \in result[i].data <=> InLog(i, b)
  /\ pc = "complete" => \A i \in Items : result[i].code # "none"

LEMMA FilledStep ==
  ASSUME IInv, FilledSoFar, Answered
  PROVE  FilledSoFar'
<1>0. pc' # "complete" /\ pc = "send" /\ UNCHANGED kind
  BY DEF Answered, Resume, called
<1> SUFFICES ASSUME kind = "read", NEW i \in Items,
                    \A j \in 1..Len(log') : log'[j].item = i => log'[j].code = Success
             PROVE  /\ result'[i].code \in {"none", Success}
                    /\ \A b \in Nat : b \in result'[i].data <=> InLog(i, b)'
  BY <1>0 DEF FilledSoFar
<1>1. PICK codes \in [DOMAIN sending.parts -> Codes] :
        /\ result' = [k \in Items |-> IF kind = "read" THEN ReadResult(k, codes)
                                                       ELSE WriteResult(k, codes)]
        /\ log' = log \o Answers(codes)
  BY DEF Answered
<1> DEFINE m == Len(log)
           s == sending.parts
           mine == PartsOf(i)
<1>2. /\ m \in Nat /\ Len(s) \in Nat /\ DOMAIN s = 1..Len(s) /\ Len(log') = m + Len(s)
      /\ \A j \in 1..m : log'[j] = log[j]
      /\ \A j \in 1..Len(s) : log'[m + j].item = s[j].item /\ log'[m + j].code = codes[j]
  BY <1>1, LogGrows, PartsOfType, LenProperties DEF IInv, TypeOK
<1>3. mine = {j \in 1..Len(s) : s[j].item = i} /\ \A j \in 1..Len(s) : s[j] \in PartSet
  BY <1>2, PartsOfType DEF PartsOf, IInv
<1>4. result'[i] = ReadResult(i, codes)
  BY <1>1
<1> HIDE DEF m, s, mine
<1>5. \A j \in 1..m : log[j].item = i => log[j].code = Success
  BY <1>2
<1>6. \A j \in mine : codes[j] = Success
  <2>1. \A j \in 1..Len(s) : m + j \in 1..Len(log')
    BY <1>2
  <2> QED BY <1>2, <1>3, <2>1
<1>7. result[i].code \in {"none", Success} /\ \A b \in Nat : b \in result[i].data <=> InLog(i, b)
  BY <1>5 DEF FilledSoFar, m
<1>8. ASSUME NEW b \in Nat
      PROVE  /\ InLog(i, b)' <=> InLog(i, b) \/ \E j \in Nat : HasAt(s, j, i, b)
             /\ (\E j \in Nat : HasAt(s, j, i, b)) <=> \E j \in mine : b \in Bytes(s[j])
  <2>1. InLog(i, b)' <=> InLog(i, b) \/ \E j \in Nat : HasAt(s, j, i, b)
    BY <1>1, LogTakes DEF IInv, s
  <2>2. \A j \in Nat : HasAt(s, j, i, b) <=> j \in mine /\ b \in Bytes(s[j])
    BY <1>3 DEF HasAt, Has, Bytes, PartSet
  <2> QED BY <1>3, <2>1, <2>2
<1>9. CASE mine = {}
  BY <1>4, <1>7, <1>8, <1>9 DEF ReadResult, mine
<1>10. CASE mine # {}
  <2> DEFINE filled == UNION {Bytes(s[j]) : j \in {l \in mine : codes[l] = Success}}
             last == CHOOSE j \in mine : \A l \in mine : l <= j
  <2>1. last \in mine
    <3>1. \E j \in mine : \A l \in mine : l <= j
      BY <1>2, <1>3, <1>10, LastPosition
    <3> QED BY <3>1
  <2>2. \A b : b \in filled <=> \E j \in mine : b \in Bytes(s[j])
    BY <1>6
  <2>3. ReadResult(i, codes) = [code |-> codes[last], data |-> result[i].data \cup filled]
    BY <1>10 DEF ReadResult, mine, s
  <2> HIDE DEF filled, last
  <2>4. result'[i].code = Success /\ result'[i].data = result[i].data \cup filled
    BY <1>4, <1>6, <2>1, <2>3
  <2> QED BY <1>7, <1>8, <2>2, <2>4
<1> QED BY <1>9, <1>10

(* A read all of whose parts succeeded returns Success for the item and its*)
(* whole array, wherever the enumeration cut it and whatever it was sent   *)
(* with.                                                                   *)
THEOREM ReadsAreWhole == Spec => []ReadsComplete
<1>1. Init => FilledSoFar
  <2> SUFFICES ASSUME Init PROVE FilledSoFar
    OBVIOUS
  <2>1. Len(log) = 0 /\ pc = "next"
    BY DEF Init
  <2> QED BY <2>1 DEF Init, FilledSoFar, Initially, Nothing, InLog, HasAt
<1>2. IInv /\ FilledSoFar /\ [Next]_vars => FilledSoFar'
  <2> SUFFICES ASSUME IInv, FilledSoFar, [Next]_vars
               PROVE  FilledSoFar'
    OBVIOUS
  <2>1. CASE Answered
    BY <2>1, FilledStep
  <2>2. CASE UNCHANGED <<kind, result, log>> /\ (pc' = "complete" => pc = "complete" \/ Finish)
    BY <2>2 DEF FilledSoFar, InLog, Finish
  <2>3. Answered \/ (UNCHANGED <<kind, result, log>> /\ (pc' = "complete" => pc = "complete" \/ Finish))
    BY DEF Next, Pack, Exchange, TakeItem, PlaceWhole, Cut, PlaceInOpen, PlaceInNew, Onward, Resume,
           Check, Flush, Finish, Rejected, Unanswered, Renegotiate, vars, called, answered
  <2> QED BY <2>1, <2>2, <2>3
<1>3. PlacesInv /\ FilledSoFar => ReadsComplete
  <2> SUFFICES ASSUME PlacesInv, FilledSoFar, kind = "read", pc = "complete", ~ rejected,
                      NEW i \in Items,
                      \A j \in DOMAIN log : log[j].item = i => log[j].code = Success
               PROVE  result[i] = [code |-> Success, data |-> 0..(length[i] - 1)]
    BY DEF ReadsComplete
  <2>1. TypeOK /\ length[i] \in Nat
    BY LengthType DEF PlacesInv, IInv
  <2>2. result[i].code = Success /\ \A b \in Nat : b \in result[i].data <=> InLog(i, b)
    BY <2>1, LogPositions DEF FilledSoFar
  <2>3. ASSUME NEW b \in Nat PROVE InLog(i, b) <=> b \in 0..(length[i] - 1)
    <3>1. ASSUME InLog(i, b) PROVE b \in 0..(length[i] - 1)
      <4>1. PICK j \in 1..Len(log) : HasAt(log, j, i, b)
        BY <3>1 DEF InLog, HasAt
      <4>2. Within(log[j]) /\ log[j].from \in Nat /\ log[j].count \in Nat
        BY <2>1, LogPositions DEF PlacesInv, PartsOK
      <4> QED BY <2>1, <4>1, <4>2 DEF HasAt, Has, Within
    <3> QED BY <3>1, AllLogged
  <2>4. result[i] \in ResultSet
    BY <2>1 DEF TypeOK, ResultSet
  <2>5. result[i].data = 0..(length[i] - 1)
    <3>1. result[i].data \subseteq Nat
      BY <2>4 DEF ResultSet
    <3>2. \A b : b \in result[i].data <=> b \in Nat /\ b \in 0..(length[i] - 1)
      BY <2>2, <2>3, <3>1
    <3>3. \A b \in 0..(length[i] - 1) : b \in Nat
      BY <2>1
    <3> QED BY <3>2, <3>3
  <2> QED BY <2>2, <2>4, <2>5 DEF ResultSet
<1> QED BY <1>1, <1>2, <1>3, InvariantHolds, PlacesHold, PTL DEF Spec

-----------------------------------------------------------------------------
(* The enumeration runs down.                                              *)

LEMMA OneIsLess ==
  ASSUME NEW a1 \in Nat, NEW a2 \in Nat, NEW a3 \in Nat, NEW a4 \in Nat, NEW a5 \in Nat,
         NEW b1 \in Nat, NEW b2 \in Nat, NEW b3 \in Nat, NEW b4 \in Nat, NEW b5 \in Nat,
         \/ a1 < b1
         \/ a1 = b1 /\ a2 < b2
         \/ a1 = b1 /\ a2 = b2 /\ a3 < b3
         \/ a1 = b1 /\ a2 = b2 /\ a3 = b3 /\ a4 < b4
         \/ a1 = b1 /\ a2 = b2 /\ a3 = b3 /\ a4 = b4 /\ a5 < b5
  PROVE  Below(<<a1, a2, a3, a4, a5>>, <<b1, b2, b3, b4, b5>>)
<1> DEFINE a == <<a1, a2, a3, a4, a5>>
           b == <<b1, b2, b3, b4, b5>>
<1>1. /\ a[1] = a1 /\ a[2] = a2 /\ a[3] = a3 /\ a[4] = a4 /\ a[5] = a5
      /\ b[1] = b1 /\ b[2] = b2 /\ b[3] = b3 /\ b[4] = b4 /\ b[5] = b5
  OBVIOUS
<1> HIDE DEF a, b
<1>2. PICK k \in 1..5 : a[k] < b[k] /\ \A j \in 1..(k - 1) : a[j] = b[j]
  <2>1. CASE a1 < b1
    BY <1>1, <2>1
  <2>2. CASE a1 = b1 /\ a2 < b2
    <3>1. \A j \in 1..(2 - 1) : j = 1
      OBVIOUS
    <3> QED BY <1>1, <2>2, <3>1
  <2>3. CASE a1 = b1 /\ a2 = b2 /\ a3 < b3
    <3>1. \A j \in 1..(3 - 1) : j = 1 \/ j = 2
      OBVIOUS
    <3> QED BY <1>1, <2>3, <3>1
  <2>4. CASE a1 = b1 /\ a2 = b2 /\ a3 = b3 /\ a4 < b4
    <3>1. \A j \in 1..(4 - 1) : j = 1 \/ j = 2 \/ j = 3
      OBVIOUS
    <3> QED BY <1>1, <2>4, <3>1
  <2>5. CASE a1 = b1 /\ a2 = b2 /\ a3 = b3 /\ a4 = b4 /\ a5 < b5
    <3>1. \A j \in 1..(5 - 1) : j = 1 \/ j = 2 \/ j = 3 \/ j = 4
      OBVIOUS
    <3> QED BY <1>1, <2>5, <3>1
  <2> QED BY <2>1, <2>2, <2>3, <2>4, <2>5
<1>3. Below(a, b)
  BY <1>2 DEF Below
<1> QED BY <1>3 DEF a, b

(* What is left to do is counted by natural numbers.                       *)
LEMMA ToDoCounts ==
  ASSUME IInv, ProgressOK
  PROVE  Len(todo) \in Nat /\ Uncut \in Nat /\ Unplaced \in 0..1 /\ Len(open) \in Nat /\ Phase \in 0..3
<1>1. Len(todo) \in Nat /\ Len(open) \in Nat
  BY LenProperties DEF IInv, TypeOK
<1>2. Uncut \in Nat
  <2>1. CASE hand = 0
    BY <2>1 DEF Uncut
  <2>2. CASE hand \in Items
    BY <2>2, LengthType DEF Uncut, IInv, TypeOK, ProgressOK
  <2> QED BY <2>1, <2>2 DEF IInv, TypeOK
<1>3. Unplaced \in 0..1 /\ Phase \in 0..3
  BY DEF Unplaced, Phase
<1> QED BY <1>1, <1>2, <1>3

(* The lists get shorter.                                                  *)
LEMMA ListsShrink ==
  ASSUME IInv
  PROVE  /\ TakeItem => Len(todo') = Len(todo) - 1
         /\ Check /\ pc' = "send" => Len(open') = Len(open) - 1
         /\ Flush => Len(open') = Len(open) - 1
<1>0. todo \in Seq(Items) /\ open \in Seq(PackageSet)
  BY DEF IInv, TypeOK
<1>1. ASSUME TakeItem PROVE Len(todo') = Len(todo) - 1
  BY <1>0, <1>1, HeadTailProperties DEF TakeItem
<1>2. ASSUME Check, pc' = "send" PROVE Len(open') = Len(open) - 1
  <2>1. part \in PartSet
    BY DEF IInv, TypeOK
  <2>2. current \in 1..Len(open) /\ TakenOff(current)
    BY <1>2, <2>1, OpenAfter
  <2> QED BY <2>2, OpenLess DEF IInv
<1>3. ASSUME Flush PROVE Len(open') = Len(open) - 1
  BY <1>0, <1>3, HeadTailProperties DEF Flush
<1> QED BY <1>1, <1>2, <1>3

LEMMA PackingShrinks ==
  ASSUME IInv, ProgressOK, IInv', ProgressOK', Pack \/ Exchange
  PROVE  Below(ToDo', ToDo)
<1>0. /\ Len(todo) \in Nat /\ Uncut \in Nat /\ Unplaced \in 0..1 /\ Len(open) \in Nat /\ Phase \in 0..3
      /\ Len(todo') \in Nat /\ Uncut' \in Nat /\ Unplaced' \in 0..1 /\ Len(open') \in Nat
      /\ Phase' \in 0..3
  <2>1. (/\ Len(todo) \in Nat /\ Uncut \in Nat /\ Unplaced \in 0..1 /\ Len(open) \in Nat
         /\ Phase \in 0..3)'
    BY ToDoCounts, PTL
  <2> QED BY <2>1, ToDoCounts
<1>1. \/ Len(todo') < Len(todo)
      \/ Len(todo') = Len(todo) /\ Uncut' < Uncut
      \/ Len(todo') = Len(todo) /\ Uncut' = Uncut /\ Unplaced' < Unplaced
      \/ /\ Len(todo') = Len(todo) /\ Uncut' = Uncut /\ Unplaced' = Unplaced
         /\ Len(open') < Len(open)
      \/ /\ Len(todo') = Len(todo) /\ Uncut' = Uncut /\ Unplaced' = Unplaced
         /\ Len(open') = Len(open) /\ Phase' < Phase
  <2>1. CASE TakeItem
    BY <1>0, <2>1, ListsShrink
  <2>2. CASE PlaceWhole
    <3>1. /\ UNCHANGED <<todo, hand, length>> /\ hand \in Items /\ hand # 0
          /\ Unplaced = 1 /\ Unplaced' = 0
          /\ processed' = length[hand] \/ processed' = processed
      BY <2>2, CountAssumption DEF PlaceWhole, called, Unplaced, IInv, HandOK, Items
    <3>2. processed = 0 /\ length[hand] \in Nat
      BY <2>2, <3>1, LengthType DEF ProgressOK, PlaceWhole, IInv
    <3>3. Uncut' <= Uncut
      BY <3>1, <3>2 DEF Uncut
    <3> QED BY <1>0, <3>1, <3>3
  <2>3. CASE Cut
    <3>1. /\ UNCHANGED <<todo, hand, length>> /\ hand \in Items /\ hand # 0
          /\ processed' = processed + part'.count /\ part'.count \in Nat /\ processed \in Nat
      BY <2>3, CutProgress, CountAssumption DEF called, Items
    <3>2. part'.count > 0
      <4>1. ItemMaxLength \in Nat /\ ItemMaxLength > 0
        BY PduBound DEF ItemMaxLength, IInv, TypeOK
      <4>2. length[hand] - processed \in Nat /\ length[hand] - processed > 0
        BY <2>3, <3>1, LengthType DEF IInv, HandOK, Cut
      <4>3. part'.count = Smaller(ItemMaxLength, length[hand] - processed)
        BY <2>3 DEF Cut, Part
      <4> QED BY <4>1, <4>2, <4>3 DEF Smaller
    <3>3. length[hand] \in Nat
      BY <3>1, LengthType DEF IInv
    <3>4. Uncut' < Uncut
      BY <3>1, <3>2, <3>3 DEF Uncut
    <3> QED BY <1>0, <3>1, <3>4
  <2>4. CASE PlaceInOpen \/ PlaceInNew
    <3>1. UNCHANGED <<todo, hand, length, processed>> /\ pc = "place"
      BY <2>4 DEF PlaceInOpen, PlaceInNew, called
    <3>2. pc' \in {"cut", "check", "send", "could_not_add"}
      BY <2>4 DEF PlaceInOpen, PlaceInNew, Onward
    <3>3. Unplaced = 1 /\ Unplaced' = 0 /\ Uncut' = Uncut
      BY <3>1, <3>2 DEF Unplaced, Uncut
    <3> QED BY <3>1, <3>3
  <2>5. CASE Check
    <3>1. UNCHANGED <<todo, hand, length, processed>> /\ pc = "check" /\ pc' \in {"send", "next"}
      BY <2>5 DEF Check, called
    <3>2. Unplaced = 0 /\ Unplaced' = 0 /\ Uncut' = Uncut
      BY <3>1 DEF Unplaced, Uncut
    <3>3. CASE pc' = "send"
      BY <1>0, <2>5, <3>1, <3>2, <3>3, ListsShrink
    <3>4. CASE pc' = "next"
      <4>1. open' = open
        BY <2>5, <3>4 DEF Check
      <4>2. Phase = 3 /\ Phase' = 1
        BY <3>1, <3>4 DEF Phase, Ended
      <4> QED BY <3>1, <3>2, <4>1, <4>2
    <3> QED BY <3>1, <3>3, <3>4
  <2>6. CASE Flush
    <3>1. UNCHANGED <<todo, hand, length, processed>> /\ pc = "next" /\ pc' = "send"
      BY <2>6 DEF Flush, called
    <3>2. Unplaced = 0 /\ Unplaced' = 0 /\ Uncut' = Uncut
      BY <3>1 DEF Unplaced, Uncut
    <3> QED BY <1>0, <2>6, <3>1, <3>2, ListsShrink
  <2>7. CASE Finish \/ Exchange
    <3>1. UNCHANGED <<todo, hand, length, processed, open>>
      BY <2>7 DEF Finish, Exchange, Answered, Rejected, Unanswered, called
    <3>2. \/ pc = "next" /\ pc' \in {"thrown", "complete"}
          \/ pc = "send" /\ pc' \in {"cut", "next", "thrown", "empty"}
      BY <2>7 DEF Finish, Exchange, Answered, Rejected, Unanswered, Resume
    <3>3. Unplaced = 0 /\ Unplaced' = 0 /\ Uncut' = Uncut
      BY <3>1, <3>2 DEF Unplaced, Uncut
    <3>4. Phase' < Phase
      BY <3>2 DEF Phase, Ended
    <3> QED BY <3>1, <3>3, <3>4
  <2> QED BY <2>1, <2>2, <2>3, <2>4, <2>5, <2>6, <2>7 DEF Pack
<1>2. Unplaced \in Nat /\ Phase \in Nat /\ Unplaced' \in Nat /\ Phase' \in Nat
  BY <1>0
<1>3. Below(<<Len(todo'), Uncut', Unplaced', Len(open'), Phase'>>,
            <<Len(todo), Uncut, Unplaced, Len(open), Phase>>)
  BY <1>0, <1>1, <1>2, OneIsLess, Zenon
<1> QED BY <1>3 DEF ToDo

(* For any items and any PDU sizes: each step of the enumeration and each  *)
(* exchange lowers a quintuple of natural numbers in their lexicographic   *)
(* order, which is well-founded, and a reconnect does not raise it.  This  *)
(* is the safety part of CallEnds.                                         *)
THEOREM WorkRunsOut == Spec => [](ToDo \in Nat \X Nat \X Nat \X Nat \X Nat) /\ WorkShrinks
<1>1. IInv /\ ProgressOK => ToDo \in Nat \X Nat \X Nat \X Nat \X Nat
  BY ToDoCounts DEF ToDo
<1>2. ASSUME IInv, ProgressOK, IInv', ProgressOK', [Next]_vars
      PROVE  [/\ Pack \/ Exchange => Below(ToDo', ToDo)
              /\ Renegotiate => ToDo' = ToDo]_vars
  <2>1. Pack \/ Exchange => Below(ToDo', ToDo)
    BY <1>2, PackingShrinks
  <2>2. Renegotiate => ToDo' = ToDo
    BY DEF Renegotiate, called, ToDo, Uncut, Unplaced, Phase
  <2> QED BY <2>1, <2>2
<1>3. PlacesInv => IInv /\ ProgressOK
  BY DEF PlacesInv
<1> QED BY <1>1, <1>2, <1>3, PlacesHold, PTL DEF Spec, WorkShrinks

(* Among packages there is a first with room, or none has any.             *)
LEMMA FitOrNone ==
  ASSUME IInv, NEW n
  PROVE  NoFit(n) \/ \E k \in DOMAIN open : FirstFit(n, k)
<1>1. DOMAIN open = 1..Len(open) /\ Len(open) \in Nat
  BY LenProperties DEF IInv, TypeOK
<1> DEFINE S == {k \in 1..Len(open) : CanAdd(open[k], n)}
<1>2. CASE S = {}
  BY <1>1, <1>2 DEF NoFit
<1>3. CASE S # {}
  <2>1. S \in SUBSET Nat
    BY <1>1
  <2>2. PICK k \in S : \A l \in S : k <= l
    BY <1>3, <2>1, FirstPosition
  <2>3. k \in 1..Len(open) /\ CanAdd(open[k], n)
    OBVIOUS
  <2>4. ASSUME NEW j \in 1..(k - 1) PROVE ~ CanAdd(open[j], n)
    <3>1. j \in 1..Len(open) /\ ~ (k <= j)
      BY <1>1, <2>3
    <3> QED BY <2>2, <3>1
  <2> QED BY <1>1, <2>3, <2>4 DEF FirstFit
<1> QED BY <1>2, <1>3

(* A call that has not ended can always take a step that is not a          *)
(* reconnect: with WorkRunsOut, what CallEnds needs beside fairness.       *)
THEOREM EnumerationGoesOn == Spec => []AlwaysNext
<1>1. IInv => AlwaysNext
  <2> SUFFICES ASSUME IInv PROVE AlwaysNext
    OBVIOUS
  <2>1. pc \in {"next", "whole", "cut", "place", "check", "send"} \cup Ended
    BY DEF IInv, TypeOK
  <2>2. NoFit(length[Head(todo)]) \/ \E k \in DOMAIN open : FirstFit(length[Head(todo)], k)
    BY FitOrNone
  <2>3. NoFit(part.count) \/ \E k \in DOMAIN open : FirstFit(part.count, k)
    BY FitOrNone
  <2> QED BY <2>1, <2>2, <2>3 DEF AlwaysNext
<1> QED BY <1>1, InvariantHolds, PTL
=============================================================================
