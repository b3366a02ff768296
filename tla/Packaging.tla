----------------------------- MODULE Packaging -----------------------------
(* One ReadAsync or WriteAsync of ProtocolHandler (.Read.cs, .Write.cs):   *)
(* the items of the call are put into packages that fit the negotiated PDU *)
(* (CreateReadPackages, CreateWritePackages), an item that is too long for *)
(* one package is cut into parts, and the answers are put together again   *)
(* (BildResults).  The enumeration is lazy: a package is exchanged with    *)
(* the PLC as soon as it is yielded, while later items are not packed yet; *)
(* meanwhile a reconnect can negotiate a smaller PDU.                      *)
(*                                                                         *)
(* Data is abstracted to byte positions: an item is a run of length[i]     *)
(* bytes (element size 1), a part a stretch of it.  How a package travels  *)
(* is JobExchange; here it is answered, or the call ends.                  *)
EXTENDS Integers, Sequences, FiniteSets, SequencesExt

CONSTANTS Count,      \* items of the call, in the order of the argument: 1..Count
          Sizes,      \* lengths of items (NumberOfItems)
          Pdus,       \* PDU sizes a PLC may grant
          Codes,      \* return codes of an item
          Success     \* the return code 0xFF

ASSUME CountAssumption == Count \in Nat
ASSUME SizesAssumption == Sizes \subseteq Nat
ASSUME PdusAssumption == Pdus \subseteq {p \in Nat : p > 28}
ASSUME CodesAssumption == Success \in Codes /\ "none" \notin Codes

VARIABLES
  kind,       \* "read" or "write"
  length,     \* NumberOfItems of each item
  before,     \* the PDU size at the start of the call (auxiliary)
  pdu,        \* s7Context.PduSize, which a reconnect overwrites
  pc,         \* where the enumeration stands, or how the call ended
  todo,       \* the items not yet packed, longest first
  hand,       \* the item that is being packed; 0 before the first
  processed,  \* how much of it has been cut off
  part,       \* the part that was cut off last
  current,    \* currentPackage: its index in open, 0 for null
  open,       \* result of CreateXPackages: the packages with room left
  sending,    \* the package that was yielded
  result,     \* what the call will return for each item
  log,        \* every part the PLC answered, with its code (auxiliary)
  rejected    \* a package was answered without any item (auxiliary)

vars == <<kind, length, before, pdu, pc, todo, hand, processed, part, current,
          open, sending, result, log, rejected>>

Items == 1..Count
Ended == {"complete", "empty", "thrown", "could_not_add"}

-----------------------------------------------------------------------------
(* Packages.  wire follows the datagram that matters: the answer to a read,*)
(* the request of a write; data starts at an even address, and the last    *)
(* item has no fill byte.                                                  *)

EvenUp(n) == n + (n % 2)
Larger(m, n) == IF m < n THEN n ELSE m
Smaller(m, n) == IF m < n THEN m ELSE n

(* Mutant: the header of the item is forgotten.                            *)
ItemMaxLengthOfPackage == IF kind = "read" THEN pdu - 14 ELSE pdu - 12

ItemMaxLength == IF kind = "read" THEN pdu - 18 ELSE pdu - 28

NewPackage ==
  [max |-> pdu, parts |-> << >>,
   sizeRequest |-> 12, sizeResponse |-> 14,
   size |-> IF kind = "read" THEN 0 ELSE 12,
   wire |-> IF kind = "read" THEN 14 ELSE 12]

Free(p) == p.max - p.size
(* Mutant: a package is full when nothing fits, not even an empty item.    *)
FullWhenOver(p) == Free(p) < 0

Full(p) == Free(p) < (IF kind = "read" THEN 12 ELSE 17)

ReadSize(p, n) == Larger(p.sizeRequest + 12, p.sizeResponse + n + 4)

(* Mutant: room is counted to the byte.                                    *)
CanAddToTheByte(p, n) ==
  Free(p) >= (IF kind = "read" THEN ReadSize(p, n) - p.size ELSE 16 + n)

CanAdd(p, n) == Free(p) >= (IF kind = "read" THEN ReadSize(p, n) ELSE 16 + n)

AddRead(p, a) ==
  [p EXCEPT !.parts = Append(p.parts, a),
            !.sizeRequest = p.sizeRequest + 12,
            !.sizeResponse = p.sizeResponse + a.count + 4,
            !.size = ReadSize(p, a.count),
            !.wire = EvenUp(p.wire) + 4 + a.count]

AddWrite(p, a) ==
  [p EXCEPT !.parts = Append(p.parts, a),
            !.size = EvenUp(p.size + 16 + a.count),
            !.wire = EvenUp(p.wire) + 16 + a.count]

Add(p, a) == IF kind = "read" THEN AddRead(p, a) ELSE AddWrite(p, a)

(* The open package in which FirstOrDefault(TryAdd) puts n bytes.          *)
FirstFit(n, k) ==
  /\ k \in DOMAIN open
  /\ CanAdd(open[k], n)
  /\ \A j \in 1..(k - 1) : ~ CanAdd(open[j], n)

NoFit(n) == \A k \in DOMAIN open : ~ CanAdd(open[k], n)

-----------------------------------------------------------------------------
(* Results.                                                                *)

Part(i, f, n) == [item |-> i, from |-> f, count |-> n]
Bytes(a) == a.from..(a.from + a.count - 1)

Nothing == [code |-> "none", data |-> {}]
Initially(k) == IF k = "read" THEN Nothing ELSE [Nothing EXCEPT !.code = Success]

PartsOf(i) == {j \in DOMAIN sending.parts : sending.parts[j].item = i}

(* Mutant: each part gets an array of its own.                             *)
ReadResultOfPart(i, codes) ==
  LET mine == PartsOf(i)
  IN  IF mine = {} THEN result[i]
      ELSE [code |-> codes[CHOOSE j \in mine : \A l \in mine : l <= j],
            data |-> UNION {Bytes(sending.parts[j]) : j \in {l \in mine : codes[l] = Success}}]

(* Reading: the parts fill the array of the item, and each overwrites the  *)
(* return code.                                                            *)
ReadResult(i, codes) ==
  LET mine == PartsOf(i)
  IN  IF mine = {} THEN result[i]
      ELSE [code |-> codes[CHOOSE j \in mine : \A l \in mine : l <= j],
            data |-> result[i].data \cup
                     UNION {Bytes(sending.parts[j]) : j \in {l \in mine : codes[l] = Success}}]

(* Mutant: each part overwrites the code, as it does for reads.            *)
WriteResultOfLast(i, codes) ==
  LET mine == PartsOf(i)
  IN  IF mine = {} THEN result[i]
      ELSE [result[i] EXCEPT !.code = codes[CHOOSE j \in mine : \A l \in mine : l <= j]]

(* Writing: the first code that is no success stays.                       *)
WriteResult(i, codes) ==
  LET bad == {j \in PartsOf(i) : codes[j] # Success}
  IN  IF result[i].code # Success \/ bad = {} THEN result[i]
      ELSE [result[i] EXCEPT !.code = codes[CHOOSE j \in bad : \A l \in bad : j <= l]]

Answers(codes) == [j \in DOMAIN sending.parts |->
                     [item |-> sending.parts[j].item, from |-> sending.parts[j].from,
                      count |-> sending.parts[j].count, code |-> codes[j]]]

-----------------------------------------------------------------------------
(* Packing.                                                                *)

(* vars.OrderByDescending(NumberOfItems), which is stable.                 *)
InOrder(s, sz) ==
  \A j, k \in DOMAIN s :
    j < k => \/ sz[s[j]] > sz[s[k]]
             \/ sz[s[j]] = sz[s[k]] /\ s[j] < s[k]

Init ==
  /\ kind \in {"read", "write"}
  /\ length \in [Items -> Sizes]
  /\ before \in Pdus
  /\ pdu = before
  /\ pc = "next"
  /\ todo \in {s \in [Items -> Items] : InOrder(s, length)}
  /\ hand = 0
  /\ processed = 0
  /\ part = Part(0, 0, 0)
  /\ current = 0
  /\ open = << >>
  /\ sending = NewPackage
  /\ result = [i \in Items |-> Initially(kind)]
  /\ log = << >>
  /\ rejected = FALSE

called == <<kind, length, before>>
answered == <<result, log, rejected>>

(* The next item: into an open package, to be cut, or into a new package.  *)
TakeItem ==
  /\ pc = "next"
  /\ todo # << >>
  /\ LET i == Head(todo)
         n == length[i]
     IN  /\ hand' = i
         /\ \/ \E k \in DOMAIN open :
                 /\ FirstFit(n, k)
                 /\ open' = [open EXCEPT ![k] = Add(open[k], Part(i, 0, n))]
                 /\ current' = k
                 /\ processed' = n
                 /\ pc' = "check"
            \/ /\ NoFit(n)
               /\ current' = 0
               /\ processed' = 0
               /\ pc' = IF n > ItemMaxLength THEN "cut" ELSE "whole"
               /\ UNCHANGED open
  /\ todo' = Tail(todo)
  /\ UNCHANGED <<called, pdu, part, sending, answered>>

(* new ReadPackage(s7Context.PduSize) for an item that is not cut.         *)
PlaceWhole ==
  /\ pc = "whole"
  /\ \/ /\ CanAdd(NewPackage, length[hand])
        /\ open' = Append(open, Add(NewPackage, Part(hand, 0, length[hand])))
        /\ current' = Len(open) + 1
        /\ processed' = length[hand]
        /\ pc' = "check"
     \/ /\ ~ CanAdd(NewPackage, length[hand])
        /\ pc' = "could_not_add"
        /\ UNCHANGED <<open, current, processed>>
  /\ UNCHANGED <<called, pdu, todo, hand, part, sending, answered>>

(* Mutant: the slice is not counted.                                       *)
CutInPlace ==
  /\ pc = "cut"
  /\ part' = Part(hand, processed, Smaller(ItemMaxLength, length[hand] - processed))
  /\ pc' = "place"
  /\ UNCHANGED <<called, pdu, todo, hand, processed, current, open, sending, answered>>

(* CreateChild: the next slice of an item that is too long.                *)
Cut ==
  /\ pc = "cut"
  /\ part' = Part(hand, processed, Smaller(ItemMaxLength, length[hand] - processed))
  /\ processed' = processed + part'.count
  /\ pc' = "place"
  /\ UNCHANGED <<called, pdu, todo, hand, current, open, sending, answered>>

Onward == IF processed < length[hand] THEN "cut" ELSE "check"

(* The last slice may share an open package.                               *)
PlaceInOpen ==
  /\ pc = "place"
  /\ part.count < ItemMaxLength
  /\ \E k \in DOMAIN open :
       /\ FirstFit(part.count, k)
       /\ open' = [open EXCEPT ![k] = Add(open[k], part)]
       /\ current' = k
  /\ pc' = Onward
  /\ UNCHANGED <<called, pdu, todo, hand, processed, part, sending, answered>>

(* The other slices get a package of their own, which is yielded at once if*)
(* it is full.  If currentPackage is not null the code goes on with the    *)
(* next slice and this one is in no package at all.                        *)
PlaceInNew ==
  /\ pc = "place"
  /\ part.count < ItemMaxLength => NoFit(part.count)
  /\ IF current # 0 /\ part.count >= ItemMaxLength
     THEN pc' = Onward /\ UNCHANGED <<open, sending, current>>
     ELSE \/ /\ CanAdd(NewPackage, part.count)
             /\ Full(Add(NewPackage, part))
             /\ sending' = Add(NewPackage, part)
             /\ current' = 0
             /\ pc' = "send"
             /\ UNCHANGED open
          \/ /\ CanAdd(NewPackage, part.count)
             /\ ~ Full(Add(NewPackage, part))
             /\ open' = Append(open, Add(NewPackage, part))
             /\ current' = Len(open) + 1
             /\ pc' = Onward
             /\ UNCHANGED sending
          \/ /\ ~ CanAdd(NewPackage, part.count)
             /\ pc' = "could_not_add"
             /\ UNCHANGED <<open, sending, current>>
  /\ UNCHANGED <<called, pdu, todo, hand, processed, part, answered>>

(* Mutant: currentPackage is not set to null again.                        *)
CheckKeepingIndex ==
  /\ pc = "check"
  /\ \/ /\ current # 0
        /\ Full(open[current])
        /\ sending' = open[current]
        /\ open' = RemoveAt(open, current)
        /\ pc' = "send"
     \/ /\ current = 0 \/ ~ Full(open[current])
        /\ pc' = "next"
        /\ UNCHANGED <<sending, open>>
  /\ UNCHANGED <<called, pdu, todo, hand, processed, part, current, answered>>

(* After an item: its package is yielded and taken off the list if full.   *)
Check ==
  /\ pc = "check"
  /\ \/ /\ current # 0
        /\ Full(open[current])
        /\ sending' = open[current]
        /\ open' = RemoveAt(open, current)
        /\ pc' = "send"
     \/ /\ current = 0 \/ ~ Full(open[current])
        /\ pc' = "next"
        /\ UNCHANGED <<sending, open>>
  /\ current' = 0
  /\ UNCHANGED <<called, pdu, todo, hand, processed, part, answered>>

(* After the last item: the packages that are left.                        *)
Flush ==
  /\ pc = "next"
  /\ todo = << >>
  /\ open # << >>
  /\ sending' = Head(open)
  /\ open' = Tail(open)
  /\ pc' = "send"
  /\ UNCHANGED <<called, pdu, todo, hand, processed, part, current, answered>>

(* ReadAsync and WriteAsync return; a read makes a DataValue of each       *)
(* result, which throws for an item without one.                           *)
Finish ==
  /\ pc = "next"
  /\ todo = << >>
  /\ open = << >>
  /\ pc' = IF \E i \in Items : result[i].code = "none" THEN "thrown" ELSE "complete"
  /\ UNCHANGED <<called, pdu, todo, hand, processed, part, current, open, sending, answered>>

-----------------------------------------------------------------------------
(* Exchanging the package that was yielded.                                *)

Resume == IF hand # 0 /\ processed < length[hand] THEN "cut" ELSE "next"

(* The PLC answers each item; BildResults.                                 *)
Answered ==
  /\ pc = "send"
  /\ \E codes \in [DOMAIN sending.parts -> Codes] :
       /\ result' = [i \in Items |-> IF kind = "read" THEN ReadResult(i, codes)
                                                      ELSE WriteResult(i, codes)]
       /\ log' = log \o Answers(codes)
  /\ pc' = Resume
  /\ UNCHANGED <<called, pdu, todo, hand, processed, part, current, open, sending, rejected>>

(* An acknowledgement with an error in its header has no items; the call   *)
(* does not see the error (JobExchange).                                   *)
Rejected ==
  /\ pc = "send"
  /\ rejected' = TRUE
  /\ pc' = Resume
  /\ UNCHANGED <<called, pdu, todo, hand, processed, part, current, open, sending, result, log>>

(* No answer: the call throws, or, if the package could not be sent,       *)
(* returns without any result.                                             *)
Unanswered ==
  /\ pc = "send"
  /\ pc' \in {"thrown", "empty"}
  /\ UNCHANGED <<called, pdu, todo, hand, processed, part, current, open, sending, answered>>

(* ReceivedCommunicationSetupAck of a reconnect, on another thread: a PLC  *)
(* never grants more than the PDU size it is asked for, the last one.      *)
Renegotiate ==
  /\ pc \notin Ended
  /\ pdu' \in {p \in Pdus : p < pdu}
  /\ UNCHANGED <<called, pc, todo, hand, processed, part, current, open, sending, answered>>

Pack == TakeItem \/ PlaceWhole \/ Cut \/ PlaceInOpen \/ PlaceInNew
          \/ Check \/ Flush \/ Finish
Exchange == Answered \/ Rejected \/ Unanswered
Next == Pack \/ Exchange \/ Renegotiate

Spec == Init /\ [][Next]_vars

(* The caller's thread runs on, and an exchange ends by an answer or by    *)
(* the timeout of WaitAsync.                                               *)
FairSpec == Spec /\ WF_vars(Pack \/ Exchange)

-----------------------------------------------------------------------------
(* Properties.                                                             *)

PartSet == [item : Items \cup {0}, from : Nat, count : Nat]
PackageSet == [max : Pdus, parts : Seq(PartSet), sizeRequest : Nat, sizeResponse : Nat,
               size : Nat, wire : Nat]

(* The values of the call's variables; an index that is not null names an  *)
(* open package.                                                           *)
TypeOK ==
  /\ kind \in {"read", "write"}
  /\ length \in [Items -> Sizes]
  /\ before \in Pdus /\ pdu \in Pdus
  /\ pc \in {"next", "whole", "cut", "place", "check", "send"} \cup Ended
  /\ todo \in Seq(Items)
  /\ hand \in Items \cup {0}
  /\ processed \in Nat
  /\ part \in PartSet
  /\ open \in Seq(PackageSet)
  /\ current \in 0..Len(open)
  /\ sending \in PackageSet
  /\ result \in [Items -> [code : Codes \cup {"none"}, data : SUBSET Nat]]
  /\ log \in Seq([item : Items \cup {0}, from : Nat, count : Nat, code : Codes])
  /\ rejected \in BOOLEAN

(* What is exchanged fits the PDU the package was made for, in both        *)
(* directions: the request, and the answer of the PLC with the fill bytes  *)
(* that TryAdd does not count.  No package is empty.                       *)
PackagesFit ==
  pc = "send" =>
    /\ sending.parts # << >>
    /\ sending.wire <= sending.max
    /\ 12 + 12 * Len(sending.parts) <= sending.max

(* A slice of the length the context allows always finds room in a new     *)
(* package: CouldNotAddPackage is thrown only when a smaller PDU size has  *)
(* been negotiated since the call began.                                   *)
RoomForEverySlice == pc = "could_not_add" => pdu < before

(* Of a call that returns and had no package rejected as a whole, every    *)
(* byte of every item was read or written exactly once, and no byte        *)
(* beside: no slice is dropped by the way currentPackage is handed on, and *)
(* no package is exchanged twice.                                          *)
EveryByteOnce ==
  pc = "complete" /\ ~ rejected =>
    \A i \in Items :
      LET mine == {j \in DOMAIN log : log[j].item = i}
      IN  /\ \A j \in mine : Bytes(log[j]) \subseteq 0..(length[i] - 1)
          /\ \A b \in 0..(length[i] - 1) : Cardinality({j \in mine : b \in Bytes(log[j])}) = 1

(* The parts of an item that the PLC has refused, in the order of the      *)
(* answers.                                                                *)
Refused(i) == {j \in DOMAIN log : log[j].item = i /\ log[j].code # Success}

(* A write returns for each item the first code by which the PLC refused a *)
(* part of it, in whatever packages its parts went out, and Success only   *)
(* if none was refused.  An acknowledgement that is an error as a whole    *)
(* has no codes: the code takes its parts for written (WriteAsync returns  *)
(* Success for them), and they neither add to a result nor take from it.   *)
FirstRefusalStays ==
  kind = "write" /\ pc = "complete" =>
    \A i \in Items :
      /\ result[i].code = Success <=> Refused(i) = {}
      /\ \A j \in Refused(i) :
           (\A k \in Refused(i) : j <= k) => result[i].code = log[j].code

(* A read whose packages all had items in their answers and whose parts    *)
(* all succeeded returns Success and every byte.                           *)
ReadsComplete ==
  kind = "read" /\ pc = "complete" /\ ~ rejected =>
    \A i \in Items :
      (\A j \in DOMAIN log : log[j].item = i => log[j].code = Success) =>
        result[i] = [code |-> Success, data |-> 0..(length[i] - 1)]

(* What a call has still to do, the more important first: items to pack,   *)
(* bytes of the item in hand to cut, a slice to place, packages to send,   *)
(* and the phase of the enumeration.                                       *)
Uncut == IF hand = 0 THEN 0 ELSE length[hand] - processed
Unplaced == IF pc \in {"whole", "place"} THEN 1 ELSE 0
Phase == IF pc = "check" THEN 3 ELSE IF pc = "send" THEN 2
         ELSE IF pc \in Ended THEN 0 ELSE 1
ToDo == <<Len(todo), Uncut, Unplaced, Len(open), Phase>>

Below(a, b) == \E k \in 1..5 : a[k] < b[k] /\ \A j \in 1..(k - 1) : a[j] = b[j]

(* Each step of the enumeration and each exchange leaves less to do in that*)
(* order, and a reconnect meanwhile, which may shorten the slices, no more *)
(* than before.                                                            *)
WorkShrinks ==
  [][/\ Pack \/ Exchange => Below(ToDo', ToDo)
     /\ Renegotiate => ToDo' = ToDo]_vars

(* The enumeration never waits but for an answer: whatever is in the open  *)
(* packages, one of the actions takes the next item or places the slice.   *)
AlwaysNext ==
  pc \notin Ended =>
    \/ pc \in {"whole", "cut", "check", "send"}
    \/ /\ pc = "next"
       /\ todo # << >> =>
            NoFit(length[Head(todo)]) \/ \E k \in DOMAIN open : FirstFit(length[Head(todo)], k)
    \/ /\ pc = "place"
       /\ \/ part.count < ItemMaxLength => NoFit(part.count)
          \/ \E k \in DOMAIN open : FirstFit(part.count, k)

(* The enumeration comes to an end.                                        *)
CallEnds == <>(pc \in Ended)
=============================================================================
