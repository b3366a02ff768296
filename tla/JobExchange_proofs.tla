------------------------- MODULE JobExchange_proofs -------------------------
(***************************************************************************)
(* Proofs about JobExchange, for any calls, any number of permits, any     *)
(* number of references and any number of connections.                     *)
(***************************************************************************)
EXTENDS JobExchange, FiniteSetTheorems, SequenceTheorems, TLAPS

-----------------------------------------------------------------------------
(* Types.                                                                  *)

(* The next reference is a reference, and never 0.                         *)
LEMMA NextReferenceType ==
  ASSUME referenceId \in 0..(RefModulus - 1)
  PROVE  NextReference \in Ids
BY ExchangeAssumption DEF NextReference, Ids

(* A permit that is given back leaves the line of waiting calls a line.    *)
LEMMA ReleaseType ==
  ASSUME TypeOK, NEW j \in Jobs, NEW next \in Stages, Release(j, next)
  PROVE  /\ pc' \in [Jobs -> Stages]
         /\ permits' \in Nat
         /\ queue' \in Seq(Jobs)
<1>0. pc \in [Jobs -> Stages] /\ permits \in Nat /\ queue \in Seq(Jobs)
  BY DEF TypeOK
<1>1. CASE queue = <<>>
  BY <1>0, <1>1 DEF Release
<1>2. CASE queue # <<>>
  <2>1. Tail(queue) \in Seq(Jobs)
    BY <1>2, <1>0, HeadTailProperties
  <2>2. "granted" \in Stages
    BY DEF Stages
  <2>3. /\ pc' = [pc EXCEPT ![j] = next, ![Head(queue)] = "granted"]
        /\ queue' = Tail(queue) /\ permits' = permits
    BY <1>2 DEF Release
  <2> QED BY <1>0, <2>1, <2>2, <2>3
<1> QED BY <1>1, <1>2

(* The handlers a cancellation finds are callback handlers of calls.       *)
LEMMA HandledType ==
  ASSUME TypeOK, NEW kind \in Kinds
  PROVE  Handled(kind) \in SUBSET Requests
<1>1. \A i \in Ids : handlers[<<kind, i>>] \in Jobs \cup {Nobody}
  BY DEF TypeOK, Keys
<1>2. \A h \in Jobs : package[h] \in Nat
  BY DEF TypeOK
<1> SUFFICES ASSUME NEW r \in Handled(kind) PROVE r \in Requests
  OBVIOUS
<1>3. PICK i \in Ids : /\ handlers[<<kind, i>>] # Nobody
                     /\ r = <<handlers[<<kind, i>>], package[handlers[<<kind, i>>]]>>
  BY DEF Handled, Entries
<1> QED BY <1>1, <1>2, <1>3 DEF Requests

(* An event holds no value, null or an answer.                             *)
LEMMA SetEventType ==
  ASSUME TypeOK, NEW r \in Requests, NEW value \in Requests \cup {Null},
         SetEvent(r, value)
  PROVE  slot' \in [Jobs -> Requests \cup {Null, Empty}]
BY DEF SetEvent, TypeOK, Requests

(* What the receive loop hands over has the type of an answer.             *)
LEMMA FoundType ==
  ASSUME TypeOK, NEW h \in Jobs \cup {Nobody}, NEW r, NEW error \in BOOLEAN,
         NEW value \in Requests \cup {Null}, Found(h, r, error, value)
  PROVE  TypeOK'
<1>1. wire' \subseteq wire
  BY DEF Found
<1>2. CASE h = Nobody
  BY <1>1, <1>2 DEF Found, TypeOK, callVars, refVars, semaVars, linkVars, cancelVars
<1>3. CASE h # Nobody
  <2>1. exception' \in [Jobs -> BOOLEAN]
    BY <1>3 DEF Found, TypeOK
  <2>2. <<h, package[h]>> \in Requests
    BY <1>3 DEF TypeOK, Requests
  <2>3. receiving' \in [for : Requests, value : Requests \cup {Null}]
    BY <1>3, <2>2 DEF Found
  <2> QED BY <1>1, <2>1, <2>3
          DEF Found, TypeOK, callVars, refVars, semaVars, linkVars, cancelVars
<1> QED BY <1>2, <1>3

(* A cancellation counts and copies handlers.                              *)
CancelTypes ==
  /\ counted \in [0..MaxEpoch -> Nat]
  /\ todo \in [0..MaxEpoch -> SUBSET Requests]
  /\ failedCopies \subseteq (0..MaxEpoch) \X Kinds

(* There are as many entries in a table as references, at most.            *)
LEMMA EntriesFinite ==
  ASSUME NEW kind
  PROVE  IsFiniteSet(Entries(kind)) /\ Cardinality(Entries(kind)) \in Nat
<1>1. IsFiniteSet(Ids)
  BY ExchangeAssumption, FS_Interval DEF Ids
<1> QED BY <1>1, FS_Subset, FS_CardinalityType DEF Entries

LEMMA CountType ==
  ASSUME TypeOK, NEW c \in 0..MaxEpoch, NEW kind, CountHandlers(c, kind),
         UNCHANGED <<todo, failedCopies>>
  PROVE  CancelTypes'
BY EntriesFinite DEF CountHandlers, CancelTypes, TypeOK

LEMMA CopyType ==
  ASSUME TypeOK, NEW c \in 0..MaxEpoch, NEW kind \in Kinds, CopyHandlers(c, kind)
  PROVE  CancelTypes'
<1>1. Handled(kind) \in SUBSET Requests
  BY HandledType
<1>2. counted' \in [0..MaxEpoch -> Nat]
  BY DEF CopyHandlers, TypeOK
<1>3. todo' \in [0..MaxEpoch -> SUBSET Requests]
  BY <1>1 DEF CopyHandlers, TypeOK
<1>4. failedCopies' \subseteq (0..MaxEpoch) \X Kinds
  BY DEF CopyHandlers, TypeOK
<1> QED BY <1>2, <1>3, <1>4 DEF CancelTypes

(* The steps of a call keep the types.                                     *)
LEMMA CallType ==
  ASSUME TypeOK, NEW j \in Jobs, Call(j) \/ TimeOut(j)
  PROVE  TypeOK'
<1> USE DEF callVars, refVars, semaVars, tableVars, linkVars, cancelVars
<1>1. CASE Refuse(j)
  BY <1>1 DEF Refuse, Finish, TypeOK, Stages, Outcomes
<1>2. CASE Accept(j)
  BY <1>2 DEF Accept, TypeOK, Stages
<1>3. CASE TakeReference(j)
  <2>1. NextReference \in Ids
    BY NextReferenceType DEF TypeOK
  <2>2. NextReference \in 0..(RefModulus - 1)
    BY <2>1, ExchangeAssumption DEF Ids
  <2> QED BY <1>3, <2>1, <2>2 DEF TakeReference, TypeOK, Stages
<1>4. CASE Acquire(j)
  <2>1. permits' \in Nat /\ queue' \in Seq(Jobs) /\ pc' \in [Jobs -> Stages]
    <3>1. permits \in Nat /\ queue \in Seq(Jobs) /\ pc \in [Jobs -> Stages]
      BY DEF TypeOK
    <3>2. Append(queue, j) \in Seq(Jobs)
      BY <3>1, AppendProperties
    <3> QED BY <1>4, <3>1, <3>2 DEF Acquire, Stages
  <2> QED BY <1>4, <2>1 DEF Acquire, TypeOK
<1>5. CASE Register(j)
  <2>1. handlers' \in [Keys -> Jobs \cup {Nobody}] /\ pc' \in [Jobs -> Stages]
    <3>1. handlers \in [Keys -> Jobs \cup {Nobody}] /\ pc \in [Jobs -> Stages]
      BY DEF TypeOK
    <3> QED BY <1>5, <3>1 DEF Register, Stages
  <2> QED BY <1>5, <2>1 DEF Register, TypeOK
<1>6. CASE Send(j)
  <2>1. wire' \subseteq [job : Jobs, package : Nat, id : Ids]
    BY <1>6 DEF Send, TypeOK
  <2>2. sentOn' \in [Jobs -> 0..MaxEpoch]
    BY <1>6, ExchangeAssumption DEF Send, TypeOK
  <2> QED BY <1>6, <2>1, <2>2 DEF Send, TypeOK, Stages
<1>7. CASE SendFails(j)
  BY <1>7 DEF SendFails, TypeOK, Stages
<1>8. CASE Wake(j)
  <2>1. slot[j] \in Requests \cup {Null}
    BY <1>8 DEF Wake, TypeOK
  <2> QED BY <1>8, <2>1 DEF Wake, TypeOK, Stages
<1>9. CASE Leave(j)
  <2>1. /\ pc' \in [Jobs -> Stages]
        /\ permits' \in Nat
        /\ queue' \in Seq(Jobs)
    <3>1. (IF pc[j] = "woken" THEN "judging" ELSE "returning") \in Stages
      BY DEF Stages
    <3> QED BY <1>9, <3>1, ReleaseType DEF Leave
  <2>2. handlers' \in [Keys -> Jobs \cup {Nobody}]
    BY <1>9 DEF Leave, TypeOK
  <2> QED BY <1>9, <2>1, <2>2 DEF Leave, TypeOK
<1>10. CASE LeaveUnregistered(j)
  <2>1. /\ pc' \in [Jobs -> Stages]
        /\ permits' \in Nat
        /\ queue' \in Seq(Jobs)
    BY <1>10, ReleaseType DEF LeaveUnregistered, Stages
  <2> QED BY <1>10, <2>1 DEF LeaveUnregistered, TypeOK
<1>11. CASE ReturnEmpty(j)
  BY <1>11 DEF ReturnEmpty, Finish, TypeOK, Stages, Outcomes
<1>12. CASE Fail(j)
  BY <1>12 DEF Fail, Finish, TypeOK, Stages, Outcomes
<1>13. CASE Complete(j)
  <2>1. package' \in [Jobs -> Nat]
    <3>1. package \in [Jobs -> Nat]
      BY DEF TypeOK
    <3> QED BY <1>13, <3>1 DEF Complete
  <2> QED BY <1>13, <2>1 DEF Complete, Finish, TypeOK, Stages, Outcomes
<1>14. CASE TimeOut(j)
  BY <1>14 DEF TimeOut, TypeOK, Stages
<1> QED BY <1>1, <1>2, <1>3, <1>4, <1>5, <1>6, <1>7, <1>8, <1>9, <1>10, <1>11,
           <1>12, <1>13, <1>14 DEF Call

(* The steps of the receive loop and of the cancellations keep the types.  *)
LEMMA HandlingType ==
  ASSUME TypeOK,
         \/ \E r \in wire : ReceiveJobAck(r) \/ ReceiveAck(r)
         \/ HandOver
         \/ \E c \in 0..MaxEpoch : Cancel(c)
  PROVE  TypeOK'
<1>0. \A r \in wire : r.job \in Jobs /\ r.id \in Ids /\ <<r.job, r.package>> \in Requests
  BY DEF TypeOK, Requests
<1>1. ASSUME NEW r \in wire, ReceiveJobAck(r) PROVE TypeOK'
  <2>1. PICK error \in BOOLEAN :
          Found(handlers[<<Kind[r.job], r.id>>], r, error, <<r.job, r.package>>)
    BY <1>1 DEF ReceiveJobAck
  <2>2. handlers[<<Kind[r.job], r.id>>] \in Jobs \cup {Nobody}
    BY <1>0, ExchangeAssumption DEF TypeOK, Keys
  <2> QED BY <1>0, <2>1, <2>2, FoundType
<1>2. ASSUME NEW r \in wire, ReceiveAck(r) PROVE TypeOK'
  <2> DEFINE h == IF handlers[<<"read", r.id>>] # Nobody THEN handlers[<<"read", r.id>>]
                  ELSE handlers[<<"write", r.id>>]
  <2>1. PICK error \in BOOLEAN : Found(h, r, error, Null)
    BY <1>2 DEF ReceiveAck
  <2>2. h \in Jobs \cup {Nobody}
    BY <1>0 DEF TypeOK, Keys, Kinds
  <2> HIDE DEF h
  <2> QED BY <2>1, <2>2, FoundType
<1>3. CASE HandOver
  <2>1. receiving.for \in Requests /\ receiving.value \in Requests \cup {Null}
    BY <1>3 DEF HandOver, TypeOK
  <2>2. slot' \in [Jobs -> Requests \cup {Null, Empty}]
    BY <1>3, <2>1, SetEventType DEF HandOver
  <2> QED BY <1>3, <2>2
          DEF HandOver, TypeOK, callVars, refVars, semaVars, linkVars, cancelVars
<1>4. ASSUME NEW c \in 0..MaxEpoch, Cancel(c) PROVE TypeOK'
  <2>1. CASE CancelOne(c)
    <3>1. PICK r \in todo[c] : SetEvent(r, Null) /\ todo' = [todo EXCEPT ![c] = @ \ {r}]
      BY <2>1 DEF CancelOne
    <3>2. r \in Requests /\ todo' \in [0..MaxEpoch -> SUBSET Requests]
      BY <3>1 DEF TypeOK
    <3>3. slot' \in [Jobs -> Requests \cup {Null, Empty}]
      BY <3>1, <3>2, SetEventType
    <3> QED BY <2>1, <3>2, <3>3
            DEF CancelOne, TypeOK, callVars, refVars, semaVars, linkVars
  <2>2. CASE CancelReads(c)
    <3>1. CancelTypes'
      BY <2>2, CountType DEF CancelReads
    <3> QED BY <2>2, <3>1 DEF CancelReads, CancelTypes, TypeOK, callVars, refVars,
              semaVars, tableVars, linkVars
  <2>3. CASE CancelEnds(c)
    BY <2>3 DEF CancelEnds, TypeOK, callVars, refVars, semaVars, tableVars, linkVars
  <2>4. CASE CopyWrites(c)
    <3>1. CancelTypes'
      BY <2>4, CopyType DEF CopyWrites, Kinds
    <3> QED BY <2>4, <3>1 DEF CopyWrites, CancelTypes, TypeOK, callVars, refVars,
              semaVars, tableVars, linkVars
  <2>5. CASE CopyReads(c)
    <3>1. CancelTypes'
      BY <2>5, CopyType DEF CopyReads, Kinds
    <3> QED BY <2>5, <3>1 DEF CopyReads, CancelTypes, TypeOK, callVars, refVars,
              semaVars, tableVars, linkVars
  <2> QED BY <1>4, <2>1, <2>2, <2>3, <2>4, <2>5 DEF Cancel
<1> QED BY <1>1, <1>2, <1>3, <1>4

(* The steps of the connection keep the types.                             *)
LEMMA LinkType ==
  ASSUME TypeOK, Link
  PROVE  TypeOK'
<1> USE DEF callVars, refVars, semaVars, tableVars, cancelVars
<1>1. CASE Close
  <2>1. CancelTypes'
    BY <1>1, ExchangeAssumption, CountType DEF Close, StartCancel
  <2> QED BY <1>1, <2>1 DEF Close, StartCancel, CancelTypes, TypeOK
<1>2. CASE CloseSocket
  BY <1>2 DEF CloseSocket, TypeOK
<1>3. CASE Reopen
  BY <1>3 DEF Reopen, TypeOK
<1>4. CASE Connect
  BY <1>4, ExchangeAssumption DEF Connect, TypeOK
<1>5. CASE Handshake
  BY <1>5 DEF Handshake, TypeOK
<1>6. CASE Break
  BY <1>6 DEF Break, TypeOK
<1>7. CASE LoopEnds
  <2>1. CASE connectionState # "Closed"
    <3>1. CancelTypes' /\ phase' = [phase EXCEPT ![epoch] = "copyWrites"]
          /\ connectionState' = "Closed"
      BY <1>7, <2>1, CountType DEF LoopEnds, StartCancel, TypeOK
    <3> QED BY <1>7, <3>1 DEF LoopEnds, CancelTypes, TypeOK
  <2>2. CASE connectionState = "Closed"
    BY <1>7, <2>2 DEF LoopEnds, TypeOK
  <2> QED BY <2>1, <2>2
<1> QED BY <1>1, <1>2, <1>3, <1>4, <1>5, <1>6, <1>7 DEF Link

(* Steps that change nothing keep the types.                               *)
LEMMA StutterType ==
  ASSUME TypeOK, UNCHANGED vars
  PROVE  TypeOK'
BY DEF vars, callVars, refVars, semaVars, tableVars, linkVars, cancelVars, TypeOK

(* The initial state has the types.                                        *)
LEMMA InitType == Init => TypeOK
<1> HAVE Init
<1>1. 1 \in Ids
  BY ExchangeAssumption DEF Ids
<1>2. 0 \in 0..(RefModulus - 1) /\ 0 \in 0..MaxEpoch /\ Permits \in Nat
  BY ExchangeAssumption
<1>3. /\ id \in [Jobs -> Ids] /\ sentOn \in [Jobs -> 0..MaxEpoch]
      /\ pc \in [Jobs -> Stages] /\ outcome \in [Jobs -> Outcomes]
      /\ handlers \in [Keys -> Jobs \cup {Nobody}]
  BY <1>1, <1>2 DEF Init, Stages, Outcomes
<1>4. /\ slot \in [Jobs -> Requests \cup {Null, Empty}]
      /\ results \in [Jobs -> Requests \cup {Null}]
      /\ todo \in [0..MaxEpoch -> SUBSET Requests]
      /\ counted \in [0..MaxEpoch -> Nat]
      /\ failedCopies \subseteq (0..MaxEpoch) \X Kinds
  BY DEF Init
<1>5. /\ package \in [Jobs -> Nat] /\ exception \in [Jobs -> BOOLEAN]
      /\ phase \in [0..MaxEpoch -> {"idle", "copyWrites", "write", "copyReads", "read",
                               "closing"}]
      /\ queue \in Seq(Jobs)
  BY DEF Init
<1> QED BY <1>2, <1>3, <1>4, <1>5 DEF Init, TypeOK

(* Every step keeps the types.                                             *)
LEMMA TypeStep == TypeOK /\ [Next]_vars => TypeOK'
BY CallType, HandlingType, LinkType, StutterType DEF Next, Finished

(* Every variable always has its type.                                     *)
THEOREM ExchangeTypes == Spec => []TypeOK
BY InitType, TypeStep, PTL DEF Spec

-----------------------------------------------------------------------------
(* The semaphore: the line of waiting calls and the count of permits.      *)

InLine(j, line) == \E i \in 1..Len(line) : line[i] = j
NoRepeats(line) == \A i, k \in 1..Len(line) : line[i] = line[k] => i = k

(* Nobody waits for a permit while one is free, and the line of waiting    *)
(* calls holds exactly those that wait, each once.                         *)
LineSound ==
  /\ queue # <<>> => permits = 0
  /\ \A j \in Jobs : pc[j] = "queued" <=> InLine(j, queue)
  /\ NoRepeats(queue)

(* A call that lines up is the last one of the line.                       *)
LEMMA AppendLine ==
  ASSUME NEW q \in Seq(Jobs), NEW x \in Jobs, NoRepeats(q), ~InLine(x, q)
  PROVE  /\ NoRepeats(Append(q, x))
         /\ \A y \in Jobs : InLine(y, Append(q, x)) <=> InLine(y, q) \/ y = x
<1> DEFINE r == Append(q, x)
<1>1. /\ Len(r) = Len(q) + 1 /\ Len(q) \in Nat
      /\ \A i \in 1..Len(q) : r[i] = q[i]
      /\ r[Len(q) + 1] = x
  BY AppendProperties, LenProperties
<1> HIDE DEF r
<1>2. NoRepeats(r)
  <2> SUFFICES ASSUME NEW i \in 1..Len(r), NEW k \in 1..Len(r), r[i] = r[k]
               PROVE  i = k
    BY DEF NoRepeats
  <2> QED BY <1>1 DEF NoRepeats, InLine
<1>3. \A y \in Jobs : InLine(y, r) <=> InLine(y, q) \/ y = x
  <2> TAKE y \in Jobs
  <2>1. InLine(y, q) => InLine(y, r)
    BY <1>1 DEF InLine
  <2>2. y = x => InLine(y, r)
    BY <1>1 DEF InLine
  <2>3. InLine(y, r) => InLine(y, q) \/ y = x
    BY <1>1 DEF InLine
  <2> QED BY <2>1, <2>2, <2>3
<1> QED BY <1>2, <1>3 DEF r

(* The first call of the line leaves it, the others stay.                  *)
LEMMA TailLine ==
  ASSUME NEW q \in Seq(Jobs), q # <<>>, NoRepeats(q)
  PROVE  /\ Head(q) \in Jobs /\ InLine(Head(q), q)
         /\ NoRepeats(Tail(q))
         /\ \A y \in Jobs : InLine(y, Tail(q)) <=> InLine(y, q) /\ y # Head(q)
<1> DEFINE r == Tail(q)
<1>1. /\ Len(r) = Len(q) - 1 /\ Len(q) \in Nat \ {0}
      /\ \A i \in 1..Len(r) : r[i] = q[i + 1]
      /\ Head(q) = q[1] /\ Head(q) \in Jobs
  BY HeadTailProperties, LenProperties, EmptySeq
<1> HIDE DEF r
<1>2. InLine(Head(q), q)
  BY <1>1 DEF InLine
<1>3. NoRepeats(r)
  <2> SUFFICES ASSUME NEW i \in 1..Len(r), NEW k \in 1..Len(r), r[i] = r[k]
               PROVE  i = k
    BY DEF NoRepeats
  <2>1. i + 1 \in 1..Len(q) /\ k + 1 \in 1..Len(q)
    BY <1>1
  <2>2. q[i + 1] = q[k + 1]
    BY <1>1
  <2> QED BY <2>1, <2>2 DEF NoRepeats
<1>4. \A y \in Jobs : InLine(y, r) <=> InLine(y, q) /\ y # Head(q)
  <2> TAKE y \in Jobs
  <2>1. ASSUME InLine(y, r) PROVE InLine(y, q) /\ y # Head(q)
    <3>1. PICK i \in 1..Len(r) : r[i] = y
      BY <2>1 DEF InLine
    <3>2. i + 1 \in 1..Len(q) /\ q[i + 1] = y /\ 1 \in 1..Len(q) /\ i + 1 # 1
      BY <1>1, <3>1
    <3> QED BY <1>1, <3>2 DEF InLine, NoRepeats
  <2>2. ASSUME InLine(y, q), y # Head(q) PROVE InLine(y, r)
    <3>1. PICK i \in 1..Len(q) : q[i] = y
      BY <2>2 DEF InLine
    <3>2. i - 1 \in 1..Len(r) /\ r[i - 1] = y
      BY <1>1, <2>2, <3>1
    <3> QED BY <3>2 DEF InLine
  <2> QED BY <2>1, <2>2
<1> QED BY <1>1, <1>2, <1>3, <1>4 DEF r

(* The calls that hold a permit are finitely many.                         *)
LEMMA HoldersFinite == IsFiniteSet(Holders)
BY ExchangeAssumption, FS_Subset DEF Holders

SemaphoreInv == TypeOK /\ LineSound /\ PermitsConserved

(* A step of a call between taking and giving back permits.                *)
LEMMA PlainMove ==
  ASSUME SemaphoreInv, NEW j \in Jobs, NEW x,
         pc' = [pc EXCEPT ![j] = x], pc[j] # "queued", x # "queued",
         pc[j] \in Holding <=> x \in Holding, UNCHANGED semaVars
  PROVE  LineSound' /\ PermitsConserved'
<1>1. pc \in [Jobs -> Stages]
  BY DEF SemaphoreInv, TypeOK
<1>2. \A i \in Jobs : pc'[i] = IF i = j THEN x ELSE pc[i]
  BY <1>1
<1>3. LineSound'
  BY <1>2 DEF SemaphoreInv, LineSound, InLine, NoRepeats, semaVars
<1>4. Holders' = Holders
  BY <1>2 DEF Holders
<1>5. PermitsConserved'
  BY <1>4 DEF SemaphoreInv, PermitsConserved, semaVars
<1> QED BY <1>3, <1>5

(* Taking a free permit, or lining up for one.                             *)
LEMMA AcquireConserves ==
  ASSUME SemaphoreInv, NEW j \in Jobs, Acquire(j)
  PROVE  LineSound' /\ PermitsConserved'
<1>0. /\ pc \in [Jobs -> Stages] /\ permits \in Nat /\ queue \in Seq(Jobs)
      /\ pc[j] = "acquire"
  BY DEF SemaphoreInv, TypeOK, Acquire
<1>1. CASE permits > 0
  <2>1. /\ permits' = permits - 1 /\ queue' = queue
        /\ \A i \in Jobs : pc'[i] = IF i = j THEN "granted" ELSE pc[i]
    BY <1>0, <1>1 DEF Acquire
  <2>2. LineSound'
    BY <1>0, <1>1, <2>1 DEF SemaphoreInv, LineSound, InLine, NoRepeats
  <2>3. Holders' = Holders \cup {j} /\ j \notin Holders
    BY <1>0, <2>1 DEF Holders, Holding
  <2>4. Cardinality(Holders') = Cardinality(Holders) + 1
    BY <2>3, HoldersFinite, FS_AddElement
  <2>5. Cardinality(Holders) \in Nat
    BY HoldersFinite, FS_CardinalityType
  <2> QED BY <1>0, <1>1, <2>1, <2>2, <2>4, <2>5 DEF SemaphoreInv, PermitsConserved
<1>2. CASE permits = 0
  <2>1. /\ permits' = permits /\ queue' = Append(queue, j)
        /\ \A i \in Jobs : pc'[i] = IF i = j THEN "queued" ELSE pc[i]
    BY <1>0, <1>2 DEF Acquire
  <2>2. NoRepeats(queue) /\ ~InLine(j, queue)
    BY <1>0 DEF SemaphoreInv, LineSound
  <2>3. /\ NoRepeats(queue')
        /\ \A y \in Jobs : InLine(y, queue') <=> InLine(y, queue) \/ y = j
    BY <1>0, <2>1, <2>2, AppendLine
  <2>4. LineSound'
    BY <1>2, <2>1, <2>3 DEF SemaphoreInv, LineSound
  <2>5. Holders' = Holders
    BY <1>0, <2>1 DEF Holders, Holding
  <2> QED BY <2>1, <2>4, <2>5 DEF SemaphoreInv, PermitsConserved
<1> QED BY <1>0, <1>1, <1>2

(* A permit given back is free again or goes to the head of the line.      *)
LEMMA ReleaseConserves ==
  ASSUME SemaphoreInv, NEW j \in Jobs, NEW next, Release(j, next),
         pc[j] \in Holding, next \notin Holding, next # "queued"
  PROVE  LineSound' /\ PermitsConserved'
<1>0. pc \in [Jobs -> Stages] /\ permits \in Nat /\ queue \in Seq(Jobs)
  BY DEF SemaphoreInv, TypeOK
<1>1. j \in Holders /\ pc[j] # "queued"
  BY DEF Holders, Holding
<1>2. Cardinality(Holders) \in Nat
  BY HoldersFinite, FS_CardinalityType
<1>3. CASE queue = <<>>
  <2>1. /\ permits' = permits + 1 /\ queue' = queue
        /\ \A i \in Jobs : pc'[i] = IF i = j THEN next ELSE pc[i]
    BY <1>0, <1>3 DEF Release
  <2>2. LineSound'
    BY <1>0, <1>1, <1>3, <2>1 DEF SemaphoreInv, LineSound, InLine, NoRepeats
  <2>3. Holders' = Holders \ {j}
    BY <1>0, <2>1 DEF Holders
  <2>4. Cardinality(Holders') = Cardinality(Holders) - 1
    BY <1>1, <2>3, HoldersFinite, FS_RemoveElement
  <2> QED BY <1>0, <1>2, <2>1, <2>2, <2>4 DEF SemaphoreInv, PermitsConserved
<1>4. CASE queue # <<>>
  <2> DEFINE h == Head(queue)
  <2>1. NoRepeats(queue)
    BY DEF SemaphoreInv, LineSound
  <2>2. /\ h \in Jobs /\ InLine(h, queue) /\ NoRepeats(Tail(queue))
        /\ \A y \in Jobs : InLine(y, Tail(queue)) <=> InLine(y, queue) /\ y # h
    BY <1>0, <1>4, <2>1, TailLine
  <2>3. pc[h] = "queued" /\ h # j
    BY <1>1, <2>2 DEF SemaphoreInv, LineSound
  <2>4. /\ permits' = permits /\ queue' = Tail(queue)
        /\ pc' = [pc EXCEPT ![j] = next, ![h] = "granted"]
    BY <1>4 DEF Release
  <2> HIDE DEF h
  <2>5. \A i \in Jobs : pc'[i] = IF i = h THEN "granted" ELSE IF i = j THEN next ELSE pc[i]
    BY <1>0, <2>2, <2>4
  <2>6. LineSound'
    <3>1. \A i \in Jobs : pc'[i] = "queued" <=> InLine(i, Tail(queue))
      <4>1. \A i \in Jobs : pc[i] = "queued" <=> InLine(i, queue)
        BY DEF SemaphoreInv, LineSound
      <4> QED BY <1>1, <2>2, <2>3, <2>5, <4>1
    <3>2. permits = 0
      BY <1>4 DEF SemaphoreInv, LineSound
    <3> QED BY <2>2, <2>4, <3>1, <3>2 DEF LineSound
  <2>7. Holders' = (Holders \ {j}) \cup {h} /\ h \notin Holders
    BY <1>0, <2>2, <2>3, <2>5 DEF Holders, Holding
  <2>8. Cardinality(Holders \ {j}) = Cardinality(Holders) - 1 /\ IsFiniteSet(Holders \ {j})
    BY <1>1, HoldersFinite, FS_RemoveElement
  <2>9. Cardinality(Holders') = Cardinality(Holders)
    BY <1>2, <2>7, <2>8, FS_AddElement
  <2> QED BY <2>4, <2>6, <2>9 DEF SemaphoreInv, PermitsConserved
<1> QED BY <1>3, <1>4

(* Every step keeps the semaphore consistent.                              *)
LEMMA SemaphoreStep == SemaphoreInv /\ [Next]_vars => LineSound' /\ PermitsConserved'
<1> SUFFICES ASSUME SemaphoreInv, [Next]_vars PROVE LineSound' /\ PermitsConserved'
  OBVIOUS
<1>0. pc \in [Jobs -> Stages]
  BY DEF SemaphoreInv, TypeOK
<1>1. ASSUME UNCHANGED <<pc, semaVars>> PROVE LineSound' /\ PermitsConserved'
  BY <1>1 DEF SemaphoreInv, LineSound, PermitsConserved, InLine, NoRepeats,
     Holders, semaVars
<1>2. ASSUME NEW j \in Jobs, Call(j) \/ TimeOut(j) PROVE LineSound' /\ PermitsConserved'
  <2> DEFINE Plain(x) ==
        /\ pc' = [pc EXCEPT ![j] = x] /\ pc[j] # "queued" /\ x # "queued"
        /\ pc[j] \in Holding <=> x \in Holding
        /\ UNCHANGED semaVars
  <2>0. ASSUME NEW x, Plain(x) PROVE LineSound' /\ PermitsConserved'
    BY <2>0, PlainMove
  <2>1. Refuse(j) => Plain("done")
    BY DEF Refuse, Finish, Holding
  <2>2. Accept(j) => Plain("package")
    BY DEF Accept, Holding
  <2>3. TakeReference(j) => Plain("acquire")
    BY DEF TakeReference, Holding
  <2>4. Register(j) => Plain("registered") \/ Plain("notAdded")
    BY DEF Register, Holding
  <2>5. Send(j) => Plain("waiting")
    BY DEF Send, Holding
  <2>6. SendFails(j) => Plain("sendFailed")
    BY DEF SendFails, Holding
  <2>7. Wake(j) \/ TimeOut(j) => Plain("woken")
    BY DEF Wake, TimeOut, Holding
  <2>8. ReturnEmpty(j) \/ Fail(j) => Plain("done")
    BY DEF ReturnEmpty, Fail, Finish, Holding
  <2>9. Complete(j) => Plain("package") \/ Plain("done")
    BY DEF Complete, Finish, Holding
  <2> HIDE DEF Plain
  <2>10. CASE Leave(j)
    <3> DEFINE next == IF pc[j] = "woken" THEN "judging" ELSE "returning"
    <3>1. Release(j, next) /\ pc[j] \in Holding
      BY <2>10 DEF Leave, Holding
    <3>2. next \notin Holding /\ next # "queued"
      BY DEF Holding
    <3> HIDE DEF next
    <3> QED BY <3>1, <3>2, ReleaseConserves
  <2>11. CASE LeaveUnregistered(j)
    BY <2>11, ReleaseConserves DEF LeaveUnregistered, Holding
  <2> QED BY <1>2, <2>0, <2>1, <2>2, <2>3, <2>4, <2>5, <2>6, <2>7, <2>8, <2>9,
             <2>10, <2>11, AcquireConserves DEF Call
<1>3. ASSUME NEW r \in wire, ReceiveJobAck(r) \/ ReceiveAck(r) PROVE UNCHANGED <<pc, semaVars>>
  BY <1>3 DEF ReceiveJobAck, ReceiveAck, Found, callVars
<1>4. HandOver => UNCHANGED <<pc, semaVars>>
  BY DEF HandOver, callVars
<1>5. ASSUME NEW c \in 0..MaxEpoch, Cancel(c) PROVE UNCHANGED <<pc, semaVars>>
  BY <1>5 DEF Cancel, CopyWrites, CancelOne, CancelReads, CopyReads,
     CancelEnds, callVars
<1>6. Link \/ UNCHANGED vars => UNCHANGED <<pc, semaVars>>
  BY DEF Link, Close, CloseSocket, Reopen, Connect, Handshake, Break, LoopEnds,
     vars, callVars
<1> QED BY <1>1, <1>2, <1>3, <1>4, <1>5, <1>6 DEF Next, Finished

(* The initial state has all permits free and an empty line.               *)
LEMMA SemaphoreInit == Init => SemaphoreInv
<1> HAVE Init
<1>1. Holders = {} /\ queue = <<>> /\ permits = Permits
  BY DEF Init, Holders, Holding
<1>2. PermitsConserved
  BY <1>1, FS_EmptySet, ExchangeAssumption DEF PermitsConserved
<1>3. LineSound
  BY <1>1 DEF LineSound, InLine, NoRepeats, Init
<1> QED BY <1>2, <1>3, InitType DEF SemaphoreInv

LEMMA SemaphoreSafety == Spec => []SemaphoreInv
<1>1. Init => SemaphoreInv
  BY SemaphoreInit
<1>2. SemaphoreInv /\ [Next]_vars => SemaphoreInv'
  BY SemaphoreStep, TypeStep DEF SemaphoreInv
<1> QED BY <1>1, <1>2, PTL DEF Spec

(* Whatever way packages end, no permit is lost or used twice.             *)
THEOREM PermitsAreConserved == Spec => []PermitsConserved
BY SemaphoreSafety, PTL DEF SemaphoreInv
=============================================================================
