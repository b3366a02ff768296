------------------------- MODULE JobExchange_answers -------------------------
(***************************************************************************)
(* Proofs about JobExchange, continued: the handler tables are sound, an   *)
(* answer reaches the package it belongs to, and a lost connection leaves  *)
(* nobody waiting.                                                         *)
(***************************************************************************)
EXTENDS JobExchange_proofs

(* Disposing of the guard moves the call and perhaps the next in line.     *)
LEMMA ReleaseMoves ==
  ASSUME SemaphoreInv, NEW j \in Jobs, NEW next, Release(j, next),
         pc[j] \in Holding
  PROVE  /\ pc'[j] = next
         /\ \A i \in Jobs \ {j} :
              pc'[i] = pc[i] \/ (pc[i] = "queued" /\ pc'[i] = "granted")
<1>0. pc \in [Jobs -> Stages] /\ queue \in Seq(Jobs)
  BY DEF SemaphoreInv, TypeOK
<1>1. CASE queue = <<>>
  BY <1>0, <1>1 DEF Release
<1>2. CASE queue # <<>>
  <2> DEFINE h == Head(queue)
  <2>1. NoRepeats(queue)
    BY DEF SemaphoreInv, LineSound
  <2>2. h \in Jobs /\ InLine(h, queue)
    BY <1>0, <1>2, <2>1, TailLine
  <2>3. pc[h] = "queued" /\ h # j
    BY <2>2 DEF SemaphoreInv, LineSound, Holding
  <2>4. pc' = [pc EXCEPT ![j] = next, ![h] = "granted"]
    BY <1>2 DEF Release
  <2> HIDE DEF h
  <2> QED BY <1>0, <2>2, <2>3, <2>4
<1> QED BY <1>1, <1>2

(* A step of one call leaves what the others have.                         *)
LEMMA OthersKeep ==
  ASSUME SemaphoreInv, NEW j \in Jobs, Call(j) \/ TimeOut(j),
         NEW i \in Jobs, i # j
  PROVE  /\ pc'[i] = pc[i] \/ (pc[i] = "queued" /\ pc'[i] = "granted")
         /\ id'[i] = id[i] /\ package'[i] = package[i]
         /\ slot'[i] = slot[i] /\ results'[i] = results[i]
         /\ sentOn'[i] = sentOn[i]
<1> USE DEF SemaphoreInv, TypeOK
<1>1. CASE Leave(j)
  <2>1. PICK next : Release(j, next)
    BY <1>1 DEF Leave
  <2> QED BY <1>1, <2>1, ReleaseMoves DEF Leave, Holding
<1>2. CASE LeaveUnregistered(j)
  BY <1>2, ReleaseMoves DEF LeaveUnregistered, Holding, tableVars
<1>3. CASE Refuse(j) \/ Accept(j) \/ TakeReference(j)
  BY <1>3 DEF Refuse, Accept, TakeReference, Finish, tableVars
<1>4. CASE Acquire(j) \/ Register(j)
  BY <1>4 DEF Acquire, Register, tableVars
<1>5. CASE Send(j) \/ SendFails(j) \/ Wake(j) \/ TimeOut(j)
  BY <1>5 DEF Send, SendFails, Wake, TimeOut, tableVars
<1>6. CASE ReturnEmpty(j) \/ Fail(j) \/ Complete(j)
  BY <1>6 DEF ReturnEmpty, Fail, Complete, Finish, tableVars
<1> QED BY <1>1, <1>2, <1>3, <1>4, <1>5, <1>6 DEF Call

-----------------------------------------------------------------------------
(* The handler tables.                                                     *)

TableInv == SemaphoreInv /\ TableSound

(* Where a handler is entered and removed, and who is registered then.     *)
LEMMA CallKeepsTable ==
  ASSUME TableInv, NEW j \in Jobs, Call(j) \/ TimeOut(j)
  PROVE  TableSound'
<1>0. /\ pc \in [Jobs -> Stages] /\ id \in [Jobs -> Ids]
      /\ handlers \in [Keys -> Jobs \cup {Nobody}]
      /\ \A i \in Jobs : Key(i) \in Keys
  BY ExchangeAssumption DEF TableInv, SemaphoreInv, TypeOK, Key, Keys
<1>1. \A i \in Jobs \ {j} : (Registered(i)' <=> Registered(i)) /\ Key(i)' = Key(i)
  BY OthersKeep DEF TableInv, Registered, Key
<1>2. ASSUME UNCHANGED handlers, Registered(j)' <=> Registered(j),
             Registered(j) => Key(j)' = Key(j)
      PROVE  TableSound'
  BY <1>0, <1>1, <1>2 DEF TableInv, TableSound
<1>3. CASE Register(j)
  <2>1. CASE handlers[Key(j)] = Nobody
    <3>1. /\ handlers' = [handlers EXCEPT ![Key(j)] = j]
          /\ Registered(j)' /\ ~Registered(j) /\ Key(j)' = Key(j)
      BY <1>0, <1>3, <2>1 DEF Register, Registered, Key
    <3>2. \A k \in Keys : handlers'[k] = IF k = Key(j) THEN j ELSE handlers[k]
      BY <1>0, <3>1
    <3>3. \A i \in Jobs \ {j}, k \in Keys :
            handlers'[k] = i <=> Registered(i)' /\ Key(i)' = k
      BY <1>0, <1>1, <2>1, <3>2, ExchangeAssumption DEF TableInv, TableSound
    <3>4. \A k \in Keys : handlers'[k] = j <=> Registered(j)' /\ Key(j)' = k
      BY <3>1, <3>2 DEF TableInv, TableSound
    <3> SUFFICES ASSUME NEW i \in Jobs, NEW k \in Keys
                 PROVE  handlers'[k] = i <=> Registered(i)' /\ Key(i)' = k
      BY DEF TableSound
    <3> QED BY <3>3, <3>4
  <2>2. CASE handlers[Key(j)] # Nobody
    <3>1. ~Registered(j)' /\ ~Registered(j) /\ UNCHANGED handlers
      BY <1>0, <1>3, <2>2 DEF Register, Registered
    <3> QED BY <1>2, <3>1
  <2> QED BY <2>1, <2>2
<1>4. CASE Leave(j)
  <2>1. PICK next \in {"judging", "returning"} : Release(j, next)
    BY <1>4 DEF Leave
  <2>2. pc'[j] = next
    BY <1>4, <2>1, ReleaseMoves DEF TableInv, Leave, Holding
  <2>3. /\ handlers' = [handlers EXCEPT ![Key(j)] = Nobody]
        /\ Registered(j) /\ ~Registered(j)'
    BY <1>4, <2>2 DEF Leave, Registered
  <2>4. \A k \in Keys : handlers'[k] = IF k = Key(j) THEN Nobody ELSE handlers[k]
    BY <1>0, <2>3
  <2>5. handlers[Key(j)] = j
    BY <1>0, <2>3 DEF TableInv, TableSound
  <2>6. \A i \in Jobs \ {j}, k \in Keys :
          handlers'[k] = i <=> Registered(i)' /\ Key(i)' = k
    BY <1>0, <1>1, <2>4, <2>5, ExchangeAssumption DEF TableInv, TableSound
  <2>7. \A k \in Keys : handlers'[k] # j
    BY <2>3, <2>4, ExchangeAssumption DEF TableInv, TableSound
  <2> SUFFICES ASSUME NEW i \in Jobs, NEW k \in Keys
               PROVE  handlers'[k] = i <=> Registered(i)' /\ Key(i)' = k
    BY DEF TableSound
  <2> QED BY <2>3, <2>6, <2>7
<1>5. CASE LeaveUnregistered(j)
  <2>1. pc'[j] = "judging"
    BY <1>5, ReleaseMoves DEF TableInv, LeaveUnregistered, Holding
  <2>2. ~Registered(j)' /\ ~Registered(j) /\ UNCHANGED handlers
    BY <1>5, <2>1 DEF LeaveUnregistered, Registered, tableVars
  <2> QED BY <1>2, <2>2
<1>6. CASE TakeReference(j)
  BY <1>0, <1>2, <1>6 DEF TakeReference, Registered, tableVars
<1>7. CASE Send(j) \/ SendFails(j) \/ Wake(j) \/ TimeOut(j)
  BY <1>0, <1>2, <1>7 DEF Send, SendFails, Wake, TimeOut, Registered, Key, tableVars
<1>8. CASE Refuse(j) \/ Accept(j) \/ Acquire(j)
  BY <1>0, <1>2, <1>8 DEF Refuse, Accept, Acquire, Finish, Registered, Key, tableVars
<1>9. CASE ReturnEmpty(j) \/ Fail(j) \/ Complete(j)
  BY <1>0, <1>2, <1>9 DEF ReturnEmpty, Fail, Complete, Finish, Registered, Key, tableVars
<1> QED BY <1>3, <1>4, <1>5, <1>6, <1>7, <1>8, <1>9 DEF Call

(* Every step keeps the tables sound.                                      *)
LEMMA TableStep == TableInv /\ [Next]_vars => TableSound'
<1> SUFFICES ASSUME TableInv, [Next]_vars PROVE TableSound'
  OBVIOUS
<1>1. ASSUME UNCHANGED <<pc, id, handlers>> PROVE TableSound'
  BY <1>1 DEF TableInv, TableSound, Registered, Key
<1>2. ASSUME NEW r \in wire, ReceiveJobAck(r) \/ ReceiveAck(r)
      PROVE  UNCHANGED <<pc, id, handlers>>
  BY <1>2 DEF ReceiveJobAck, ReceiveAck, Found, callVars
<1>3. HandOver => UNCHANGED <<pc, id, handlers>>
  BY DEF HandOver, callVars
<1>4. ASSUME NEW c \in 0..MaxEpoch, Cancel(c) PROVE UNCHANGED <<pc, id, handlers>>
  BY <1>4 DEF Cancel, CopyWrites, CancelOne, CancelReads, CopyReads, CancelEnds, callVars, tableVars
<1>5. Link \/ UNCHANGED vars => UNCHANGED <<pc, id, handlers>>
  BY DEF Link, Close, CloseSocket, Reopen, Connect, Handshake, Break, LoopEnds,
     vars, callVars, tableVars
<1> QED BY <1>1, <1>2, <1>3, <1>4, <1>5, CallKeepsTable DEF Next, Finished

(* The initial tables are empty and nobody is registered.                  *)
LEMMA TableInit == Init => TableInv
<1> HAVE Init
<1>1. TableSound
  BY ExchangeAssumption DEF Init, TableSound, Registered
<1>2. SemaphoreInv
  BY SemaphoreInit
<1> QED BY <1>1, <1>2 DEF TableInv

(* The tables hold the packages under way and nothing else.                *)
THEOREM TablesAreSound == Spec => []TableSound
<1>1. TableInv /\ [Next]_vars => TableInv'
  BY TableStep, SemaphoreStep, TypeStep DEF TableInv, SemaphoreInv
<1>2. TableInv => TableSound
  BY DEF TableInv
<1> QED BY TableInit, <1>1, <1>2, PTL DEF Spec

-----------------------------------------------------------------------------
(* Answers.  While the references have not come round, the references in   *)
(* use differ and an answer under way names at most one package in use.    *)

HasReference(j) == pc[j] \notin {"new", "package", "done"}

References ==
  /\ \A j \in Jobs : HasReference(j) => id[j] <= referenceId
  /\ \A i, j \in Jobs :
       HasReference(i) /\ HasReference(j) /\ id[i] = id[j] => i = j
  /\ \A r \in wire : r.id <= referenceId
  /\ \A r \in wire, j \in Jobs :
       HasReference(j) /\ id[j] = r.id => r.job = j /\ r.package = package[j]

(* What the event, the call and the receive loop hold is the call's own.   *)
EventHoldsOwn(j) ==
  slot[j] \in Requests =>
    /\ slot[j] = <<j, package[j]>>
    /\ pc[j] \in {"registered", "waiting", "sendFailed", "returning", "done"}

ResultsOwn(j) ==
  /\ pc[j] \in {"new", "registered", "notAdded", "waiting", "sendFailed", "returning"} =>
       results[j] = Null
  /\ pc[j] \in {"woken", "judging", "done"} /\ results[j] \in Requests =>
       results[j] = <<j, package[j]>>

LoopHoldsOwn ==
  receiving # Empty /\ receiving.value \in Requests => receiving.value = receiving.for

AnswersOwn ==
  /\ \A j \in Jobs : EventHoldsOwn(j) /\ ResultsOwn(j)
  /\ LoopHoldsOwn

AnswerInv == TableInv /\ (~wrapped => References /\ AnswersOwn)

(* A reference that is taken is above every other one.                     *)
LEMMA TakeReferenceKeeps ==
  ASSUME AnswerInv, NEW j \in Jobs, TakeReference(j), ~wrapped'
  PROVE  References' /\ AnswersOwn'
<1>0. /\ pc \in [Jobs -> Stages] /\ id \in [Jobs -> Ids]
      /\ referenceId \in 0..(RefModulus - 1)
      /\ wire \subseteq [job : Jobs, package : Nat, id : Ids]
  BY DEF AnswerInv, TableInv, SemaphoreInv, TypeOK
<1>1. ~wrapped /\ referenceId + 1 # RefModulus
  BY DEF TakeReference
<1>2. NextReference = referenceId + 1
  BY <1>0, <1>1, ExchangeAssumption DEF NextReference
<1>3. /\ referenceId' = referenceId + 1
      /\ \A i \in Jobs : id'[i] = IF i = j THEN referenceId + 1 ELSE id[i]
      /\ \A i \in Jobs : pc'[i] = IF i = j THEN "acquire" ELSE pc[i]
      /\ UNCHANGED <<wire, package, slot, results, receiving>> /\ pc[j] = "package"
  BY <1>0, <1>2 DEF TakeReference, tableVars
<1>4. \A i \in Jobs \ {j} : HasReference(i)' <=> HasReference(i)
  BY <1>3 DEF HasReference
<1>5. \A i \in Jobs : id[i] \in Nat
  BY <1>0 DEF Ids
<1>6. \A r \in wire : r.id \in Nat
  BY <1>0 DEF Ids
<1>7. References
  BY <1>1 DEF AnswerInv
<1>8. References'
  <2>1. \A i \in Jobs : HasReference(i)' => id'[i] <= referenceId'
    BY <1>0, <1>3, <1>4, <1>5, <1>7 DEF References
  <2>2. ASSUME NEW i \in Jobs, NEW k \in Jobs, HasReference(i)', HasReference(k)',
               id'[i] = id'[k]
        PROVE  i = k
    <3>1. \A n \in Jobs \ {j} : HasReference(n)' => id'[n] = id[n] /\ id[n] <= referenceId
      BY <1>3, <1>4, <1>7 DEF References
    <3> QED BY <1>0, <1>3, <1>4, <1>5, <1>7, <2>2, <3>1 DEF References
  <2>3. \A r \in wire' : r.id <= referenceId'
    BY <1>0, <1>3, <1>6, <1>7 DEF References
  <2>4. ASSUME NEW r \in wire', NEW i \in Jobs, HasReference(i)', id'[i] = r.id
        PROVE  r.job = i /\ r.package = package'[i]
    <3>1. r \in wire /\ r.id <= referenceId
      BY <1>3, <1>7 DEF References
    <3>2. i # j
      BY <1>0, <1>3, <1>6, <2>4, <3>1
    <3> QED BY <1>3, <1>4, <1>7, <2>4, <3>1, <3>2 DEF References
  <2> QED BY <2>1, <2>2, <2>3, <2>4 DEF References
<1>9. AnswersOwn
  BY <1>1 DEF AnswerInv
<1>10. AnswersOwn'
  <2>1. LoopHoldsOwn'
    BY <1>3, <1>9 DEF AnswersOwn, LoopHoldsOwn
  <2>2. ASSUME NEW i \in Jobs PROVE EventHoldsOwn(i)' /\ ResultsOwn(i)'
    BY <1>3, <1>9 DEF AnswersOwn, EventHoldsOwn, ResultsOwn
  <2> QED BY <2>1, <2>2 DEF AnswersOwn
<1> QED BY <1>8, <1>10

(* A step that adds no request and no reference keeps what is known of     *)
(* them.                                                                   *)
LEMMA ReferencesKept ==
  ASSUME References, UNCHANGED <<id, referenceId>>, wire' \subseteq wire,
         \A i \in Jobs : HasReference(i)' => HasReference(i) /\ package'[i] = package[i]
  PROVE  References'
<1>1. \A j \in Jobs : HasReference(j)' => id'[j] <= referenceId'
  BY DEF References
<1>2. ASSUME NEW i \in Jobs, NEW j \in Jobs, HasReference(i)', HasReference(j)',
             id'[i] = id'[j]
      PROVE  i = j
  BY <1>2 DEF References
<1>3. \A r \in wire' : r.id <= referenceId'
  BY DEF References
<1>4. ASSUME NEW r \in wire', NEW j \in Jobs, HasReference(j)', id'[j] = r.id
      PROVE  r.job = j /\ r.package = package'[j]
  BY <1>4 DEF References
<1> QED BY <1>1, <1>2, <1>3, <1>4 DEF References


(* A request goes out under the reference of its package.                  *)
LEMMA SendKeepsReferences ==
  ASSUME AnswerInv, NEW j \in Jobs, Send(j), ~wrapped'
  PROVE  References'
<1>0. /\ pc \in [Jobs -> Stages]
      /\ \A i \in Jobs : pc'[i] = IF i = j THEN "waiting" ELSE pc[i]
      /\ UNCHANGED <<id, package, referenceId>> /\ pc[j] = "registered"
  BY DEF AnswerInv, TableInv, SemaphoreInv, TypeOK, Send, refVars
<1>1. References
  BY DEF AnswerInv, Send, refVars
<1>2. \A i \in Jobs : HasReference(i)' <=> HasReference(i)
  BY <1>0 DEF HasReference
<1>3. HasReference(j)
  BY <1>0 DEF HasReference
<1>4. ASSUME NEW r \in wire'
      PROVE  /\ r.id <= referenceId'
             /\ \A i \in Jobs : HasReference(i)' /\ id'[i] = r.id =>
                  r.job = i /\ r.package = package'[i]
  <2>1. CASE r \in wire
    BY <1>0, <1>1, <1>2, <2>1 DEF References
  <2>2. CASE r \notin wire
    <3>1. r = [job |-> j, package |-> package[j], id |-> id[j]]
      BY <2>2 DEF Send
    <3>2. r.job = j /\ r.package = package[j] /\ r.id = id[j]
      BY <3>1
    <3> QED BY <1>0, <1>1, <1>2, <1>3, <3>2 DEF References
  <2> QED BY <2>1, <2>2
<1>5. \A i \in Jobs : HasReference(i)' => id'[i] <= referenceId'
  BY <1>0, <1>1, <1>2 DEF References
<1>6. ASSUME NEW i \in Jobs, NEW k \in Jobs, HasReference(i)', HasReference(k)',
             id'[i] = id'[k]
      PROVE  i = k
  BY <1>0, <1>1, <1>2, <1>6 DEF References
<1> QED BY <1>4, <1>5, <1>6 DEF References

(* The other steps of a call take no reference and send nothing.           *)
LEMMA CallKeepsReferences ==
  ASSUME AnswerInv, NEW j \in Jobs, Call(j) \/ TimeOut(j), ~wrapped',
         ~TakeReference(j), ~Send(j)
  PROVE  References'
<1>0. pc \in [Jobs -> Stages] /\ SemaphoreInv
  BY DEF AnswerInv, TableInv, SemaphoreInv, TypeOK
<1>1. \A i \in Jobs \ {j} :
        HasReference(i)' => HasReference(i) /\ package'[i] = package[i]
  BY <1>0, OthersKeep DEF HasReference
<1>2. ASSUME UNCHANGED <<id, refVars, wire>>,
             HasReference(j)' => HasReference(j) /\ package'[j] = package[j]
      PROVE  References'
  <2>1. References /\ UNCHANGED <<id, referenceId>> /\ wire' \subseteq wire
    BY <1>2 DEF AnswerInv, refVars
  <2>2. \A i \in Jobs : HasReference(i)' => HasReference(i) /\ package'[i] = package[i]
    BY <1>1, <1>2
  <2> QED BY <2>1, <2>2, ReferencesKept
<1>3. CASE Refuse(j) \/ Accept(j)
  BY <1>0, <1>2, <1>3 DEF Refuse, Accept, Finish, HasReference
<1>4. CASE Acquire(j) \/ Register(j) \/ SendFails(j)
  BY <1>0, <1>2, <1>4 DEF Acquire, Register, SendFails, HasReference
<1>5. CASE Wake(j) \/ TimeOut(j)
  BY <1>0, <1>2, <1>5 DEF Wake, TimeOut, HasReference
<1>6. CASE Leave(j) \/ LeaveUnregistered(j)
  BY <1>0, <1>2, <1>6 DEF Leave, LeaveUnregistered, HasReference
<1>7. CASE ReturnEmpty(j) \/ Fail(j)
  BY <1>0, <1>2, <1>7 DEF ReturnEmpty, Fail, Finish, HasReference
<1>8. CASE Complete(j)
  BY <1>0, <1>2, <1>8 DEF Complete, Finish, HasReference
<1> QED BY <1>3, <1>4, <1>5, <1>6, <1>7, <1>8 DEF Call

(* A call's own steps move its answer from the event to its results and    *)
(* start the next package with neither.                                    *)
LEMMA CallKeepsAnswers ==
  ASSUME AnswerInv, NEW j \in Jobs, Call(j) \/ TimeOut(j), ~wrapped,
         ~TakeReference(j)
  PROVE  AnswersOwn'
<1>0. /\ pc \in [Jobs -> Stages] /\ slot \in [Jobs -> Requests \cup {Null, Empty}]
      /\ results \in [Jobs -> Requests \cup {Null}] /\ package \in [Jobs -> Nat]
      /\ SemaphoreInv
  BY DEF AnswerInv, TableInv, SemaphoreInv, TypeOK
<1>1. AnswersOwn /\ EventHoldsOwn(j) /\ ResultsOwn(j)
  BY DEF AnswerInv, AnswersOwn
<1>2. Empty \notin Requests /\ Null \notin Requests /\ Null # Empty
  BY ExchangeAssumption DEF Requests
<1>3. LoopHoldsOwn'
  <2>1. UNCHANGED receiving
    BY DEF Call, Refuse, Accept, TakeReference, Acquire, Register, Send, SendFails,
           Wake, TimeOut, Leave, LeaveUnregistered, ReturnEmpty, Fail, Complete
  <2> QED BY <1>1, <2>1 DEF AnswersOwn, LoopHoldsOwn
<1>4. ASSUME NEW i \in Jobs \ {j} PROVE EventHoldsOwn(i)' /\ ResultsOwn(i)'
  <2>1. EventHoldsOwn(i) /\ ResultsOwn(i)
    BY <1>1 DEF AnswersOwn
  <2> QED BY <1>0, <2>1, OthersKeep DEF EventHoldsOwn, ResultsOwn
<1>5. EventHoldsOwn(j)' /\ ResultsOwn(j)'
  <2> USE <1>0, <1>1, <1>2 DEF EventHoldsOwn, ResultsOwn
  <2>1. CASE Refuse(j)
    BY <2>1 DEF Refuse, Finish, tableVars
  <2>2. CASE Accept(j)
    BY <2>2 DEF Accept, tableVars
  <2>3. CASE Acquire(j)
    BY <2>3 DEF Acquire, tableVars
  <2>4. CASE Register(j)
    BY <2>4 DEF Register
  <2>5. CASE Send(j)
    BY <2>5 DEF Send, tableVars
  <2>6. CASE SendFails(j)
    BY <2>6 DEF SendFails, tableVars
  <2>7. CASE Wake(j)
    BY <2>7 DEF Wake
  <2>8. CASE TimeOut(j)
    BY <2>8 DEF TimeOut, tableVars
  <2>9. CASE Leave(j)
    <3>1. pc'[j] = IF pc[j] = "woken" THEN "judging" ELSE "returning"
      BY <2>9, ReleaseMoves DEF Leave, Holding
    <3> QED BY <2>9, <3>1 DEF Leave
  <2>10. CASE LeaveUnregistered(j)
    <3>1. pc'[j] = "judging"
      BY <2>10, ReleaseMoves DEF LeaveUnregistered, Holding
    <3> QED BY <2>10, <3>1 DEF LeaveUnregistered, tableVars
  <2>11. CASE ReturnEmpty(j)
    BY <2>11 DEF ReturnEmpty, Finish, tableVars
  <2>12. CASE Fail(j)
    BY <2>12 DEF Fail, Finish, tableVars
  <2>13. CASE Complete(j)
    BY <2>13 DEF Complete, Finish, tableVars
  <2> QED BY <2>1, <2>2, <2>3, <2>4, <2>5, <2>6, <2>7, <2>8, <2>9, <2>10, <2>11,
             <2>12, <2>13 DEF Call
<1> QED BY <1>3, <1>4, <1>5 DEF AnswersOwn


(* The handler the loop finds under a reference is that of the package the *)
(* answer names.                                                           *)
LEMMA FoundKeepsOwn ==
  ASSUME AnswerInv, ~wrapped', NEW r \in wire, NEW kind \in Kinds,
         NEW error \in BOOLEAN, NEW value \in {<<r.job, r.package>>, Null},
         Found(handlers[<<kind, r.id>>], r, error, value)
  PROVE  References' /\ AnswersOwn'
<1> DEFINE h == handlers[<<kind, r.id>>]
<1>0. /\ handlers \in [Keys -> Jobs \cup {Nobody}]
      /\ wire \subseteq [job : Jobs, package : Nat, id : Ids]
  BY DEF AnswerInv, TableInv, SemaphoreInv, TypeOK
<1>1. UNCHANGED <<pc, id, package, referenceId, slot, results>> /\ wire' \subseteq wire
  BY DEF Found, callVars, refVars
<1>2. References /\ AnswersOwn
  BY DEF AnswerInv, Found, callVars, refVars
<1>3. References'
  BY <1>1, <1>2, ReferencesKept DEF HasReference
<1>4. LoopHoldsOwn'
  <2>1. CASE h = Nobody
    BY <1>2, <2>1 DEF Found, AnswersOwn, LoopHoldsOwn
  <2>2. CASE h # Nobody
    <3>1. <<kind, r.id>> \in Keys /\ h \in Jobs
      BY <1>0, <2>2 DEF Keys
    <3>2. Registered(h) /\ id[h] = r.id
      BY <3>1 DEF AnswerInv, TableInv, TableSound, Key
    <3>3. HasReference(h)
      BY <3>2 DEF HasReference, Registered
    <3>4. r.job = h /\ r.package = package[h]
      BY <1>2, <3>1, <3>2, <3>3 DEF References
    <3>5. receiving' = [for |-> <<h, package[h]>>, value |-> value]
      BY <2>2 DEF Found
    <3>6. Null \notin Requests
      BY ExchangeAssumption DEF Requests
    <3> QED BY <3>4, <3>5, <3>6 DEF LoopHoldsOwn
  <2> QED BY <2>1, <2>2
<1>5. \A j \in Jobs : EventHoldsOwn(j)' /\ ResultsOwn(j)'
  BY <1>1, <1>2 DEF AnswersOwn, EventHoldsOwn, ResultsOwn
<1> QED BY <1>3, <1>4, <1>5 DEF AnswersOwn

(* Setting an event with null, or with an answer to the package it is of,  *)
(* keeps every event with its own.                                         *)
LEMMA SetEventKeepsOwn ==
  ASSUME AnswerInv, ~wrapped, NEW r \in Requests, NEW value \in {r, Null},
         SetEvent(r, value), UNCHANGED <<pc, package>>, NEW j \in Jobs
  PROVE  EventHoldsOwn(j)'
<1>0. slot \in [Jobs -> Requests \cup {Null, Empty}]
  BY DEF AnswerInv, TableInv, SemaphoreInv, TypeOK
<1>1. EventHoldsOwn(j)
  BY DEF AnswerInv, AnswersOwn
<1>2. Null \notin Requests
  BY ExchangeAssumption DEF Requests
<1>3. CASE Listens(r) /\ slot[r[1]] = Empty /\ r[1] = j
  <2>1. slot'[j] = value
    BY <1>0, <1>3 DEF SetEvent
  <2>2. r = <<j, package[j]>> /\ pc[j] \in {"registered", "waiting"}
    BY <1>3 DEF Listens, Requests
  <2> QED BY <1>2, <2>1, <2>2 DEF EventHoldsOwn
<1>4. CASE ~(Listens(r) /\ slot[r[1]] = Empty /\ r[1] = j)
  <2>1. slot'[j] = slot[j]
    BY <1>0, <1>4 DEF SetEvent
  <2> QED BY <1>1, <2>1 DEF EventHoldsOwn
<1> QED BY <1>3, <1>4

(* Every step hands answers to the packages they belong to.                *)
LEMMA AnswerStep ==
  AnswerInv /\ [Next]_vars /\ ~wrapped' => References' /\ AnswersOwn'
<1> SUFFICES ASSUME AnswerInv, [Next]_vars, ~wrapped' PROVE References' /\ AnswersOwn'
  OBVIOUS
<1>1. ASSUME NEW j \in Jobs, Call(j) \/ TimeOut(j) PROVE References' /\ AnswersOwn'
  <2>1. CASE TakeReference(j)
    BY <2>1, TakeReferenceKeeps
  <2>2. CASE ~TakeReference(j)
    <3>1. ~wrapped
      BY <1>1, <2>2 DEF Call, Refuse, Accept, Acquire, Register, Send, SendFails,
         Wake, TimeOut, Leave, LeaveUnregistered, ReturnEmpty, Fail, Complete, refVars
    <3>2. AnswersOwn'
      BY <1>1, <2>2, <3>1, CallKeepsAnswers
    <3>3. References'
      BY <1>1, <2>2, SendKeepsReferences, CallKeepsReferences
    <3> QED BY <3>2, <3>3
  <2> QED BY <2>1, <2>2
<1>2. ASSUME NEW r \in wire, ReceiveJobAck(r) PROVE References' /\ AnswersOwn'
  <2>1. r.job \in Jobs /\ Kind[r.job] \in Kinds
    BY ExchangeAssumption DEF AnswerInv, TableInv, SemaphoreInv, TypeOK
  <2>2. PICK error \in BOOLEAN :
          Found(handlers[<<Kind[r.job], r.id>>], r, error, <<r.job, r.package>>)
    BY <1>2 DEF ReceiveJobAck
  <2> QED BY <2>1, <2>2, FoundKeepsOwn
<1>3. ASSUME NEW r \in wire, ReceiveAck(r) PROVE References' /\ AnswersOwn'
  <2>1. PICK error \in BOOLEAN :
          Found(IF handlers[<<"read", r.id>>] # Nobody THEN handlers[<<"read", r.id>>]
                ELSE handlers[<<"write", r.id>>], r, error, Null)
    BY <1>3 DEF ReceiveAck
  <2>2. PICK kind \in Kinds : Found(handlers[<<kind, r.id>>], r, error, Null)
    BY <2>1 DEF Kinds
  <2> QED BY <2>2, FoundKeepsOwn
<1>4. ASSUME UNCHANGED <<pc, id, package, refVars, results>>, wire' \subseteq wire
      PROVE  /\ References'
             /\ LoopHoldsOwn' /\ (\A j \in Jobs : EventHoldsOwn(j)') => AnswersOwn'
  <2>1. References /\ AnswersOwn
    BY <1>4 DEF AnswerInv, refVars
  <2>2. References'
    BY <1>4, <2>1, ReferencesKept DEF HasReference, refVars
  <2>3. \A j \in Jobs : ResultsOwn(j)'
    BY <1>4, <2>1 DEF AnswersOwn, ResultsOwn
  <2> QED BY <2>2, <2>3 DEF AnswersOwn
<1>5. CASE HandOver
  <2>1. /\ receiving \in [for : Requests, value : Requests \cup {Null}]
        /\ receiving # Empty
    BY <1>5 DEF HandOver, AnswerInv, TableInv, SemaphoreInv, TypeOK
  <2>2. ~wrapped /\ UNCHANGED <<pc, id, package, refVars, results, wire>>
    BY <1>5 DEF HandOver, callVars, refVars
  <2>3. receiving.value \in {receiving.for, Null}
    BY <2>1, <2>2 DEF AnswerInv, AnswersOwn, LoopHoldsOwn
  <2>4. \A j \in Jobs : EventHoldsOwn(j)'
    BY <1>5, <2>1, <2>2, <2>3, SetEventKeepsOwn DEF HandOver
  <2>5. LoopHoldsOwn'
    BY <1>5 DEF HandOver, LoopHoldsOwn
  <2> QED BY <1>4, <2>2, <2>4, <2>5
<1>6. ASSUME NEW c \in 0..MaxEpoch, CancelOne(c) PROVE References' /\ AnswersOwn'
  <2>1. PICK r \in todo[c] : SetEvent(r, Null)
    BY <1>6 DEF CancelOne
  <2>2. r \in Requests
    BY DEF AnswerInv, TableInv, SemaphoreInv, TypeOK
  <2>3. ~wrapped /\ UNCHANGED <<pc, id, package, refVars, results, wire, receiving>>
    BY <1>6 DEF CancelOne, callVars, refVars
  <2>4. \A j \in Jobs : EventHoldsOwn(j)'
    BY <2>1, <2>2, <2>3, SetEventKeepsOwn
  <2>5. LoopHoldsOwn'
    BY <2>3 DEF AnswerInv, AnswersOwn, LoopHoldsOwn
  <2> QED BY <1>4, <2>3, <2>4, <2>5
<1>7. ASSUME UNCHANGED <<callVars, slot, receiving>>, wire' \subseteq wire
      PROVE  References' /\ AnswersOwn'
  <2>1. AnswersOwn
    BY <1>7 DEF AnswerInv, callVars, refVars
  <2>2. \A j \in Jobs : EventHoldsOwn(j)'
    BY <1>7, <2>1 DEF AnswersOwn, EventHoldsOwn, callVars
  <2>3. LoopHoldsOwn'
    BY <1>7, <2>1 DEF AnswersOwn, LoopHoldsOwn
  <2> QED BY <1>4, <1>7, <2>2, <2>3 DEF callVars
<1>8. ASSUME NEW c \in 0..MaxEpoch,
             CopyWrites(c) \/ CancelReads(c) \/ CopyReads(c) \/ CancelEnds(c)
      PROVE  References' /\ AnswersOwn'
  BY <1>7, <1>8 DEF CopyWrites, CancelReads, CopyReads, CancelEnds, tableVars
<1>9. CASE Link
  <2>1. UNCHANGED <<callVars, slot, receiving>> /\ wire' \subseteq wire
    BY <1>9 DEF Link, Close, CloseSocket, Reopen, Connect, Handshake, Break, LoopEnds,
       tableVars
  <2> QED BY <1>7, <2>1
<1>10. CASE UNCHANGED vars
  BY <1>7, <1>10 DEF vars, tableVars
<1> QED BY <1>1, <1>2, <1>3, <1>5, <1>6, <1>8, <1>9, <1>10 DEF Next, Cancel, Finished

LEMMA AnswersAtStart == Init => AnswerInv
<1> HAVE Init
<1>1. References
  BY DEF Init, References, HasReference
<1>2. \A j \in Jobs : EventHoldsOwn(j) /\ ResultsOwn(j)
  BY ExchangeAssumption DEF Init, EventHoldsOwn, ResultsOwn, Requests
<1>3. LoopHoldsOwn
  BY DEF Init, LoopHoldsOwn
<1> QED BY <1>1, <1>2, <1>3, TableInit DEF AnswerInv, AnswersOwn

LEMMA AnswerInvStep == AnswerInv /\ [Next]_vars => AnswerInv'
BY AnswerStep, TableStep, SemaphoreStep, TypeStep DEF AnswerInv, TableInv, SemaphoreInv

(* Until the references come round, a call is handed only the answer to    *)
(* the package it is at.                                                   *)
THEOREM AnswersReachTheirCall == Spec => []OwnAnswer
<1>1. AnswerInv => OwnAnswer
  BY DEF AnswerInv, AnswersOwn, EventHoldsOwn, ResultsOwn, OwnAnswer
<1> QED BY <1>1, AnswersAtStart, AnswerInvStep, PTL DEF Spec

-----------------------------------------------------------------------------
(***************************************************************************)
(* No call is left waiting for an answer from a connection that is gone.   *)
(***************************************************************************)

(* The cancellation of the connection a call used has set its event, has   *)
(* failed to copy its table, still has the event to set, or will look for  *)
(* the call in its table, of which it has counted at least one entry.      *)
Remembered(j) ==
  \/ slot[j] # Empty
  \/ PassedOver(j)
  \/ /\ phase[sentOn[j]] = "copyWrites"
     /\ Kind[j] = "read" \/ counted[sentOn[j]] > 0
  \/ /\ phase[sentOn[j]] = "write"
     /\ Kind[j] = "read" \/ <<j, package[j]>> \in todo[sentOn[j]]
  \/ /\ phase[sentOn[j]] = "copyReads"
     /\ Kind[j] = "read" /\ counted[sentOn[j]] > 0
  \/ /\ phase[sentOn[j]] = "read"
     /\ <<j, package[j]>> \in todo[sentOn[j]]

Sent(j) == pc[j] = "waiting" /\ sentOn[j] > 0

(* While the connection a call uses is the current one it is open, and     *)
(* once it is gone the call is remembered.                                 *)
Accounted(j) ==
  Sent(j) => /\ sentOn[j] <= epoch
             /\ sentOn[j] = epoch /\ isConnected => connectionState = "Opened"
             /\ sentOn[j] < epoch \/ ~isConnected => Remembered(j)

ClosingInv ==
  /\ TableInv
  /\ socket = "up" => isConnected
  /\ \A j \in Jobs : Accounted(j)

(* What the steps of a call, and of another call, do to its account.       *)
LEMMA CallAccounted ==
  ASSUME ClosingInv, NEW i \in Jobs, Call(i) \/ TimeOut(i), NEW j \in Jobs
  PROVE  Accounted(j)'
<1>0. /\ pc \in [Jobs -> Stages] /\ sentOn \in [Jobs -> 0..MaxEpoch]
      /\ epoch \in 0..MaxEpoch /\ SemaphoreInv /\ MaxEpoch \in Nat
      /\ Accounted(j)
  BY ExchangeAssumption DEF ClosingInv, TableInv, SemaphoreInv, TypeOK
<1>1. UNCHANGED <<epoch, isConnected, connectionState, cancelVars>>
  BY DEF Call, Refuse, Accept, TakeReference, Acquire, Register, Send, SendFails,
     Wake, TimeOut, Leave, LeaveUnregistered, ReturnEmpty, Fail, Complete,
     linkVars, cancelVars
<1>2. CASE i # j
  <2>1. /\ pc'[j] = pc[j] \/ (pc[j] = "queued" /\ pc'[j] = "granted")
        /\ package'[j] = package[j] /\ slot'[j] = slot[j] /\ sentOn'[j] = sentOn[j]
    BY <1>0, <1>2, OthersKeep
  <2> QED BY <1>0, <1>1, <2>1 DEF Accounted, Sent, Remembered, PassedOver, cancelVars
<1>3. CASE i = j /\ Send(j)
  <2>1. sentOn'[j] = IF socket = "up" /\ connectionState = "Opened" THEN epoch ELSE 0
    BY <1>0, <1>3 DEF Send
  <2>2. socket = "up" => isConnected
    BY DEF ClosingInv
  <2> QED BY <1>0, <1>1, <2>1, <2>2 DEF Accounted, Sent
<1>4. CASE i = j /\ ~Send(j)
  <2>1. CASE Leave(j)
    <3>1. pc'[j] \in {"judging", "returning"}
      BY <1>0, <2>1, ReleaseMoves DEF Leave, Holding
    <3> QED BY <3>1 DEF Accounted, Sent
  <2>2. CASE LeaveUnregistered(j)
    <3>1. pc'[j] = "judging"
      BY <1>0, <2>2, ReleaseMoves DEF LeaveUnregistered, Holding
    <3> QED BY <3>1 DEF Accounted, Sent
  <2>3. CASE ~Leave(j) /\ ~LeaveUnregistered(j)
    <3>1. pc'[j] # "waiting"
      BY <1>0, <1>4, <2>3 DEF Call, Refuse, Accept, TakeReference, Acquire, Register,
         SendFails, Wake, TimeOut, ReturnEmpty, Fail, Complete, Finish
    <3> QED BY <3>1 DEF Accounted, Sent
  <2> QED BY <2>1, <2>2, <2>3
<1> QED BY <1>2, <1>3, <1>4

(* Setting an event never empties one, and does set the one it is for.     *)
LEMMA SetEventFills ==
  ASSUME TypeOK, NEW r \in Requests, NEW value \in Requests \cup {Null},
         SetEvent(r, value), NEW j \in Jobs
  PROVE  /\ slot[j] # Empty => slot'[j] # Empty
         /\ pc[j] = "waiting" /\ r = <<j, package[j]>> => slot'[j] # Empty
<1>1. slot \in [Jobs -> Requests \cup {Null, Empty}]
  BY DEF TypeOK
<1>2. value # Empty
  BY ExchangeAssumption DEF Requests
<1> QED BY <1>1, <1>2 DEF SetEvent, Listens

(* A waiting call is in the table of its kind, so a cancellation finds it  *)
(* there and has something to count.                                       *)
LEMMA WaitingIsHandled ==
  ASSUME TableInv, NEW j \in Jobs, pc[j] = "waiting"
  PROVE  /\ <<j, package[j]>> \in Handled(Kind[j])
         /\ Cardinality(Entries(Kind[j])) > 0
<1>1. id[j] \in Ids /\ Key(j) = <<Kind[j], id[j]>> /\ Key(j) \in Keys /\ j # Nobody
  BY ExchangeAssumption DEF TableInv, SemaphoreInv, TypeOK, Key, Keys
<1>2. handlers[<<Kind[j], id[j]>>] = j
  BY <1>1 DEF TableInv, TableSound, Registered
<1>3. id[j] \in Entries(Kind[j])
  BY <1>1, <1>2 DEF Entries
<1>4. Cardinality(Entries(Kind[j])) # 0
  BY <1>3, EntriesFinite, FS_EmptySet
<1> QED BY <1>1, <1>2, <1>3, <1>4, EntriesFinite DEF Handled

(* A copy of the table of a waiting call, of which entries were counted,   *)
(* holds the call or fails.                                                *)
LEMMA CopyFinds ==
  ASSUME TableInv, NEW j \in Jobs, pc[j] = "waiting",
         NEW c \in 0..MaxEpoch, CopyHandlers(c, Kind[j]), counted[c] > 0
  PROVE  \/ <<j, package[j]>> \in todo'[c]
         \/ <<c, Kind[j]>> \in failedCopies'
<1>1. todo \in [0..MaxEpoch -> SUBSET Requests] /\ counted[c] \in Nat
  BY DEF TableInv, SemaphoreInv, TypeOK
<1>2. <<j, package[j]>> \in Handled(Kind[j])
  BY WaitingIsHandled
<1>3. \/ todo' = [todo EXCEPT ![c] = Handled(Kind[j])]
      \/ failedCopies' = failedCopies \cup {<<c, Kind[j]>>}
  BY <1>1 DEF CopyHandlers
<1> HIDE DEF Handled
<1> QED BY <1>1, <1>2, <1>3

(* The steps of the cancellations keep every call accounted for.           *)
LEMMA CancelAccounted ==
  ASSUME ClosingInv, NEW c \in 0..MaxEpoch, Cancel(c), NEW j \in Jobs
  PROVE  Accounted(j)'
<1>0. /\ todo \in [0..MaxEpoch -> SUBSET Requests]
      /\ phase \in [0..MaxEpoch -> {"idle", "copyWrites", "write", "copyReads", "read",
                                    "closing"}]
      /\ counted \in [0..MaxEpoch -> Nat]
      /\ sentOn \in [Jobs -> 0..MaxEpoch] /\ TableInv /\ TypeOK
      /\ Accounted(j)
  BY DEF ClosingInv, TableInv, SemaphoreInv, TypeOK
<1>1. UNCHANGED <<pc, package, sentOn, epoch, isConnected, connectionState>>
  BY DEF Cancel, CopyWrites, CancelOne, CancelReads, CopyReads, CancelEnds, callVars, linkVars
<1>2. ASSUME pc[j] = "waiting", Remembered(j) PROVE Remembered(j)'
  <2>1. CASE CancelOne(c)
    <3>1. PICK r \in todo[c] : SetEvent(r, Null) /\ todo' = [todo EXCEPT ![c] = @ \ {r}]
      BY <2>1 DEF CancelOne
    <3>2. r \in Requests
      BY <1>0, <3>1
    <3>3. /\ slot[j] # Empty => slot'[j] # Empty
          /\ r = <<j, package[j]>> => slot'[j] # Empty
      BY <1>0, <1>2, <3>1, <3>2, SetEventFills
    <3>4. UNCHANGED <<phase, counted, failedCopies>>
      BY <2>1 DEF CancelOne
    <3>5. r # <<j, package[j]>> =>
            (<<j, package[j]>> \in todo[sentOn[j]] => <<j, package[j]>> \in todo'[sentOn[j]])
      BY <1>0, <3>1
    <3> QED BY <1>1, <1>2, <3>3, <3>4, <3>5 DEF Remembered, PassedOver
  <2>2. CASE c # sentOn[j] /\ ~CancelOne(c)
    <3>1. /\ phase'[sentOn[j]] = phase[sentOn[j]] /\ counted'[sentOn[j]] = counted[sentOn[j]]
          /\ todo'[sentOn[j]] = todo[sentOn[j]] /\ UNCHANGED slot
          /\ failedCopies \subseteq failedCopies'
      BY <1>0, <2>2 DEF Cancel, CopyWrites, CancelReads, CopyReads, CancelEnds,
         CopyHandlers, CountHandlers, tableVars
    <3>2. UNCHANGED <<package, sentOn>>
      BY <1>1
    <3>3. PassedOver(j) => PassedOver(j)'
      BY <3>1, <3>2 DEF PassedOver
    <3> QED BY <1>2, <3>1, <3>2, <3>3 DEF Remembered
  <2>3. CASE c = sentOn[j] /\ CopyWrites(c)
    <3>1. /\ phase[c] = "copyWrites" /\ phase'[c] = "write"
          /\ CopyHandlers(c, "write") /\ UNCHANGED slot
      BY <1>0, <2>3 DEF CopyWrites, tableVars
    <3>2. failedCopies \subseteq failedCopies'
      BY <3>1 DEF CopyHandlers
    <3>3. Kind[j] = "write" /\ counted[c] > 0 =>
            <<j, package[j]>> \in todo'[c] \/ <<c, Kind[j]>> \in failedCopies'
      BY <1>0, <1>2, <3>1, CopyFinds
    <3>4. PassedOver(j) => PassedOver(j)'
      BY <1>1, <3>2 DEF PassedOver
    <3>5. phase'[sentOn'[j]] = "write" /\ package'[j] = package[j] /\ sentOn'[j] = c
      BY <1>1, <2>3, <3>1
    <3>6. CASE Kind[j] = "read"
      BY <3>5, <3>6 DEF Remembered
    <3>7. CASE Kind[j] # "read"
      <4>1. Kind[j] = "write"
        BY <3>7, ExchangeAssumption DEF Kinds
      <4>2. \/ slot[j] # Empty \/ PassedOver(j) \/ counted[c] > 0
        BY <1>2, <2>3, <3>1, <3>7 DEF Remembered
      <4>3. CASE counted[c] > 0
        BY <3>3, <3>5, <4>1, <4>3 DEF Remembered, PassedOver
      <4> QED BY <3>1, <3>4, <4>2, <4>3 DEF Remembered
    <3> QED BY <3>6, <3>7
  <2>4. CASE c = sentOn[j] /\ CancelReads(c)
    <3>1. /\ phase[c] = "write" /\ phase'[c] = "copyReads" /\ todo[c] = {}
          /\ counted'[c] = Cardinality(Entries("read"))
          /\ UNCHANGED <<slot, failedCopies>>
      BY <1>0, <2>4 DEF CancelReads, CountHandlers, tableVars
    <3>2. Kind[j] = "read" => Cardinality(Entries("read")) > 0
      BY <1>0, <1>2, WaitingIsHandled
    <3> QED BY <1>1, <1>2, <2>4, <3>1, <3>2 DEF Remembered, PassedOver
  <2>5. CASE c = sentOn[j] /\ CopyReads(c)
    <3>1. /\ phase[c] = "copyReads" /\ phase'[c] = "read"
          /\ CopyHandlers(c, "read") /\ UNCHANGED slot
      BY <1>0, <2>5 DEF CopyReads, tableVars
    <3>2. failedCopies \subseteq failedCopies'
      BY <3>1 DEF CopyHandlers
    <3>3. Kind[j] = "read" /\ counted[c] > 0 =>
            <<j, package[j]>> \in todo'[c] \/ <<c, Kind[j]>> \in failedCopies'
      BY <1>0, <1>2, <3>1, CopyFinds
    <3> QED BY <1>0, <1>1, <1>2, <2>5, <3>1, <3>2, <3>3 DEF Remembered, PassedOver
  <2>6. CASE c = sentOn[j] /\ CancelEnds(c)
    <3>1. /\ phase[c] = "read" /\ todo[c] = {} /\ UNCHANGED <<slot, failedCopies>>
      BY <2>6 DEF CancelEnds, tableVars
    <3> QED BY <1>1, <1>2, <2>6, <3>1 DEF Remembered, PassedOver
  <2> QED BY <2>1, <2>2, <2>3, <2>4, <2>5, <2>6 DEF Cancel
<1> QED BY <1>0, <1>1, <1>2 DEF Accounted, Sent

(* The steps of the connection keep every call accounted for.              *)
LEMMA LinkAccounted ==
  ASSUME ClosingInv, Link, NEW j \in Jobs
  PROVE  Accounted(j)'
<1>0. /\ todo \in [0..MaxEpoch -> SUBSET Requests]
      /\ phase \in [0..MaxEpoch -> {"idle", "copyWrites", "write", "copyReads", "read",
                                    "closing"}]
      /\ counted \in [0..MaxEpoch -> Nat]
      /\ sentOn \in [Jobs -> 0..MaxEpoch] /\ epoch \in 0..MaxEpoch
      /\ MaxEpoch \in Nat /\ TableInv /\ Accounted(j)
      /\ Kind[j] \in {"read", "write"}
  BY ExchangeAssumption DEF ClosingInv, TableInv, SemaphoreInv, TypeOK, Kinds
<1>1. UNCHANGED <<pc, package, sentOn, slot>>
  BY DEF Link, Close, CloseSocket, Reopen, Connect, Handshake, Break, LoopEnds,
     callVars, tableVars
<1>2. CASE Close
  <2>1. /\ phase' = [phase EXCEPT ![0] = "copyWrites"]
        /\ counted' = [counted EXCEPT ![0] = Cardinality(Entries("write"))]
        /\ UNCHANGED <<epoch, isConnected, connectionState, todo, failedCopies>>
    BY <1>2 DEF Close, StartCancel, CountHandlers
  <2> QED BY <1>0, <1>1, <2>1 DEF Accounted, Sent, Remembered, PassedOver
<1>3. CASE CloseSocket
  <2>1. /\ phase' = [phase EXCEPT ![0] = "idle"]
        /\ UNCHANGED <<counted, todo, failedCopies, epoch, isConnected, connectionState>>
    BY <1>3 DEF CloseSocket
  <2> QED BY <1>0, <1>1, <2>1 DEF Accounted, Sent, Remembered, PassedOver
<1>4. CASE Reopen \/ Break
  BY <1>0, <1>1, <1>4 DEF Reopen, Break, cancelVars, Accounted, Sent, Remembered, PassedOver
<1>5. CASE Connect
  <2>1. /\ ~isConnected /\ epoch' = epoch + 1
        /\ UNCHANGED <<phase, counted, todo, failedCopies>>
    BY <1>5 DEF Connect, cancelVars
  <2> QED BY <1>0, <1>1, <2>1 DEF Accounted, Sent, Remembered, PassedOver
<1>6. CASE Handshake
  <2>1. /\ isConnected /\ connectionState # "Opened"
        /\ UNCHANGED <<epoch, isConnected, phase, counted, todo, failedCopies>>
    BY <1>6 DEF Handshake, cancelVars
  <2> QED BY <1>0, <1>1, <2>1 DEF Accounted, Sent, Remembered, PassedOver
<1>7. CASE LoopEnds
  <2>1. isConnected /\ ~isConnected' /\ UNCHANGED epoch
    BY <1>7 DEF LoopEnds
  <2>2. CASE connectionState = "Closed"
    <3>1. UNCHANGED <<phase, counted, todo, failedCopies>>
      BY <1>7, <2>2 DEF LoopEnds, cancelVars
    <3> QED BY <1>0, <1>1, <2>1, <2>2, <3>1 DEF Accounted, Sent, Remembered, PassedOver
  <2>3. CASE connectionState # "Closed"
    <3>1. /\ phase' = [phase EXCEPT ![epoch] = "copyWrites"]
          /\ counted' = [counted EXCEPT ![epoch] = Cardinality(Entries("write"))]
          /\ UNCHANGED <<todo, failedCopies>>
      BY <1>7, <2>3 DEF LoopEnds, StartCancel, CountHandlers
    <3>2. pc[j] = "waiting" /\ Kind[j] = "write" => Cardinality(Entries("write")) > 0
      BY <1>0, WaitingIsHandled
    <3> QED BY <1>0, <1>1, <2>1, <3>1, <3>2 DEF Accounted, Sent, Remembered, PassedOver
  <2> QED BY <2>2, <2>3
<1> QED BY <1>2, <1>3, <1>4, <1>5, <1>6, <1>7 DEF Link

(* Every step keeps every call accounted for.                              *)
LEMMA ClosingStep == ClosingInv /\ [Next]_vars => ClosingInv'
<1> SUFFICES ASSUME ClosingInv, [Next]_vars PROVE ClosingInv'
  OBVIOUS
<1>1. TableInv'
  BY TableStep, SemaphoreStep, TypeStep DEF ClosingInv, TableInv, SemaphoreInv
<1>2. ASSUME UNCHANGED <<callVars, linkVars, cancelVars>>,
             \A j \in Jobs : slot[j] # Empty => slot'[j] # Empty, NEW j \in Jobs
      PROVE  Accounted(j)'
  BY <1>2 DEF ClosingInv, Accounted, Sent, Remembered, PassedOver, callVars, linkVars, cancelVars
<1>3. ASSUME NEW j \in Jobs PROVE Accounted(j)'
  <2>1. ASSUME NEW r \in wire, ReceiveJobAck(r) \/ ReceiveAck(r)
        PROVE  UNCHANGED <<callVars, linkVars, cancelVars, slot>>
    BY <2>1 DEF ReceiveJobAck, ReceiveAck, Found
  <2>2. CASE HandOver
    <3>1. TypeOK
      BY DEF ClosingInv, TableInv, SemaphoreInv
    <3>2. /\ receiving.for \in Requests /\ receiving.value \in Requests \cup {Null}
          /\ SetEvent(receiving.for, receiving.value)
          /\ UNCHANGED <<callVars, linkVars, cancelVars>>
      BY <2>2, <3>1 DEF HandOver, TypeOK
    <3> QED BY <1>2, <3>1, <3>2, SetEventFills
  <2>3. CASE UNCHANGED vars
    BY <1>2, <2>3 DEF vars, tableVars
  <2> QED BY <1>2, <2>1, <2>2, <2>3, CallAccounted, CancelAccounted, LinkAccounted
          DEF Next, Finished
<1>4. socket' = "up" => isConnected'
  <2>1. ASSUME NEW j \in Jobs, Call(j) \/ TimeOut(j) PROVE UNCHANGED linkVars
    BY <2>1 DEF Call, Refuse, Accept, TakeReference, Acquire, Register, Send,
       SendFails, Wake, TimeOut, Leave, LeaveUnregistered, ReturnEmpty, Fail, Complete
  <2>2. ASSUME NEW r \in wire, ReceiveJobAck(r) \/ ReceiveAck(r) PROVE UNCHANGED linkVars
    BY <2>2 DEF ReceiveJobAck, ReceiveAck, Found
  <2>3. ASSUME NEW c \in 0..MaxEpoch, Cancel(c) PROVE UNCHANGED linkVars
    BY <2>3 DEF Cancel, CopyWrites, CancelOne, CancelReads, CopyReads, CancelEnds
  <2>4. HandOver \/ UNCHANGED vars => UNCHANGED linkVars
    BY DEF HandOver, vars
  <2>5. Link => (socket' = "up" => isConnected')
    BY DEF ClosingInv, Link, Close, CloseSocket, Reopen, Connect, Handshake, Break,
       LoopEnds
  <2> QED BY <2>1, <2>2, <2>3, <2>4, <2>5 DEF Next, Finished, ClosingInv, linkVars
<1> QED BY <1>1, <1>3, <1>4 DEF ClosingInv

(* Once a connection is gone and the cancellation for it has run, no call  *)
(* that sent its request on it waits with its event unset, unless the copy *)
(* of its table has failed.                                                *)
THEOREM NobodyIsStranded == Spec => []NoCallerStranded
<1>1. Init => ClosingInv
  <2> HAVE Init
  <2>1. \A j \in Jobs : Accounted(j)
    BY DEF Init, Accounted, Sent
  <2> QED BY <2>1, TableInit DEF ClosingInv, Init
<1>2. ClosingInv => NoCallerStranded
  <2> SUFFICES ASSUME ClosingInv, NEW j \in Jobs, Lost(j), phase[sentOn[j]] = "idle",
                      ~PassedOver(j)
               PROVE  slot[j] # Empty
    BY DEF NoCallerStranded
  <2>1. epoch \in Nat /\ sentOn[j] \in Nat
    BY ExchangeAssumption DEF ClosingInv, TableInv, SemaphoreInv, TypeOK
  <2> QED BY <2>1 DEF ClosingInv, Accounted, Sent, Lost, Remembered
<1> QED BY <1>1, <1>2, ClosingStep, PTL DEF Spec

-----------------------------------------------------------------------------
(***************************************************************************)
(* The exchange implements CallPromise.                                    *)
(***************************************************************************)

(* A package begins without a result, and a call that is under way has no  *)
(* outcome.                                                                *)
Fresh(j) ==
  /\ pc[j] \in {"registered", "notAdded", "waiting"} => results[j] = Null
  /\ pc[j] # "done" => outcome[j] = "none"
  /\ package[j] \in Nat \ {0}

PromiseInv == AnswerInv /\ \A j \in Jobs : Fresh(j)

LEMMA OutcomesKeep ==
  ASSUME TypeOK, NEW j \in Jobs, Call(j) \/ TimeOut(j), NEW i \in Jobs, i # j
  PROVE  outcome'[i] = outcome[i]
BY DEF TypeOK, Call, Refuse, Accept, TakeReference, Acquire, Register, Send, SendFails, Wake,
   TimeOut, Leave, LeaveUnregistered, ReturnEmpty, Fail, Complete, Finish

LEMMA FreshStep == PromiseInv /\ [Next]_vars => \A j \in Jobs : Fresh(j)'
<1> SUFFICES ASSUME PromiseInv, [Next]_vars, NEW j \in Jobs PROVE Fresh(j)'
  OBVIOUS
<1>0. SemaphoreInv /\ TypeOK /\ Fresh(j)
  BY DEF PromiseInv, AnswerInv, TableInv, SemaphoreInv
<1>1. ASSUME NEW i \in Jobs, Call(i) \/ TimeOut(i), i # j PROVE Fresh(j)'
  BY <1>0, <1>1, OthersKeep, OutcomesKeep DEF Fresh
<1>2. CASE Call(j) \/ TimeOut(j)
  <2> USE <1>0 DEF TypeOK, Fresh
  <2>1. CASE Leave(j) \/ LeaveUnregistered(j)
    <3>1. pc'[j] \in {"judging", "returning"} /\ UNCHANGED <<results, outcome, package>>
      BY <2>1, ReleaseMoves DEF Leave, LeaveUnregistered, Holding
    <3>2. pc[j] # "done"
      BY <2>1 DEF Leave, LeaveUnregistered
    <3> QED BY <3>1, <3>2
  <2>2. CASE Refuse(j) \/ Accept(j) \/ TakeReference(j) \/ Acquire(j)
    BY <2>2 DEF Refuse, Accept, TakeReference, Acquire, Finish
  <2>3. CASE Register(j) \/ Send(j) \/ SendFails(j) \/ Wake(j) \/ TimeOut(j)
    BY <2>3 DEF Register, Send, SendFails, Wake, TimeOut
  <2>4. CASE ReturnEmpty(j) \/ Fail(j) \/ Complete(j)
    BY <2>4 DEF ReturnEmpty, Fail, Complete, Finish
  <2> QED BY <1>2, <2>1, <2>2, <2>3, <2>4 DEF Call
<1>3. ASSUME UNCHANGED <<pc, results, outcome, package>> PROVE Fresh(j)'
  BY <1>0, <1>3 DEF Fresh
<1>4. ASSUME NEW r \in wire, ReceiveJobAck(r) \/ ReceiveAck(r) PROVE Fresh(j)'
  BY <1>3, <1>4 DEF ReceiveJobAck, ReceiveAck, Found, callVars
<1>5. CASE HandOver \/ (\E c \in 0..MaxEpoch : Cancel(c)) \/ Link \/ UNCHANGED vars
  BY <1>3, <1>5 DEF HandOver, Cancel, CopyWrites, CancelOne, CancelReads, CopyReads, CancelEnds, Link, Close, CloseSocket,
     Reopen, Connect, Handshake, Break, LoopEnds, vars, callVars
<1> QED BY <1>1, <1>2, <1>4, <1>5 DEF Next, Finished

(* What the promise sees of the exchange.                                  *)
CallView == <<CallStage, CallAnswered, CallAnswer, outcome, wrapped>>

LEMMA NothingShown ==
  ASSUME UNCHANGED <<pc, results, outcome, package, wrapped>>
  PROVE  UNCHANGED CallView
BY DEF CallView, CallStage, CallAnswered, CallAnswer

LEMMA OthersShowNothing ==
  ASSUME SemaphoreInv, NEW j \in Jobs, Call(j) \/ TimeOut(j), NEW i \in Jobs, i # j
  PROVE  /\ CallStage'[i] = CallStage[i] /\ CallAnswered'[i] = CallAnswered[i]
         /\ CallAnswer'[i] = CallAnswer[i]
<1>1. /\ pc'[i] = pc[i] \/ (pc[i] = "queued" /\ pc'[i] = "granted")
      /\ package'[i] = package[i] /\ results'[i] = results[i] /\ outcome'[i] = outcome[i]
  BY OthersKeep, OutcomesKeep DEF SemaphoreInv
<1> QED BY <1>1 DEF CallStage, CallAnswered, CallAnswer

LEMMA OneShows ==
  ASSUME SemaphoreInv, NEW j \in Jobs, Call(j) \/ TimeOut(j)
  PROVE  /\ CallStage' = [CallStage EXCEPT ![j] = CallStage'[j]]
         /\ CallAnswered' = [CallAnswered EXCEPT ![j] = CallAnswered'[j]]
         /\ CallAnswer' = [CallAnswer EXCEPT ![j] = CallAnswer'[j]]
<1>1. /\ CallStage = [i \in Jobs |-> CallStage[i]] /\ CallStage' = [i \in Jobs |-> CallStage'[i]]
      /\ CallAnswered = [i \in Jobs |-> CallAnswered[i]]
      /\ CallAnswered' = [i \in Jobs |-> CallAnswered'[i]]
      /\ CallAnswer = [i \in Jobs |-> CallAnswer[i]] /\ CallAnswer' = [i \in Jobs |-> CallAnswer'[i]]
  BY DEF CallStage, CallAnswered, CallAnswer
<1>2. \A i \in Jobs \ {j} : /\ CallStage'[i] = CallStage[i]
                            /\ CallAnswered'[i] = CallAnswered[i]
                            /\ CallAnswer'[i] = CallAnswer[i]
  BY OthersShowNothing
<1> HIDE DEF CallStage, CallAnswered, CallAnswer
<1> QED BY <1>1, <1>2

LEMMA OneKeeps ==
  ASSUME SemaphoreInv, NEW j \in Jobs, Call(j) \/ TimeOut(j)
  PROVE  /\ CallStage'[j] = CallStage[j] => CallStage' = CallStage
         /\ CallAnswered'[j] = CallAnswered[j] => CallAnswered' = CallAnswered
         /\ CallAnswer'[j] = CallAnswer[j] => CallAnswer' = CallAnswer
<1>1. /\ CallStage = [i \in Jobs |-> CallStage[i]]
      /\ CallAnswered = [i \in Jobs |-> CallAnswered[i]]
      /\ CallAnswer = [i \in Jobs |-> CallAnswer[i]]
  BY DEF CallStage, CallAnswered, CallAnswer
<1>2. /\ CallStage' = [CallStage EXCEPT ![j] = CallStage'[j]]
      /\ CallAnswered' = [CallAnswered EXCEPT ![j] = CallAnswered'[j]]
      /\ CallAnswer' = [CallAnswer EXCEPT ![j] = CallAnswer'[j]]
  BY OneShows
<1> HIDE DEF CallStage, CallAnswered, CallAnswer
<1> QED BY <1>1, <1>2

(* The values of one call, before and after.                               *)
LEMMA OneCall ==
  ASSUME NEW j \in Jobs
  PROVE  /\ CallStage[j] =
              IF pc[j] \in {"package", "acquire", "queued", "granted", "registered"} THEN "running"
              ELSE IF pc[j] \in {"waiting", "woken"} THEN "asking"
              ELSE IF pc[j] = "judging" /\ results[j] # Null THEN "answered"
              ELSE IF pc[j] \in {"notAdded", "sendFailed", "returning", "judging"} THEN "failing"
              ELSE pc[j]
         /\ CallStage'[j] =
              IF pc'[j] \in {"package", "acquire", "queued", "granted", "registered"} THEN "running"
              ELSE IF pc'[j] \in {"waiting", "woken"} THEN "asking"
              ELSE IF pc'[j] = "judging" /\ results'[j] # Null THEN "answered"
              ELSE IF pc'[j] \in {"notAdded", "sendFailed", "returning", "judging"} THEN "failing"
              ELSE pc'[j]
         /\ CallAnswered[j] = IF outcome[j] = "Success" THEN package[j] ELSE package[j] - 1
         /\ CallAnswered'[j] = IF outcome'[j] = "Success" THEN package'[j] ELSE package'[j] - 1
         /\ CallAnswer[j] = IF pc[j] \in {"woken", "judging"} THEN results[j] ELSE Null
         /\ CallAnswer'[j] = IF pc'[j] \in {"woken", "judging"} THEN results'[j] ELSE Null
BY DEF CallStage, CallAnswered, CallAnswer

(* The promise counts as the exchange does.                                *)
LEMMA SameCount ==
  ASSUME NEW S
  PROVE  Promise!Cardinality(S) = Cardinality(S)
BY DEF Promise!Cardinality, Cardinality

(* The PLC has at most as many packages as there are permits.              *)
LEMMA RoomToAsk ==
  ASSUME PromiseInv, NEW j \in Jobs, pc[j] = "registered"
  PROVE  Promise!Cardinality(Promise!Asking) < Permits
<1>1. Promise!Asking \subseteq Holders \ {j} /\ j \in Holders
  <2>1. ASSUME NEW i \in Jobs, CallStage[i] = "asking" PROVE pc[i] \in {"waiting", "woken"}
    BY <2>1, OneCall DEF PromiseInv, AnswerInv, TableInv, SemaphoreInv, TypeOK, Stages
  <2> QED BY <2>1 DEF Promise!Asking, Holders, Holding
<1>2. IsFiniteSet(Holders) /\ IsFiniteSet(Holders \ {j})
  BY HoldersFinite, FS_RemoveElement
<1>3. Cardinality(Holders \ {j}) = Cardinality(Holders) - 1
  BY <1>1, <1>2, FS_RemoveElement
<1>4. Cardinality(Promise!Asking) <= Cardinality(Holders \ {j})
  BY <1>1, <1>2, FS_Subset
<1>5. permits + Cardinality(Holders) = Permits /\ permits \in Nat
  BY DEF PromiseInv, AnswerInv, TableInv, SemaphoreInv, PermitsConserved, TypeOK
<1>6. Cardinality(Holders) \in Nat /\ Cardinality(Promise!Asking) \in Nat
  BY <1>1, <1>2, FS_CardinalityType, FS_Subset
<1>7. Cardinality(Promise!Asking) < Permits
  BY <1>3, <1>4, <1>5, <1>6, ExchangeAssumption
<1> QED BY <1>7, SameCount

(* The start of a call and the way of a package to the PLC.                *)
LEMMA SendingKeepsPromise ==
  ASSUME PromiseInv, NEW j \in Jobs,
         Refuse(j) \/ Accept(j) \/ TakeReference(j) \/ Acquire(j) \/ Register(j)
           \/ Send(j) \/ SendFails(j)
  PROVE  [Promise!PromiseNext]_(Promise!pvars)
<1>0. /\ SemaphoreInv /\ Fresh(j) /\ (Call(j) \/ TimeOut(j))
      /\ pc \in [Jobs -> Stages] /\ outcome \in [Jobs -> Outcomes]
  BY DEF PromiseInv, AnswerInv, TableInv, SemaphoreInv, TypeOK, Call
<1> DEFINE shown == UNCHANGED <<CallAnswered, CallAnswer>>
<1>1. /\ CallStage' = [CallStage EXCEPT ![j] = CallStage'[j]]
      /\ CallStage'[j] = CallStage[j] => CallStage' = CallStage
  BY <1>0, OneShows, OneKeeps
<1>2. UNCHANGED package /\ pc'[j] \notin {"woken", "judging"} /\ pc[j] \notin {"woken", "judging"}
  BY <1>0 DEF Refuse, Accept, TakeReference, Acquire, Register, Send, SendFails, Finish
<1>3. outcome[j] # "Success" /\ outcome'[j] # "Success"
  BY <1>0 DEF Fresh, Refuse, Accept, TakeReference, Acquire, Register, Send, SendFails, Finish
<1>4. shown
  BY <1>0, <1>2, <1>3, OneCall, OneKeeps
<1>5. CASE Refuse(j)
  <2>1. CallStage[j] = "new" /\ CallStage'[j] = "done" /\ UNCHANGED wrapped
    BY <1>0, <1>5, OneCall DEF Refuse, Finish, refVars
  <2>2. outcome' = [outcome EXCEPT ![j] = "NotConnected"]
    BY <1>5 DEF Refuse, Finish
  <2> QED BY <1>1, <1>4, <2>1, <2>2 DEF Promise!TurnAway, Promise!PromiseNext
<1>6. CASE Accept(j)
  <2>1. CallStage[j] = "new" /\ CallStage'[j] = "running" /\ UNCHANGED <<wrapped, outcome>>
    BY <1>0, <1>6, OneCall DEF Accept, refVars
  <2> QED BY <1>1, <1>4, <2>1 DEF Promise!Begin, Promise!PromiseNext
<1>7. CASE TakeReference(j)
  <2>1. CallStage' = CallStage /\ UNCHANGED outcome
    BY <1>0, <1>1, <1>7, OneCall DEF TakeReference
  <2>2. wrapped' = wrapped \/ wrapped' = TRUE
    <3>1. wrapped' = (wrapped \/ referenceId + 1 = RefModulus) /\ wrapped \in BOOLEAN
      BY <1>7 DEF TakeReference, PromiseInv, AnswerInv, TableInv, SemaphoreInv, TypeOK
    <3> QED BY <3>1
  <2> QED BY <1>4, <2>1, <2>2 DEF Promise!ReuseReferences, Promise!PromiseNext, Promise!pvars
<1>8. CASE Acquire(j) \/ (Register(j) /\ pc'[j] = "registered")
  <2>1. CallStage' = CallStage /\ UNCHANGED <<outcome, wrapped>>
    BY <1>0, <1>1, <1>8, OneCall DEF Acquire, Register, refVars
  <2> QED BY <1>4, <2>1 DEF Promise!pvars
<1>9. CASE (Register(j) /\ pc'[j] = "notAdded") \/ SendFails(j)
  <2>1. /\ CallStage[j] = "running" /\ CallStage'[j] = "failing"
        /\ UNCHANGED <<outcome, wrapped>>
    BY <1>0, <1>9, OneCall DEF SendFails, Register, refVars
  <2> QED BY <1>1, <1>4, <2>1 DEF Promise!GiveUp, Promise!PromiseNext
<1>10. CASE Send(j)
  <2>1. /\ CallStage[j] = "running" /\ CallStage'[j] = "asking"
        /\ UNCHANGED <<outcome, wrapped>> /\ pc[j] = "registered"
    BY <1>0, <1>10, OneCall DEF Send, refVars
  <2>2. Promise!Cardinality(Promise!Asking) < Permits
    BY <2>1, RoomToAsk
  <2> QED BY <1>1, <1>4, <2>1, <2>2 DEF Promise!Ask, Promise!PromiseNext
<1>11. Register(j) => pc'[j] \in {"registered", "notAdded"}
  BY <1>0 DEF Register
<1> QED BY <1>5, <1>6, <1>7, <1>8, <1>9, <1>10, <1>11

(* The answer, and what is made of it.                                     *)
LEMMA AnswerKeepsPromise ==
  ASSUME PromiseInv, NEW j \in Jobs,
         Wake(j) \/ TimeOut(j) \/ Leave(j) \/ LeaveUnregistered(j)
           \/ ReturnEmpty(j) \/ Fail(j) \/ Complete(j)
  PROVE  [Promise!PromiseNext]_(Promise!pvars)
<1>0. /\ SemaphoreInv /\ Fresh(j) /\ (Call(j) \/ TimeOut(j))
      /\ pc \in [Jobs -> Stages] /\ outcome \in [Jobs -> Outcomes]
      /\ results \in [Jobs -> Requests \cup {Null}] /\ slot \in [Jobs -> Requests \cup {Null, Empty}]
      /\ package \in [Jobs -> Nat]
  BY DEF PromiseInv, AnswerInv, TableInv, SemaphoreInv, TypeOK, Call
<1>1. /\ CallStage' = [CallStage EXCEPT ![j] = CallStage'[j]]
      /\ CallAnswered' = [CallAnswered EXCEPT ![j] = CallAnswered'[j]]
      /\ CallAnswer' = [CallAnswer EXCEPT ![j] = CallAnswer'[j]]
      /\ CallStage'[j] = CallStage[j] => CallStage' = CallStage
      /\ CallAnswered'[j] = CallAnswered[j] => CallAnswered' = CallAnswered
      /\ CallAnswer'[j] = CallAnswer[j] => CallAnswer' = CallAnswer
  BY <1>0, OneShows, OneKeeps
<1>2. pc[j] # "done" /\ outcome[j] = "none" /\ wrapped' = wrapped
  BY <1>0 DEF Fresh, Wake, TimeOut, Leave, LeaveUnregistered, ReturnEmpty, Fail, Complete, refVars
<1>3. CASE Wake(j)
  <2>1. /\ pc[j] = "waiting" /\ pc'[j] = "woken" /\ results'[j] = slot[j] /\ slot[j] # Empty
        /\ UNCHANGED <<outcome, package>>
    BY <1>0, <1>3 DEF Wake
  <2>2. /\ CallStage[j] = "asking" /\ CallStage'[j] = "asking" /\ CallAnswered'[j] = CallAnswered[j]
        /\ CallAnswered[j] = package[j] - 1 /\ CallAnswer[j] = Null /\ CallAnswer'[j] = slot[j]
    BY <1>2, <2>1, OneCall
  <2>3. CASE slot[j] = Null
    BY <1>1, <1>2, <2>1, <2>2, <2>3 DEF Promise!pvars
  <2>4. CASE slot[j] \in Requests
    <3>1. ~ wrapped => slot[j] = <<j, package[j]>>
      BY <2>4 DEF PromiseInv, AnswerInv, AnswersOwn, EventHoldsOwn
    <3>2. package[j] = CallAnswered[j] + 1
      BY <1>0, <2>2 DEF Fresh
    <3>3. CallAnswer'[j] \in IF wrapped THEN Jobs \X Nat ELSE {<<j, CallAnswered[j] + 1>>}
      BY <2>2, <2>4, <3>1, <3>2 DEF Requests
    <3> QED BY <1>1, <1>2, <2>1, <2>2, <3>3 DEF Promise!Take, Promise!PromiseNext
  <2> QED BY <1>0, <2>1, <2>3, <2>4
<1>4. CASE TimeOut(j)
  <2>1. /\ pc[j] = "waiting" /\ pc'[j] = "woken" /\ results'[j] = Null
        /\ UNCHANGED <<outcome, package>>
    BY <1>0, <1>4 DEF TimeOut, Fresh
  <2>2. /\ CallStage[j] = "asking" /\ CallStage'[j] = "asking" /\ CallAnswered'[j] = CallAnswered[j]
        /\ CallAnswer[j] = Null /\ CallAnswer'[j] = Null
    BY <1>2, <2>1, OneCall
  <2> QED BY <1>1, <1>2, <2>1, <2>2 DEF Promise!pvars
<1>5. CASE Leave(j) /\ pc[j] = "woken"
  <2>1. pc'[j] = "judging" /\ UNCHANGED <<results, outcome, package>>
    BY <1>0, <1>5, ReleaseMoves DEF Leave, Holding
  <2>2. /\ CallStage[j] = "asking" /\ CallAnswered'[j] = CallAnswered[j]
        /\ CallAnswer[j] = results[j] /\ CallAnswer'[j] = results[j]
        /\ CallStage'[j] = IF results[j] = Null THEN "failing" ELSE "answered"
    BY <1>5, <2>1, OneCall
  <2> QED BY <1>1, <1>2, <2>1, <2>2 DEF Promise!EndPackage, Promise!PromiseNext
<1>6. CASE (Leave(j) /\ pc[j] # "woken") \/ LeaveUnregistered(j)
  <2>1. /\ \/ pc[j] = "sendFailed" /\ pc'[j] = "returning"
           \/ pc[j] = "notAdded" /\ pc'[j] = "judging" /\ results[j] = Null
        /\ UNCHANGED <<results, outcome, package>>
    BY <1>0, <1>6, ReleaseMoves DEF Leave, LeaveUnregistered, Holding, Fresh
  <2>2. /\ CallStage[j] = "failing" /\ CallStage'[j] = "failing" /\ CallAnswered'[j] = CallAnswered[j]
        /\ CallAnswer[j] = Null /\ CallAnswer'[j] = Null
    BY <2>1, OneCall
  <2> QED BY <1>1, <1>2, <2>1, <2>2 DEF Promise!pvars
<1>7. CASE ReturnEmpty(j) \/ Fail(j)
  <2>1. /\ pc[j] = "returning" \/ (pc[j] = "judging" /\ results[j] = Null)
        /\ pc'[j] = "done" /\ UNCHANGED <<results, package>>
    BY <1>0, <1>7 DEF ReturnEmpty, Fail, Finish
  <2>2. PICK how \in Promise!Failures : outcome' = [outcome EXCEPT ![j] = how]
    BY <1>7 DEF ReturnEmpty, Fail, Finish, Promise!Failures
  <2>3. outcome'[j] = how /\ how # "Success"
    BY <1>0, <2>2 DEF Promise!Failures
  <2>4. /\ CallStage[j] = "failing" /\ CallStage'[j] = "done" /\ CallAnswered'[j] = CallAnswered[j]
        /\ CallAnswer[j] = Null /\ CallAnswer'[j] = Null
    BY <1>2, <2>1, <2>3, OneCall
  <2> QED BY <1>1, <1>2, <2>2, <2>4 DEF Promise!Fail, Promise!PromiseNext
<1>8. CASE Complete(j)
  <2>1. pc[j] = "judging" /\ results[j] # Null /\ UNCHANGED results
    BY <1>8 DEF Complete
  <2>2. /\ CallStage[j] = "answered" /\ CallAnswered[j] = package[j] - 1
        /\ CallAnswered[j] + 1 = package[j]
    BY <1>0, <1>2, <2>1, OneCall DEF Fresh
  <2>3. CASE package[j] < Packages[j] /\ pc'[j] = "package"
    <3>1. package'[j] = package[j] + 1 /\ UNCHANGED outcome
      BY <1>0, <1>8, <2>3 DEF Complete, Finish
    <3>2. CallStage'[j] = "running" /\ CallAnswered'[j] = CallAnswered[j] + 1 /\ CallAnswer'[j] = Null
      BY <1>0, <1>2, <2>2, <2>3, <3>1, OneCall DEF Fresh
    <3> QED BY <1>1, <1>2, <2>2, <2>3, <3>1, <3>2 DEF Promise!GoOn, Promise!PromiseNext
  <2>4. CASE package[j] = Packages[j] /\ pc'[j] = "done"
    <3>1. outcome' = [outcome EXCEPT ![j] = "Success"] /\ UNCHANGED package
      BY <1>0, <1>8, <2>4 DEF Complete, Finish
    <3>2. CallStage'[j] = "done" /\ CallAnswered'[j] = CallAnswered[j] + 1 /\ CallAnswer'[j] = Null
      BY <1>0, <2>2, <2>4, <3>1, OneCall
    <3> QED BY <1>1, <1>2, <2>2, <2>4, <3>1, <3>2 DEF Promise!Succeed, Promise!PromiseNext
  <2> QED BY <1>0, <1>8, <2>3, <2>4 DEF Complete, Finish
<1> QED BY <1>3, <1>4, <1>5, <1>6, <1>7, <1>8

(* The exchange implements the promise, for any calls of any number of     *)
(* packages, any number of permits and references, and whatever happens to *)
(* answers and connections: a package is with the PLC at most once and not *)
(* beside more others than agreed, the call goes on only with its answer,  *)
(* no answer that was taken is lost, and after a failure the call is over. *)
THEOREM ExchangeKeepsPromise == Spec => KeepsPromise
<1>1. Init => PromiseInv /\ Promise!PromiseInit
  <2> SUFFICES ASSUME Init PROVE PromiseInv /\ Promise!PromiseInit
    OBVIOUS
  <2>1. AnswerInv
    BY AnswersAtStart
  <2>2. \A j \in Jobs : Fresh(j)
    BY DEF Init, Fresh
  <2>3. Promise!PromiseInit
    BY DEF Init, Promise!PromiseInit, CallStage, CallAnswered, CallAnswer
  <2> QED BY <2>1, <2>2, <2>3 DEF PromiseInv
<1>2. PromiseInv /\ [Next]_vars => PromiseInv'
  BY FreshStep, AnswerInvStep DEF PromiseInv
<1>3. PromiseInv /\ [Next]_vars => [Promise!PromiseNext]_(Promise!pvars)
  <2> SUFFICES ASSUME PromiseInv, [Next]_vars PROVE [Promise!PromiseNext]_(Promise!pvars)
    OBVIOUS
  <2>1. ASSUME UNCHANGED <<pc, results, outcome, package, wrapped>>
        PROVE  [Promise!PromiseNext]_(Promise!pvars)
    BY <2>1, NothingShown DEF CallView, Promise!pvars
  <2>2. ASSUME NEW j \in Jobs, Call(j) \/ TimeOut(j)
        PROVE  [Promise!PromiseNext]_(Promise!pvars)
    BY <2>2, SendingKeepsPromise, AnswerKeepsPromise DEF Call
  <2>3. ASSUME NEW r \in wire, ReceiveJobAck(r) \/ ReceiveAck(r)
        PROVE  [Promise!PromiseNext]_(Promise!pvars)
    BY <2>1, <2>3 DEF ReceiveJobAck, ReceiveAck, Found, callVars, refVars
  <2>4. CASE HandOver \/ (\E c \in 0..MaxEpoch : Cancel(c)) \/ Link \/ UNCHANGED vars
    BY <2>1, <2>4 DEF HandOver, Cancel, CopyWrites, CancelOne, CancelReads, CopyReads, CancelEnds, Link, Close,
       CloseSocket, Reopen, Connect, Handshake, Break, LoopEnds, vars, callVars, refVars
  <2> QED BY <2>2, <2>3, <2>4 DEF Next, Finished
<1> QED BY <1>1, <1>2, <1>3, PTL DEF Spec, KeepsPromise, Promise!PromiseSpec
=============================================================================
