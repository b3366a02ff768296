------------------------- MODULE Negotiation_proofs -------------------------
(***************************************************************************)
(* Proofs about Negotiation, for any jobs, any numbers that are granted    *)
(* and any number of semaphores: the types, the permits of each semaphore  *)
(* and the number of jobs agreed to.  The three need each other: a permit  *)
(* that is given back stays below the size because one was held.           *)
(***************************************************************************)
EXTENDS Negotiation, FiniteSetTheorems, SequenceTheorems, TLAPS

(* A job that lines up is the last one of the line.                        *)
LEMMA AppendLine ==
  ASSUME NEW q \in Seq(Jobs), NEW x \in Jobs, IsInjective(q), x \notin ToSet(q)
  PROVE  /\ Append(q, x) \in Seq(Jobs) /\ IsInjective(Append(q, x))
         /\ ToSet(Append(q, x)) = ToSet(q) \cup {x}
<1> DEFINE r == Append(q, x)
<1>1. /\ r \in Seq(Jobs) /\ Len(r) = Len(q) + 1 /\ Len(q) \in Nat
      /\ \A i \in 1..Len(q) : r[i] = q[i]
      /\ r[Len(q) + 1] = x
      /\ DOMAIN q = 1..Len(q) /\ DOMAIN r = 1..Len(r)
  BY AppendProperties, LenProperties
<1> HIDE DEF r
<1>2. ASSUME NEW i \in 1..Len(r), NEW k \in 1..Len(r), r[i] = r[k]
      PROVE  i = k
  BY <1>1, <1>2 DEF IsInjective, ToSet
<1>3. ToSet(r) = ToSet(q) \cup {x}
  <2>1. ASSUME NEW y \in ToSet(r) PROVE y \in ToSet(q) \cup {x}
    <3>1. PICK i \in 1..Len(r) : y = r[i]
      BY <1>1, <2>1 DEF ToSet
    <3> QED BY <3>1, <1>1 DEF ToSet
  <2>2. ASSUME NEW y \in ToSet(q) PROVE y \in ToSet(r)
    <3>1. PICK i \in 1..Len(q) : y = q[i]
      BY <1>1, <2>2 DEF ToSet
    <3>2. i \in 1..Len(r) /\ r[i] = y
      BY <3>1, <1>1
    <3> QED BY <3>2, <1>1 DEF ToSet
  <2>3. x \in ToSet(r)
    <3>1. Len(q) + 1 \in 1..Len(r)
      BY <1>1
    <3> QED BY <3>1, <1>1 DEF ToSet
  <2> QED BY <2>1, <2>2, <2>3
<1> QED BY <1>1, <1>2, <1>3 DEF IsInjective, r

(* The first job of the line leaves it, the others stay.                   *)
LEMMA TailLine ==
  ASSUME NEW q \in Seq(Jobs), q # <<>>, IsInjective(q)
  PROVE  /\ Head(q) \in ToSet(q) /\ Head(q) \in Jobs
         /\ Tail(q) \in Seq(Jobs) /\ IsInjective(Tail(q))
         /\ ToSet(Tail(q)) = ToSet(q) \ {Head(q)}
<1> DEFINE r == Tail(q)
<1>1. /\ r \in Seq(Jobs) /\ Len(r) = Len(q) - 1 /\ Len(q) \in Nat \ {0}
      /\ \A i \in 1..Len(r) : r[i] = q[i + 1]
      /\ Head(q) = q[1] /\ Head(q) \in Jobs
      /\ DOMAIN q = 1..Len(q) /\ DOMAIN r = 1..Len(r)
  BY HeadTailProperties, LenProperties, EmptySeq
<1> HIDE DEF r
<1>2. Head(q) \in ToSet(q)
  BY <1>1 DEF ToSet
<1>3. ASSUME NEW i \in 1..Len(r), NEW k \in 1..Len(r), r[i] = r[k]
      PROVE  i = k
  <2>1. i + 1 \in 1..Len(q) /\ k + 1 \in 1..Len(q)
    BY <1>1
  <2>2. q[i + 1] = q[k + 1]
    BY <1>1, <1>3
  <2>3. i + 1 = k + 1
    BY <2>1, <2>2, <1>1 DEF IsInjective
  <2> QED BY <2>3
<1>4. ASSUME NEW y \in ToSet(r) PROVE y \in ToSet(q) /\ y # Head(q)
  <2>1. PICK i \in 1..Len(r) : y = r[i]
    BY <1>1, <1>4 DEF ToSet
  <2>2. i + 1 \in 1..Len(q) /\ q[i + 1] = y /\ 1 \in 1..Len(q) /\ i + 1 # 1
    BY <1>1, <2>1
  <2> QED BY <1>1, <2>2 DEF ToSet, IsInjective
<1>5. ASSUME NEW y \in ToSet(q), y # Head(q) PROVE y \in ToSet(r)
  <2>1. PICK i \in 1..Len(q) : y = q[i]
    BY <1>1, <1>5 DEF ToSet
  <2>2. i - 1 \in 1..Len(r) /\ r[i - 1] = y
    BY <1>1, <1>5, <2>1
  <2> QED BY <2>2, <1>1 DEF ToSet
<1> QED BY <1>1, <1>2, <1>3, <1>4, <1>5 DEF IsInjective, r

(* The jobs that hold a permit are finitely many.                          *)
LEMMA HoldersFinite ==
  ASSUME NEW s
  PROVE  IsFiniteSet(Holders(s)) /\ Cardinality(Holders(s)) \in Nat
<1>1. IsFiniteSet(Holders(s))
  BY NegotiationAssumption, FS_Subset DEF Holders
<1> QED BY <1>1, FS_CardinalityType

-----------------------------------------------------------------------------
(* The permits of one semaphore.                                           *)
PermitsOf(s) ==
  /\ free[s] + Cardinality(Holders(s)) <= size[s]
  /\ s \notin disposed =>
       /\ free[s] + Cardinality(Holders(s)) = size[s]
       /\ line[s] # <<>> => free[s] = 0
  /\ ToSet(line[s]) = Waiting(s) /\ IsInjective(line[s])

(* Unless the user interferes, the semaphore has the size agreed to.       *)
SizeAgreed == sema # 0 /\ ~userSet => size[sema] = calling

IInv == TypeOK /\ PermitsOfEach /\ SizeAgreed

LEMMA InitInv == Init => IInv
<1> SUFFICES ASSUME Init PROVE IInv
  OBVIOUS
<1>1. TypeOK
  <2>1. line \in [Semaphores -> Seq(Jobs)]
    BY EmptySeq DEF Init
  <2>2. /\ calling \in 1..MaxCalling /\ made \in 0..MaxSemaphores
        /\ sema \in 0..made /\ old \in 0..made
    BY NegotiationAssumption DEF Init
  <2>3. size \in [Semaphores -> 0..MaxCalling] /\ free \in [Semaphores -> 0..MaxCalling]
    BY NegotiationAssumption DEF Init
  <2> QED BY <2>1, <2>2, <2>3 DEF Init, TypeOK
<1>2. ASSUME NEW s \in Semaphores PROVE PermitsOf(s)
  <2>1. Holders(s) = {} /\ Waiting(s) = {} /\ line[s] = <<>> /\ free[s] = 0 /\ size[s] = 0
    BY DEF Init, Holders, Waiting
  <2>2. Cardinality(Holders(s)) = 0
    BY <2>1, FS_EmptySet
  <2>3. ToSet(line[s]) = {} /\ IsInjective(line[s])
    BY <2>1 DEF ToSet, IsInjective
  <2> QED BY <2>1, <2>2, <2>3 DEF PermitsOf
<1>3. PermitsOfEach
  BY <1>2 DEF PermitsOfEach, PermitsOf
<1> QED BY <1>1, <1>3 DEF IInv, SizeAgreed, Init

(* What leaves a semaphore alone keeps its permits.                        *)
LEMMA Untouched ==
  ASSUME NEW s, PermitsOf(s), free'[s] = free[s], size'[s] = size[s], line'[s] = line[s],
         disposed \subseteq disposed', Holders(s)' = Holders(s), Waiting(s)' = Waiting(s)
  PROVE  PermitsOf(s)'
<1>1. Holders(s)' = Holders(s) /\ Waiting(s)' = Waiting(s)
  OBVIOUS
<1>2. s \notin disposed' => s \notin disposed
  OBVIOUS
<1> QED BY <1>1, <1>2 DEF PermitsOf

(* A step that changes no job and no permit.                               *)
LEMMA JobsAlone ==
  ASSUME IInv, UNCHANGED <<made, size, free, line, jobVars>>, disposed \subseteq disposed'
  PROVE  PermitsOfEach'
<1>1. UNCHANGED <<pc, guard>>
  BY DEF jobVars
<1>2. ASSUME NEW s \in Semaphores PROVE PermitsOf(s)'
  <2>1. Holders(s)' = Holders(s) /\ Waiting(s)' = Waiting(s)
    BY <1>1 DEF Holders, Waiting
  <2>2. PermitsOf(s)
    BY DEF IInv, PermitsOfEach, PermitsOf
  <2> QED BY <2>1, <2>2, Untouched
<1> QED BY <1>2 DEF PermitsOfEach, PermitsOf

(* The user and the connection.                                            *)
LEMMA FieldStep ==
  ASSUME IInv,
         SetCalling \/ DisposeOld \/ Opened \/ Closed \/ Dispose \/ ClearField
  PROVE  IInv'
<1>1. /\ UNCHANGED <<made, size, free, line, jobVars>> /\ disposed \subseteq disposed'
      /\ calling' \in 1..MaxCalling /\ sema' \in 0..made /\ old' \in 0..made
      /\ disposed' \subseteq 1..made
      /\ link' \in {"closed", "replaced", "agreed", "opened"}
      /\ client' \in {"used", "clearing", "disposed"} /\ userSet' \in BOOLEAN
  <2>0. /\ calling \in 1..MaxCalling /\ sema \in 0..made /\ old \in 0..made
        /\ disposed \subseteq 1..made /\ made \in Nat
        /\ link \in {"closed", "replaced", "agreed", "opened"}
        /\ client \in {"used", "clearing", "disposed"} /\ userSet \in BOOLEAN
    BY NegotiationAssumption DEF IInv, TypeOK
  <2>1. 0 \in 0..made /\ {old} \ {0} \subseteq 1..made /\ {sema} \ {0} \subseteq 1..made
    BY <2>0
  <2>2. CASE SetCalling
    BY <2>0, <2>2 DEF SetCalling, semaVars
  <2>3. CASE DisposeOld
    BY <2>0, <2>1, <2>3 DEF DisposeOld
  <2>4. CASE Opened \/ Closed
    BY <2>0, <2>4 DEF Opened, Closed, semaVars
  <2>5. CASE Dispose
    BY <2>0, <2>1, <2>5 DEF Dispose
  <2>6. CASE ClearField
    BY <2>0, <2>1, <2>6 DEF ClearField, semaVars
  <2> QED BY <2>2, <2>3, <2>4, <2>5, <2>6
<1>2. PermitsOfEach'
  BY <1>1, JobsAlone
<1>3. TypeOK'
  BY <1>1 DEF IInv, TypeOK, jobVars
<1>4. SizeAgreed'
  <2>1. CASE SetCalling
    BY <2>1 DEF SetCalling, semaVars, IInv, SizeAgreed
  <2>2. CASE ClearField
    BY <2>2 DEF ClearField, SizeAgreed
  <2>3. CASE DisposeOld \/ Opened \/ Closed \/ Dispose
    BY <2>3 DEF DisposeOld, Opened, Closed, Dispose, semaVars, IInv, SizeAgreed
  <2> QED BY <2>1, <2>2, <2>3
<1> QED BY <1>2, <1>3, <1>4 DEF IInv

(* The acknowledgement: the new semaphore has all its permits.             *)
LEMMA SetupAckStep ==
  ASSUME IInv, SetupAck
  PROVE  IInv'
<1>1. PICK granted \in 1..calling :
        /\ calling' = granted
        /\ IF Replaces(granted)
             THEN /\ made < MaxSemaphores
                  /\ made' = made + 1
                  /\ size' = [size EXCEPT ![made'] = granted]
                  /\ free' = [free EXCEPT ![made'] = granted]
                  /\ sema' = made' /\ old' = sema
                  /\ link' = "replaced"
                  /\ userSet' = FALSE
             ELSE /\ link' = "agreed"
                  /\ UNCHANGED <<made, size, free, sema, old, userSet>>
  BY DEF SetupAck
<1>2. /\ UNCHANGED <<line, disposed, client, pc, guard>>
      /\ TypeOK /\ PermitsOfEach /\ SizeAgreed
  BY DEF SetupAck, jobVars, IInv
<1>3. granted \in 1..MaxCalling /\ granted \in 0..MaxCalling
  BY <1>2, NegotiationAssumption DEF TypeOK
<1>4. CASE ~Replaces(granted)
  <2>1. calling' = calling
    BY <1>1, <1>4 DEF Replaces
  <2>2. UNCHANGED <<made, size, free, line, jobVars>> /\ disposed \subseteq disposed'
    BY <1>1, <1>2, <1>4 DEF jobVars
  <2> QED BY <2>1, <2>2, <1>1, <1>2, <1>4, JobsAlone DEF IInv, TypeOK, SizeAgreed
<1>5. CASE Replaces(granted)
  <2>1. /\ made \in Nat /\ made + 1 \in Semaphores /\ made' = made + 1
        /\ size' = [size EXCEPT ![made + 1] = granted]
        /\ free' = [free EXCEPT ![made + 1] = granted]
        /\ sema' = made + 1 /\ old' = sema /\ link' = "replaced" /\ userSet' = FALSE
    BY <1>1, <1>2, <1>5, NegotiationAssumption DEF TypeOK, Semaphores
  <2>2. TypeOK'
    <3>1. /\ made' \in 0..MaxSemaphores /\ sema' \in 0..made' /\ old' \in 0..made'
          /\ disposed' \subseteq 1..made' /\ guard' \in [Jobs -> 0..made']
      BY <2>1, <1>2, NegotiationAssumption DEF TypeOK, Semaphores
    <3>2. /\ size' \in [Semaphores -> 0..MaxCalling]
          /\ free' \in [Semaphores -> 0..MaxCalling]
      BY <2>1, <1>2, <1>3 DEF TypeOK
    <3> QED BY <3>1, <3>2, <2>1, <1>1, <1>2, <1>3 DEF TypeOK
  <2>3. ASSUME NEW s \in Semaphores PROVE PermitsOf(s)'
    <3>1. Holders(s)' = Holders(s) /\ Waiting(s)' = Waiting(s) /\ PermitsOf(s)
      BY <1>2 DEF Holders, Waiting, PermitsOfEach, PermitsOf
    <3>2. CASE s # made + 1
      BY <3>1, <3>2, <2>1, <1>2, Untouched DEF TypeOK
    <3>3. CASE s = made + 1
      <4>1. Holders(s) = {} /\ Waiting(s) = {} /\ s \notin disposed
        BY <3>3, <2>1, <1>2 DEF TypeOK, Holders, Waiting
      <4>2. line[s] = <<>>
        <5>1. line[s] \in Seq(Jobs) /\ ToSet(line[s]) = {}
          BY <3>1, <4>1, <1>2 DEF TypeOK, PermitsOf
        <5>2. Len(line[s]) = 0
          <6>1. Len(line[s]) \in Nat /\ DOMAIN line[s] = 1..Len(line[s])
            BY <5>1, LenProperties
          <6>2. Len(line[s]) # 0 => line[s][1] \in ToSet(line[s])
            BY <6>1 DEF ToSet
          <6> QED BY <5>1, <6>2
        <5> QED BY <5>1, <5>2, EmptySeq
      <4>3. Cardinality(Holders(s)) = 0
        BY <4>1, FS_EmptySet
      <4>4. free'[s] = granted /\ size'[s] = granted /\ line'[s] = <<>>
        BY <2>1, <3>3, <4>2, <1>2 DEF TypeOK
      <4>5. Cardinality(Holders(s)') = 0
        BY <3>1, <4>3
      <4>6. ToSet(line'[s]) = Waiting(s)' /\ IsInjective(line'[s])
        BY <3>1, <1>2 DEF PermitsOf
      <4> QED BY <4>4, <4>5, <4>6, <1>3 DEF PermitsOf
    <3> QED BY <3>2, <3>3
  <2>4. SizeAgreed'
    BY <2>1, <1>1, <1>2 DEF SizeAgreed, TypeOK
  <2> QED BY <2>2, <2>3, <2>4 DEF IInv, PermitsOfEach, PermitsOf
<1> QED BY <1>4, <1>5

-----------------------------------------------------------------------------
(* The jobs.                                                               *)

(* A job that neither takes nor gives back a permit, and does not wait.    *)
LEMMA SmallStep ==
  ASSUME IInv, NEW j \in Jobs, Start(j) \/ Test(j) \/ Fetch(j) \/ Work(j)
  PROVE  IInv'
<1>0. /\ pc \in [Jobs -> {"idle", "test", "fetch", "enter", "line", "work", "leave", "done"}]
      /\ guard \in [Jobs -> 0..made] /\ sema \in 0..made
      /\ \A i \in Jobs : pc[i] \in {"enter", "line", "work", "leave"} => guard[i] # 0
      /\ TypeOK
  BY DEF IInv, TypeOK
<1>1. PICK p \in {"test", "fetch", "enter", "leave", "done"}, g \in 0..made :
        /\ pc' = [pc EXCEPT ![j] = p] /\ guard' = [guard EXCEPT ![j] = g]
        /\ pc[j] \notin {"line", "leave"}
        /\ p = "leave" <=> pc[j] = "work"
        /\ p = "leave" => g = guard[j]
        /\ p \in {"enter", "leave"} => g # 0
  <2>1. guard[j] \in 0..made /\ guard = [guard EXCEPT ![j] = guard[j]]
    BY <1>0
  <2>2. CASE Start(j)
    BY <1>0, <2>1, <2>2 DEF Start, GoTo
  <2>3. CASE Test(j)
    BY <1>0, <2>1, <2>3 DEF Test, GoTo
  <2>4. CASE Fetch(j)
    BY <1>0, <2>1, <2>4 DEF Fetch, GoTo
  <2>5. CASE Work(j)
    BY <1>0, <2>1, <2>5 DEF Work, GoTo
  <2> QED BY <2>2, <2>3, <2>4, <2>5
<1>2. UNCHANGED <<semaVars, fieldVars>>
  BY DEF Start, Test, Fetch, Work
<1>3. /\ \A i \in Jobs : pc'[i] = IF i = j THEN p ELSE pc[i]
      /\ \A i \in Jobs : guard'[i] = IF i = j THEN g ELSE guard[i]
  BY <1>0, <1>1
<1>4. TypeOK'
  <2>1. pc' \in [Jobs -> {"idle", "test", "fetch", "enter", "line", "work", "leave", "done"}]
    BY <1>0, <1>1
  <2>2. guard' \in [Jobs -> 0..made]
    BY <1>0, <1>1
  <2>3. \A i \in Jobs : pc'[i] \in {"enter", "line", "work", "leave"} => guard'[i] # 0
    BY <1>0, <1>1, <1>3
  <2> QED BY <1>0, <1>2, <2>1, <2>2, <2>3 DEF TypeOK, semaVars, fieldVars
<1>5. ASSUME NEW s \in Semaphores PROVE PermitsOf(s)'
  <2>1. Holders(s)' = Holders(s) /\ Waiting(s)' = Waiting(s)
    BY <1>1, <1>3 DEF Holders, Waiting
  <2>2. PermitsOf(s)
    BY DEF IInv, PermitsOfEach, PermitsOf
  <2> QED BY <1>2, <2>1, <2>2, Untouched DEF semaVars
<1>6. SizeAgreed'
  BY <1>2 DEF IInv, SizeAgreed, semaVars, fieldVars
<1> QED BY <1>4, <1>5, <1>6 DEF IInv, PermitsOfEach, PermitsOf

(* The shape of a step that asks for a permit or gives one back: only the  *)
(* semaphore of the job changes.                                           *)
LEMMA OneSemaphore ==
  ASSUME IInv, NEW r \in Semaphores,
         UNCHANGED <<made, size, disposed, fieldVars, guard>>,
         pc' \in [Jobs -> {"idle", "test", "fetch", "enter", "line", "work", "leave", "done"}],
         free' \in [Semaphores -> 0..MaxCalling], line' \in [Semaphores -> Seq(Jobs)],
         \A i \in Jobs : guard[i] # r => pc'[i] = pc[i],
         \A i \in Jobs : guard[i] = 0 => pc'[i] \notin {"enter", "line", "work", "leave"},
         \A s \in Semaphores \ {r} : free'[s] = free[s] /\ line'[s] = line[s],
         PermitsOf(r)'
  PROVE  IInv'
<1>1. TypeOK'
  BY DEF IInv, TypeOK, fieldVars
<1>2. ASSUME NEW s \in Semaphores PROVE PermitsOf(s)'
  <2>1. CASE s = r
    BY <2>1
  <2>2. CASE s # r
    <3>1. Holders(s)' = Holders(s) /\ Waiting(s)' = Waiting(s)
      BY <2>2 DEF Holders, Waiting
    <3>2. PermitsOf(s)
      BY DEF IInv, PermitsOfEach, PermitsOf
    <3> QED BY <2>2, <3>1, <3>2, Untouched
  <2> QED BY <2>1, <2>2
<1>3. SizeAgreed'
  BY DEF IInv, SizeAgreed, fieldVars
<1> QED BY <1>1, <1>2, <1>3 DEF IInv, PermitsOfEach, PermitsOf

LEMMA EnterStep ==
  ASSUME IInv, NEW j \in Jobs, Enter(j)
  PROVE  IInv'
<1> DEFINE r == guard[j]
<1>0. /\ pc \in [Jobs -> {"idle", "test", "fetch", "enter", "line", "work", "leave", "done"}]
      /\ free \in [Semaphores -> 0..MaxCalling] /\ line \in [Semaphores -> Seq(Jobs)]
      /\ size \in [Semaphores -> 0..MaxCalling]
      /\ \A i \in Jobs : pc[i] \in {"enter", "line", "work", "leave"} => guard[i] # 0
      /\ pc[j] = "enter" /\ PermitsOfEach
      /\ UNCHANGED <<made, size, disposed, fieldVars, guard>>
  BY DEF IInv, TypeOK, Enter
<1>1. r \in Semaphores /\ r # 0
  BY <1>0, NegotiationAssumption DEF IInv, TypeOK, Semaphores
<1>2. PermitsOf(r)
  BY <1>0, <1>1 DEF PermitsOfEach, PermitsOf
<1>3. /\ free[r] \in Nat /\ size[r] \in Nat /\ free[r] <= MaxCalling /\ line[r] \in Seq(Jobs)
  BY <1>0, <1>1, NegotiationAssumption
<1>4. Cardinality(Holders(r)) \in Nat /\ IsFiniteSet(Holders(r))
  BY HoldersFinite
<1>5. CASE r \in disposed
  <2>1. UNCHANGED <<free, line>> /\ \A i \in Jobs : pc'[i] = IF i = j THEN "done" ELSE pc[i]
    BY <1>0, <1>5 DEF Enter, GoTo
  <2>2. pc' \in [Jobs -> {"idle", "test", "fetch", "enter", "line", "work", "leave", "done"}]
    BY <1>0, <1>5 DEF Enter, GoTo
  <2>3. Holders(r)' = Holders(r) /\ Waiting(r)' = Waiting(r)
    BY <1>0, <2>1 DEF Holders, Waiting
  <2>4. PermitsOf(r)'
    BY <1>0, <1>2, <2>1, <2>3, Untouched
  <2> QED BY <1>0, <1>1, <2>1, <2>2, <2>4, OneSemaphore
<1>6. CASE r \notin disposed /\ free[r] > 0
  <2>1. /\ free' = [free EXCEPT ![r] = @ - 1] /\ line' = line
        /\ pc' = [pc EXCEPT ![j] = "work"]
    BY <1>6 DEF Enter, GoTo
  <2>2. /\ \A i \in Jobs : pc'[i] = IF i = j THEN "work" ELSE pc[i]
        /\ pc' \in [Jobs -> {"idle", "test", "fetch", "enter", "line", "work", "leave", "done"}]
    BY <1>0, <2>1
  <2>3. /\ free'[r] = free[r] - 1 /\ free[r] - 1 \in 0..MaxCalling
        /\ \A s \in Semaphores \ {r} : free'[s] = free[s]
        /\ free' \in [Semaphores -> 0..MaxCalling]
    BY <1>0, <1>1, <1>3, <1>6, <2>1, NegotiationAssumption
  <2>4. Holders(r)' = Holders(r) \cup {j} /\ j \notin Holders(r) /\ Waiting(r)' = Waiting(r)
    BY <1>0, <2>2 DEF Holders, Waiting
  <2>5. Cardinality(Holders(r)') = Cardinality(Holders(r)) + 1
    BY <1>4, <2>4, FS_AddElement
  <2>6. PermitsOf(r)'
    <3>1. free'[r] + Cardinality(Holders(r)') = size[r]
      <4>1. free[r] + Cardinality(Holders(r)) = size[r]
        BY <1>2, <1>6 DEF PermitsOf
      <4>2. \A a, b \in Nat : (a - 1) + (b + 1) = a + b
        OBVIOUS
      <4> QED BY <4>1, <4>2, <1>3, <1>4, <2>3, <2>5
    <3>2. line[r] = <<>>
      BY <1>2, <1>3, <1>6 DEF PermitsOf
    <3>3. size'[r] = size[r] /\ line'[r] = line[r] /\ ToSet(line[r]) = Waiting(r)
          /\ IsInjective(line[r])
      BY <1>0, <1>2, <2>1 DEF PermitsOf
    <3>4. guard' = guard
      BY <1>0
    <3> QED BY <1>3, <2>4, <3>1, <3>2, <3>3, <3>4 DEF PermitsOf
  <2> QED BY <1>0, <1>1, <2>1, <2>2, <2>3, <2>6, OneSemaphore
<1>7. CASE r \notin disposed /\ free[r] = 0
  <2>1. /\ line' = [line EXCEPT ![r] = Append(@, j)] /\ free' = free
        /\ pc' = [pc EXCEPT ![j] = "line"]
    BY <1>7 DEF Enter, GoTo
  <2>2. /\ \A i \in Jobs : pc'[i] = IF i = j THEN "line" ELSE pc[i]
        /\ pc' \in [Jobs -> {"idle", "test", "fetch", "enter", "line", "work", "leave", "done"}]
    BY <1>0, <2>1
  <2>3. Holders(r)' = Holders(r) /\ Waiting(r)' = Waiting(r) \cup {j} /\ j \notin Waiting(r)
    BY <1>0, <2>2 DEF Holders, Waiting
  <2>4. ToSet(line[r]) = Waiting(r) /\ IsInjective(line[r])
    BY <1>2 DEF PermitsOf
  <2>5. /\ Append(line[r], j) \in Seq(Jobs) /\ IsInjective(Append(line[r], j))
        /\ ToSet(Append(line[r], j)) = Waiting(r) \cup {j}
    BY <1>3, <2>3, <2>4, AppendLine
  <2>6. /\ line'[r] = Append(line[r], j) /\ line' \in [Semaphores -> Seq(Jobs)]
        /\ \A s \in Semaphores \ {r} : line'[s] = line[s]
    BY <1>0, <1>1, <2>1, <2>5
  <2>7. PermitsOf(r)'
    <3>1. ToSet(line'[r]) = Waiting(r)' /\ IsInjective(line'[r])
      BY <2>3, <2>5, <2>6
    <3>2. free'[r] + Cardinality(Holders(r)') = size'[r] /\ free'[r] = 0
      BY <1>0, <1>2, <1>7, <2>1, <2>3 DEF PermitsOf
    <3>3. size'[r] \in Nat /\ guard' = guard
      BY <1>0, <1>3
    <3> QED BY <3>1, <3>2, <3>3 DEF PermitsOf
  <2> QED BY <1>0, <1>1, <2>1, <2>2, <2>6, <2>7, OneSemaphore
<1> QED BY <1>5, <1>6, <1>7, <1>3

LEMMA LeaveStep ==
  ASSUME IInv, NEW j \in Jobs, Leave(j)
  PROVE  IInv'
<1> DEFINE r == guard[j]
<1>0. /\ pc \in [Jobs -> {"idle", "test", "fetch", "enter", "line", "work", "leave", "done"}]
      /\ free \in [Semaphores -> 0..MaxCalling] /\ line \in [Semaphores -> Seq(Jobs)]
      /\ size \in [Semaphores -> 0..MaxCalling]
      /\ \A i \in Jobs : pc[i] \in {"enter", "line", "work", "leave"} => guard[i] # 0
      /\ pc[j] = "leave" /\ PermitsOfEach
      /\ UNCHANGED <<made, size, disposed, fieldVars, guard>>
  BY DEF IInv, TypeOK, Leave
<1>1. r \in Semaphores /\ r # 0
  BY <1>0, NegotiationAssumption DEF IInv, TypeOK, Semaphores
<1>2. PermitsOf(r)
  BY <1>0, <1>1 DEF PermitsOfEach, PermitsOf
<1>3. /\ free[r] \in Nat /\ size[r] \in Nat /\ size[r] <= MaxCalling /\ line[r] \in Seq(Jobs)
  BY <1>0, <1>1, NegotiationAssumption
<1>4. /\ Cardinality(Holders(r)) \in Nat /\ IsFiniteSet(Holders(r)) /\ j \in Holders(r)
  BY <1>0, HoldersFinite DEF Holders
<1>5. /\ Cardinality(Holders(r) \ {j}) = Cardinality(Holders(r)) - 1
      /\ IsFiniteSet(Holders(r) \ {j}) /\ Cardinality(Holders(r) \ {j}) \in Nat
  BY <1>4, FS_RemoveElement, FS_CardinalityType
<1>6. ASSUME UNCHANGED line, free'[r] \in 0..MaxCalling,
             free' = [free EXCEPT ![r] = free'[r]], pc' = [pc EXCEPT ![j] = "done"],
             r \notin disposed => line[r] = <<>> /\ free'[r] = free[r] + 1,
             r \in disposed => free'[r] = free[r]
      PROVE  IInv'
  <2>1. /\ \A i \in Jobs : pc'[i] = IF i = j THEN "done" ELSE pc[i]
        /\ pc' \in [Jobs -> {"idle", "test", "fetch", "enter", "line", "work", "leave", "done"}]
    BY <1>0, <1>6
  <2>2. /\ free' \in [Semaphores -> 0..MaxCalling]
        /\ \A s \in Semaphores \ {r} : free'[s] = free[s]
    BY <1>0, <1>1, <1>6
  <2>3. Holders(r)' = Holders(r) \ {j} /\ Waiting(r)' = Waiting(r)
    BY <1>0, <2>1 DEF Holders, Waiting
  <2>4. PermitsOf(r)'
    <3>1. \A a, b \in Nat : (a + 1) + (b - 1) = a + b /\ a + (b - 1) <= a + b
      OBVIOUS
    <3>2. Cardinality(Holders(r)') = Cardinality(Holders(r)) - 1
      BY <1>5, <2>3
    <3>3. CASE r \in disposed
      <4>1. free[r] + Cardinality(Holders(r)) <= size[r]
        BY <1>2 DEF PermitsOf
      <4>2. free'[r] + Cardinality(Holders(r)') <= size[r]
        <5>1. \A a, b, z \in Nat : a + b <= z => a + (b - 1) <= z
          OBVIOUS
        <5> QED BY <4>1, <5>1, <1>3, <1>4, <1>6, <3>2, <3>3
      <4>3. ToSet(line[r]) = Waiting(r) /\ IsInjective(line[r])
        BY <1>2 DEF PermitsOf
      <4>4. guard' = guard /\ line' = line /\ size' = size /\ disposed' = disposed
        BY <1>0, <1>6
      <4> QED BY <2>3, <3>3, <4>2, <4>3, <4>4 DEF PermitsOf
    <3>4. CASE r \notin disposed
      <4>1. free[r] + Cardinality(Holders(r)) = size[r]
        BY <1>2, <3>4 DEF PermitsOf
      <4>2. free'[r] + Cardinality(Holders(r)') = size[r]
        BY <4>1, <3>1, <1>3, <1>4, <1>6, <3>2, <3>4
      <4>3. ToSet(line[r]) = Waiting(r) /\ IsInjective(line[r]) /\ line[r] = <<>>
        BY <1>2, <1>6, <3>4 DEF PermitsOf
      <4>4. guard' = guard /\ line' = line /\ size' = size /\ disposed' = disposed
        BY <1>0, <1>6
      <4> QED BY <1>3, <2>3, <4>2, <4>3, <4>4 DEF PermitsOf
    <3> QED BY <3>3, <3>4
  <2> QED BY <1>0, <1>1, <1>6, <2>1, <2>2, <2>4, OneSemaphore
<1>7. CASE r \in disposed
  <2>1. UNCHANGED <<free, line>> /\ pc' = [pc EXCEPT ![j] = "done"]
    BY <1>7 DEF Leave, GoTo
  <2>2. free'[r] \in 0..MaxCalling /\ free' = [free EXCEPT ![r] = free'[r]]
    BY <1>0, <1>1, <2>1
  <2> QED BY <1>6, <1>7, <2>1, <2>2
<1>8. CASE r \notin disposed /\ line[r] = <<>>
  <2>1. /\ free' = [free EXCEPT ![r] = @ + 1] /\ UNCHANGED line
        /\ pc' = [pc EXCEPT ![j] = "done"]
    BY <1>8 DEF Leave, GoTo
  <2>2. free'[r] = free[r] + 1 /\ free' = [free EXCEPT ![r] = free'[r]]
    BY <1>0, <1>1, <2>1
  <2>3. free[r] + Cardinality(Holders(r)) = size[r]
    BY <1>2, <1>8 DEF PermitsOf
  <2>4. free[r] + 1 \in 0..MaxCalling
    <3>1. \A a, b, z, m \in Nat : a + b = z /\ b - 1 \in Nat /\ z <= m => a + 1 \in 0..m
      OBVIOUS
    <3> QED BY <3>1, <2>3, <1>3, <1>4, <1>5, NegotiationAssumption
  <2> QED BY <1>6, <1>8, <2>1, <2>2, <2>4
<1>9. CASE r \notin disposed /\ line[r] # <<>>
  <2> DEFINE h == Head(line[r])
  <2>1. /\ line' = [line EXCEPT ![r] = Tail(@)] /\ free' = free
        /\ pc' = [pc EXCEPT ![j] = "done", ![h] = "work"]
    BY <1>9 DEF Leave
  <2>2. ToSet(line[r]) = Waiting(r) /\ IsInjective(line[r])
    BY <1>2 DEF PermitsOf
  <2>3. /\ h \in Waiting(r) /\ h \in Jobs
        /\ Tail(line[r]) \in Seq(Jobs) /\ IsInjective(Tail(line[r]))
        /\ ToSet(Tail(line[r])) = Waiting(r) \ {h}
    BY <1>3, <1>9, <2>2, TailLine
  <2> HIDE DEF h
  <2>4. pc[h] = "line" /\ guard[h] = r /\ h # j
    BY <1>0, <2>3 DEF Waiting
  <2>5. /\ \A i \in Jobs : pc'[i] = IF i = h THEN "work" ELSE IF i = j THEN "done" ELSE pc[i]
        /\ pc' \in [Jobs -> {"idle", "test", "fetch", "enter", "line", "work", "leave", "done"}]
    BY <1>0, <2>1, <2>3
  <2>6. /\ line'[r] = Tail(line[r]) /\ line' \in [Semaphores -> Seq(Jobs)]
        /\ \A s \in Semaphores \ {r} : line'[s] = line[s]
    BY <1>0, <1>1, <2>1, <2>3
  <2>7. /\ Holders(r)' = (Holders(r) \ {j}) \cup {h} /\ h \notin Holders(r)
        /\ Waiting(r)' = Waiting(r) \ {h}
    BY <1>0, <2>3, <2>4, <2>5 DEF Holders, Waiting
  <2>8. Cardinality(Holders(r)') = Cardinality(Holders(r))
    <3>1. Cardinality((Holders(r) \ {j}) \cup {h}) = Cardinality(Holders(r) \ {j}) + 1
      BY <1>5, <2>7, FS_AddElement
    <3>2. \A b \in Nat : (b - 1) + 1 = b
      OBVIOUS
    <3> QED BY <1>4, <1>5, <2>7, <3>1, <3>2
  <2>9. PermitsOf(r)'
    <3>1. ToSet(line'[r]) = Waiting(r)' /\ IsInjective(line'[r])
      BY <2>3, <2>6, <2>7
    <3>2. free[r] + Cardinality(Holders(r)) = size[r] /\ free[r] = 0
      BY <1>2, <1>9 DEF PermitsOf
    <3>3. free'[r] + Cardinality(Holders(r)') = size'[r] /\ free'[r] = 0
      BY <1>0, <2>1, <2>8, <3>2
    <3>4. size'[r] \in Nat /\ guard' = guard
      BY <1>0, <1>3
    <3> QED BY <3>1, <3>3, <3>4 DEF PermitsOf
  <2>10. /\ \A i \in Jobs : guard[i] # r => pc'[i] = pc[i]
         /\ \A i \in Jobs : guard[i] = 0 => pc'[i] \notin {"enter", "line", "work", "leave"}
    BY <1>0, <1>1, <2>4, <2>5
  <2>11. free' \in [Semaphores -> 0..MaxCalling] /\ free' = free
    BY <1>0, <2>1
  <2> QED BY <1>0, <1>1, <2>5, <2>6, <2>9, <2>10, <2>11, OneSemaphore
<1> QED BY <1>7, <1>8, <1>9

-----------------------------------------------------------------------------
(* Every step keeps the invariant.                                         *)
LEMMA NextStep == IInv /\ [Next]_vars => IInv'
<1> SUFFICES ASSUME IInv, [Next]_vars PROVE IInv'
  OBVIOUS
<1>1. CASE SetCalling \/ DisposeOld \/ Opened \/ Closed \/ Dispose \/ ClearField
  BY <1>1, FieldStep
<1>2. CASE SetupAck
  BY <1>2, SetupAckStep
<1>3. ASSUME NEW j \in Jobs, Start(j) \/ Job(j) PROVE IInv'
  <2>1. CASE Start(j) \/ Test(j) \/ Fetch(j) \/ Work(j)
    BY <2>1, SmallStep
  <2>2. CASE Enter(j)
    BY <2>2, EnterStep
  <2>3. CASE Leave(j)
    BY <2>3, LeaveStep
  <2> QED BY <1>3, <2>1, <2>2, <2>3 DEF Job
<1>4. CASE UNCHANGED vars
  <2>1. UNCHANGED <<made, size, free, line, disposed, fieldVars, pc, guard>>
    BY <1>4 DEF vars, semaVars, jobVars
  <2>2. PermitsOfEach'
    BY <2>1, JobsAlone DEF jobVars
  <2> QED BY <2>1, <2>2 DEF IInv, TypeOK, SizeAgreed, fieldVars
<1> QED BY <1>1, <1>2, <1>3, <1>4 DEF Next

LEMMA InvAlways == Spec => []IInv
BY InitInv, NextStep, PTL DEF Spec

(* Whatever the PLC grants and whenever it is replaced, a job that is      *)
(* under way with a semaphore has read one that was made, and no semaphore *)
(* ever has more free permits than a user may ask for.                     *)
THEOREM NegotiationTypes == Spec => []TypeOK
BY InvAlways, PTL DEF IInv

(* A replacement or a Dispose neither makes nor loses a permit of a        *)
(* semaphore in use, and its line is the jobs that wait for it.            *)
THEOREM PermitsOfEachKept == Spec => []PermitsOfEach
BY InvAlways, PTL DEF IInv

(* Jobs of the semaphore in use are not more than what was agreed to.      *)
THEOREM JobsAsAgreed == Spec => []AgreedJobs
<1>1. IInv => AgreedJobs
  <2> SUFFICES ASSUME IInv, link = "opened", sema # 0, ~userSet
               PROVE  size[sema] = calling /\ Cardinality(Holders(sema)) <= calling
    BY DEF AgreedJobs
  <2>1. size[sema] = calling /\ sema \in Semaphores
    BY NegotiationAssumption DEF IInv, SizeAgreed, TypeOK, Semaphores
  <2>2. free[sema] \in Nat /\ calling \in Nat /\ Cardinality(Holders(sema)) \in Nat
    BY <2>1, HoldersFinite, NegotiationAssumption DEF IInv, TypeOK
  <2>3. free[sema] + Cardinality(Holders(sema)) <= size[sema]
    BY <2>1 DEF IInv, PermitsOfEach
  <2>4. \A a, b, z \in Nat : a + b <= z => b <= z
    OBVIOUS
  <2> QED BY <2>1, <2>2, <2>3, <2>4
<1> QED BY <1>1, InvAlways, PTL
=============================================================================
