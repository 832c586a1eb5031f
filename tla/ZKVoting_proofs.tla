-------------------------- MODULE ZKVoting_proofs --------------------------
(***************************************************************************)
(* Proofs about ZKIDP and ZKVoting: the contract of the identity provider  *)
(* implements the log of RootLog, and the contracts of the zero-knowledge  *)
(* mode together keep the promise of Ballot, for every number of voters,   *)
(* roots, slots, accounts, petitions and periods.                          *)
(***************************************************************************)
EXTENDS ZKVoting, FiniteSetTheorems, SequenceTheorems, TLAPS

-----------------------------------------------------------------------------
(* The identity provider's contract *)

\* The counter after the lazy reset names a slot, and it is either 0, when
\* the log is of an earlier period, or unchanged.
LEMMA ResetCases ==
  ASSUME ZKIDPInductiveInv
  PROVE  /\ IterationAfterReset \in Slots
         /\ \/ LogPeriod < now /\ IterationAfterReset = 0
            \/ LogPeriod = now /\ IterationAfterReset = pLastIteration
         /\ pRootForPeriod[IterationAfterReset] \in Nat
         /\ LogPeriod \in Nat
  BY PeriodAssumption, SlotsAssumption
  DEF ZKIDPInductiveInv, ZKIDPTypeOK, IDPTypeOK, LiveSlots, IterationAfterReset,
      LogPeriod, Slots, Periods

LEMMA ZKIDPInitInv == ZKIDPInit => ZKIDPInductiveInv
  BY PeriodAssumption, SlotsAssumption
  DEF ZKIDPInit, IDPInit, ZKIDPInductiveInv, ZKIDPTypeOK, IDPTypeOK, SlotZeroUnused,
      LiveSlots, StaleSlots, EventsMatchSlots, SlotsTraceToEvents, LogPeriod,
      IterationNamesOneRoot, HashAvailable, Slots, Periods

-----------------------------------------------------------------------------
(* A published root keeps the invariant *)

\* What a successful submitHash does, with the slot it writes named.
LEMMA SubmitHashEffect ==
  ASSUME ZKIDPInductiveInv,
         NEW sender \in Accounts, NEW rt \in Roots, NEW p \in Periods,
         SubmitHash(sender, rt, p)
  PROVE  \E it \in Slots :
           /\ it # 0
           /\ it = IterationAfterReset + 1
           /\ p = now
           /\ pLastIteration' = it
           /\ pRoot' = [pRoot EXCEPT ![it] = rt]
           /\ pRootForPeriod' = [pRootForPeriod EXCEPT ![it] = now]
           /\ HashAdded' = HashAdded \cup {Event(rt, now, it)}
           /\ now' = now
           /\ operator' = operator
           /\ LogPeriod' = now
           /\ \/ LogPeriod < now /\ it = 1
              \/ LogPeriod = now /\ it = pLastIteration + 1
<1> DEFINE it == IterationAfterReset + 1
<1>1. it \in Slots /\ it # 0
  BY ResetCases, SlotsAssumption DEF SubmitHash, CanSubmitHash, Slots
<1>2. p = now
  BY DEF SubmitHash, CanSubmitHash
<1>3. pRootForPeriod' = [pRootForPeriod EXCEPT ![it] = now]
  BY <1>2 DEF SubmitHash, StampPeriod
<1>4. LogPeriod' = now
  BY <1>1, <1>3 DEF LogPeriod, SubmitHash, ZKIDPInductiveInv, ZKIDPTypeOK
<1>5. \/ LogPeriod < now /\ it = 1
      \/ LogPeriod = now /\ it = pLastIteration + 1
  BY ResetCases
<1> QED
  BY <1>1, <1>2, <1>3, <1>4, <1>5 DEF SubmitHash, idpVars

LEMMA SubmitHashInv ==
  ASSUME ZKIDPInductiveInv,
         NEW sender \in Accounts, NEW rt \in Roots, NEW p \in Periods,
         SubmitHash(sender, rt, p)
  PROVE  ZKIDPInductiveInv'
<1>1. PICK it \in Slots :
        /\ it # 0
        /\ it = IterationAfterReset + 1
        /\ p = now
        /\ pLastIteration' = it
        /\ pRoot' = [pRoot EXCEPT ![it] = rt]
        /\ pRootForPeriod' = [pRootForPeriod EXCEPT ![it] = now]
        /\ HashAdded' = HashAdded \cup {Event(rt, now, it)}
        /\ now' = now
        /\ operator' = operator
        /\ LogPeriod' = now
        /\ \/ LogPeriod < now /\ it = 1
           \/ LogPeriod = now /\ it = pLastIteration + 1
  BY SubmitHashEffect
<1>2. /\ now \in Periods /\ now \in Nat /\ now # 0 /\ LogPeriod \in Nat
      /\ now \in 0 .. MaxPeriod
      /\ pLastIteration \in Slots /\ it \in Nat /\ pLastIteration \in Nat
      /\ pRoot \in [Slots -> Roots \cup {NoRoot}]
      /\ pRootForPeriod \in [Slots -> 0 .. MaxPeriod]
      /\ HashAdded \subseteq [root : Roots, period : Periods, iteration : Slots]
      /\ Slots \subseteq Nat
  BY PeriodAssumption, ResetCases
  DEF ZKIDPInductiveInv, ZKIDPTypeOK, IDPTypeOK, Periods, Slots
<1>3. /\ pRoot'[it] = rt
      /\ pRootForPeriod'[it] = now
      /\ \A i \in Slots \ {it} : /\ pRoot'[i] = pRoot[i]
                                 /\ pRootForPeriod'[i] = pRootForPeriod[i]
  BY <1>1, <1>2
<1>4. ZKIDPTypeOK'
  <2>1. HashAdded' \subseteq [root : Roots, period : Periods, iteration : Slots]
    BY <1>1, <1>2 DEF Event
  <2>2. IDPTypeOK'
    BY <1>1 DEF ZKIDPInductiveInv, ZKIDPTypeOK, IDPTypeOK
  <2> QED
    BY <1>1, <1>2, <2>1, <2>2 DEF ZKIDPTypeOK
<1>5. SlotZeroUnused'
  BY <1>1, <1>3, SlotsAssumption DEF SlotZeroUnused, ZKIDPInductiveInv, Slots
<1>6. LiveSlots'
  <2> SUFFICES ASSUME NEW i \in 1 .. it
               PROVE  /\ pRootForPeriod'[i] = now
                      /\ pRoot'[i] \in Roots
    BY <1>1, <1>2 DEF LiveSlots
  <2>1. CASE i = it
    BY <2>1, <1>3
  <2>2. CASE i # it
    <3>1. LogPeriod = now /\ it = pLastIteration + 1 /\ i \in 1 .. pLastIteration
      BY <2>2, <1>1, <1>2
    <3>2. pRootForPeriod[i] = now /\ pRoot[i] \in Roots
      BY <3>1 DEF ZKIDPInductiveInv, LiveSlots
    <3>3. i \in Slots \ {it}
      BY <2>2, <3>1, <1>2, SlotsAssumption DEF Slots
    <3> QED
      BY <3>2, <3>3, <1>3
  <2> QED
    BY <2>1, <2>2
<1>7. StaleSlots'
  <2> SUFFICES ASSUME NEW i \in Slots, i > it
               PROVE  /\ pRootForPeriod[i] = 0 <=> pRoot[i] = NoRoot
                      /\ pRootForPeriod[i] # 0 => pRootForPeriod[i] < now
    BY <1>1, <1>2, <1>3 DEF StaleSlots
  <2>1. CASE i > pLastIteration
    <3>1. /\ pRootForPeriod[i] = 0 <=> pRoot[i] = NoRoot
          /\ pRootForPeriod[i] # 0 => pRootForPeriod[i] < LogPeriod
      BY <2>1 DEF ZKIDPInductiveInv, StaleSlots
    <3>2. pRootForPeriod[i] \in Nat
      BY <1>2, PeriodAssumption
    <3> QED
      BY <3>1, <3>2, <1>1, <1>2
  <2>2. CASE i \in 1 .. pLastIteration
    <3>1. LogPeriod < now
      BY <2>2, <1>1, <1>2
    <3> QED
      BY <3>1, <2>2, NoRootAssumption DEF ZKIDPInductiveInv, LiveSlots
  <2> QED
    BY <2>1, <2>2, <1>2
<1>8. EventsMatchSlots'
  <2> SUFFICES ASSUME NEW e \in HashAdded'
               PROVE  /\ e.period <= now
                      /\ e.period = now =>
                           /\ e.iteration \in 1 .. it
                           /\ pRoot'[e.iteration] = e.root
    BY <1>1 DEF EventsMatchSlots
  <2>1. CASE e = Event(rt, now, it)
    BY <2>1, <1>2, <1>1, <1>3 DEF Event
  <2>2. CASE e \in HashAdded
    <3>1. /\ e.period <= LogPeriod
          /\ e.period = LogPeriod =>
               /\ e.iteration \in 1 .. pLastIteration
               /\ pRoot[e.iteration] = e.root
      BY <2>2 DEF ZKIDPInductiveInv, EventsMatchSlots
    <3>2. e.period \in Nat /\ e.iteration \in Slots
      BY <2>2, <1>2 DEF Periods
    <3>3. e.period <= now
      BY <3>1, <3>2, <1>1, <1>2
    <3>4. ASSUME e.period = now
          PROVE  e.iteration \in 1 .. it /\ pRoot'[e.iteration] = e.root
      <4>1. LogPeriod = now /\ it = pLastIteration + 1
        BY <3>1, <3>2, <3>4, <1>1, <1>2
      <4>2. e.iteration \in 1 .. pLastIteration /\ pRoot[e.iteration] = e.root
        BY <3>1, <3>4, <4>1
      <4> QED
        BY <4>1, <4>2, <3>2, <1>2, <1>3
    <3> QED
      BY <3>3, <3>4
  <2> QED
    BY <2>1, <2>2, <1>1
<1>9. SlotsTraceToEvents'
  <2> SUFFICES ASSUME NEW i \in Slots, HashAvailable(i)'
               PROVE  Event(pRoot'[i], pRootForPeriod'[i], i) \in HashAdded'
    BY DEF SlotsTraceToEvents, Event
  <2>1. CASE i = it
    BY <2>1, <1>1, <1>3
  <2>2. CASE i # it
    <3>1. HashAvailable(i)
      BY <2>2, <1>3 DEF HashAvailable
    <3>2. Event(pRoot[i], pRootForPeriod[i], i) \in HashAdded
      BY <3>1 DEF ZKIDPInductiveInv, SlotsTraceToEvents
    <3> QED
      BY <2>2, <3>2, <1>1, <1>3
  <2> QED
    BY <2>1, <2>2
<1>10. IterationNamesOneRoot'
  <2>1. ASSUME NEW e \in HashAdded, e.period = now, e.iteration = it
        PROVE  FALSE
    <3>1. e.period <= LogPeriod
      BY DEF ZKIDPInductiveInv, EventsMatchSlots
    <3>2. LogPeriod = now /\ it = pLastIteration + 1
      BY <3>1, <2>1, <1>1, <1>2
    <3>3. e.iteration \in 1 .. pLastIteration
      BY <3>2, <2>1 DEF ZKIDPInductiveInv, EventsMatchSlots
    <3> QED
      BY <3>2, <3>3, <2>1, <1>2
  <2> SUFFICES ASSUME NEW e \in HashAdded', NEW f \in HashAdded',
                      e.period = f.period, e.iteration = f.iteration
               PROVE  e = f
    BY DEF IterationNamesOneRoot
  <2>2. CASE e \in HashAdded /\ f \in HashAdded
    BY <2>2 DEF ZKIDPInductiveInv, IterationNamesOneRoot
  <2>3. CASE e = Event(rt, now, it) /\ f = Event(rt, now, it)
    BY <2>3
  <2>4. CASE e = Event(rt, now, it) /\ f \in HashAdded
    BY <2>4, <2>1 DEF Event
  <2>5. CASE e \in HashAdded /\ f = Event(rt, now, it)
    BY <2>5, <2>1 DEF Event
  <2> QED
    BY <2>2, <2>3, <2>4, <2>5, <1>1
<1> QED
  BY <1>4, <1>5, <1>6, <1>7, <1>8, <1>9, <1>10 DEF ZKIDPInductiveInv

-----------------------------------------------------------------------------

LEMMA ZKIDPNextInv ==
  ASSUME ZKIDPInductiveInv, [ZKIDPNext]_zkidpVars
  PROVE  ZKIDPInductiveInv'
<1> USE DEF ZKIDPInductiveInv, ZKIDPTypeOK, IDPTypeOK, SlotZeroUnused, LiveSlots,
            StaleSlots, EventsMatchSlots, SlotsTraceToEvents, IterationNamesOneRoot,
            LogPeriod, HashAvailable
<1>1. CASE ZKIDPNewPeriod
  BY <1>1 DEF ZKIDPNewPeriod, NewPeriod, Periods, Slots, Event
<1>2. ASSUME NEW sender \in Accounts, NEW newOperator \in Accounts,
             ZKIDPChangeOperator(sender, newOperator)
      PROVE  ZKIDPInductiveInv'
  BY <1>2 DEF ZKIDPChangeOperator, ChangeOperator, Event
<1>3. ASSUME NEW sender \in Accounts, NEW rt \in Roots, NEW p \in Periods,
             SubmitHash(sender, rt, p)
      PROVE  ZKIDPInductiveInv'
  BY <1>3, SubmitHashInv
<1>4. CASE UNCHANGED zkidpVars
  BY <1>4 DEF zkidpVars, Event
<1> QED
  BY <1>1, <1>2, <1>3, <1>4 DEF ZKIDPNext

\* Every reachable state satisfies the inductive invariant: the log sits in
\* the slots up to the counter, with only older roots above it.
THEOREM ZKIDPInvariance == ZKIDPSpec => []ZKIDPInductiveInv
<1>1. ZKIDPInductiveInv /\ [ZKIDPNext]_zkidpVars => ZKIDPInductiveInv'
  BY ZKIDPNextInv
<1> QED
  BY <1>1, ZKIDPInitInv, PTL DEF ZKIDPSpec

\* The contract's state keeps its types: in particular the uint8 counter
\* always indexes the arrays.
THEOREM ZKIDPTypeCorrect == ZKIDPSpec => []ZKIDPTypeOK
<1>1. ZKIDPInductiveInv => ZKIDPTypeOK
  BY DEF ZKIDPInductiveInv
<1> QED
  BY <1>1, ZKIDPInvariance, PTL

LEMMA CurrentRootsFromInv ==
  ASSUME ZKIDPInductiveInv
  PROVE  CurrentRootsRetrievable
<1> SUFFICES ASSUME NEW e \in HashAdded, e.period = now
             PROVE  /\ HashAvailable(e.iteration)
                    /\ GetHash(e.iteration) = <<e.root, e.period>>
  BY DEF CurrentRootsRetrievable
<1>1. now \in Nat /\ now # 0 /\ LogPeriod \in Nat /\ e.iteration \in Slots
  BY ResetCases DEF ZKIDPInductiveInv, ZKIDPTypeOK, IDPTypeOK, Periods
<1>2. LogPeriod = now
  BY <1>1 DEF ZKIDPInductiveInv, EventsMatchSlots, LiveSlots
<1>3. e.iteration \in 1 .. pLastIteration /\ pRoot[e.iteration] = e.root
  BY <1>2 DEF ZKIDPInductiveInv, EventsMatchSlots
<1>4. pRootForPeriod[e.iteration] = now /\ pRoot[e.iteration] \in Roots
  BY <1>2, <1>3 DEF ZKIDPInductiveInv, LiveSlots
<1> QED
  BY <1>1, <1>3, <1>4, NoRootAssumption DEF HashAvailable, GetHash

\* A root published in the current period stays readable at its iteration.
THEOREM CurrentRootsStayRetrievable == ZKIDPSpec => []CurrentRootsRetrievable
<1>1. ZKIDPInductiveInv => CurrentRootsRetrievable
  BY CurrentRootsFromInv
<1> QED
  BY <1>1, ZKIDPInvariance, PTL

\* Every readable slot holds a root with the period it was published for.
THEOREM ReadableSlotsTraceToEvents == ZKIDPSpec => []SlotsTraceToEvents
<1>1. ZKIDPInductiveInv => SlotsTraceToEvents
  BY DEF ZKIDPInductiveInv
<1> QED
  BY <1>1, ZKIDPInvariance, PTL

\* No iteration is given to two roots of a period.
THEOREM IterationsNameOneRoot == ZKIDPSpec => []IterationNamesOneRoot
<1>1. ZKIDPInductiveInv => IterationNamesOneRoot
  BY DEF ZKIDPInductiveInv
<1> QED
  BY <1>1, ZKIDPInvariance, PTL

-----------------------------------------------------------------------------
(* The contract implements the log *)

\* Appending an element to a sequence given as a function on 1 .. n.
LEMMA AppendIsExtension ==
  ASSUME NEW S, NEW n \in Nat, NEW s \in [1 .. n -> S], NEW e \in S
  PROVE  Append(s, e) = [i \in 1 .. n + 1 |-> IF i = n + 1 THEN e ELSE s[i]]
<1> DEFINE t == [i \in 1 .. n + 1 |-> IF i = n + 1 THEN e ELSE s[i]]
<1>1. s \in Seq(S) /\ Len(s) = n
  OBVIOUS
<1>2. /\ Append(s, e) \in Seq(S)
      /\ Len(Append(s, e)) = n + 1
      /\ \A i \in 1 .. n : Append(s, e)[i] = s[i]
      /\ Append(s, e)[n + 1] = e
  BY <1>1, AppendProperties
<1>3. t \in Seq(S) /\ Len(t) = n + 1
  OBVIOUS
<1>4. ASSUME NEW i \in 1 .. n + 1
      PROVE  Append(s, e)[i] = t[i]
  BY <1>2
<1> QED
  BY <1>2, <1>3, <1>4, SeqEqual

LEMMA LogInitSimulation == ZKIDPInit => Log!LogInit
  BY SlotsAssumption DEF ZKIDPInit, IDPInit, Log!LogInit, Slots

LEMMA SubmitHashSimulation ==
  ASSUME ZKIDPInductiveInv,
         NEW sender \in Accounts, NEW rt \in Roots, NEW p \in Periods,
         SubmitHash(sender, rt, p)
  PROVE  Log!Extend(rt) \/ Log!StartOver(rt)
<1> DEFINE log == [i \in 1 .. pLastIteration |-> pRoot[i]]
<1>1. PICK it \in Slots :
        /\ it # 0
        /\ it = IterationAfterReset + 1
        /\ p = now
        /\ pLastIteration' = it
        /\ pRoot' = [pRoot EXCEPT ![it] = rt]
        /\ pRootForPeriod' = [pRootForPeriod EXCEPT ![it] = now]
        /\ HashAdded' = HashAdded \cup {Event(rt, now, it)}
        /\ now' = now
        /\ operator' = operator
        /\ LogPeriod' = now
        /\ \/ LogPeriod < now /\ it = 1
           \/ LogPeriod = now /\ it = pLastIteration + 1
  BY SubmitHashEffect
<1>2. /\ pLastIteration \in Slots /\ pLastIteration \in Nat
      /\ pRoot \in [Slots -> Roots \cup {NoRoot}]
      /\ it \in Nat /\ it < SLOTS /\ SLOTS \in Nat
      /\ 1 .. pLastIteration \subseteq Slots
  BY SlotsAssumption DEF ZKIDPInductiveInv, ZKIDPTypeOK, Slots
<1>3. log' = [i \in 1 .. it |-> IF i = it THEN rt ELSE pRoot[i]]
  BY <1>1, <1>2 DEF Slots
<1>4. CASE LogPeriod < now /\ it = 1
  <2>1. log' = <<rt>>
    BY <1>3, <1>4
  <2> QED
    BY <1>1, <1>2, <1>4, <2>1 DEF Log!StartOver, LogPeriod
<1>5. CASE LogPeriod = now /\ it = pLastIteration + 1
  <2>1. log \in Seq(Roots \cup {NoRoot}) /\ Len(log) = pLastIteration
    BY <1>2
  <2>2. log' = [i \in 1 .. pLastIteration + 1 |->
                  IF i = pLastIteration + 1 THEN rt ELSE log[i]]
    <3>1. \A i \in 1 .. it : i # it => log[i] = pRoot[i]
      BY <1>5, <1>2
    <3>2. log' = [i \in 1 .. it |-> IF i = it THEN rt ELSE log[i]]
      BY <1>3, <3>1
    <3> QED
      BY <3>2, <1>5
  <2>3. log \in [1 .. pLastIteration -> Roots \cup {NoRoot}]
    BY <1>2
  <2>4. Append(log, rt) = [i \in 1 .. pLastIteration + 1 |->
                             IF i = pLastIteration + 1 THEN rt ELSE log[i]]
    BY <2>3, <1>2, AppendIsExtension
  <2>5. log' = Append(log, rt)
    BY <2>2, <2>4
  <2> QED
    BY <1>1, <1>2, <1>5, <2>1, <2>5 DEF Log!Extend, LogPeriod
<1> QED
  BY <1>1, <1>4, <1>5

LEMMA LogStepSimulation ==
  ASSUME ZKIDPInductiveInv, [ZKIDPNext]_zkidpVars
  PROVE  [Log!LogNext]_(Log!logVars)
<1>1. CASE ZKIDPNewPeriod
  <2>1. Log!LogNewPeriod
    BY <1>1 DEF ZKIDPNewPeriod, NewPeriod, Log!LogNewPeriod, Periods
  <2> QED
    BY <2>1 DEF Log!LogNext
<1>2. ASSUME NEW sender \in Accounts, NEW newOperator \in Accounts,
             ZKIDPChangeOperator(sender, newOperator)
      PROVE  UNCHANGED Log!logVars
  BY <1>2 DEF ZKIDPChangeOperator, ChangeOperator, Log!logVars
<1>3. ASSUME NEW sender \in Accounts, NEW rt \in Roots, NEW p \in Periods,
             SubmitHash(sender, rt, p)
      PROVE  Log!LogNext
  BY <1>3, SubmitHashSimulation DEF Log!LogNext
<1>4. CASE UNCHANGED zkidpVars
  BY <1>4 DEF zkidpVars, Log!logVars
<1> QED
  BY <1>1, <1>2, <1>3, <1>4 DEF ZKIDPNext

\* The slot array with its counter and lazy reset implements the log.
THEOREM ContractImplementsRootLog == ZKIDPSpec => ImplementsRootLog
<1>1. ZKIDPInductiveInv /\ [ZKIDPNext]_zkidpVars => [Log!LogNext]_(Log!logVars)
  BY LogStepSimulation
<1> QED
  BY <1>1, LogInitSimulation, ZKIDPInvariance, PTL
  DEF ZKIDPSpec, ImplementsRootLog, Log!LogSpec

-----------------------------------------------------------------------------
(* The petitions *)

\* The identities of different petitions or different keys are different.
LEMMA HPersInjective ==
  ASSUME NEW pid, NEW qid, NEW k, NEW l
  PROVE  HPers(pid, k) = HPers(qid, l) <=> pid = qid /\ k = l
  BY DEF HPers

LEMMA VotingInitInv == VotingInit => VotingInductiveInv
<1> SUFFICES ASSUME VotingInit PROVE VotingInductiveInv
  OBVIOUS
<1>1. ZKIDPInductiveInv
  BY ZKIDPInitInv DEF VotingInit
<1>2. petitions = << >> /\ petitionId = 0
  BY DEF VotingInit, RegistryInit
<1> QED
  BY <1>1, <1>2
  DEF VotingInductiveInv, VotingTypeOK, ZKIDPInductiveInv, IdsAreNumbered,
      MarksAreOwn, MarksAreCounted

-----------------------------------------------------------------------------
(* createPetition *)

LEMMA CreatePetitionEffect ==
  ASSUME VotingInductiveInv, NEW name \in Names, NEW p \in 0 .. MaxPeriod,
         CreatePetition(name, p)
  PROVE  \E q \in PetitionPeriods :
           /\ q >= now
           /\ petitions' = Append(petitions, [id        |-> <<Len(petitions) + 1, name>>,
                                              period    |-> q,
                                              hasSigned |-> {},
                                              signers   |-> 0])
           /\ petitionId' = Len(petitions) + 1
           /\ UNCHANGED <<now, operator>>
<1>1. AssignedPeriod(p) \in PetitionPeriods /\ AssignedPeriod(p) >= now
  BY PeriodAssumption
  DEF CreatePetition, PeriodAllowed, AssignedPeriod, PetitionPeriods, VotingInductiveInv,
      VotingTypeOK, ZKIDPTypeOK, IDPTypeOK, Periods
<1> QED
  BY <1>1
  DEF CreatePetition, InternalId, VotingInductiveInv, IdsAreNumbered, idpVars

LEMMA CreatePetitionInv ==
  ASSUME VotingInductiveInv, NEW name \in Names, NEW p \in 0 .. MaxPeriod,
         VotingCreatePetition(name, p)
  PROVE  VotingInductiveInv'
<1> DEFINE n == Len(petitions)
<1>0. CreatePetition(name, p) /\ UNCHANGED zkidpVars
  BY DEF VotingCreatePetition
<1>1. PICK q \in PetitionPeriods :
        /\ q >= now
        /\ petitions' = Append(petitions, [id        |-> <<n + 1, name>>,
                                           period    |-> q,
                                           hasSigned |-> {},
                                           signers   |-> 0])
        /\ petitionId' = n + 1
        /\ UNCHANGED <<now, operator>>
  BY <1>0, CreatePetitionEffect
<1> DEFINE new == [id |-> <<n + 1, name>>, period |-> q, hasSigned |-> {}, signers |-> 0]
           R == PetitionRecords(PetitionIds \X VoterKeys)
<1>2. petitions \in Seq(R) /\ n \in Nat
  BY DEF VotingInductiveInv, VotingTypeOK
<1>3. new \in R
  BY <1>2 DEF PetitionRecords, PetitionIds
<1>4. /\ petitions' \in Seq(R)
      /\ Len(petitions') = n + 1
      /\ petitions'[n + 1] = new
      /\ \A i \in 1 .. n : petitions'[i] = petitions[i]
  BY <1>1, <1>2, <1>3, AppendProperties
<1>5. DOMAIN petitions = 1 .. n /\ DOMAIN petitions' = 1 .. (n + 1)
  BY <1>2, <1>4
<1>6. ZKIDPInductiveInv'
  BY <1>0, ZKIDPNextInv DEF VotingInductiveInv
<1>7. VotingTypeOK'
  BY <1>1, <1>2, <1>4, <1>6 DEF VotingTypeOK, ZKIDPInductiveInv
<1>8. IdsAreNumbered'
  BY <1>1, <1>2, <1>4, <1>5 DEF VotingInductiveInv, IdsAreNumbered
<1>9. MarksAreOwn'
  <2> SUFFICES ASSUME NEW i \in 1 .. (n + 1), NEW x \in petitions'[i].hasSigned
               PROVE  \E key \in VoterKeys : x = HPers(petitions'[i].id, key)
    BY <1>5 DEF MarksAreOwn, HPers
  <2>1. i \in 1 .. n /\ petitions'[i] = petitions[i]
    BY <1>2, <1>4
  <2> QED
    BY <2>1, <1>5 DEF VotingInductiveInv, MarksAreOwn
<1>10. MarksAreCounted'
  <2> SUFFICES ASSUME NEW i \in 1 .. (n + 1)
               PROVE  (/\ SignedBy(i) \subseteq Electorate(petitions[i].period)
                       /\ IsFiniteSet(SignedBy(i))
                       /\ petitions[i].signers = Cardinality(SignedBy(i)))'
    BY <1>5 DEF MarksAreCounted
  <2>1. CASE i = n + 1
    <3>1. SignedBy(i)' = {}
      BY <2>1, <1>4 DEF SignedBy
    <3> QED
      BY <3>1, <2>1, <1>4, FS_EmptySet
  <2>2. CASE i \in 1 .. n
    <3>1. petitions'[i] = petitions[i] /\ SignedBy(i)' = SignedBy(i)
      BY <2>2, <1>4 DEF SignedBy, HPers
    <3>2. Electorate(petitions[i].period)' = Electorate(petitions[i].period)
      BY <3>1, <1>0 DEF Electorate, zkidpVars
    <3>3. /\ SignedBy(i) \subseteq Electorate(petitions[i].period)
          /\ IsFiniteSet(SignedBy(i))
          /\ petitions[i].signers = Cardinality(SignedBy(i))
      BY <2>2, <1>5 DEF VotingInductiveInv, MarksAreCounted
    <3> QED
      BY <3>1, <3>2, <3>3
  <2> QED
    BY <2>1, <2>2, <1>2
<1> QED
  BY <1>6, <1>7, <1>8, <1>9, <1>10 DEF VotingInductiveInv

-----------------------------------------------------------------------------
(* sign *)

\* A root that can be read in a slot is one published for the slot's period,
\* so the keys of its tree belong to the electorate of that period.
LEMMA ReadableRootsElect ==
  ASSUME ZKIDPInductiveInv, NEW iteration \in Slots, HashAvailable(iteration)
  PROVE  /\ pRoot[iteration] \in Roots
         /\ Leaves[pRoot[iteration]] \subseteq VoterKeys
         /\ Leaves[pRoot[iteration]] \subseteq Electorate(pRootForPeriod[iteration])
<1> DEFINE e == Event(pRoot[iteration], pRootForPeriod[iteration], iteration)
<1>1. e \in HashAdded
  BY DEF ZKIDPInductiveInv, SlotsTraceToEvents
<1>2. e.root = pRoot[iteration] /\ e.period = pRootForPeriod[iteration]
  BY DEF Event
<1>3. e.root \in Roots
  BY <1>1 DEF ZKIDPInductiveInv, ZKIDPTypeOK
<1> QED
  BY <1>1, <1>2, <1>3, LeavesAssumption DEF Electorate

\* A signature adds one key of the electorate to one petition.
LEMMA SignEffect ==
  ASSUME VotingInductiveInv, NEW i \in DOMAIN petitions, NEW iteration \in Slots,
         NEW identity, Sign(i, iteration, identity)
  PROVE  \E key \in VoterKeys :
           /\ key \in Electorate(petitions[i].period)
           /\ key \notin SignedBy(i)
           /\ petitions' = [petitions EXCEPT
                ![i] = [petitions[i] EXCEPT
                          !.hasSigned = petitions[i].hasSigned
                                          \cup {HPers(petitions[i].id, key)},
                          !.signers = petitions[i].signers + 1]]
           /\ UNCHANGED <<zkidpVars, petitionId>>
<1>1. /\ identity \notin petitions[i].hasSigned
      /\ HashAvailable(iteration)
      /\ pRootForPeriod[iteration] = petitions[i].period
      /\ Provable(pRoot[iteration], identity, petitions[i].id)
  BY DEF Sign, CanSign, GetHash, NotSignedYet
<1>2. PICK key \in Leaves[pRoot[iteration]] : identity = HPers(petitions[i].id, key)
  BY <1>1 DEF Provable
<1>3. key \in VoterKeys /\ key \in Electorate(petitions[i].period)
  BY <1>1, <1>2, ReadableRootsElect DEF VotingInductiveInv
<1>4. key \notin SignedBy(i)
  BY <1>1, <1>2 DEF SignedBy
<1>5. petitions' = [petitions EXCEPT
         ![i] = [petitions[i] EXCEPT
                   !.hasSigned = petitions[i].hasSigned \cup {identity},
                   !.signers = petitions[i].signers + 1]]
  BY DEF Sign, RecordSignature
<1> QED
  BY <1>2, <1>3, <1>4, <1>5 DEF Sign

LEMMA MarkedRecord ==
  ASSUME NEW Identity, NEW r \in PetitionRecords(Identity),
         NEW marks \in SUBSET Identity, NEW count \in Nat
  PROVE  [r EXCEPT !.hasSigned = marks, !.signers = count] \in PetitionRecords(Identity)
  BY DEF PetitionRecords

LEMMA SignInv ==
  ASSUME VotingInductiveInv, NEW i \in DOMAIN petitions, NEW iteration \in Slots,
         NEW identity, Sign(i, iteration, identity)
  PROVE  VotingInductiveInv'
<1> DEFINE n == Len(petitions)
           R == PetitionRecords(PetitionIds \X VoterKeys)
<1>1. PICK key \in VoterKeys :
        /\ key \in Electorate(petitions[i].period)
        /\ key \notin SignedBy(i)
        /\ petitions' = [petitions EXCEPT
             ![i] = [petitions[i] EXCEPT
                       !.hasSigned = petitions[i].hasSigned
                                       \cup {HPers(petitions[i].id, key)},
                       !.signers = petitions[i].signers + 1]]
        /\ UNCHANGED <<zkidpVars, petitionId>>
  BY SignEffect
<1>2. petitions \in Seq(R) /\ n \in Nat /\ DOMAIN petitions = 1 .. n
  BY DEF VotingInductiveInv, VotingTypeOK
<1>3. petitions[i] \in R
  BY <1>2
<1>4. /\ petitions'[i].id = petitions[i].id
      /\ petitions'[i].period = petitions[i].period
      /\ petitions'[i].hasSigned = petitions[i].hasSigned \cup {HPers(petitions[i].id, key)}
      /\ petitions'[i].signers = petitions[i].signers + 1
  BY <1>1, <1>2, <1>3 DEF PetitionRecords
<1>5. \A j \in (1 .. n) \ {i} : petitions'[j] = petitions[j]
  BY <1>1, <1>2
<1>6. petitions'[i] \in R
  <2>1. HPers(petitions[i].id, key) \in PetitionIds \X VoterKeys
    BY <1>3 DEF HPers, PetitionRecords
  <2>2. petitions[i].hasSigned \cup {HPers(petitions[i].id, key)}
          \in SUBSET (PetitionIds \X VoterKeys)
    BY <1>3, <2>1 DEF PetitionRecords
  <2>3. petitions'[i] = [petitions[i] EXCEPT
                           !.hasSigned = petitions[i].hasSigned
                                           \cup {HPers(petitions[i].id, key)},
                           !.signers = petitions[i].signers + 1]
    BY <1>1, <1>2
  <2>4. petitions[i].signers + 1 \in Nat
    BY <1>3 DEF PetitionRecords
  <2>5. PICK r : r = petitions[i]
    OBVIOUS
  <2>6. PICK marks : marks = petitions[i].hasSigned \cup {HPers(petitions[i].id, key)}
    OBVIOUS
  <2>7. PICK count : count = petitions[i].signers + 1
    OBVIOUS
  <2>8. [r EXCEPT !.hasSigned = marks, !.signers = count] \in R
    BY <1>3, <2>2, <2>4, <2>5, <2>6, <2>7, MarkedRecord
  <2>9. petitions'[i] = [r EXCEPT !.hasSigned = marks, !.signers = count]
    BY <2>3, <2>5, <2>6, <2>7
  <2> QED
    BY <2>8, <2>9
<1>7. petitions' \in Seq(R) /\ Len(petitions') = n /\ DOMAIN petitions' = 1 .. n
  BY <1>1, <1>2, <1>5, <1>6
<1>8. ZKIDPInductiveInv'
  BY <1>1, ZKIDPNextInv DEF VotingInductiveInv
<1>9. VotingTypeOK'
  BY <1>1, <1>7, <1>8 DEF VotingTypeOK, ZKIDPInductiveInv, VotingInductiveInv
<1>10. IdsAreNumbered'
  BY <1>1, <1>2, <1>4, <1>5, <1>7 DEF VotingInductiveInv, IdsAreNumbered
<1>11. MarksAreOwn'
  <2> SUFFICES ASSUME NEW j \in 1 .. n, NEW x \in petitions'[j].hasSigned
               PROVE  (\E k \in VoterKeys : x = HPers(petitions'[j].id, k))
    BY <1>7 DEF MarksAreOwn, HPers
  <2>1. CASE j # i
    BY <2>1, <1>2, <1>5 DEF VotingInductiveInv, MarksAreOwn
  <2>2. CASE j = i /\ x = HPers(petitions[i].id, key)
    BY <2>2, <1>4
  <2>3. CASE j = i /\ x \in petitions[i].hasSigned
    BY <2>3, <1>4 DEF VotingInductiveInv, MarksAreOwn
  <2> QED
    BY <2>1, <2>2, <2>3, <1>4
<1>12. MarksAreCounted'
  <2> SUFFICES ASSUME NEW j \in 1 .. n
               PROVE  (/\ SignedBy(j) \subseteq Electorate(petitions[j].period)
                       /\ IsFiniteSet(SignedBy(j))
                       /\ petitions[j].signers = Cardinality(SignedBy(j)))'
    BY <1>7 DEF MarksAreCounted
  <2>1. /\ SignedBy(j) \subseteq Electorate(petitions[j].period)
        /\ IsFiniteSet(SignedBy(j))
        /\ petitions[j].signers = Cardinality(SignedBy(j))
    BY <1>2 DEF VotingInductiveInv, MarksAreCounted
  <2>2. Electorate(petitions[j].period)' = Electorate(petitions[j].period)
    BY <1>1, <1>4, <1>5 DEF Electorate, zkidpVars
  <2>3. CASE j # i
    <3>1. petitions'[j] = petitions[j] /\ SignedBy(j)' = SignedBy(j)
      BY <2>3, <1>5 DEF SignedBy, HPers
    <3> QED
      BY <2>1, <2>2, <3>1
  <2>4. CASE j = i
    <3>1. SignedBy(j)' = SignedBy(j) \cup {key}
      BY <2>4, <1>4, HPersInjective DEF SignedBy, HPers
    <3>2. key \notin SignedBy(j) /\ key \in Electorate(petitions[j].period)
      BY <2>4, <1>1
    <3>3. /\ IsFiniteSet(SignedBy(j) \cup {key})
          /\ Cardinality(SignedBy(j) \cup {key}) = Cardinality(SignedBy(j)) + 1
      BY <2>1, <3>2, FS_AddElement
    <3> QED
      BY <2>1, <2>2, <2>4, <3>1, <3>2, <3>3, <1>4
  <2> QED
    BY <2>3, <2>4
<1> QED
  BY <1>8, <1>9, <1>10, <1>11, <1>12 DEF VotingInductiveInv

-----------------------------------------------------------------------------
(* All steps *)

\* Roots that are added only enlarge electorates.
LEMMA ElectorateGrows ==
  ASSUME NEW p, HashAdded \subseteq HashAdded'
  PROVE  Electorate(p) \subseteq Electorate(p)'
  BY DEF Electorate

\* A step of the ZKIDP contract leaves the petitions alone.
LEMMA ContractStepInv ==
  ASSUME VotingInductiveInv, [ZKIDPNext]_zkidpVars, HashAdded \subseteq HashAdded',
         UNCHANGED registryVars
  PROVE  VotingInductiveInv'
<1>1. ZKIDPInductiveInv'
  BY ZKIDPNextInv DEF VotingInductiveInv
<1>2. petitions' = petitions /\ petitionId' = petitionId
  BY DEF registryVars
<1>3. VotingTypeOK' /\ IdsAreNumbered'
  BY <1>1, <1>2
  DEF VotingInductiveInv, VotingTypeOK, IdsAreNumbered, ZKIDPInductiveInv
<1>4. MarksAreOwn'
  BY <1>2 DEF VotingInductiveInv, MarksAreOwn, HPers
<1>5. MarksAreCounted'
  <2> SUFFICES ASSUME NEW i \in DOMAIN petitions
               PROVE  (/\ SignedBy(i) \subseteq Electorate(petitions[i].period)
                       /\ IsFiniteSet(SignedBy(i))
                       /\ petitions[i].signers = Cardinality(SignedBy(i)))'
    BY <1>2 DEF MarksAreCounted
  <2>1. SignedBy(i)' = SignedBy(i)
    BY <1>2 DEF SignedBy, HPers
  <2>2. Electorate(petitions[i].period) \subseteq Electorate(petitions[i].period)'
    BY <1>2 DEF Electorate
  <2> QED
    BY <1>2, <2>1, <2>2 DEF VotingInductiveInv, MarksAreCounted
<1> QED
  BY <1>1, <1>3, <1>4, <1>5 DEF VotingInductiveInv

LEMMA VotingNextInv ==
  ASSUME VotingInductiveInv, [VotingNext]_votingVars
  PROVE  VotingInductiveInv'
<1>1. CASE VotingNewPeriod
  <2>1. ZKIDPNext /\ HashAdded' = HashAdded /\ UNCHANGED registryVars
    BY <1>1 DEF VotingNewPeriod, ZKIDPNewPeriod, ZKIDPNext
  <2> QED
    BY <2>1, ContractStepInv
<1>2. ASSUME NEW sender \in Accounts, NEW newOperator \in Accounts,
             VotingChangeOperator(sender, newOperator)
      PROVE  VotingInductiveInv'
  <2>1. ZKIDPNext /\ HashAdded' = HashAdded /\ UNCHANGED registryVars
    BY <1>2 DEF VotingChangeOperator, ZKIDPChangeOperator, ZKIDPNext
  <2> QED
    BY <2>1, ContractStepInv
<1>3. ASSUME NEW sender \in Accounts, NEW rt \in Roots, NEW p \in Periods,
             VotingSubmitHash(sender, rt, p)
      PROVE  VotingInductiveInv'
  <2>1. ZKIDPNext /\ HashAdded \subseteq HashAdded' /\ UNCHANGED registryVars
    BY <1>3 DEF VotingSubmitHash, SubmitHash, ZKIDPNext
  <2> QED
    BY <2>1, ContractStepInv
<1>4. ASSUME NEW name \in Names, NEW p \in 0 .. MaxPeriod, VotingCreatePetition(name, p)
      PROVE  VotingInductiveInv'
  BY <1>4, CreatePetitionInv
<1>5. ASSUME NEW i \in DOMAIN petitions, NEW iteration \in Slots,
             NEW identity \in HPersValues, Sign(i, iteration, identity)
      PROVE  VotingInductiveInv'
  BY <1>5, SignInv
<1>6. CASE UNCHANGED votingVars
  <2>1. UNCHANGED zkidpVars /\ HashAdded' = HashAdded /\ UNCHANGED registryVars
    BY <1>6 DEF votingVars, zkidpVars
  <2> QED
    BY <2>1, ContractStepInv
<1> QED
  BY <1>1, <1>2, <1>3, <1>4, <1>5, <1>6 DEF VotingNext

\* Every reachable state of the contracts satisfies the inductive invariant.
THEOREM VotingInvariance == VotingSpec => []VotingInductiveInv
<1>1. VotingInductiveInv /\ [VotingNext]_votingVars => VotingInductiveInv'
  BY VotingNextInv
<1> QED
  BY <1>1, VotingInitInv, PTL DEF VotingSpec

-----------------------------------------------------------------------------
(* What follows from the invariant *)

\* The count of a petition is the number of voters of its period that signed.
THEOREM CountsAreHonest == VotingSpec => []SignersCountVoters
<1>1. VotingInductiveInv => SignersCountVoters
  BY DEF VotingInductiveInv, MarksAreCounted, SignersCountVoters
<1> QED
  BY <1>1, VotingInvariance, PTL

\* A signature fits one petition only.
THEOREM SignaturesFitOnePetition == VotingSpec => []SignaturesUnlinkable
<1>1. VotingInductiveInv => SignaturesUnlinkable
  <2> SUFFICES ASSUME VotingInductiveInv,
                      NEW i \in DOMAIN petitions, NEW j \in DOMAIN petitions, i # j,
                      NEW x \in petitions[i].hasSigned, x \in petitions[j].hasSigned
               PROVE  FALSE
    BY DEF SignaturesUnlinkable
  <2>1. PICK k \in VoterKeys : x = HPers(petitions[i].id, k)
    BY DEF VotingInductiveInv, MarksAreOwn
  <2>2. PICK l \in VoterKeys : x = HPers(petitions[j].id, l)
    BY DEF VotingInductiveInv, MarksAreOwn
  <2>3. petitions[i].id = petitions[j].id
    BY <2>1, <2>2 DEF HPers
  <2> QED
    BY <2>3 DEF VotingInductiveInv, IdsAreNumbered
<1> QED
  BY <1>1, VotingInvariance, PTL

\* No petition is signed before its period.
THEOREM PetitionsWaitForTheirPeriod == VotingSpec => []NoSignatureAheadOfPeriod
<1>1. VotingInductiveInv => NoSignatureAheadOfPeriod
  <2> SUFFICES ASSUME VotingInductiveInv,
                      NEW i \in DOMAIN petitions, petitions[i].signers > 0
               PROVE  petitions[i].period <= now
    BY DEF NoSignatureAheadOfPeriod
  <2>1. SignedBy(i) # {}
    BY FS_EmptySet DEF VotingInductiveInv, MarksAreCounted
  <2>2. PICK e \in HashAdded : e.period = petitions[i].period
    BY <2>1 DEF VotingInductiveInv, MarksAreCounted, Electorate
  <2>3. e.period <= LogPeriod /\ LogPeriod <= now
    BY DEF VotingInductiveInv, ZKIDPInductiveInv, EventsMatchSlots, LiveSlots
  <2>4. e.period \in Nat /\ LogPeriod \in Nat /\ now \in Nat
    BY ResetCases
    DEF VotingInductiveInv, ZKIDPInductiveInv, ZKIDPTypeOK, IDPTypeOK, Periods
  <2> QED
    BY <2>2, <2>3, <2>4
<1> QED
  BY <1>1, VotingInvariance, PTL

\* A published key keeps its voting right until the period ends.
THEOREM VotingRightsAreKept == VotingSpec => []PublishedKeysCanSign
<1>1. VotingInductiveInv => PublishedKeysCanSign
  <2> SUFFICES ASSUME VotingInductiveInv,
                      NEW e \in HashAdded, NEW key \in Leaves[e.root],
                      NEW i \in DOMAIN petitions,
                      e.period = now, petitions[i].period = now,
                      key \notin SignedBy(i)
               PROVE  CanSign(i, e.iteration, HPers(petitions[i].id, key))
    BY DEF PublishedKeysCanSign
  <2>1. HashAvailable(e.iteration) /\ GetHash(e.iteration) = <<e.root, now>>
    BY CurrentRootsFromInv DEF VotingInductiveInv, CurrentRootsRetrievable
  <2>2. key \in VoterKeys
    BY LeavesAssumption DEF VotingInductiveInv, ZKIDPInductiveInv, ZKIDPTypeOK
  <2> QED
    BY <2>1, <2>2 DEF CanSign, NotSignedYet, SignedBy, Provable
<1> QED
  BY <1>1, VotingInvariance, PTL

-----------------------------------------------------------------------------
(* The contracts implement the ballot *)

LEMMA PromiseInit == VotingInit => Promise!BallotInit
  BY DEF VotingInit, ZKIDPInit, IDPInit, RegistryInit, Promise!BallotInit

\* The petitions seen as ballots.
BallotsOf == [i \in 1 .. Len(petitions) |->
                [period |-> petitions[i].period,
                 voted  |-> SignedBy(i),
                 count  |-> petitions[i].signers]]

AdmittedPairs == UNION {Leaves[e.root] \X {e.period} : e \in HashAdded}

LEMMA CreatePetitionOpens ==
  ASSUME VotingInductiveInv, NEW name \in Names, NEW p \in 0 .. MaxPeriod,
         VotingCreatePetition(name, p)
  PROVE  \E q \in PetitionPeriods : Promise!Open(q)
<1> DEFINE n == Len(petitions)
<1>0. CreatePetition(name, p) /\ UNCHANGED zkidpVars
  BY DEF VotingCreatePetition
<1>1. PICK q \in PetitionPeriods :
        /\ q >= now
        /\ petitions' = Append(petitions, [id        |-> <<n + 1, name>>,
                                           period    |-> q,
                                           hasSigned |-> {},
                                           signers   |-> 0])
        /\ petitionId' = n + 1
        /\ UNCHANGED <<now, operator>>
  BY <1>0, CreatePetitionEffect
<1> DEFINE new == [id |-> <<n + 1, name>>, period |-> q, hasSigned |-> {}, signers |-> 0]
           R == PetitionRecords(PetitionIds \X VoterKeys)
           ballot == [period |-> q, voted |-> {}, count |-> 0]
           B == [period : PetitionPeriods, voted : SUBSET VoterKeys, count : Nat]
<1>2. petitions \in Seq(R) /\ n \in Nat
  BY DEF VotingInductiveInv, VotingTypeOK
<1>3. new \in R
  BY <1>2 DEF PetitionRecords, PetitionIds
<1>4. /\ Len(petitions') = n + 1
      /\ petitions'[n + 1] = new
      /\ \A i \in 1 .. n : petitions'[i] = petitions[i]
  BY <1>1, <1>2, <1>3, AppendProperties
<1>5. BallotsOf \in [1 .. n -> B]
  <2> SUFFICES ASSUME NEW i \in 1 .. n
               PROVE  [period |-> petitions[i].period,
                       voted  |-> SignedBy(i),
                       count  |-> petitions[i].signers] \in B
    BY DEF BallotsOf
  <2>1. petitions[i] \in R
    BY <1>2
  <2>2. SignedBy(i) \in SUBSET VoterKeys
    BY DEF SignedBy
  <2> QED
    BY <2>1, <2>2 DEF PetitionRecords
<1>6. ballot \in B
  OBVIOUS
<1>7. BallotsOf' = [i \in 1 .. n + 1 |-> IF i = n + 1 THEN ballot ELSE BallotsOf[i]]
  <2>1. ASSUME NEW i \in 1 .. n
        PROVE  /\ petitions'[i] = petitions[i]
               /\ SignedBy(i)' = SignedBy(i)
    BY <1>4 DEF SignedBy, HPers
  <2>3. petitions'[n + 1].period = q /\ petitions'[n + 1].signers = 0
    BY <1>4
  <2>4. \A i \in 1 .. n : BallotsOf[i] = [period |-> petitions[i].period,
                                          voted  |-> SignedBy(i),
                                          count  |-> petitions[i].signers]
    BY DEF BallotsOf
  <2>5. BallotsOf' = [i \in 1 .. n + 1 |->
                        [period |-> petitions'[i].period,
                         voted  |-> SignedBy(i)',
                         count  |-> petitions'[i].signers]]
    BY <1>4 DEF BallotsOf
  <2>6. ASSUME NEW i \in 1 .. n + 1
        PROVE  [period |-> petitions'[i].period,
                voted  |-> SignedBy(i)',
                count  |-> petitions'[i].signers]
               = IF i = n + 1 THEN ballot ELSE BallotsOf[i]
    <3>1. CASE i = n + 1
      <4>1. SignedBy(i)' = {}
        BY <3>1, <1>4 DEF SignedBy
      <4> QED
        BY <3>1, <4>1, <2>3
    <3>2. CASE i \in 1 .. n
      BY <3>2, <2>1, <2>4, <1>2
    <3> QED
      BY <3>1, <3>2, <1>2
  <2> QED
    BY <2>5, <2>6
<1>8. BallotsOf' = Append(BallotsOf, ballot)
  BY <1>2, <1>5, <1>6, <1>7, AppendIsExtension
<1>9. UNCHANGED <<now, AdmittedPairs>>
  BY <1>0 DEF zkidpVars, AdmittedPairs
<1> QED
  BY <1>1, <1>8, <1>9 DEF Promise!Open, BallotsOf, AdmittedPairs

LEMMA SignVotes ==
  ASSUME VotingInductiveInv, NEW i \in DOMAIN petitions, NEW iteration \in Slots,
         NEW identity, Sign(i, iteration, identity)
  PROVE  \E key \in VoterKeys : Promise!Vote(i, key)
<1> DEFINE n == Len(petitions)
           R == PetitionRecords(PetitionIds \X VoterKeys)
<1>1. PICK key \in VoterKeys :
        /\ key \in Electorate(petitions[i].period)
        /\ key \notin SignedBy(i)
        /\ petitions' = [petitions EXCEPT
             ![i] = [petitions[i] EXCEPT
                       !.hasSigned = petitions[i].hasSigned
                                       \cup {HPers(petitions[i].id, key)},
                       !.signers = petitions[i].signers + 1]]
        /\ UNCHANGED <<zkidpVars, petitionId>>
  BY SignEffect
<1>2. petitions \in Seq(R) /\ n \in Nat /\ DOMAIN petitions = 1 .. n
  BY DEF VotingInductiveInv, VotingTypeOK
<1>3. petitions[i] \in R
  BY <1>2
<1>4. /\ petitions'[i].id = petitions[i].id
      /\ petitions'[i].period = petitions[i].period
      /\ petitions'[i].hasSigned = petitions[i].hasSigned \cup {HPers(petitions[i].id, key)}
      /\ petitions'[i].signers = petitions[i].signers + 1
  BY <1>1, <1>2, <1>3 DEF PetitionRecords
<1>5. \A j \in (1 .. n) \ {i} : petitions'[j] = petitions[j]
  BY <1>1, <1>2
<1>6. Len(petitions') = n
  BY <1>1, <1>2
<1>7. SignedBy(i)' = SignedBy(i) \cup {key}
  BY <1>4, HPersInjective DEF SignedBy, HPers
<1>8. ASSUME NEW j \in (1 .. n) \ {i}
      PROVE  SignedBy(j)' = SignedBy(j)
  BY <1>5 DEF SignedBy, HPers
<1>9. BallotsOf' = [BallotsOf EXCEPT ![i].voted = @ \cup {key}, ![i].count = @ + 1]
  <2> DEFINE B(j) == [period |-> petitions[j].period,
                      voted  |-> SignedBy(j),
                      count  |-> petitions[j].signers]
  <2>1. BallotsOf = [j \in 1 .. n |-> B(j)]
    BY DEF BallotsOf
  <2>2. BallotsOf' = [j \in 1 .. n |-> B(j)']
    BY <1>6 DEF BallotsOf
  <2>3. B(i)' = [B(i) EXCEPT !.voted = @ \cup {key}, !.count = @ + 1]
    <3>1. B(i)' = [period |-> petitions[i].period,
                   voted  |-> SignedBy(i) \cup {key},
                   count  |-> petitions[i].signers + 1]
      BY <1>4, <1>7
    <3> DEFINE lhs == [period |-> petitions[i].period,
                       voted  |-> SignedBy(i) \cup {key},
                       count  |-> petitions[i].signers + 1]
               rhs == [B(i) EXCEPT !.voted = @ \cup {key}, !.count = @ + 1]
               S   == [period : {petitions[i].period},
                       voted  : {SignedBy(i) \cup {key}},
                       count  : {petitions[i].signers + 1}]
    <3>2. lhs \in S /\ rhs \in S
      OBVIOUS
    <3>3. lhs = rhs
      BY <3>2
    <3> QED
      BY <3>1, <3>3
  <2>4. ASSUME NEW j \in (1 .. n) \ {i}
        PROVE  B(j)' = B(j)
    BY <1>5, <1>8
  <2> HIDE DEF B
  <2>5. i \in 1 .. n
    BY <1>2
  <2> QED
    BY <2>1, <2>2, <2>3, <2>4, <2>5
<1>10. <<key, petitions[i].period>> \in AdmittedPairs
  <2>1. PICK e \in HashAdded : e.period = petitions[i].period /\ key \in Leaves[e.root]
    BY <1>1 DEF Electorate
  <2> QED
    BY <2>1 DEF AdmittedPairs
<1>11. UNCHANGED <<now, AdmittedPairs>>
  BY <1>1 DEF zkidpVars, AdmittedPairs
<1>12. BallotsOf[i].period = petitions[i].period /\ BallotsOf[i].voted = SignedBy(i)
  BY <1>2 DEF BallotsOf
<1> QED
  BY <1>1, <1>9, <1>10, <1>11, <1>12 DEF Promise!Vote, BallotsOf, AdmittedPairs

LEMMA SubmitHashAdmits ==
  ASSUME VotingInductiveInv,
         NEW sender \in Accounts, NEW rt \in Roots, NEW p \in Periods,
         VotingSubmitHash(sender, rt, p)
  PROVE  Promise!Admit(Leaves[rt])
<1>1. PICK it \in Slots : HashAdded' = HashAdded \cup {Event(rt, now, it)} /\ now' = now
  BY SubmitHashEffect DEF VotingSubmitHash, VotingInductiveInv
<1>2. Event(rt, now, it).root = rt /\ Event(rt, now, it).period = now
  BY DEF Event
<1>3. AdmittedPairs' = AdmittedPairs \cup (Leaves[rt] \X {now})
  BY <1>1, <1>2 DEF AdmittedPairs
<1>4. petitions' = petitions /\ BallotsOf' = BallotsOf
  BY DEF VotingSubmitHash, registryVars, BallotsOf, SignedBy, HPers
<1> QED
  BY <1>1, <1>3, <1>4 DEF Promise!Admit, BallotsOf, AdmittedPairs

LEMMA VotingStepSimulation ==
  ASSUME VotingInductiveInv, [VotingNext]_votingVars
  PROVE  [Promise!BallotNext]_(Promise!ballotVars)
<1>1. CASE VotingNewPeriod
  <2>1. now' \in Nat /\ now' > now
    BY <1>1 DEF VotingNewPeriod, ZKIDPNewPeriod, NewPeriod, Periods
  <2>2. UNCHANGED <<AdmittedPairs, BallotsOf>>
    BY <1>1 DEF VotingNewPeriod, ZKIDPNewPeriod, registryVars, AdmittedPairs, BallotsOf,
                SignedBy, HPers
  <2>3. Promise!NewDay
    BY <2>1, <2>2 DEF Promise!NewDay, AdmittedPairs, BallotsOf
  <2> QED
    BY <2>3 DEF Promise!BallotNext
<1>2. ASSUME NEW sender \in Accounts, NEW newOperator \in Accounts,
             VotingChangeOperator(sender, newOperator)
      PROVE  UNCHANGED Promise!ballotVars
  <2>1. UNCHANGED <<now, AdmittedPairs, BallotsOf>>
    BY <1>2 DEF VotingChangeOperator, ZKIDPChangeOperator, ChangeOperator, registryVars,
                AdmittedPairs, BallotsOf, SignedBy, HPers
  <2> QED
    BY <2>1 DEF Promise!ballotVars, AdmittedPairs, BallotsOf
<1>3. ASSUME NEW sender \in Accounts, NEW rt \in Roots, NEW p \in Periods,
             VotingSubmitHash(sender, rt, p)
      PROVE  Promise!BallotNext
  <2>1. Leaves[rt] \in SUBSET VoterKeys
    BY LeavesAssumption
  <2> QED
    BY <1>3, <2>1, SubmitHashAdmits DEF Promise!BallotNext
<1>4. ASSUME NEW name \in Names, NEW p \in 0 .. MaxPeriod, VotingCreatePetition(name, p)
      PROVE  Promise!BallotNext
  BY <1>4, CreatePetitionOpens DEF Promise!BallotNext
<1>5. ASSUME NEW i \in DOMAIN petitions, NEW iteration \in Slots,
             NEW identity \in HPersValues, Sign(i, iteration, identity)
      PROVE  Promise!BallotNext
  <2>1. PICK key \in VoterKeys : Promise!Vote(i, key)
    BY <1>5, SignVotes
  <2>2. i \in DOMAIN BallotsOf
    BY DEF BallotsOf, VotingInductiveInv, VotingTypeOK
  <2> QED
    BY <2>1, <2>2 DEF Promise!BallotNext, BallotsOf
<1>6. CASE UNCHANGED votingVars
  BY <1>6 DEF votingVars, zkidpVars, registryVars, Promise!ballotVars, SignedBy, HPers
<1> QED
  BY <1>1, <1>2, <1>3, <1>4, <1>5, <1>6 DEF VotingNext

\* The zero-knowledge contracts keep the promise of the ballot.
THEOREM ZKVotingImplementsBallot == VotingSpec => ImplementsBallot
<1>1. VotingInductiveInv /\ [VotingNext]_votingVars
        => [Promise!BallotNext]_(Promise!ballotVars)
  BY VotingStepSimulation
<1> QED
  BY <1>1, PromiseInit, VotingInvariance, PTL
  DEF VotingSpec, ImplementsBallot, Promise!BallotSpec

=============================================================================
