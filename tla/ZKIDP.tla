------------------------------- MODULE ZKIDP -------------------------------
(***************************************************************************)
(* The identity-provider contract of the zero-knowledge mode               *)
(* (platform/contracts/IDP.sol, contract ZKIDP).  The operator publishes   *)
(* the roots of its Merkle trees in an array of SLOTS entries; a petition  *)
(* reads a root back by its slot, the "iteration".  The array is reused    *)
(* in every period: the first root of a period goes to slot 1 again, and   *)
(* slots not yet overwritten keep the roots of earlier periods.            *)
(*                                                                         *)
(* A call that reverts changes nothing and is a call that is not enabled.  *)
(***************************************************************************)
EXTENDS IDP, Sequences

CONSTANTS
  Roots,   \* Merkle roots the operator may publish
  NoRoot,  \* the zero word, what an unwritten slot holds
  SLOTS    \* length of pRoot and pRootForPeriod: 255 in the contract

\* With at most 255 slots the counter, a uint8, cannot overflow before the
\* array index is out of bounds.
ASSUME SlotsAssumption == SLOTS \in 1 .. 255
ASSUME NoRootAssumption == NoRoot \notin Roots

VARIABLES
  pLastIteration,  \* slot written last
  pRoot,           \* slot -> root
  pRootForPeriod,  \* slot -> period the root was submitted in
  HashAdded        \* the events emitted, as the chain's log keeps them

zkidpVars == <<now, operator, pLastIteration, pRoot, pRootForPeriod, HashAdded>>

Slots == 0 .. SLOTS - 1

Event(rt, p, it) == [root |-> rt, period |-> p, iteration |-> it]

\* The types of the variables; in particular the counter never leaves the
\* arrays it indexes, which no require but the access itself ensures
\* (submitHash, resetIterationCounterIfNeccessary).
ZKIDPTypeOK ==
  /\ IDPTypeOK
  /\ pLastIteration \in Slots
  /\ pRoot \in [Slots -> Roots \cup {NoRoot}]
  /\ pRootForPeriod \in [Slots -> 0 .. MaxPeriod]
  /\ HashAdded \subseteq [root : Roots, period : Periods, iteration : Slots]

ZKIDPInit ==
  /\ IDPInit
  /\ pLastIteration = 0
  /\ pRoot = [i \in Slots |-> NoRoot]
  /\ pRootForPeriod = [i \in Slots |-> 0]
  /\ HashAdded = {}

-----------------------------------------------------------------------------

\* Faulty variant: the counter is reset when the slot's period is not past.
ResetTooEarly ==
  IF pRootForPeriod[pLastIteration] <= now THEN 0 ELSE pLastIteration

\* Faulty variant: the counter is never reset.
ResetForgotten == pLastIteration

\* The counter after resetIterationCounterIfNeccessary.
IterationAfterReset ==
  IF pRootForPeriod[pLastIteration] < now THEN 0 ELSE pLastIteration

\* Faulty variant: the period of a reused slot is not written.
PeriodKept(it, p) ==
  IF pRootForPeriod[it] = 0 THEN [pRootForPeriod EXCEPT ![it] = p]
  ELSE pRootForPeriod

StampPeriod(it, p) == [pRootForPeriod EXCEPT ![it] = p]

\* The requires of submitHash, and the bounds check of the array access.
CanSubmitHash(sender, designatedPeriod) ==
  /\ sender = operator
  /\ designatedPeriod = now
  /\ IterationAfterReset + 1 < SLOTS

SubmitHash(sender, rt, designatedPeriod) ==
  LET it == IterationAfterReset + 1
  IN  /\ CanSubmitHash(sender, designatedPeriod)
      /\ pLastIteration' = it
      /\ pRoot' = [pRoot EXCEPT ![it] = rt]
      /\ pRootForPeriod' = StampPeriod(it, designatedPeriod)
      /\ HashAdded' = HashAdded \cup {Event(rt, designatedPeriod, it)}
      /\ UNCHANGED idpVars

\* getHash answers for a slot that has been written, and reverts otherwise.
HashAvailable(iteration) ==
  /\ iteration \in Slots
  /\ pRoot[iteration] # NoRoot
  /\ pRootForPeriod[iteration] # 0

GetHash(iteration) == <<pRoot[iteration], pRootForPeriod[iteration]>>

ZKIDPChangeOperator(sender, newOperator) ==
  /\ ChangeOperator(sender, newOperator)
  /\ UNCHANGED <<pLastIteration, pRoot, pRootForPeriod, HashAdded>>

ZKIDPNewPeriod ==
  /\ NewPeriod
  /\ UNCHANGED <<pLastIteration, pRoot, pRootForPeriod, HashAdded>>

ZKIDPNext ==
  \/ ZKIDPNewPeriod
  \/ \E sender \in Accounts :
       \/ \E newOperator \in Accounts : ZKIDPChangeOperator(sender, newOperator)
       \/ \E rt \in Roots, p \in Periods : SubmitHash(sender, rt, p)

ZKIDPSpec == ZKIDPInit /\ [][ZKIDPNext]_zkidpVars

-----------------------------------------------------------------------------
(* Properties *)

\* Every root published in the current period can be read back at the
\* iteration its event announced: reusing the slots of earlier periods never
\* takes a slot that a voter of the current period was told to use
\* (submitHash, resetIterationCounterIfNeccessary, getHash).
CurrentRootsRetrievable ==
  \A e \in HashAdded :
    e.period = now =>
      /\ HashAvailable(e.iteration)
      /\ GetHash(e.iteration) = <<e.root, e.period>>

\* A slot that can be read holds a root together with the very period that
\* root was published for at that slot, however often the slot was reused
\* (submitHash writes both arrays).
SlotsTraceToEvents ==
  \A i \in Slots :
    HashAvailable(i) => Event(pRoot[i], pRootForPeriod[i], i) \in HashAdded

\* Within a period an iteration names one root, so that the iteration the
\* server stores for a tree identifies it for as long as anyone may ask
\* (the counter of submitHash).
IterationNamesOneRoot ==
  \A e, f \in HashAdded :
    e.period = f.period /\ e.iteration = f.iteration => e = f

\* The array, the counter and the lazy reset implement the log of RootLog.
Log == INSTANCE RootLog WITH
  Capacity  <- SLOTS - 1,
  logPeriod <- pRootForPeriod[pLastIteration],
  log       <- [i \in 1 .. pLastIteration |-> pRoot[i]]

\* Seen through the slots up to the counter, the contract keeps a log that
\* only grows during a period and starts over with the first root of the
\* next (submitHash and resetIterationCounterIfNeccessary together).
ImplementsRootLog == Log!LogSpec

-----------------------------------------------------------------------------
(* The inductive invariant behind these properties *)

\* The period of the slot written last: the one the log belongs to.
LogPeriod == pRootForPeriod[pLastIteration]

\* Slot 0 is never written, so the counter's value 0 means "no log yet".
SlotZeroUnused ==
  /\ pRoot[0] = NoRoot
  /\ pRootForPeriod[0] = 0

\* The slots up to the counter belong to one period, which is not in the
\* future, and hold what was published in it.
LiveSlots ==
  /\ LogPeriod <= now
  /\ \A i \in 1 .. pLastIteration :
       /\ pRootForPeriod[i] = LogPeriod
       /\ LogPeriod # 0
       /\ pRoot[i] \in Roots

\* The slots above the counter are unwritten or left from earlier periods.
StaleSlots ==
  \A i \in Slots :
    i > pLastIteration =>
      /\ pRootForPeriod[i] = 0 <=> pRoot[i] = NoRoot
      /\ pRootForPeriod[i] # 0 => pRootForPeriod[i] < LogPeriod

\* Events are those of the log, which the slots still hold, or older.
EventsMatchSlots ==
  \A e \in HashAdded :
    /\ e.period <= LogPeriod
    /\ e.period = LogPeriod =>
         /\ e.iteration \in 1 .. pLastIteration
         /\ pRoot[e.iteration] = e.root

ZKIDPInductiveInv ==
  /\ ZKIDPTypeOK
  /\ SlotZeroUnused
  /\ LiveSlots
  /\ StaleSlots
  /\ EventsMatchSlots
  /\ SlotsTraceToEvents
  /\ IterationNamesOneRoot

=============================================================================
