------------------------------ MODULE Registry ------------------------------
(***************************************************************************)
(* The Registry contract (platform/contracts/Registry.sol), which creates  *)
(* petitions, and the part every petition contract shares                  *)
(* (platform/contracts/Petition.sol): its id, the period it is assigned    *)
(* to, who has signed it and the count of its signers.                     *)
(*                                                                         *)
(* How a signature is authorised differs between the modes and is left to  *)
(* the modules that extend this one.  hide() is callable by the registry   *)
(* only, which never calls it: it is left out.                             *)
(***************************************************************************)
EXTENDS IDP, Sequences

CONSTANTS
  Names,         \* petition names
  MaxPetitions   \* bound on the petitions created

ASSUME MaxPetitionsAssumption == MaxPetitions \in Nat

VARIABLES
  petitionId,    \* counter of Registry
  petitions      \* pPetitions: one record per petition contract

registryVars == <<petitionId, petitions>>

\* Faulty variant: the counter is left out of the hash.
IdFromName(n, name) == <<0, name>>

\* The hash of counter and name: equal only for equal arguments.
InternalId(n, name) == <<n, name>>

PetitionIds == Nat \X Names

\* Petitions may be assigned to the period after the last one.
PetitionPeriods == 1 .. MaxPeriod + 1

\* The states of a petition contract that marks members of Identity.
PetitionRecords(Identity) ==
  [id        : PetitionIds,
   period    : PetitionPeriods,
   hasSigned : SUBSET Identity,
   signers   : Nat]

RegistryInit ==
  /\ petitionId = 0
  /\ petitions = << >>

\* The require of createPetition.
PeriodAllowed(period) == period = 0 \/ period >= now

\* A period of 0 stands for the next one.
AssignedPeriod(period) == IF period = 0 THEN now + 1 ELSE period

CreatePetition(name, period) ==
  /\ PeriodAllowed(period)
  /\ Len(petitions) < MaxPetitions
  /\ petitionId' = petitionId + 1
  /\ petitions' = Append(petitions, [id        |-> InternalId(petitionId + 1, name),
                                     period    |-> AssignedPeriod(period),
                                     hasSigned |-> {},
                                     signers   |-> 0])
  /\ UNCHANGED idpVars

-----------------------------------------------------------------------------
(* The common part of sign() *)

\* Faulty variant: a second signature of an identity is not refused.
SignsAgain(i, identity) == TRUE

NotSignedYet(i, identity) == identity \notin petitions[i].hasSigned

RecordSignature(i, identity) ==
  [petitions EXCEPT ![i].hasSigned = @ \cup {identity}, ![i].signers = @ + 1]

=============================================================================
