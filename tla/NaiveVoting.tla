---------------------------- MODULE NaiveVoting ----------------------------
(***************************************************************************)
(* The contracts of the naive mode together: NaiveIDP                      *)
(* (platform/contracts/IDP.sol), which keeps a table of the accounts that  *)
(* may vote in a period, the registry, and the NaivePetition contracts     *)
(* (platform/contracts/Petition.sol), which accounts sign themselves.  The *)
(* steps are taken by NaiveHandler, with the server that enters rights.    *)
(***************************************************************************)
EXTENDS Registry, FiniteSets

VARIABLE
  authorized   \* pairs <<account, period>> that are set in the table

naiveVars == <<idpVars, registryVars, authorized>>

NaiveInit ==
  /\ IDPInit
  /\ RegistryInit
  /\ authorized = {}

-----------------------------------------------------------------------------

\* Faulty variant: voting rights may be entered for any period.
CanSubmitForAnyPeriod(sender, designatedPeriod) == sender = operator

\* The requires of submitVotingRight.
CanSubmitVotingRight(sender, designatedPeriod) ==
  /\ sender = operator
  /\ designatedPeriod = now

SubmitVotingRight(sender, toAllow, designatedPeriod) ==
  /\ CanSubmitVotingRight(sender, designatedPeriod)
  /\ authorized' = authorized \cup {<<toAllow, designatedPeriod>>}
  /\ UNCHANGED <<idpVars, registryVars>>

ValidateAuthorized(candidate, period) == <<candidate, period>> \in authorized

\* The requires of sign().
NaiveCanSign(sender, i) ==
  /\ NotSignedYet(i, sender)
  /\ petitions[i].period = now
  /\ ValidateAuthorized(sender, petitions[i].period)

NaiveSign(sender, i) ==
  /\ NaiveCanSign(sender, i)
  /\ petitions' = RecordSignature(i, sender)
  /\ UNCHANGED <<idpVars, petitionId, authorized>>

NaiveCreatePetition(name, period) ==
  /\ CreatePetition(name, period)
  /\ UNCHANGED authorized

NaiveNewPeriod ==
  /\ NewPeriod
  /\ UNCHANGED <<registryVars, authorized>>

NaiveChangeOperator(sender, newOperator) ==
  /\ ChangeOperator(sender, newOperator)
  /\ UNCHANGED <<registryVars, authorized>>

-----------------------------------------------------------------------------
(* Properties *)

\* The types of the variables.
NaiveTypeOK ==
  /\ IDPTypeOK
  /\ petitionId \in Nat
  /\ authorized \subseteq Accounts \X Periods
  /\ petitions \in Seq(PetitionRecords(Accounts))

\* The naive contracts keep the promise of Ballot in its strict form: only
\* accounts entered for the petition's period sign it, each once, and only
\* while that period lasts (submitVotingRight, createPetition, sign).
NaivePromise == INSTANCE Ballot WITH
  Voters          <- Accounts,
  PetitionPeriods <- PetitionPeriods,
  Timely          <- TRUE,
  admitted        <- authorized,
  ballots         <- [i \in 1 .. Len(petitions) |->
                 [period |-> petitions[i].period,
                  voted  |-> petitions[i].hasSigned,
                  count  |-> petitions[i].signers]]

ImplementsTimelyBallot == NaivePromise!BallotSpec

=============================================================================
