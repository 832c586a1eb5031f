------------------------------ MODULE ZKVoting ------------------------------
(***************************************************************************)
(* The contracts of the zero-knowledge mode together: the ZKIDP that       *)
(* publishes roots, the registry, and the ZKPetition contracts             *)
(* (platform/contracts/Petition.sol, contract ZKPetition) whose sign()     *)
(* reads a root back from the ZKIDP and verifies a proof of the circuit    *)
(* in zk/stimmrechtsbeweis.zok against it.                                 *)
(*                                                                         *)
(* A private key stands for its public key too.  Hashes are injective, and *)
(* a proof exists exactly for inputs that satisfy the circuit.  Anyone may *)
(* send a transaction with a valid proof, so sign() has no sender.         *)
(***************************************************************************)
EXTENDS ZKIDP, Registry, FiniteSets

CONSTANTS
  VoterKeys,    \* private keys of voters
  Leaves   \* root -> the keys whose public keys are leaves of its tree

ASSUME LeavesAssumption == Leaves \in [Roots -> SUBSET VoterKeys]

votingVars == <<zkidpVars, registryVars>>

\* H_pers, the identity a key signs a petition with.
HPers(pid, key) == <<pid, key>>

\* The circuit: some key in the tree of the root has this H_pers.
Provable(rt, hpers, pid) ==
  \E key \in Leaves[rt] : hpers = HPers(pid, key)

VotingInit ==
  /\ ZKIDPInit
  /\ RegistryInit

-----------------------------------------------------------------------------

\* Faulty variant: the period of the root is compared with the clock, not
\* with the petition's period.
CanSignInRootsPeriod(i, iteration, identity) ==
  /\ NotSignedYet(i, identity)
  /\ HashAvailable(iteration)
  /\ GetHash(iteration)[2] = now
  /\ Provable(GetHash(iteration)[1], identity, petitions[i].id)

\* The requires of sign().
CanSign(i, iteration, identity) ==
  /\ NotSignedYet(i, identity)
  /\ HashAvailable(iteration)
  /\ GetHash(iteration)[2] = petitions[i].period
  /\ Provable(GetHash(iteration)[1], identity, petitions[i].id)

Sign(i, iteration, identity) ==
  /\ CanSign(i, iteration, identity)
  /\ petitions' = RecordSignature(i, identity)
  /\ UNCHANGED <<zkidpVars, petitionId>>

VotingSubmitHash(sender, rt, p) ==
  /\ SubmitHash(sender, rt, p)
  /\ UNCHANGED registryVars

VotingCreatePetition(name, period) ==
  /\ CreatePetition(name, period)
  /\ UNCHANGED zkidpVars

VotingNewPeriod ==
  /\ ZKIDPNewPeriod
  /\ UNCHANGED registryVars

VotingChangeOperator(sender, newOperator) ==
  /\ ZKIDPChangeOperator(sender, newOperator)
  /\ UNCHANGED registryVars

\* Identities a call of sign() may carry: the H_pers of any key with any
\* petition, as a proof made for one petition may be sent to another.
HPersValues == {HPers(petitions[j].id, key) : j \in DOMAIN petitions, key \in VoterKeys}

VotingNext ==
  \/ VotingNewPeriod
  \/ \E sender, newOperator \in Accounts : VotingChangeOperator(sender, newOperator)
  \/ \E sender \in Accounts, rt \in Roots, p \in Periods : VotingSubmitHash(sender, rt, p)
  \/ \E name \in Names, p \in 0 .. MaxPeriod : VotingCreatePetition(name, p)
  \/ \E i \in DOMAIN petitions, iteration \in Slots, identity \in HPersValues :
       Sign(i, iteration, identity)

VotingSpec == VotingInit /\ [][VotingNext]_votingVars

-----------------------------------------------------------------------------
(* Properties *)

\* The types of the variables.
VotingTypeOK ==
  /\ ZKIDPTypeOK
  /\ petitionId \in Nat
  /\ petitions \in Seq(PetitionRecords(PetitionIds \X VoterKeys))

\* The keys of the trees published for a period: the period's electorate.
Electorate(p) == UNION {Leaves[e.root] : e \in {f \in HashAdded : f.period = p}}

\* The keys that have signed petition i.
SignedBy(i) == {key \in VoterKeys : HPers(petitions[i].id, key) \in petitions[i].hasSigned}

\* The contracts keep the promise of Ballot: only keys published for the
\* petition's own period sign it, each once, and every signature is counted
\* (submitHash, getHash, createPetition and sign together).
Promise == INSTANCE Ballot WITH
  Voters          <- VoterKeys,
  PetitionPeriods <- PetitionPeriods,
  Timely          <- FALSE,
  admitted        <- UNION {Leaves[e.root] \X {e.period} : e \in HashAdded},
  ballots         <- [i \in 1 .. Len(petitions) |->
                 [period |-> petitions[i].period,
                  voted  |-> SignedBy(i),
                  count  |-> petitions[i].signers]]

ImplementsBallot == Promise!BallotSpec

\* A petition's count is the number of different voters in the electorate of
\* its period that signed it (sign()'s mark and counter).
SignersCountVoters ==
  \A i \in DOMAIN petitions :
    /\ SignedBy(i) \subseteq Electorate(petitions[i].period)
    /\ petitions[i].signers = Cardinality(SignedBy(i))

\* No identity appears on two petitions, even of the same name: a signature
\* cannot be carried over to another petition, nor can the signatures of a
\* voter on two petitions be matched (createPetition's counter in the id).
SignaturesUnlinkable ==
  \A i, j \in DOMAIN petitions :
    i # j => petitions[i].hasSigned \cap petitions[j].hasSigned = {}

\* Nobody signs a petition before its period begins, though the petition is
\* created earlier (createPetition allows future periods; the roots a
\* signature needs cannot be submitted ahead of time).
NoSignatureAheadOfPeriod ==
  \A i \in DOMAIN petitions : petitions[i].signers > 0 => petitions[i].period <= now

\* Once a tree is published nobody can take the voting right of its keys
\* back before the period ends: the iteration of its event lets each of them
\* sign any petition of the period it has not signed (README.md:21; getHash
\* and sign() while later roots are submitted).
PublishedKeysCanSign ==
  \A e \in HashAdded : \A key \in Leaves[e.root] : \A i \in DOMAIN petitions :
    /\ e.period = now
    /\ petitions[i].period = now
    /\ key \notin SignedBy(i)
    => CanSign(i, e.iteration, HPers(petitions[i].id, key))

-----------------------------------------------------------------------------
(* The inductive invariant behind these properties *)

\* The counter is the number of petitions, and every id holds its own value
\* of the counter.
IdsAreNumbered ==
  /\ petitionId = Len(petitions)
  /\ \A i \in DOMAIN petitions : petitions[i].id[1] = i

\* What is marked on a petition are identities made for it.
MarksAreOwn ==
  \A i \in DOMAIN petitions : \A x \in petitions[i].hasSigned :
    \E key \in VoterKeys : x = HPers(petitions[i].id, key)

\* Only voters of the petition's period signed, and the counter counts them.
MarksAreCounted ==
  \A i \in DOMAIN petitions :
    /\ SignedBy(i) \subseteq Electorate(petitions[i].period)
    /\ IsFiniteSet(SignedBy(i))
    /\ petitions[i].signers = Cardinality(SignedBy(i))

VotingInductiveInv ==
  /\ ZKIDPInductiveInv
  /\ VotingTypeOK
  /\ IdsAreNumbered
  /\ MarksAreOwn
  /\ MarksAreCounted

=============================================================================
