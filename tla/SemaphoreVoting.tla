-------------------------- MODULE SemaphoreVoting --------------------------
(***************************************************************************)
(* The contracts of the Semaphore mode together: SemaphoreIDP              *)
(* (platform/contracts/IDP.sol) and the registry with its                  *)
(* SemaphorePetition contracts (platform/contracts/Petition.sol).          *)
(*                                                                         *)
(* The group and the nullifiers are kept by the Semaphore contract, an     *)
(* external library that SemaphoreIDP creates and owns: members are only   *)
(* appended, a batch with a member twice or with a number that cannot be a *)
(* leaf reverts, a root is accepted until it is replaced and for some time *)
(* after, and a nullifier (the hash of petition id and secret) only once.  *)
(* A root stands for the sequence of members it is computed from, an       *)
(* identity commitment for its secret.                                     *)
(*                                                                         *)
(* The period of this mode lasts ten years: the clock stands still.        *)
(***************************************************************************)
EXTENDS Registry, SequencesExt

CONSTANT Leaves   \* what may be a leaf: not 0, and of the field of the proofs

VARIABLES
  members,      \* the group, in the order of its leaves
  roots,        \* the groups whose roots are accepted
  nullifiers    \* pairs <<petition id, identity commitment>>

semaphoreVars == <<idpVars, registryVars, members, roots, nullifiers>>

SemaphoreInit ==
  /\ IDPInit
  /\ RegistryInit
  /\ members = << >>
  /\ roots = {}
  /\ nullifiers = {}

-----------------------------------------------------------------------------

\* The conditions of addMembers, those of the library included.
CanAddMembers(sender, batch) ==
  /\ sender = operator
  /\ Len(batch) > 0 /\ ToSet(batch) \subseteq Leaves
  /\ IsInjective(members \o batch)

AddMembers(sender, batch) ==
  /\ CanAddMembers(sender, batch)
  /\ members' = members \o batch
  /\ roots' = roots \cup {members'}
  /\ UNCHANGED <<idpVars, registryVars, nullifiers>>

\* A replaced root gets too old.
ExpireRoot ==
  /\ \E root \in roots \ {members} : roots' = roots \ {root}
  /\ UNCHANGED <<idpVars, registryVars, members, nullifiers>>

\* validateProof: the proof was made for the petition's id as its scope.
SemaphoreCanSign(i, commitment, group) ==
  /\ group \in roots
  /\ commitment \in ToSet(group)
  /\ <<petitions[i].id, commitment>> \notin nullifiers

SemaphoreSign(i, commitment, group) ==
  /\ SemaphoreCanSign(i, commitment, group)
  /\ nullifiers' = nullifiers \cup {<<petitions[i].id, commitment>>}
  /\ petitions' = [petitions EXCEPT ![i].signers = @ + 1]
  /\ UNCHANGED <<idpVars, petitionId, members, roots>>

SemaphoreCreatePetition(name, period) ==
  /\ CreatePetition(name, period)
  /\ UNCHANGED <<members, roots, nullifiers>>

-----------------------------------------------------------------------------
(* Properties *)

\* The types of the variables.
SemaphoreTypeOK ==
  /\ IDPTypeOK
  /\ petitionId \in Nat
  /\ members \in Seq(Leaves) /\ IsInjective(members)
  /\ roots \subseteq Seq(Leaves)
  /\ nullifiers \subseteq PetitionIds \X Leaves
  /\ petitions \in Seq(PetitionRecords({}))

\* The count of a petition is the number of members that signed it, each of
\* them once, and no signature of one petition stands in the way of another
\* (the scope of validateProof, the counter in the id).
SemaphoreSignersCountMembers ==
  \A i \in DOMAIN petitions :
    LET signed == {n[2] : n \in {m \in nullifiers : m[1] = petitions[i].id}}
    IN  /\ signed \subseteq ToSet(members)
        /\ petitions[i].signers = Cardinality(signed)

=============================================================================
