----------------------------- MODULE PSSHandler -----------------------------
(***************************************************************************)
(* The mode of pseudonymous signatures from end to end: class              *)
(* PssProofHandler (idp/src/proof.ts) with its database, the registry and  *)
(* the PSSPetition contracts (platform/contracts/Petition.sol), and the    *)
(* clients (client/src/provider.ts).                                       *)
(*                                                                         *)
(* The server makes the secret key of a client itself when it handles the  *)
(* registration, and stores it as the proof of the client's row.  The      *)
(* interval task has nothing to do.  A signature is valid if it was made   *)
(* with a key of the group manager for the petition's id, and its          *)
(* pseudonym is determined by the key; the curve and the verifier are      *)
(* external.  The period of this mode lasts ten years: the clock stands    *)
(* still.                                                                  *)
(***************************************************************************)
EXTENDS RowRegistration, Registry

CONSTANT MaxCrashes   \* bound on kills of the process

VARIABLES
  proofs,    \* column proof of idp_pubkey_in_tree: the key of an identity
  clients,   \* the key that /proof gave the owner of a token
  crashes

pssVars == <<rowVars, idpVars, registryVars, proofs, clients, crashes>>

\* registration.period = 1
ThePeriod == 1

\* new_icc draws a key that no other request draws.
NewKey(r) == r

PSSInit ==
  /\ RowsInit
  /\ IDPInit
  /\ RegistryInit
  /\ proofs = [identity \in Identities |-> None]
  /\ clients = [r \in Tokens |-> None]
  /\ crashes = 0

-----------------------------------------------------------------------------
(* POST /register *)

\* Faulty variant: a proof that is there is replaced.
StoreProofAnyway(r, identity) ==
  proofs' = [proofs EXCEPT ![identity] = NewKey(r)]

\* The proof is stored with its row or, like the row, refused.
StoreProof(r, identity) ==
  proofs' = IF HasProof(identity) THEN proofs ELSE [proofs EXCEPT ![identity] = NewKey(r)]

PSSInsertProofRow(r) ==
  /\ requests[r].state = "proof"
  /\ InsertProofs(requests[r].reg.pubkey, {requests[r].reg.pubkey})
  /\ StoreProof(r, requests[r].reg.pubkey)
  /\ Moves(r, "update")
  /\ UNCHANGED <<idp_pubkeys, idp_tree_hashes>>

\* Faulty variant: the tree of the request is not known any more.
UpdateNothing(r) == UNCHANGED idp_tree_hashes

UpdateOwnTree(r) == UpdateTreeWithIteration(requests[r].reg.pubkey, 1)

MarkIncluded(r) ==
  /\ requests[r].state = "update"
  /\ UpdateOwnTree(r)
  /\ Closes(r, "accepted")
  /\ UNCHANGED <<idp_pubkeys, idp_pubkey_in_tree, proofs>>

\* The identity is public key and tree of its own registration.
PSSArrive(r) ==
  \E identity \in Identities :
    Arrive(r, [identity |-> identity, pubkey |-> identity, period |-> ThePeriod])

PSSRegister(r) ==
  \/ (Check(r) \/ InsertPubkey(r) \/ InsertTreeRow(r)) /\ UNCHANGED proofs
  \/ PSSInsertProofRow(r)
  \/ MarkIncluded(r)

Crash ==
  /\ crashes < MaxCrashes
  /\ crashes' = crashes + 1
  /\ RequestsLost
  /\ UNCHANGED <<databaseVars, idpVars, registryVars, proofs, clients>>

-----------------------------------------------------------------------------
(* Clients *)

\* What /proof answers the owner of a token with 200.
KeysServed(r) == {proofs[info.pubkey] : info \in ProofInfo(r)}

\* The client that got the answer to its registration asks for its key.
Obtain(r) ==
  /\ requests[r].state = "accepted" /\ clients[r] = None
  /\ \E key \in KeysServed(r) : clients' = [clients EXCEPT ![r] = key]
  /\ UNCHANGED <<rowVars, idpVars, registryVars, proofs, crashes>>

\* The pseudonym of a key in the sector of the registry, the same in each of
\* its petitions.
Pseudonym(key) == <<"sector", key>>

\* sign() of the contract.
PetitionSign(i, pseudonym) ==
  /\ NotSignedYet(i, pseudonym)
  /\ petitions' = RecordSignature(i, pseudonym)

\* The client makes a signature with its key and sends it.
PSSSign(r, i) ==
  /\ clients[r] # None
  /\ PetitionSign(i, Pseudonym(clients[r]))
  /\ UNCHANGED <<rowVars, idpVars, petitionId, proofs, clients, crashes>>

-----------------------------------------------------------------------------

PSSCreatePetition ==
  /\ \E name \in Names, p \in 0 .. MaxPeriod : CreatePetition(name, p)
  /\ UNCHANGED <<rowVars, proofs, clients, crashes>>

HandleRequest(r) ==
  PSSRegister(r) /\ UNCHANGED <<idpVars, registryVars, clients, crashes>>

PSSNext ==
  \/ \E r \in Tokens :
       \/ PSSArrive(r) /\ UNCHANGED <<idpVars, registryVars, proofs, clients, crashes>>
       \/ HandleRequest(r)
       \/ Obtain(r)
       \/ \E i \in DOMAIN petitions : PSSSign(r, i)
  \/ Crash
  \/ PSSCreatePetition

PSSSpec == PSSInit /\ [][PSSNext]_pssVars

\* Every query of a request that is being handled returns.
PSSFairSpec == PSSSpec /\ \A r \in Tokens : WF_pssVars(HandleRequest(r))

-----------------------------------------------------------------------------
(* Properties *)

\* The types of the variables.
PSSTypeOK ==
  /\ IDPTypeOK
  /\ petitionId \in Nat
  /\ petitions \in Seq(PetitionRecords({Pseudonym(r) : r \in Tokens}))
  /\ idp_pubkeys \subseteq
       [pubkey : Identities, identity : Identities, period : {ThePeriod}, token : Tokens]
  /\ idp_tree_hashes \subseteq [hash : Identities, iteration : {NULL, 1}, period : {ThePeriod}]
  /\ idp_pubkey_in_tree \subseteq [hash : Identities, pubkey : Identities]
  /\ proofs \in [Identities -> Tokens \cup {None}]
  /\ clients \in [Tokens -> Tokens \cup {None}]

\* However registrations of an identity interleave, and whenever the process
\* is killed, the count of a petition never exceeds the number of registered
\* identities, and never counts one twice: no two clients hold different keys
\* of one identity (isRegistered does not prevent two requests from being
\* stored in turns; the primary keys must).
OneSignaturePerIdentity ==
  /\ \A i \in DOMAIN petitions :
       petitions[i].signers <= Cardinality({row.identity : row \in idp_pubkeys})
  /\ \A p, q \in {row \in idp_pubkeys : clients[row.token] # None} :
       p.identity = q.identity <=> clients[p.token] = clients[q.token]

\* The server keeps the promise of IdentityProvider.
Provider == INSTANCE IdentityProvider WITH
  Evidence  <- Tokens,
  raced     <- {},
  rows      <- idp_pubkeys,
  answers   <- [r \in Tokens |->
                 {[pubkey   |-> info.pubkey,
                   period   |-> info.period,
                   evidence |-> proofs[info.pubkey]] : info \in ProofInfo(r)}]

\* However many requests of a person are handled at the same time, one is
\* stored, and the key that /proof gave out for it is the one it gives out ever
\* after: a client that lost it gets the same pseudonym again (the refused
\* INSERT of a second request, with its own key, must not replace it).
ImplementsProvider == Provider!ProviderSpec

\* Unless the process is killed, a request whose row is stored finally has a
\* key, even if its tree or its proof was stored by another request of the
\* identity (register: five statements in five transactions).
StoredRegistrationsServed ==
  \A r \in Tokens :
    (\E row \in idp_pubkeys : row.token = r) ~> crashes > 0 \/ KeysServed(r) # {}

=============================================================================
