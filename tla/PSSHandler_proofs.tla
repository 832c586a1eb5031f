------------------------- MODULE PSSHandler_proofs -------------------------
(***************************************************************************)
(* Proofs about PSSHandler: however registrations interleave and whenever  *)
(* the process is killed, the server keeps the promise of IdentityProvider *)
(* and nobody is counted twice, for every number of requests, identities   *)
(* and petitions.                                                          *)
(***************************************************************************)
EXTENDS PSSHandler, FiniteSetTheorems, SequenceTheorems, TLAPS

-----------------------------------------------------------------------------
(* The inductive invariant *)

InHand == {"check", "pubkey", "tree", "proof", "update"}

States == InHand \cup {"new", "accepted", "rejected", "lost"}

Claims == [identity : Identities, pubkey : Identities, period : {ThePeriod}]

RequestsTypeOK ==
  /\ requests \in [Tokens -> [state : States, reg : Claims \cup {None}]]
  /\ \A r \in Tokens : requests[r].state \in InHand =>
       requests[r].reg \in Claims /\ requests[r].reg.pubkey = requests[r].reg.identity

\* What the five statements of register have left behind so far.
RequestFits(r) ==
  /\ requests[r].state \in {"new", "check", "pubkey"} =>
       \A row \in idp_pubkeys : row.token # r
  /\ requests[r].state \in {"new", "check", "pubkey", "tree", "proof"} =>
       \A i \in Identities : proofs[i] # NewKey(r)
  /\ requests[r].state \in {"tree", "proof", "update"} =>
       \E row \in idp_pubkeys : row.pubkey = requests[r].reg.pubkey
  /\ requests[r].state = "update" => HasProof(requests[r].reg.pubkey)

RequestsFit == \A r \in Tokens : RequestFits(r)

\* Identity, public key and token of a row determine each other.
RowsFit ==
  /\ IsFiniteSet(idp_pubkeys)
  /\ \A p \in idp_pubkeys : p.pubkey = p.identity
  /\ \A p, q \in idp_pubkeys : p.token = q.token \/ p.pubkey = q.pubkey => p = q

\* A tree has one row, and an iteration only if its proof is stored.
TreesFit ==
  /\ \A s, t \in idp_tree_hashes : s.hash = t.hash => s = t
  /\ \A t \in idp_tree_hashes : t.iteration # NULL => HasProof(t.hash)

\* The proof of an identity is stored with its row, and is a key of its own.
ProofsFit ==
  /\ \A row \in idp_pubkey_in_tree :
       row.hash = row.pubkey /\ \E p \in idp_pubkeys : p.pubkey = row.pubkey
  /\ \A i \in Identities : proofs[i] # None <=> HasProof(i)
  /\ \A i, j \in Identities : proofs[i] # None /\ proofs[i] = proofs[j] => i = j

\* A client holds the key of the row that was stored for its request.
ClientsFit ==
  \A r \in Tokens : clients[r] # None =>
    \E row \in idp_pubkeys : row.token = r /\ clients[r] = proofs[row.pubkey]

\* The marks on a petition are pseudonyms of keys of registered identities.
MarksFit ==
  \A i \in DOMAIN petitions :
    /\ IsFiniteSet(petitions[i].hasSigned)
    /\ petitions[i].signers = Cardinality(petitions[i].hasSigned)
    /\ \A mark \in petitions[i].hasSigned :
         \E row \in idp_pubkeys : /\ proofs[row.pubkey] # None
                                  /\ mark = Pseudonym(proofs[row.pubkey])

PSSInductiveInv ==
  /\ PSSTypeOK
  /\ RequestsTypeOK
  /\ RequestsFit
  /\ RowsFit
  /\ TreesFit
  /\ ProofsFit
  /\ ClientsFit
  /\ MarksFit

LEMMA PSSInitInv == PSSInit => PSSInductiveInv
<1> SUFFICES ASSUME PSSInit PROVE PSSInductiveInv
  OBVIOUS
<1> USE DEF PSSInit, RowsInit, DatabaseInit, IDPInit, RegistryInit
<1>1. PSSTypeOK
  BY PeriodAssumption, EmptySeq
  DEF PSSTypeOK, IDPTypeOK, Periods
<1>2. RequestsTypeOK
  BY DEF RequestsTypeOK, States, InHand
<1>3. RequestsFit
  BY RowsAssumption DEF RequestsFit, RequestFits, NewKey
<1>4. RowsFit /\ TreesFit
  BY FS_EmptySet DEF RowsFit, TreesFit
<1>5. ProofsFit
  BY DEF ProofsFit, HasProof
<1>6. ClientsFit /\ MarksFit
  BY DEF ClientsFit, MarksFit
<1> QED
  BY <1>1, <1>2, <1>3, <1>4, <1>5, <1>6 DEF PSSInductiveInv

-----------------------------------------------------------------------------
(* The steps of a registration *)

\* Rows are never deleted and keys never replaced, so what clients hold and
\* what is marked on petitions keeps its meaning.
LEMMA HoldersKeepKeys ==
  ASSUME PSSInductiveInv,
         idp_pubkeys \subseteq idp_pubkeys',
         \A i \in Identities : proofs[i] # None => proofs'[i] = proofs[i],
         UNCHANGED <<clients, petitions>>
  PROVE  ClientsFit' /\ MarksFit'
<1>1. \A row \in idp_pubkeys : row.pubkey \in Identities
  BY DEF PSSInductiveInv, PSSTypeOK
<1>2. ClientsFit'
  BY <1>1 DEF PSSInductiveInv, ClientsFit
<1>3. MarksFit'
  <2> SUFFICES ASSUME NEW i \in DOMAIN petitions, NEW mark \in petitions[i].hasSigned
               PROVE  \E row \in idp_pubkeys' : /\ proofs'[row.pubkey] # None
                                                /\ mark = Pseudonym(proofs'[row.pubkey])
    BY DEF PSSInductiveInv, MarksFit, Pseudonym
  <2>1. PICK row \in idp_pubkeys :
          proofs[row.pubkey] # None /\ mark = Pseudonym(proofs[row.pubkey])
    BY DEF PSSInductiveInv, MarksFit
  <2> QED
    BY <1>1, <2>1
<1> QED
  BY <1>2, <1>3

LEMMA ArriveInv ==
  ASSUME PSSInductiveInv, NEW r \in Tokens, PSSArrive(r),
         UNCHANGED <<idpVars, registryVars, proofs, clients, crashes>>
  PROVE  PSSInductiveInv'
<1>1. PICK identity \in Identities :
        Arrive(r, [identity |-> identity, pubkey |-> identity, period |-> ThePeriod])
  BY DEF PSSArrive
<1> DEFINE claim == [identity |-> identity, pubkey |-> identity, period |-> ThePeriod]
<1>2. /\ requests' = [requests EXCEPT ![r] = [state |-> "check", reg |-> claim]]
      /\ requests[r].state = "new"
      /\ UNCHANGED <<databaseVars, idpVars, registryVars, proofs, clients>>
  BY <1>1 DEF Arrive
<1>3. PSSTypeOK'
  BY <1>2 DEF PSSInductiveInv, PSSTypeOK, IDPTypeOK, databaseVars, idpVars, registryVars
<1>4. RequestsTypeOK'
  BY <1>2 DEF PSSInductiveInv, RequestsTypeOK, Claims, States, InHand
<1>5. RequestsFit'
  BY <1>2 DEF PSSInductiveInv, RequestsTypeOK, RequestsFit, RequestFits, NewKey,
         databaseVars, HasProof
<1>6. RowsFit' /\ TreesFit' /\ ProofsFit'
  BY <1>2 DEF PSSInductiveInv, RowsFit, TreesFit, ProofsFit, HasProof, databaseVars
<1>7. ClientsFit' /\ MarksFit'
  BY <1>2, HoldersKeepKeys DEF databaseVars, registryVars
<1> QED
  BY <1>3, <1>4, <1>5, <1>6, <1>7 DEF PSSInductiveInv

LEMMA CheckInv ==
  ASSUME PSSInductiveInv, NEW r \in Tokens, Check(r),
         UNCHANGED <<idpVars, registryVars, proofs, clients>>
  PROVE  PSSInductiveInv'
<1>1. /\ \/ requests' = [requests EXCEPT ![r] = [state |-> "rejected", reg |-> None]]
         \/ requests' = [requests EXCEPT ![r].state = "pubkey"]
      /\ requests[r].state = "check"
      /\ UNCHANGED <<databaseVars, idpVars, registryVars, proofs, clients>>
  BY DEF Check, Closes, Moves
<1>2. PSSTypeOK'
  BY <1>1 DEF PSSInductiveInv, PSSTypeOK, IDPTypeOK, databaseVars, idpVars, registryVars
<1>3. RequestsTypeOK'
  BY <1>1 DEF PSSInductiveInv, RequestsTypeOK, States, InHand
<1>4. RequestsFit'
  BY <1>1 DEF PSSInductiveInv, RequestsTypeOK, RequestsFit, RequestFits, NewKey,
         databaseVars, HasProof
<1>5. RowsFit' /\ TreesFit' /\ ProofsFit'
  BY <1>1 DEF PSSInductiveInv, RowsFit, TreesFit, ProofsFit, HasProof, databaseVars
<1>6. ClientsFit' /\ MarksFit'
  BY <1>1, HoldersKeepKeys DEF databaseVars, registryVars
<1> QED
  BY <1>2, <1>3, <1>4, <1>5, <1>6 DEF PSSInductiveInv

RowOf(i, r) == [pubkey |-> i, identity |-> i, period |-> ThePeriod, token |-> r]

\* The row of a request is stored, unless one of its identity is there.
LEMMA InsertPubkeyEffect ==
  ASSUME PSSInductiveInv, NEW r \in Tokens, InsertPubkey(r)
  PROVE  \E i \in Identities :
           /\ requests[r].reg.pubkey = i
           /\ requests[r].state = "pubkey"
           /\ requests' = [requests EXCEPT ![r].state = "tree"]
           /\ \/ idp_pubkeys' = idp_pubkeys /\ \E p \in idp_pubkeys : p.pubkey = i
              \/ /\ idp_pubkeys' = idp_pubkeys \cup {RowOf(i, r)}
                 /\ \A p \in idp_pubkeys : p.pubkey # i /\ p.token # r
           /\ UNCHANGED <<idp_tree_hashes, idp_pubkey_in_tree>>
<1>1. requests[r].state = "pubkey"
  BY DEF InsertPubkey
<1>2. /\ requests[r].reg.pubkey \in Identities
      /\ requests[r].reg.identity = requests[r].reg.pubkey
      /\ requests[r].reg.period = ThePeriod
  BY <1>1 DEF PSSInductiveInv, RequestsTypeOK, InHand, Claims
<1>3. \A p \in idp_pubkeys : p.token # r
  BY <1>1 DEF PSSInductiveInv, RequestsFit, RequestFits
<1> QED
  BY <1>1, <1>2, <1>3 DEF InsertPubkey, Register, Moves, RowOf

LEMMA InsertPubkeyInv ==
  ASSUME PSSInductiveInv, NEW r \in Tokens, InsertPubkey(r),
         UNCHANGED <<idpVars, registryVars, proofs, clients>>
  PROVE  PSSInductiveInv'
<1>1. PICK i \in Identities :
        /\ requests[r].reg.pubkey = i
        /\ requests[r].state = "pubkey"
        /\ requests' = [requests EXCEPT ![r].state = "tree"]
        /\ \/ idp_pubkeys' = idp_pubkeys /\ \E p \in idp_pubkeys : p.pubkey = i
           \/ /\ idp_pubkeys' = idp_pubkeys \cup {RowOf(i, r)}
              /\ \A p \in idp_pubkeys : p.pubkey # i /\ p.token # r
        /\ UNCHANGED <<idp_tree_hashes, idp_pubkey_in_tree>>
  BY InsertPubkeyEffect
<1> DEFINE new == RowOf(i, r)
<1>0. new.pubkey = i /\ new.identity = i /\ new.token = r
  BY DEF RowOf
<1>2. /\ idp_pubkeys \subseteq idp_pubkeys'
      /\ \E p \in idp_pubkeys' : p.pubkey = i
      /\ \A p \in idp_pubkeys' : p \in idp_pubkeys \/ p = new
  <2>1. CASE idp_pubkeys' = idp_pubkeys
    BY <2>1, <1>0, <1>1
  <2>2. CASE idp_pubkeys' = idp_pubkeys \cup {new}
    BY <2>2, <1>0
  <2> QED
    BY <1>1, <2>1, <2>2
<1>3. PSSTypeOK'
  BY <1>1 DEF PSSInductiveInv, PSSTypeOK, IDPTypeOK, idpVars, registryVars, RowOf
<1>4. RequestsTypeOK'
  BY <1>1 DEF PSSInductiveInv, RequestsTypeOK, States, InHand
<1>5. RequestsFit'
  <2> SUFFICES ASSUME NEW q \in Tokens
               PROVE  RequestFits(q)'
    BY DEF RequestsFit
  <2>1. RequestFits(q)
    BY DEF PSSInductiveInv, RequestsFit
  <2>2. CASE q = r
    <3>1. requests'[q].state = "tree" /\ requests'[q].reg.pubkey = i
      BY <1>1, <2>2 DEF PSSInductiveInv, RequestsTypeOK
    <3> QED
      BY <1>1, <1>2, <2>1, <2>2, <3>1 DEF RequestFits, NewKey
  <2>3. CASE q # r
    <3>1. requests'[q] = requests[q]
      BY <1>1, <2>3 DEF PSSInductiveInv, RequestsTypeOK
    <3>2. UNCHANGED <<idp_pubkey_in_tree, proofs>>
      BY <1>1
    <3>3. \A p \in idp_pubkeys' : p \in idp_pubkeys \/ p.token = r
      BY <1>0, <1>2
    <3> QED
      BY <1>2, <2>1, <2>3, <3>1, <3>2, <3>3 DEF RequestFits, NewKey, HasProof
  <2> QED
    BY <2>2, <2>3
<1>6. RowsFit'
  <2>1. CASE idp_pubkeys' = idp_pubkeys
    BY <2>1 DEF PSSInductiveInv, RowsFit
  <2>2. CASE /\ idp_pubkeys' = idp_pubkeys \cup {new}
             /\ \A p \in idp_pubkeys : p.pubkey # i /\ p.token # r
    <3>1. IsFiniteSet(idp_pubkeys')
      BY <2>2, FS_AddElement DEF PSSInductiveInv, RowsFit
    <3> QED
      BY <2>2, <1>0, <3>1 DEF PSSInductiveInv, RowsFit
  <2> QED
    BY <1>1, <2>1, <2>2
<1>7. TreesFit' /\ ProofsFit'
  BY <1>1, <1>2 DEF PSSInductiveInv, TreesFit, ProofsFit, HasProof
<1>8. ClientsFit' /\ MarksFit'
  BY <1>2, HoldersKeepKeys DEF registryVars
<1> QED
  BY <1>3, <1>4, <1>5, <1>6, <1>7, <1>8 DEF PSSInductiveInv

LEMMA InsertTreeRowInv ==
  ASSUME PSSInductiveInv, NEW r \in Tokens, InsertTreeRow(r),
         UNCHANGED <<idpVars, registryVars, proofs, clients>>
  PROVE  PSSInductiveInv'
<1> DEFINE hash == requests[r].reg.pubkey
           new == [hash |-> hash, iteration |-> NULL, period |-> ThePeriod]
<1>1. /\ requests[r].state = "tree"
      /\ requests' = [requests EXCEPT ![r].state = "proof"]
      /\ UNCHANGED <<idp_pubkeys, idp_pubkey_in_tree>>
  BY DEF InsertTreeRow, Moves
<1>2. hash \in Identities /\ requests[r].reg.period = ThePeriod
  BY <1>1 DEF PSSInductiveInv, RequestsTypeOK, InHand, Claims
<1>3. \/ idp_tree_hashes' = idp_tree_hashes
      \/ /\ idp_tree_hashes' = idp_tree_hashes \cup {new}
         /\ \A t \in idp_tree_hashes : t.hash # hash
  BY <1>2 DEF InsertTreeRow, InsertTree
<1>4. new.hash = hash /\ new.iteration = NULL
  OBVIOUS
<1>5. PSSTypeOK'
  BY <1>1, <1>2, <1>3 DEF PSSInductiveInv, PSSTypeOK, IDPTypeOK, idpVars, registryVars
<1> HIDE DEF new
<1>6. RequestsTypeOK'
  BY <1>1 DEF PSSInductiveInv, RequestsTypeOK, States, InHand
<1>7. RequestsFit'
  <2> SUFFICES ASSUME NEW q \in Tokens
               PROVE  RequestFits(q)'
    BY DEF RequestsFit
  <2>1. RequestFits(q)
    BY DEF PSSInductiveInv, RequestsFit
  <2>2. CASE q = r
    <3>1. requests'[q].state = "proof" /\ requests'[q].reg = requests[q].reg
      BY <1>1, <2>2 DEF PSSInductiveInv, RequestsTypeOK
    <3> QED
      BY <1>1, <2>1, <2>2, <3>1 DEF RequestFits, NewKey
  <2>3. CASE q # r
    <3>1. requests'[q] = requests[q]
      BY <1>1, <2>3 DEF PSSInductiveInv, RequestsTypeOK
    <3> QED
      BY <1>1, <2>1, <3>1 DEF RequestFits, NewKey, HasProof
  <2> QED
    BY <2>2, <2>3
<1>8. TreesFit'
  BY <1>1, <1>3, <1>4 DEF PSSInductiveInv, TreesFit, HasProof
<1>9. RowsFit' /\ ProofsFit'
  BY <1>1 DEF PSSInductiveInv, RowsFit, ProofsFit, HasProof
<1>10. ClientsFit' /\ MarksFit'
  BY <1>1, HoldersKeepKeys DEF registryVars
<1> QED
  BY <1>5, <1>6, <1>7, <1>8, <1>9, <1>10 DEF PSSInductiveInv

\* The key a request drew is stored, unless the identity has one.
LEMMA InsertProofEffect ==
  ASSUME PSSInductiveInv, NEW r \in Tokens, PSSInsertProofRow(r)
  PROVE  \E i \in Identities :
           /\ requests[r].reg.pubkey = i
           /\ requests[r].state = "proof"
           /\ requests' = [requests EXCEPT ![r].state = "update"]
           /\ \/ HasProof(i) /\ UNCHANGED <<idp_pubkey_in_tree, proofs>>
              \/ /\ ~ HasProof(i)
                 /\ idp_pubkey_in_tree' = idp_pubkey_in_tree \cup {[hash |-> i, pubkey |-> i]}
                 /\ proofs' = [proofs EXCEPT ![i] = r]
           /\ UNCHANGED <<idp_pubkeys, idp_tree_hashes>>
<1>1. requests[r].state = "proof"
  BY DEF PSSInsertProofRow
<1>2. requests[r].reg.pubkey \in Identities
  BY <1>1 DEF PSSInductiveInv, RequestsTypeOK, InHand, Claims
<1> DEFINE i == requests[r].reg.pubkey
<1>3. InsertProofs(i, {i}) /\ StoreProof(r, i)
  BY DEF PSSInsertProofRow
<1>4. CASE HasProof(i)
  <2>1. {k \in {i} : ~ HasProof(k)} = {}
    BY <1>4
  <2>2. UNCHANGED idp_pubkey_in_tree
    BY <1>3, <2>1 DEF InsertProofs
  <2>3. UNCHANGED proofs
    BY <1>3, <1>4 DEF StoreProof
  <2> QED
    BY <1>1, <1>2, <1>4, <2>2, <2>3 DEF PSSInsertProofRow, Moves
<1>5. CASE ~ HasProof(i)
  <2>1. {k \in {i} : ~ HasProof(k)} = {i}
    BY <1>5
  <2>2. \A row \in idp_pubkey_in_tree : row.hash # i
    BY <1>5 DEF HasProof, PSSInductiveInv, ProofsFit
  <2>3. idp_pubkey_in_tree' = idp_pubkey_in_tree \cup {[hash |-> i, pubkey |-> i]}
    BY <1>3, <2>1, <2>2 DEF InsertProofs
  <2>4. proofs' = [proofs EXCEPT ![i] = r]
    BY <1>3, <1>5 DEF StoreProof, NewKey
  <2> QED
    BY <1>1, <1>2, <1>5, <2>3, <2>4 DEF PSSInsertProofRow, Moves
<1> QED
  BY <1>4, <1>5

LEMMA InsertProofInv ==
  ASSUME PSSInductiveInv, NEW r \in Tokens, PSSInsertProofRow(r),
         UNCHANGED <<idpVars, registryVars, clients>>
  PROVE  PSSInductiveInv'
<1>1. PICK i \in Identities :
        /\ requests[r].reg.pubkey = i
        /\ requests[r].state = "proof"
        /\ requests' = [requests EXCEPT ![r].state = "update"]
        /\ \/ HasProof(i) /\ UNCHANGED <<idp_pubkey_in_tree, proofs>>
           \/ /\ ~ HasProof(i)
              /\ idp_pubkey_in_tree' = idp_pubkey_in_tree \cup {[hash |-> i, pubkey |-> i]}
              /\ proofs' = [proofs EXCEPT ![i] = r]
        /\ UNCHANGED <<idp_pubkeys, idp_tree_hashes>>
  BY InsertProofEffect
<1>2. /\ proofs \in [Identities -> Tokens \cup {None}]
      /\ RequestFits(r)
      /\ r # None
  BY RowsAssumption DEF PSSInductiveInv, PSSTypeOK, RequestsFit
<1>3. /\ \A j \in Identities : HasProof(j)' <=> HasProof(j) \/ j = i
      /\ \A j \in Identities : proofs'[j] = IF j = i /\ ~ HasProof(i) THEN r ELSE proofs[j]
      /\ \A row \in idp_pubkey_in_tree' :
           row \in idp_pubkey_in_tree \/ (row.hash = i /\ row.pubkey = i)
  <2>1. CASE HasProof(i)
    <3>1. UNCHANGED <<idp_pubkey_in_tree, proofs>>
      BY <1>1, <2>1
    <3> QED
      BY <2>1, <3>1 DEF HasProof
  <2>2. CASE ~ HasProof(i)
    <3>1. /\ idp_pubkey_in_tree' = idp_pubkey_in_tree \cup {[hash |-> i, pubkey |-> i]}
          /\ proofs' = [proofs EXCEPT ![i] = r]
      BY <1>1, <2>2
    <3>2. \A j \in Identities : proofs'[j] = IF j = i /\ ~ HasProof(i) THEN r ELSE proofs[j]
      BY <1>2, <2>2, <3>1
    <3>3. \A row \in idp_pubkey_in_tree' :
            row \in idp_pubkey_in_tree \/ (row.hash = i /\ row.pubkey = i)
      BY <3>1
    <3>4. \A j \in Identities : HasProof(j)' <=> HasProof(j) \/ j = i
      <4>1. [hash |-> i, pubkey |-> i] \in idp_pubkey_in_tree'
        BY <3>1
      <4>2. HasProof(i)'
        BY <4>1 DEF HasProof
      <4>3. \A j : HasProof(j) => HasProof(j)'
        BY <3>1 DEF HasProof
      <4> QED
        BY <3>3, <4>2, <4>3 DEF HasProof
    <3> QED
      BY <3>2, <3>3, <3>4
  <2> QED
    BY <2>1, <2>2
<1>4. PSSTypeOK'
  BY <1>1, <1>2 DEF PSSInductiveInv, PSSTypeOK, IDPTypeOK, idpVars, registryVars
<1>5. RequestsTypeOK'
  BY <1>1 DEF PSSInductiveInv, RequestsTypeOK, States, InHand
<1>6. RequestsFit'
  <2> SUFFICES ASSUME NEW q \in Tokens
               PROVE  RequestFits(q)'
    BY DEF RequestsFit
  <2>1. RequestFits(q)
    BY DEF PSSInductiveInv, RequestsFit
  <2>2. CASE q = r
    <3>1. requests'[q].state = "update" /\ requests'[q].reg.pubkey = i
      BY <1>1, <2>2 DEF PSSInductiveInv, RequestsTypeOK
    <3> QED
      BY <1>1, <1>3, <2>1, <2>2, <3>1 DEF RequestFits
  <2>3. CASE q # r
    <3>1. requests'[q] = requests[q]
      BY <1>1, <2>3 DEF PSSInductiveInv, RequestsTypeOK
    <3>2. requests[q].state = "update" => requests[q].reg.pubkey \in Identities
      BY DEF PSSInductiveInv, RequestsTypeOK, InHand, Claims
    <3> QED
      BY <1>1, <1>3, <2>1, <2>3, <3>1, <3>2 DEF RequestFits, NewKey
  <2> QED
    BY <2>2, <2>3
<1>7. ProofsFit'
  <2>1. \A row \in idp_pubkey_in_tree' :
          row.hash = row.pubkey /\ \E p \in idp_pubkeys' : p.pubkey = row.pubkey
    BY <1>1, <1>2, <1>3 DEF PSSInductiveInv, ProofsFit, RequestFits
  <2>2. \A j \in Identities : proofs'[j] # None <=> HasProof(j)'
    BY <1>2, <1>3 DEF PSSInductiveInv, ProofsFit
  <2>3. \A j, k \in Identities : proofs'[j] # None /\ proofs'[j] = proofs'[k] => j = k
    BY <1>1, <1>2, <1>3 DEF PSSInductiveInv, ProofsFit, RequestFits, NewKey
  <2> QED
    BY <2>1, <2>2, <2>3 DEF ProofsFit
<1>8. TreesFit'
  <2>1. \A t \in idp_tree_hashes : t.hash \in Identities
    BY DEF PSSInductiveInv, PSSTypeOK
  <2>2. \A t \in idp_tree_hashes : t.iteration # NULL => HasProof(t.hash)'
    BY <1>3, <2>1 DEF PSSInductiveInv, TreesFit
  <2> QED
    BY <1>1, <2>2 DEF PSSInductiveInv, TreesFit
<1>9. RowsFit'
  BY <1>1 DEF PSSInductiveInv, RowsFit
<1>10. ClientsFit' /\ MarksFit'
  <2>1. \A j \in Identities : proofs[j] # None => proofs'[j] = proofs[j]
    BY <1>3 DEF PSSInductiveInv, ProofsFit
  <2> QED
    BY <1>1, <2>1, HoldersKeepKeys DEF registryVars
<1> QED
  BY <1>4, <1>5, <1>6, <1>7, <1>8, <1>9, <1>10 DEF PSSInductiveInv

\* What updateTreeWithIteration leaves in the table, row by row.
LEMMA UpdateEffect ==
  ASSUME PSSInductiveInv, NEW hash, UpdateTreeWithIteration(hash, 1)
  PROVE  /\ \A t \in idp_tree_hashes : \E u \in idp_tree_hashes' :
              /\ u.hash = t.hash /\ u.period = t.period
              /\ u.iteration = IF t.hash = hash THEN 1 ELSE t.iteration
         /\ \A u \in idp_tree_hashes' : \E t \in idp_tree_hashes :
              /\ u.hash = t.hash /\ u.period = t.period
              /\ u.iteration = IF t.hash = hash THEN 1 ELSE t.iteration
         /\ idp_tree_hashes' \subseteq
              [hash : Identities, iteration : {NULL, 1}, period : {ThePeriod}]
<1> DEFINE Rows == [hash : Identities, iteration : {NULL, 1}, period : {ThePeriod}]
           New(t) == IF t.hash = hash THEN [t EXCEPT !.iteration = 1] ELSE t
<1>1. ASSUME NEW t \in Rows
      PROVE  /\ New(t) \in Rows
             /\ New(t).hash = t.hash /\ New(t).period = t.period
             /\ New(t).iteration = IF t.hash = hash THEN 1 ELSE t.iteration
  OBVIOUS
<1>2. idp_tree_hashes' = {New(t) : t \in idp_tree_hashes}
  BY DEF UpdateTreeWithIteration
<1>3. idp_tree_hashes \subseteq Rows
  BY DEF PSSInductiveInv, PSSTypeOK
<1> HIDE DEF New, Rows
<1>4. \A t \in idp_tree_hashes : New(t) \in idp_tree_hashes'
  BY <1>2
<1>5. \A u \in idp_tree_hashes' : \E t \in idp_tree_hashes : u = New(t)
  BY <1>2
<1>6. idp_tree_hashes' \subseteq Rows
  BY <1>1, <1>3, <1>5
<1> QED
  BY <1>1, <1>3, <1>4, <1>5, <1>6 DEF Rows

LEMMA MarkIncludedInv ==
  ASSUME PSSInductiveInv, NEW r \in Tokens, MarkIncluded(r),
         UNCHANGED <<idpVars, registryVars, clients>>
  PROVE  PSSInductiveInv'
<1> DEFINE hash == requests[r].reg.pubkey
<1>1. /\ requests[r].state = "update"
      /\ requests' = [requests EXCEPT ![r] = [state |-> "accepted", reg |-> None]]
      /\ UNCHANGED <<idp_pubkeys, idp_pubkey_in_tree, proofs>>
      /\ UpdateTreeWithIteration(hash, 1)
  BY DEF MarkIncluded, Closes, UpdateOwnTree
<1>2. HasProof(hash)
  BY <1>1 DEF PSSInductiveInv, RequestsFit, RequestFits
<1>3. PSSTypeOK'
  BY <1>1, UpdateEffect
  DEF PSSInductiveInv, PSSTypeOK, IDPTypeOK, idpVars, registryVars
<1>4. RequestsTypeOK'
  BY <1>1 DEF PSSInductiveInv, RequestsTypeOK, States, InHand
<1>5. RequestsFit'
  <2> SUFFICES ASSUME NEW q \in Tokens
               PROVE  RequestFits(q)'
    BY DEF RequestsFit
  <2>1. RequestFits(q)
    BY DEF PSSInductiveInv, RequestsFit
  <2>2. requests'[q] = requests[q] \/ requests'[q].state = "accepted"
    BY <1>1 DEF PSSInductiveInv, RequestsTypeOK
  <2> QED
    BY <1>1, <2>1, <2>2 DEF RequestFits, NewKey, HasProof
<1>6. TreesFit'
  <2>1. \A h : HasProof(h) <=> HasProof(h)'
    BY <1>1 DEF HasProof
  <2>2. \A t \in idp_tree_hashes : t.iteration # NULL => HasProof(t.hash)
    BY DEF PSSInductiveInv, TreesFit
  <2>3. \A u \in idp_tree_hashes' : u.iteration # NULL => HasProof(u.hash)'
    <3> SUFFICES ASSUME NEW u \in idp_tree_hashes', u.iteration # NULL
                 PROVE  HasProof(u.hash)
      BY <2>1
    <3>1. PICK t \in idp_tree_hashes :
            u.hash = t.hash /\ u.iteration = IF t.hash = hash THEN 1 ELSE t.iteration
      BY <1>1, UpdateEffect
    <3> QED
      BY <1>2, <2>2, <3>1
  <2>4. ASSUME NEW u \in idp_tree_hashes', NEW v \in idp_tree_hashes', u.hash = v.hash
        PROVE  u = v
    <3>1. PICK s \in idp_tree_hashes :
            /\ u.hash = s.hash /\ u.period = s.period
            /\ u.iteration = IF s.hash = hash THEN 1 ELSE s.iteration
      BY <1>1, UpdateEffect
    <3>2. PICK t \in idp_tree_hashes :
            /\ v.hash = t.hash /\ v.period = t.period
            /\ v.iteration = IF t.hash = hash THEN 1 ELSE t.iteration
      BY <1>1, UpdateEffect
    <3>3. s = t
      BY <2>4, <3>1, <3>2 DEF PSSInductiveInv, TreesFit
    <3>4. /\ u \in [hash : Identities, iteration : {NULL, 1}, period : {ThePeriod}]
          /\ v \in [hash : Identities, iteration : {NULL, 1}, period : {ThePeriod}]
      BY <1>1, UpdateEffect
    <3> QED
      BY <3>1, <3>2, <3>3, <3>4
  <2> QED
    BY <2>3, <2>4 DEF TreesFit
<1>7. RowsFit' /\ ProofsFit'
  BY <1>1 DEF PSSInductiveInv, RowsFit, ProofsFit, HasProof
<1>8. ClientsFit' /\ MarksFit'
  BY <1>1, HoldersKeepKeys DEF registryVars
<1> QED
  BY <1>3, <1>4, <1>5, <1>6, <1>7, <1>8 DEF PSSInductiveInv

-----------------------------------------------------------------------------
(* The other steps *)

LEMMA CrashInv ==
  ASSUME PSSInductiveInv, Crash
  PROVE  PSSInductiveInv'
<1>1. /\ requests' = [r \in Tokens |->
            IF r \in Open THEN [state |-> "lost", reg |-> None] ELSE requests[r]]
      /\ UNCHANGED <<databaseVars, idpVars, registryVars, proofs, clients>>
  BY DEF Crash, RequestsLost
<1>2. PSSTypeOK'
  BY <1>1 DEF PSSInductiveInv, PSSTypeOK, IDPTypeOK, databaseVars, idpVars, registryVars
<1>3. RequestsTypeOK'
  BY <1>1 DEF PSSInductiveInv, RequestsTypeOK, States, InHand
<1>4. RequestsFit'
  <2> SUFFICES ASSUME NEW q \in Tokens
               PROVE  RequestFits(q)'
    BY DEF RequestsFit
  <2>1. RequestFits(q)
    BY DEF PSSInductiveInv, RequestsFit
  <2>2. requests'[q] = requests[q] \/ requests'[q].state = "lost"
    BY <1>1
  <2> QED
    BY <1>1, <2>1, <2>2 DEF RequestFits, NewKey, HasProof, databaseVars
<1>5. RowsFit' /\ TreesFit' /\ ProofsFit'
  BY <1>1 DEF PSSInductiveInv, RowsFit, TreesFit, ProofsFit, HasProof, databaseVars
<1>6. ClientsFit' /\ MarksFit'
  BY <1>1, HoldersKeepKeys DEF databaseVars, registryVars
<1> QED
  BY <1>2, <1>3, <1>4, <1>5, <1>6 DEF PSSInductiveInv

\* A complete row of getProofInfo joins a row of each table.
LEMMA ProofInfoRows ==
  ASSUME NEW token, NEW info \in ProofInfo(token)
  PROVE  \E row \in idp_pubkeys, tree \in idp_tree_hashes :
           /\ row.token = token
           /\ tree.iteration # NULL
           /\ [hash |-> tree.hash, pubkey |-> row.pubkey] \in idp_pubkey_in_tree
           /\ info.pubkey = row.pubkey /\ info.hash = tree.hash
           /\ info.period = tree.period /\ info.iteration = tree.iteration
<1>1. PICK q \in idp_pubkeys \X idp_tree_hashes :
        /\ q[1].token = token
        /\ q[2].iteration # NULL
        /\ [hash |-> q[2].hash, pubkey |-> q[1].pubkey] \in idp_pubkey_in_tree
        /\ info = [pubkey |-> q[1].pubkey, hash |-> q[2].hash, iteration |-> q[2].iteration,
                   period |-> q[2].period]
  BY DEF ProofInfo
<1>2. q[1] \in idp_pubkeys /\ q[2] \in idp_tree_hashes
  OBVIOUS
<1>3. /\ info.pubkey = q[1].pubkey /\ info.hash = q[2].hash
      /\ info.iteration = q[2].iteration /\ info.period = q[2].period
  BY <1>1
<1> QED
  BY <1>1, <1>2, <1>3

\* And any such rows are joined.
LEMMA RowsProofInfo ==
  ASSUME NEW token, NEW row \in idp_pubkeys, NEW tree \in idp_tree_hashes,
         row.token = token, tree.iteration # NULL,
         [hash |-> tree.hash, pubkey |-> row.pubkey] \in idp_pubkey_in_tree
  PROVE  [pubkey |-> row.pubkey, hash |-> tree.hash, iteration |-> tree.iteration,
          period |-> tree.period] \in ProofInfo(token)
<1> DEFINE q == <<row, tree>>
<1>1. /\ q \in idp_pubkeys \X idp_tree_hashes
      /\ q[1] = row /\ q[2] = tree
  OBVIOUS
<1> HIDE DEF q
<1>2. q \in {p \in idp_pubkeys \X idp_tree_hashes :
              /\ p[1].token = token
              /\ p[2].iteration # NULL
              /\ [hash |-> p[2].hash, pubkey |-> p[1].pubkey] \in idp_pubkey_in_tree}
  BY <1>1
<1> QED
  BY <1>1, <1>2 DEF ProofInfo

LEMMA ObtainInv ==
  ASSUME PSSInductiveInv, NEW r \in Tokens, Obtain(r)
  PROVE  PSSInductiveInv'
<1>1. UNCHANGED <<requests, databaseVars, idpVars, registryVars, proofs>>
  BY DEF Obtain, rowVars
<1>2. PICK info \in ProofInfo(r) : clients' = [clients EXCEPT ![r] = proofs[info.pubkey]]
  BY DEF Obtain, KeysServed
<1>3. PICK row \in idp_pubkeys : row.token = r /\ info.pubkey = row.pubkey
  <2>1. PICK row \in idp_pubkeys, tree \in idp_tree_hashes :
          /\ row.token = r
          /\ tree.iteration # NULL
          /\ [hash |-> tree.hash, pubkey |-> row.pubkey] \in idp_pubkey_in_tree
          /\ info.pubkey = row.pubkey /\ info.hash = tree.hash
          /\ info.period = tree.period /\ info.iteration = tree.iteration
    BY ProofInfoRows
  <2> QED
    BY <2>1
<1>4. row.pubkey \in Identities
  BY DEF PSSInductiveInv, PSSTypeOK
<1>5. PSSTypeOK'
  <2>1. clients' \in [Tokens -> Tokens \cup {None}]
    BY <1>2, <1>3, <1>4 DEF PSSInductiveInv, PSSTypeOK
  <2> QED
    BY <1>1, <2>1 DEF PSSInductiveInv, PSSTypeOK, IDPTypeOK, databaseVars, idpVars,
                      registryVars
<1>6. RequestsTypeOK'
  BY <1>1 DEF PSSInductiveInv, RequestsTypeOK
<1>7. RequestsFit'
  BY <1>1 DEF PSSInductiveInv, RequestsFit, RequestFits, NewKey, HasProof, databaseVars
<1>8. RowsFit' /\ TreesFit' /\ ProofsFit' /\ MarksFit'
  BY <1>1 DEF PSSInductiveInv, RowsFit, TreesFit, ProofsFit, HasProof, MarksFit, Pseudonym,
              databaseVars, registryVars
<1>9. ClientsFit'
  BY <1>1, <1>2, <1>3 DEF PSSInductiveInv, PSSTypeOK, ClientsFit, databaseVars
<1> QED
  BY <1>5, <1>6, <1>7, <1>8, <1>9 DEF PSSInductiveInv

\* A petition record with one more mark.
LEMMA MarkedRecord ==
  ASSUME NEW S, NEW rec \in PetitionRecords(S), NEW marks \in SUBSET S, NEW count \in Nat
  PROVE  [rec EXCEPT !.hasSigned = marks, !.signers = count] \in PetitionRecords(S)
  BY DEF PetitionRecords

LEMMA PSSSignInv ==
  ASSUME PSSInductiveInv, NEW r \in Tokens, NEW i \in DOMAIN petitions, PSSSign(r, i)
  PROVE  PSSInductiveInv'
<1> DEFINE Marks == {Pseudonym(q) : q \in Tokens}
           R == PetitionRecords(Marks)
           mark == Pseudonym(clients[r])
           signed == [petitions[i] EXCEPT !.hasSigned = petitions[i].hasSigned \cup {mark},
                                          !.signers = petitions[i].signers + 1]
<1>1. /\ clients[r] # None
      /\ mark \notin petitions[i].hasSigned
      /\ UNCHANGED <<requests, databaseVars, idpVars, petitionId, proofs, clients>>
  BY DEF PSSSign, PetitionSign, NotSignedYet, rowVars
<1>2. petitions \in Seq(R) /\ petitions[i] \in R
  BY DEF PSSInductiveInv, PSSTypeOK
<1>3. mark \in Marks
  BY <1>1 DEF PSSInductiveInv, PSSTypeOK
<1>4. petitions[i].hasSigned \cup {mark} \in SUBSET Marks /\ petitions[i].signers + 1 \in Nat
  BY <1>2, <1>3 DEF PetitionRecords
<1>5. petitions' = [petitions EXCEPT ![i] = signed] /\ signed \in R
  BY <1>2, <1>4, MarkedRecord DEF PSSSign, PetitionSign, RecordSignature
<1>6. /\ signed.hasSigned = petitions[i].hasSigned \cup {mark}
       /\ signed.signers = petitions[i].signers + 1
  BY <1>2, <1>5 DEF PetitionRecords
<1> HIDE DEF Marks, R, mark, signed
<1>7. /\ petitions' \in Seq(R)
      /\ DOMAIN petitions' = DOMAIN petitions
      /\ petitions'[i] = signed
      /\ \A j \in DOMAIN petitions : j # i => petitions'[j] = petitions[j]
  BY <1>2, <1>5
<1>8. PSSTypeOK'
  BY <1>1, <1>7 DEF PSSInductiveInv, PSSTypeOK, IDPTypeOK, databaseVars, idpVars, R, Marks,
                          Pseudonym
<1>9. RequestsTypeOK' /\ RequestsFit'
  BY <1>1 DEF PSSInductiveInv, RequestsTypeOK, RequestsFit, RequestFits, NewKey, HasProof,
              databaseVars
<1>10. RowsFit' /\ TreesFit' /\ ProofsFit' /\ ClientsFit'
  BY <1>1 DEF PSSInductiveInv, RowsFit, TreesFit, ProofsFit, HasProof, ClientsFit, databaseVars
<1>11. MarksFit'
  <2> SUFFICES ASSUME NEW j \in DOMAIN petitions
               PROVE  /\ IsFiniteSet(petitions'[j].hasSigned)
                      /\ petitions'[j].signers = Cardinality(petitions'[j].hasSigned)
                      /\ \A m \in petitions'[j].hasSigned :
                           \E row \in idp_pubkeys : /\ proofs[row.pubkey] # None
                                                    /\ m = Pseudonym(proofs[row.pubkey])
    BY <1>1, <1>7 DEF MarksFit, databaseVars, Pseudonym
  <2>1. /\ IsFiniteSet(petitions[j].hasSigned)
        /\ petitions[j].signers = Cardinality(petitions[j].hasSigned)
        /\ \A m \in petitions[j].hasSigned :
             \E row \in idp_pubkeys : /\ proofs[row.pubkey] # None
                                      /\ m = Pseudonym(proofs[row.pubkey])
    BY DEF PSSInductiveInv, MarksFit
  <2>2. CASE j # i
    BY <1>7, <2>1, <2>2
  <2>3. CASE j = i
    <3>1. /\ IsFiniteSet(petitions[j].hasSigned \cup {mark})
          /\ Cardinality(petitions[j].hasSigned \cup {mark})
               = Cardinality(petitions[j].hasSigned) + 1
      BY <1>1, <2>1, <2>3, FS_AddElement
    <3>2. PICK row \in idp_pubkeys : clients[r] = proofs[row.pubkey]
      BY <1>1 DEF PSSInductiveInv, ClientsFit
    <3>3. /\ petitions'[j].hasSigned = petitions[j].hasSigned \cup {mark}
          /\ petitions'[j].signers = petitions[j].signers + 1
      BY <1>6, <1>7, <2>3
    <3>4. mark = Pseudonym(proofs[row.pubkey]) /\ proofs[row.pubkey] # None
      BY <1>1, <3>2 DEF mark
    <3> QED
      BY <2>1, <3>1, <3>3, <3>4
  <2> QED
    BY <2>2, <2>3
<1> QED
  BY <1>8, <1>9, <1>10, <1>11 DEF PSSInductiveInv

LEMMA PSSCreatePetitionInv ==
  ASSUME PSSInductiveInv, NEW name \in Names, NEW p \in 0 .. MaxPeriod,
         CreatePetition(name, p), UNCHANGED <<rowVars, proofs, clients, crashes>>
  PROVE  PSSInductiveInv'
<1> DEFINE R == PetitionRecords({Pseudonym(q) : q \in Tokens})
           n == Len(petitions)
           new == [id |-> InternalId(petitionId + 1, name), period |-> AssignedPeriod(p),
                   hasSigned |-> {}, signers |-> 0]
<1>1. /\ petitionId' = petitionId + 1
      /\ petitions' = Append(petitions, new)
      /\ UNCHANGED <<requests, databaseVars, idpVars, proofs, clients>>
  BY DEF CreatePetition, rowVars
<1>2. petitions \in Seq(R) /\ n \in Nat /\ petitionId \in Nat
  BY DEF PSSInductiveInv, PSSTypeOK
<1>3. AssignedPeriod(p) \in PetitionPeriods
  BY PeriodAssumption
  DEF CreatePetition, PeriodAllowed, AssignedPeriod, PetitionPeriods, PSSInductiveInv,
      PSSTypeOK, IDPTypeOK, Periods
<1>4. new \in R /\ new.hasSigned = {} /\ new.signers = 0
  BY <1>2, <1>3 DEF PetitionRecords, PetitionIds, InternalId
<1> HIDE DEF new, R
<1>5. /\ petitions' \in Seq(R)
      /\ DOMAIN petitions' = 1 .. n + 1
      /\ petitions'[n + 1] = new
      /\ \A i \in 1 .. n : petitions'[i] = petitions[i]
  BY <1>1, <1>2, <1>4, AppendProperties
<1>6. PSSTypeOK'
  BY <1>1, <1>2, <1>5
  DEF PSSInductiveInv, PSSTypeOK, IDPTypeOK, databaseVars, idpVars, R, Pseudonym
<1>7. RequestsTypeOK' /\ RequestsFit'
  BY <1>1 DEF PSSInductiveInv, RequestsTypeOK, RequestsFit, RequestFits, NewKey, HasProof,
              databaseVars
<1>8. RowsFit' /\ TreesFit' /\ ProofsFit' /\ ClientsFit'
  BY <1>1 DEF PSSInductiveInv, RowsFit, TreesFit, ProofsFit, HasProof, ClientsFit, databaseVars
<1>9. MarksFit'
  <2> SUFFICES ASSUME NEW j \in 1 .. n + 1
               PROVE  /\ IsFiniteSet(petitions'[j].hasSigned)
                      /\ petitions'[j].signers = Cardinality(petitions'[j].hasSigned)
                      /\ \A m \in petitions'[j].hasSigned :
                           \E row \in idp_pubkeys : /\ proofs[row.pubkey] # None
                                                    /\ m = Pseudonym(proofs[row.pubkey])
    BY <1>1, <1>5 DEF MarksFit, databaseVars, Pseudonym
  <2>1. CASE j = n + 1
    BY <1>4, <1>5, <2>1, FS_EmptySet
  <2>2. CASE j \in 1 .. n
    <3>1. j \in DOMAIN petitions /\ petitions'[j] = petitions[j]
      BY <1>2, <1>5, <2>2
    <3> QED
      BY <3>1 DEF PSSInductiveInv, MarksFit
  <2> QED
    BY <1>2, <2>1, <2>2
<1> QED
  BY <1>6, <1>7, <1>8, <1>9 DEF PSSInductiveInv

LEMMA PSSNextInv == PSSInductiveInv /\ [PSSNext]_pssVars => PSSInductiveInv'
<1> SUFFICES ASSUME PSSInductiveInv, [PSSNext]_pssVars
             PROVE  PSSInductiveInv'
  OBVIOUS
<1>1. ASSUME NEW r \in Tokens, PSSArrive(r),
             UNCHANGED <<idpVars, registryVars, proofs, clients, crashes>>
      PROVE  PSSInductiveInv'
  BY <1>1, ArriveInv
<1>2. ASSUME NEW r \in Tokens, HandleRequest(r)
      PROVE  PSSInductiveInv'
  BY <1>2, CheckInv, InsertPubkeyInv, InsertTreeRowInv, InsertProofInv, MarkIncludedInv
  DEF HandleRequest, PSSRegister
<1>3. ASSUME NEW r \in Tokens, Obtain(r)
      PROVE  PSSInductiveInv'
  BY <1>3, ObtainInv
<1>4. ASSUME NEW r \in Tokens, NEW i \in DOMAIN petitions, PSSSign(r, i)
      PROVE  PSSInductiveInv'
  BY <1>4, PSSSignInv
<1>5. CASE Crash
  BY <1>5, CrashInv
<1>6. CASE PSSCreatePetition
  BY <1>6, PSSCreatePetitionInv DEF PSSCreatePetition
<1>7. CASE UNCHANGED pssVars
  <2> USE <1>7 DEF PSSInductiveInv, pssVars, rowVars, databaseVars, idpVars, registryVars
  <2>1. PSSTypeOK' /\ RequestsTypeOK'
    BY DEF PSSTypeOK, IDPTypeOK, RequestsTypeOK
  <2>2. RequestsFit' /\ RowsFit' /\ TreesFit' /\ ProofsFit'
    BY DEF RequestsFit, RequestFits, NewKey, RowsFit, TreesFit, ProofsFit, HasProof
  <2>3. ClientsFit' /\ MarksFit'
    BY DEF ClientsFit, MarksFit, Pseudonym
  <2> QED
    BY <2>1, <2>2, <2>3
<1> QED
  BY <1>1, <1>2, <1>3, <1>4, <1>5, <1>6, <1>7 DEF PSSNext

\* The rows of the three tables, what clients hold and what petitions count
\* fit together in every reachable state.
THEOREM PSSInvariance == PSSSpec => []PSSInductiveInv
  BY PSSInitInv, PSSNextInv, PTL DEF PSSSpec

-----------------------------------------------------------------------------
(* Nobody is counted twice *)

\* The key of a client that holds one is the key of the row with its token.
LEMMA ClientHoldsOwnKey ==
  ASSUME PSSInductiveInv, NEW p \in idp_pubkeys, clients[p.token] # None
  PROVE  /\ p.pubkey = p.identity /\ p.pubkey \in Identities
         /\ clients[p.token] = proofs[p.pubkey]
<1>1. p.token \in Tokens /\ p.pubkey \in Identities
  BY DEF PSSInductiveInv, PSSTypeOK
<1>2. PICK row \in idp_pubkeys : row.token = p.token /\ clients[p.token] = proofs[row.pubkey]
  BY <1>1 DEF PSSInductiveInv, ClientsFit
<1>3. row = p /\ p.pubkey = p.identity
  BY <1>2 DEF PSSInductiveInv, RowsFit
<1> QED
  BY <1>1, <1>2, <1>3

LEMMA MarksCountIdentities ==
  ASSUME PSSInductiveInv, NEW i \in DOMAIN petitions
  PROVE  petitions[i].signers <= Cardinality({row.identity : row \in idp_pubkeys})
<1> DEFINE Registered == {row.identity : row \in idp_pubkeys}
           marks == petitions[i].hasSigned
           owner == [mark \in marks |->
                       CHOOSE id \in Registered : mark = Pseudonym(proofs[id])]
<1>1. IsFiniteSet(Registered)
  <2> DEFINE identity == [row \in idp_pubkeys |-> row.identity]
  <2>1. identity \in Surjection(idp_pubkeys, Registered)
    BY DEF Surjection
  <2> QED
    BY <2>1, FS_Surjection DEF PSSInductiveInv, RowsFit
<1>2. \A mark \in marks : \E id \in Registered : mark = Pseudonym(proofs[id])
  BY DEF PSSInductiveInv, MarksFit, RowsFit
<1>3. \A mark \in marks : owner[mark] \in Registered /\ mark = Pseudonym(proofs[owner[mark]])
  BY <1>2
<1>4. owner \in Injection(marks, Registered)
  <2>1. \A mark \in marks : owner[mark] \in Registered
    BY <1>3
  <2>2. \A m, n \in marks : owner[m] = owner[n] => m = n
    BY <1>3
  <2>3. owner \in [marks -> Registered]
    BY <2>1
  <2> HIDE DEF owner
  <2> QED
    BY <2>2, <2>3 DEF Injection, IsInjective
<1>5. Cardinality(marks) <= Cardinality(Registered)
  BY <1>1, <1>4, FS_Injection
<1> QED
  BY <1>5 DEF PSSInductiveInv, MarksFit

\* No petition counts more signatures than there are registered identities,
\* and clients hold equal keys exactly if they registered the same identity.
THEOREM NobodyCountsTwice == PSSSpec => []OneSignaturePerIdentity
<1>1. PSSInductiveInv => OneSignaturePerIdentity
  <2> SUFFICES ASSUME PSSInductiveInv
               PROVE  OneSignaturePerIdentity
    OBVIOUS
  <2>1. ASSUME NEW p \in {row \in idp_pubkeys : clients[row.token] # None},
               NEW q \in {row \in idp_pubkeys : clients[row.token] # None}
        PROVE  p.identity = q.identity <=> clients[p.token] = clients[q.token]
    <3>1. /\ p.pubkey = p.identity /\ p.pubkey \in Identities
          /\ clients[p.token] = proofs[p.pubkey] /\ clients[p.token] # None
      BY ClientHoldsOwnKey
    <3>2. /\ q.pubkey = q.identity /\ q.pubkey \in Identities
          /\ clients[q.token] = proofs[q.pubkey]
      BY ClientHoldsOwnKey
    <3> QED
      BY <3>1, <3>2 DEF PSSInductiveInv, ProofsFit
  <2> QED
    BY <2>1, MarksCountIdentities DEF OneSignaturePerIdentity
<1> QED
  BY <1>1, PSSInvariance, PTL

-----------------------------------------------------------------------------
(* The server keeps the promise of IdentityProvider *)

Answers(t) ==
  {[pubkey   |-> info.pubkey,
    period   |-> info.period,
    evidence |-> proofs[info.pubkey]] : info \in ProofInfo(t)}

\* A row is answered when the tree and the proof of its identity are complete.
Answered(row) ==
  /\ HasProof(row.pubkey)
  /\ \E tree \in idp_tree_hashes : tree.hash = row.pubkey /\ tree.iteration # NULL

AnswerTo(row) ==
  [pubkey |-> row.pubkey, period |-> ThePeriod, evidence |-> proofs[row.pubkey]]

LEMMA AnswersByRow ==
  ASSUME PSSInductiveInv, NEW t
  PROVE  Answers(t) = {AnswerTo(row) : row \in {x \in idp_pubkeys : x.token = t /\ Answered(x)}}
<1> DEFINE Rows == {x \in idp_pubkeys : x.token = t /\ Answered(x)}
<1>1. ASSUME NEW a \in Answers(t)
      PROVE  \E row \in Rows : a = AnswerTo(row)
  <2>1. PICK info \in ProofInfo(t) :
          a = [pubkey |-> info.pubkey, period |-> info.period,
               evidence |-> proofs[info.pubkey]]
    BY DEF Answers
  <2>2. PICK row \in idp_pubkeys, tree \in idp_tree_hashes :
          /\ row.token = t
          /\ tree.iteration # NULL
          /\ [hash |-> tree.hash, pubkey |-> row.pubkey] \in idp_pubkey_in_tree
          /\ info.pubkey = row.pubkey /\ info.hash = tree.hash
          /\ info.period = tree.period /\ info.iteration = tree.iteration
    BY ProofInfoRows
  <2> DEFINE entry == [hash |-> tree.hash, pubkey |-> row.pubkey]
  <2>3. entry.hash = tree.hash /\ entry.pubkey = row.pubkey
    OBVIOUS
  <2>4. tree.hash = row.pubkey /\ HasProof(row.pubkey)
    BY <2>2, <2>3 DEF PSSInductiveInv, ProofsFit, HasProof
  <2>5. info.period = ThePeriod
    BY <2>2 DEF PSSInductiveInv, PSSTypeOK
  <2>6. row \in Rows
    BY <2>2, <2>4 DEF Answered
  <2> QED
    BY <2>1, <2>2, <2>5, <2>6 DEF AnswerTo
<1>2. ASSUME NEW row \in Rows
      PROVE  AnswerTo(row) \in Answers(t)
  <2>1. row \in idp_pubkeys /\ row.token = t /\ HasProof(row.pubkey)
    BY DEF Answered
  <2>2. PICK tree \in idp_tree_hashes : tree.hash = row.pubkey /\ tree.iteration # NULL
    BY DEF Answered
  <2>3. PICK entry \in idp_pubkey_in_tree : entry.pubkey = row.pubkey
    BY <2>1 DEF HasProof
  <2>4. entry = [hash |-> tree.hash, pubkey |-> row.pubkey]
    BY <2>2, <2>3 DEF PSSInductiveInv, PSSTypeOK, ProofsFit
  <2> DEFINE info == [pubkey |-> row.pubkey, hash |-> tree.hash,
                      iteration |-> tree.iteration, period |-> tree.period]
  <2>5. info \in ProofInfo(t)
    BY <2>1, <2>2, <2>3, <2>4, RowsProofInfo
  <2>6. info.pubkey = row.pubkey /\ info.period = ThePeriod
    BY <2>2 DEF PSSInductiveInv, PSSTypeOK
  <2> HIDE DEF info
  <2> QED
    BY <2>5, <2>6 DEF Answers, AnswerTo
<1> HIDE DEF Rows
<1>3. Answers(t) = {AnswerTo(row) : row \in Rows}
  BY <1>1, <1>2
<1> QED
  BY <1>3 DEF Rows

\* What /proof answers in terms of rows, as a formula that can be primed.
AnswersOf(t) == {AnswerTo(row) : row \in {x \in idp_pubkeys : x.token = t /\ Answered(x)}}

LEMMA AnswersAreOfRows == PSSInductiveInv => \A t \in Tokens : Answers(t) = AnswersOf(t)
BY AnswersByRow DEF AnswersOf

LEMMA AnswersAreOfRowsNext ==
  (PSSInductiveInv => \A t \in Tokens : Answers(t) = AnswersOf(t))'
BY AnswersAreOfRows, PTL

\* Answers are kept by a step that answers no row and replaces no key.
LEMMA AnswersKept ==
  ASSUME PSSInductiveInv, PSSInductiveInv',
         idp_pubkeys \subseteq idp_pubkeys',
         \A row \in idp_pubkeys : Answered(row)' <=> Answered(row),
         \A row \in idp_pubkeys' \ idp_pubkeys : ~ Answered(row)',
         \A row \in idp_pubkeys : Answered(row) => proofs'[row.pubkey] = proofs[row.pubkey],
         NEW t \in Tokens
  PROVE  Answers(t)' = Answers(t)
<1>1. Answers(t) = AnswersOf(t)
  BY AnswersAreOfRows
<1>2. Answers(t)' = AnswersOf(t)'
  BY AnswersAreOfRowsNext
<1>3. AnswersOf(t)' = AnswersOf(t)
  BY DEF AnswersOf, AnswerTo
<1> QED
  BY <1>1, <1>2, <1>3

LEMMA ProviderInitSimulation == PSSInit => Provider!ProviderInit
BY DEF PSSInit, RowsInit, DatabaseInit, ProofInfo, Provider!ProviderInit

\* A step that changes neither rows nor answers is a stutter of the provider.
LEMMA ProviderStutters ==
  ASSUME UNCHANGED idp_pubkeys, \A t \in Tokens : Answers(t)' = Answers(t)
  PROVE  UNCHANGED Provider!providerVars
BY DEF Answers, Provider!providerVars

\* A new row belongs to an identity without a proof, and is not answered yet.
LEMMA InsertPubkeyEnrols ==
  ASSUME PSSInductiveInv, PSSInductiveInv', NEW r \in Tokens, InsertPubkey(r),
         UNCHANGED proofs
  PROVE  Provider!Enrol(r) \/ UNCHANGED Provider!providerVars
<1>1. PICK i \in Identities :
        /\ requests[r].reg.pubkey = i
        /\ requests[r].state = "pubkey"
        /\ requests' = [requests EXCEPT ![r].state = "tree"]
        /\ \/ idp_pubkeys' = idp_pubkeys /\ \E p \in idp_pubkeys : p.pubkey = i
           \/ /\ idp_pubkeys' = idp_pubkeys \cup {RowOf(i, r)}
              /\ \A p \in idp_pubkeys : p.pubkey # i /\ p.token # r
        /\ UNCHANGED <<idp_tree_hashes, idp_pubkey_in_tree>>
  BY InsertPubkeyEffect
<1> DEFINE new == RowOf(i, r)
<1>2. new.pubkey = i /\ new.identity = i /\ new.token = r
  BY DEF RowOf
<1> HIDE DEF new
<1>3. \A row : Answered(row)' <=> Answered(row)
  BY <1>1 DEF Answered, HasProof
<1>4. CASE idp_pubkeys' = idp_pubkeys
  BY <1>3, <1>4, AnswersKept, ProviderStutters
<1>5. CASE /\ idp_pubkeys' = idp_pubkeys \cup {new}
           /\ \A p \in idp_pubkeys : p.pubkey # i /\ p.token # r
  <2>1. ~ HasProof(i)
    BY <1>5 DEF PSSInductiveInv, ProofsFit, HasProof
  <2>2. ~ Answered(new)'
    BY <1>2, <1>3, <2>1 DEF Answered
  <2>3. \A t \in Tokens : Answers(t)' = Answers(t)
    BY <1>3, <1>5, <2>2, AnswersKept
  <2>4. \A p \in idp_pubkeys : p.pubkey = p.identity
    BY DEF PSSInductiveInv, RowsFit
  <2> QED
    BY <1>2, <1>5, <2>3, <2>4
    DEF Answers, Provider!Enrol, Provider!SameEntry, Provider!SamePerson
<1> QED
  BY <1>1, <1>4, <1>5 DEF new

LEMMA InsertTreeRowStutters ==
  ASSUME PSSInductiveInv, PSSInductiveInv', NEW r \in Tokens, InsertTreeRow(r),
         UNCHANGED proofs
  PROVE  UNCHANGED Provider!providerVars
<1> DEFINE hash == requests[r].reg.pubkey
           new == [hash |-> hash, iteration |-> NULL, period |-> requests[r].reg.period]
<1>1. /\ UNCHANGED <<idp_pubkeys, idp_pubkey_in_tree>>
      /\ idp_tree_hashes' = idp_tree_hashes \/ idp_tree_hashes' = idp_tree_hashes \cup {new}
  BY DEF InsertTreeRow, InsertTree
<1>2. new.iteration = NULL
  OBVIOUS
<1> HIDE DEF new
<1>3. \A row : Answered(row)' <=> Answered(row)
  BY <1>1, <1>2 DEF Answered, HasProof
<1> QED
  BY <1>1, <1>3, AnswersKept, ProviderStutters

\* The tree of an identity without a proof has no iteration yet.
LEMMA InsertProofStutters ==
  ASSUME PSSInductiveInv, PSSInductiveInv', NEW r \in Tokens, PSSInsertProofRow(r)
  PROVE  UNCHANGED Provider!providerVars
<1>1. PICK i \in Identities :
        /\ requests[r].reg.pubkey = i
        /\ requests[r].state = "proof"
        /\ requests' = [requests EXCEPT ![r].state = "update"]
        /\ \/ HasProof(i) /\ UNCHANGED <<idp_pubkey_in_tree, proofs>>
           \/ /\ ~ HasProof(i)
              /\ idp_pubkey_in_tree' = idp_pubkey_in_tree \cup {[hash |-> i, pubkey |-> i]}
              /\ proofs' = [proofs EXCEPT ![i] = r]
        /\ UNCHANGED <<idp_pubkeys, idp_tree_hashes>>
  BY InsertProofEffect
<1>2. CASE UNCHANGED <<idp_pubkey_in_tree, proofs>>
  <2>1. \A row : Answered(row)' <=> Answered(row)
    BY <1>1, <1>2 DEF Answered, HasProof
  <2> QED
    BY <1>1, <1>2, <2>1, AnswersKept, ProviderStutters
<1>3. CASE /\ ~ HasProof(i)
           /\ idp_pubkey_in_tree' = idp_pubkey_in_tree \cup {[hash |-> i, pubkey |-> i]}
           /\ proofs' = [proofs EXCEPT ![i] = r]
  <2>1. \A tree \in idp_tree_hashes : tree.hash = i => tree.iteration = NULL
    BY <1>3 DEF PSSInductiveInv, TreesFit
  <2>2. \A k : k # i => (HasProof(k)' <=> HasProof(k))
    BY <1>3 DEF HasProof
  <2>3. \A row : Answered(row)' <=> Answered(row)
    BY <1>1, <2>1, <2>2, <1>3 DEF Answered
  <2>4. \A row \in idp_pubkeys : Answered(row) => proofs'[row.pubkey] = proofs[row.pubkey]
    BY <1>3 DEF PSSInductiveInv, PSSTypeOK, Answered
  <2> QED
    BY <1>1, <2>3, <2>4, AnswersKept, ProviderStutters
<1> QED
  BY <1>1, <1>2, <1>3

LEMMA ProviderCardinality == \A S : Provider!Cardinality(S) = Cardinality(S)
BY DEF Cardinality, Provider!Cardinality

\* With the iteration of its tree the stored registration of an identity is
\* answered, whichever request stores it.
LEMMA MarkIncludedGrants ==
  ASSUME PSSInductiveInv, PSSInductiveInv', NEW r \in Tokens, MarkIncluded(r)
  PROVE  (\E t \in Tokens : Provider!Grant(t)) \/ UNCHANGED Provider!providerVars
<1> DEFINE i == requests[r].reg.pubkey
<1>1. /\ requests[r].state = "update"
      /\ UpdateTreeWithIteration(i, 1)
      /\ UNCHANGED <<idp_pubkeys, idp_pubkey_in_tree, proofs>>
  BY DEF MarkIncluded, UpdateOwnTree
<1>2. HasProof(i) /\ \E row \in idp_pubkeys : row.pubkey = i
  BY <1>1 DEF PSSInductiveInv, RequestsFit, RequestFits
<1>3. /\ \A t \in idp_tree_hashes : \E u \in idp_tree_hashes' :
           /\ u.hash = t.hash /\ u.period = t.period
           /\ u.iteration = IF t.hash = i THEN 1 ELSE t.iteration
      /\ \A u \in idp_tree_hashes' : \E t \in idp_tree_hashes :
           /\ u.hash = t.hash /\ u.period = t.period
           /\ u.iteration = IF t.hash = i THEN 1 ELSE t.iteration
  BY <1>1, UpdateEffect
<1> HIDE DEF i
<1>4. \A row : HasProof(row.pubkey)' <=> HasProof(row.pubkey)
  BY <1>1 DEF HasProof
<1>5. \A row : row.pubkey # i => (Answered(row)' <=> Answered(row))
  BY <1>3, <1>4 DEF Answered
<1>6. PICK own \in idp_pubkeys : own.pubkey = i
  BY <1>2
<1>7. \A row \in idp_pubkeys : row # own => (Answered(row)' <=> Answered(row))
  BY <1>5, <1>6 DEF PSSInductiveInv, RowsFit
<1>8. CASE Answered(own)' <=> Answered(own)
  BY <1>1, <1>7, <1>8, AnswersKept, ProviderStutters
<1>9. CASE ~ (Answered(own)' <=> Answered(own))
  <2>1. Answered(own) => Answered(own)'
    BY <1>3, <1>4 DEF Answered, NULL
  <2>2. ~ Answered(own) /\ Answered(own)'
    BY <1>9, <2>1
  <2>3. own.token \in Tokens /\ own.pubkey \in Identities
    BY DEF PSSInductiveInv, PSSTypeOK
  <2>4. \A row \in idp_pubkeys : row.token = own.token => row = own
    BY DEF PSSInductiveInv, RowsFit
  <2>5. \A t \in Tokens : Answers(t) = AnswersOf(t) /\ Answers(t)' = AnswersOf(t)'
    BY AnswersAreOfRows, AnswersAreOfRowsNext
  <2>6. Answers(own.token) = {}
    BY <2>2, <2>3, <2>4, <2>5 DEF AnswersOf
  <2>7. {x \in idp_pubkeys' : x.token = own.token /\ Answered(x)'} = {own}
    BY <1>1, <2>2, <2>4
  <2>8. Answers(own.token)' = {AnswerTo(own)'}
    BY <2>3, <2>5, <2>7 DEF AnswersOf
  <2>9. \A t \in Tokens \ {own.token} : Answers(t)' = Answers(t)
    <3> SUFFICES ASSUME NEW t \in Tokens \ {own.token}
                 PROVE  AnswersOf(t)' = AnswersOf(t)
      BY <2>5
    <3>1. {x \in idp_pubkeys' : x.token = t /\ Answered(x)'}
            = {x \in idp_pubkeys : x.token = t /\ Answered(x)}
      BY <1>1, <1>7
    <3> QED
      BY <1>1, <3>1 DEF AnswersOf, AnswerTo
  <2>10. AnswerTo(own)' \in Provider!AnswersTo(own)
    BY <1>1, <1>2, <1>6, <2>3
    DEF PSSInductiveInv, PSSTypeOK, ProofsFit, AnswerTo, Provider!AnswersTo
  <2>11. Cardinality(Answers(own.token)') = 1
    BY <2>8, FS_Singleton
  <2>12. Answers(own.token)' \subseteq Provider!AnswersTo(own)
    BY <2>8, <2>10
  <2>13. Provider!Answer(own)
    BY <2>3, <2>6, <2>9, <2>11, <2>12, ProviderCardinality DEF Answers, Provider!Answer
  <2>14. Provider!Grant(own.token)
    BY <1>1, <2>13 DEF Provider!Grant
  <2> QED
    BY <2>3, <2>14
<1> QED
  BY <1>8, <1>9

LEMMA ProviderStepSimulation ==
  ASSUME PSSInductiveInv, PSSInductiveInv', [PSSNext]_pssVars
  PROVE  [Provider!ProviderNext]_(Provider!providerVars)
<1> USE DEF pssVars, rowVars, databaseVars
<1>1. ASSUME UNCHANGED <<databaseVars, proofs>>
      PROVE  UNCHANGED Provider!providerVars
  BY <1>1 DEF ProofInfo, Provider!providerVars
<1>2. ASSUME NEW r \in Tokens, HandleRequest(r)
      PROVE  [Provider!ProviderNext]_(Provider!providerVars)
  <2>1. CASE Check(r) /\ UNCHANGED proofs
    BY <1>1, <2>1 DEF Check
  <2>2. CASE InsertPubkey(r) /\ UNCHANGED proofs
    BY <2>2, InsertPubkeyEnrols DEF Provider!ProviderNext
  <2>3. CASE InsertTreeRow(r) /\ UNCHANGED proofs
    BY <2>3, InsertTreeRowStutters
  <2>4. CASE PSSInsertProofRow(r)
    BY <2>4, InsertProofStutters
  <2>5. CASE MarkIncluded(r)
    BY <2>5, MarkIncludedGrants DEF Provider!ProviderNext
  <2> QED
    BY <1>2, <2>1, <2>2, <2>3, <2>4, <2>5 DEF HandleRequest, PSSRegister
<1>3. CASE ~ \E r \in Tokens : HandleRequest(r)
  <2>1. UNCHANGED <<databaseVars, proofs>>
    BY <1>3 DEF PSSNext, PSSArrive, Arrive, Obtain, PSSSign, Crash, PSSCreatePetition
  <2> QED
    BY <1>1, <2>1
<1> QED
  BY <1>2, <1>3

\* One request of an identity is stored, its token is answered once, and the
\* answer stays: neither the refused insertions of later requests nor their
\* keys replace it.
THEOREM PSSImplementsProvider == PSSSpec => ImplementsProvider
<1>1. PSSInductiveInv /\ PSSInductiveInv' /\ [PSSNext]_pssVars
        => [Provider!ProviderNext]_(Provider!providerVars)
  BY ProviderStepSimulation
<1> QED
  BY <1>1, ProviderInitSimulation, PSSInvariance, PTL
  DEF PSSSpec, ImplementsProvider, Provider!ProviderSpec

=============================================================================
