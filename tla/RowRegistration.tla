--------------------------- MODULE RowRegistration ---------------------------
(***************************************************************************)
(* register() as the naive, PSS and Semaphore handlers have it             *)
(* (idp/src/proof.ts): without trees of their own they use all three       *)
(* tables, and the client's identity (an account, the identity itself, an  *)
(* identity commitment) is public key and tree at once.  After the check   *)
(* there is one INSERT after the other, each a transaction of its own, and *)
(* other requests, the interval task or the end of the process may come in *)
(* between.                                                                *)
(***************************************************************************)
EXTENDS IDPDatabase

CONSTANTS
  Identities,    \* what the identity check identifies people by
  None,          \* no registration, no transaction
  MaxRequests,   \* bound on registration requests
  MaxOpen        \* bound on registration requests handled at the same time

Tokens == 1 .. MaxRequests

ASSUME RowsAssumption == MaxRequests \in Nat /\ None \notin Tokens

VARIABLE requests   \* registration requests, by their token

\* What the program does not keep: sets of two requests of one identity, or
\* for one public key, of which one arrived while the other was handled.
VARIABLE raced

rowVars == <<databaseVars, requests, raced>>

RowsInit ==
  /\ DatabaseInit
  /\ requests = [r \in Tokens |-> [state |-> "new", reg |-> None]]
  /\ raced = {}

Open == {r \in Tokens : requests[r].state \notin {"new", "accepted", "rejected", "lost"}}

\* Open requests that a registration races.
Rivals(reg) ==
  {q \in Open : requests[q].reg.identity = reg.identity \/ requests[q].reg.pubkey = reg.pubkey}

Moves(r, state) ==
  /\ requests' = [requests EXCEPT ![r].state = state]
  /\ UNCHANGED raced

Closes(r, state) ==
  /\ requests' = [requests EXCEPT ![r] = [state |-> state, reg |-> None]]
  /\ UNCHANGED raced

\* POST /register with a registration that passes check_registration_info.
\* Requests get tokens in the order of their arrival.
Arrive(r, reg) ==
  /\ requests[r].state = "new"
  /\ \A q \in 1 .. r - 1 : requests[q].state # "new"
  /\ Cardinality(Open) < MaxOpen
  /\ requests' = [requests EXCEPT ![r] = [state |-> "check", reg |-> reg]]
  /\ raced' = raced \cup {{q, r} : q \in Rivals(reg)}
  /\ UNCHANGED databaseVars

Check(r) ==
  /\ requests[r].state = "check"
  /\ IF IsRegistered(requests[r].reg) THEN Closes(r, "rejected") ELSE Moves(r, "pubkey")
  /\ UNCHANGED databaseVars

InsertPubkey(r) ==
  /\ requests[r].state = "pubkey"
  /\ Register([pubkey   |-> requests[r].reg.pubkey,
               identity |-> requests[r].reg.identity,
               period   |-> requests[r].reg.period,
               token    |-> r])
  /\ Moves(r, "tree")
  /\ UNCHANGED <<idp_tree_hashes, idp_pubkey_in_tree>>

InsertTreeRow(r) ==
  /\ requests[r].state = "tree"
  /\ InsertTree(requests[r].reg.pubkey, requests[r].reg.period)
  /\ Moves(r, "proof")
  /\ UNCHANGED <<idp_pubkeys, idp_pubkey_in_tree>>

\* The last insertion; then the answer is 200, whatever was refused.
InsertProofRow(r) ==
  /\ requests[r].state = "proof"
  /\ InsertProofs(requests[r].reg.pubkey, {requests[r].reg.pubkey})
  /\ Closes(r, "accepted")
  /\ UNCHANGED <<idp_pubkeys, idp_tree_hashes>>

\* The process ends: its requests are not answered.
RequestsLost ==
  /\ requests' = [r \in Tokens |->
                    IF r \in Open THEN [state |-> "lost", reg |-> None] ELSE requests[r]]
  /\ UNCHANGED raced

=============================================================================
