-------------------------- MODULE IdentityProvider --------------------------
(***************************************************************************)
(* What the identity provider's server promises the people who register,   *)
(* whatever the mode, and without tables, trees, tasks and transactions:   *)
(* a registration is stored under a token and a public key of its own, and *)
(* finally answered, once and for all, with evidence for this key and for  *)
(* the period it was made for.  A person is stored once for a period,      *)
(* unless two of his requests raced: one arrived while the other was       *)
(* handled.                                                                *)
(***************************************************************************)
EXTENDS FiniteSets, Naturals

CONSTANTS
  Tokens,
  Evidence    \* what proves the right to vote

VARIABLES
  rows,      \* what is stored: [pubkey, identity, period, token]
  answers,   \* token -> answers, of which there is one at most
  raced      \* sets of two tokens; the provider only reads it

providerVars == <<rows, answers>>

ProviderInit ==
  /\ rows = {}
  /\ answers = [t \in Tokens |-> {}]

SameEntry(p, q) == p.token = q.token \/ p.pubkey = q.pubkey

SamePerson(p, q) == p.identity = q.identity /\ p.period = q.period

AnswersTo(row) == [pubkey : {row.pubkey}, period : {row.period}, evidence : Evidence]

\* The one answer to a row.
Answer(row) ==
  /\ answers[row.token] = {} /\ Cardinality(answers'[row.token]) = 1
  /\ answers'[row.token] \subseteq AnswersTo(row)
  /\ \A u \in Tokens \ {row.token} : answers'[u] = answers[u]

\* A row may find its evidence there, if that of an earlier one serves both.
Enrol(t) ==
  \E row \in rows' :
    /\ row.token = t
    /\ \A r \in rows : ~ SameEntry(r, row)
    /\ \A r \in rows : SamePerson(r, row) => {r.token, t} \in raced
    /\ rows' = rows \cup {row}
    /\ UNCHANGED answers \/ Answer(row)

Grant(t) ==
  /\ \E row \in rows : row.token = t /\ Answer(row)
  /\ UNCHANGED rows

ProviderNext == \E t \in Tokens : Enrol(t) \/ Grant(t)

ProviderSpec == ProviderInit /\ [][ProviderNext]_providerVars

=============================================================================
