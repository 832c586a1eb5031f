----------------------- MODULE SemaphoreHandler_proofs -----------------------
(***************************************************************************)
(* Proofs about SemaphoreHandler: however registrations, runs of the       *)
(* interval task, batches, kills, roots that expire and signatures         *)
(* interleave, the group that is handed out is a beginning of the one on   *)
(* the blockchain, its members are registered, and a petition counts the   *)
(* members that signed it, for every number of them.                       *)
(***************************************************************************)
EXTENDS SemaphoreHandler, FiniteSetTheorems, SequenceTheorems, TLAPS

-----------------------------------------------------------------------------
(* The inductive invariant *)

\* A row is determined by its token and by its public key, and two rows have one
\* identity only if their requests raced.
RowsFit ==
  /\ \A p, q \in idp_pubkeys : p.token = q.token \/ p.pubkey = q.pubkey => p = q
  /\ \A p, q \in idp_pubkeys :
       p.identity = q.identity => p = q \/ {p.token, q.token} \in raced

IsKey(commitment) == \E row \in idp_pubkeys : row.pubkey = commitment

\* What the statements of register have left behind so far.
RequestFits(r) ==
  /\ requests[r].state \in {"new", "check", "pubkey"} =>
       \A row \in idp_pubkeys : row.token # r
  /\ requests[r].state = "pubkey" =>
       \A row \in idp_pubkeys :
         row.identity = requests[r].reg.identity => {row.token, r} \in raced
  /\ requests[r].state = "tree" => IsKey(requests[r].reg.pubkey)

RequestsFit ==
  /\ \A r \in Tokens : RequestFits(r)
  /\ \A r, q \in Open :
       requests[r].reg.identity = requests[q].reg.identity => r = q \/ {r, q} \in raced

\* Tables and requests: commitments in a tree are registered.
RegistrationsFit ==
  /\ RowsFit
  /\ RequestsFit
  /\ \A tree \in idp_tree_hashes : IsKey(tree.hash)

\* The trees with an iteration.
Included == {tree.hash : tree \in {t \in idp_tree_hashes : t.iteration # NULL}}

\* The batch is made of the rows from the one after the n-th on.
NextRows(n, batch) ==
  /\ n + Len(batch) <= Len(treeOrder)
  /\ \A k \in 1 .. Len(batch) : batch[k] = treeOrder[n + k]

\* The same for their numbers.
NextLeaves(n, batch) ==
  /\ n + Len(batch) <= Len(treeOrder)
  /\ \A k \in 1 .. Len(batch) : batch[k] = BigInt[treeOrder[n + k]]

\* The first n rows are marked, and their numbers are members.
Marked(n) ==
  /\ n <= Len(members) /\ Len(members) <= Len(treeOrder)
  /\ \A k \in 1 .. Len(treeOrder) : treeOrder[k] \in Included <=> k <= n
  /\ \A k \in 1 .. Len(members) : members[k] = BigInt[treeOrder[k]]

\* What the run and the transaction add to them.  After a kill members may be
\* left that are not marked, whose batch no run gets through again.
BatchesFit(n) ==
  /\ inflight # << >> => Len(members) = n /\ NextLeaves(n, inflight)
  /\ task.pc # "idle" => task.batch # << >> /\ NextRows(n, task.batch)
  /\ task.pc = "mining" => inflight = Parsed(task.batch)
  /\ task.pc = "update" => inflight = << >> /\ n + Len(task.batch) = Len(members)
  /\ crashes = 0 => /\ task.pc # "update" => Len(members) = n
                    /\ inflight # << >> => task.pc = "mining"

\* Groups are beginnings of the group on the blockchain, the accepted ones as
\* well as those of clients.
GroupsFit ==
  /\ \A r \in Tokens : IsPrefix(groups[r], members)
  /\ \A root \in roots : IsPrefix(root, members)

\* One hash has one row, and rows are marked in their order.
OrderFits ==
  /\ \A s, t \in idp_tree_hashes : s.hash = t.hash => s = t
  /\ \E n \in Nat : Marked(n) /\ BatchesFit(n)
  /\ GroupsFit

\* Those who signed a petition.
SignedBy(id) == {n[2] : n \in {m \in nullifiers : m[1] = id}}

\* Petitions are numbered; a nullifier belongs to a petition and a member.
SignaturesFit ==
  /\ petitionId = Len(petitions)
  /\ \A i \in DOMAIN petitions : petitions[i].id[1] = i
  /\ \A n \in nullifiers : n[1][1] <= petitionId /\ n[2] \in ToSet(members)
  /\ \A i \in DOMAIN petitions :
       petitions[i].signers = Cardinality(SignedBy(petitions[i].id))

SemaphoreInductiveInv ==
  /\ SemaphoreServerTypeOK
  /\ RegistrationsFit
  /\ OrderFits
  /\ SignaturesFit
-----------------------------------------------------------------------------
(* Sequences *)

\* Parsing keeps the places and yields numbers.
LEMMA ParsedFacts ==
  ASSUME NEW batch \in Seq(Commitments)
  PROVE  /\ Parsed(batch) \in Seq(Int) /\ Len(Parsed(batch)) = Len(batch)
         /\ \A k \in 1 .. Len(batch) : Parsed(batch)[k] = BigInt[batch[k]]
         /\ ToSet(Parsed(batch)) \subseteq Leaves => Parsed(batch) \in Seq(Leaves)
         /\ Parsed(batch) = << >> <=> batch = << >>
<1>1. /\ DOMAIN batch = 1 .. Len(batch) /\ Len(batch) \in Nat
      /\ \A k \in 1 .. Len(batch) : batch[k] \in Commitments
  BY LenProperties, ElementOfSeq
<1>2. Parsed(batch) = [k \in 1 .. Len(batch) |-> BigInt[batch[k]]]
  BY <1>1 DEF Parsed
<1>3. \A S : (\A k \in 1 .. Len(batch) : BigInt[batch[k]] \in S) => Parsed(batch) \in Seq(S)
  <2> SUFFICES ASSUME NEW S, \A k \in 1 .. Len(batch) : BigInt[batch[k]] \in S
               PROVE  Parsed(batch) \in Seq(S)
    OBVIOUS
  <2>1. Parsed(batch) \in [1 .. Len(batch) -> S]
    BY <1>2
  <2> QED
    BY <1>1, <2>1, SeqDef
<1>4. Parsed(batch) \in Seq(Int)
  BY <1>1, <1>3, BigIntAssumption
<1>5. Len(Parsed(batch)) = Len(batch)
  <2>1. Len(Parsed(batch)) \in Nat /\ 1 .. Len(Parsed(batch)) = 1 .. Len(batch)
    BY <1>2, <1>4, LenProperties
  <2> QED
    BY <1>1, <2>1
<1>6. ToSet(Parsed(batch)) \subseteq Leaves => Parsed(batch) \in Seq(Leaves)
  BY <1>2, <1>3 DEF ToSet
<1> QED
  BY <1>2, <1>4, <1>5, <1>6, EmptySeq

LEMMA PrefixPointwise ==
  ASSUME NEW S, NEW s \in Seq(S), NEW t \in Seq(S)
  PROVE  IsPrefix(s, t) <=> /\ Len(s) <= Len(t)
                            /\ \A k \in 1 .. Len(s) : s[k] = t[k]
<1>1. Len(s) \in Nat /\ Len(t) \in Nat
  BY LenProperties
<1>2. Len(s) <= Len(t) => /\ SubSeq(s, 1, Len(s)) = s
                          /\ SubSeq(t, 1, Len(s)) \in Seq(S)
                          /\ Len(SubSeq(t, 1, Len(s))) = Len(s)
                          /\ \A k \in 1 .. Len(s) : SubSeq(t, 1, Len(s))[k] = t[k]
  OBVIOUS
<1> QED
  BY <1>1, <1>2, SeqEqual DEF IsPrefix

\* An interval does not fit into a shorter one.
LEMMA IntervalsFit ==
  ASSUME NEW i \in Int, NEW j \in Int, i <= j, NEW k \in Int, NEW l \in Int, k <= l,
         NEW f \in [i .. j -> k .. l], \A m, n \in i .. j : f[m] = f[n] => m = n
  PROVE  j - i <= l - k
<1>1. f \in Injection(i .. j, k .. l)
  BY DEF Injection, IsInjective
<1>2. Cardinality(i .. j) = j - i + 1
  BY FS_Interval
<1>3. IsFiniteSet(k .. l) /\ Cardinality(k .. l) = l - k + 1
  BY FS_Interval
<1> QED
  BY <1>1, <1>2, <1>3, FS_Injection

\* What a query returns if the rows asked for are neighbours: the one function
\* that goes through them upwards.
LEMMA NeighboursInOrder ==
  ASSUME treeOrder \in Seq(Commitments), IsInjective(treeOrder),
         NEW a \in Nat, NEW b \in Nat, a <= b, b <= Len(treeOrder),
         NEW hashes, hashes = {treeOrder[k] : k \in a + 1 .. b}
  PROVE  InRowOrder(hashes) = [k \in 1 .. b - a |-> treeOrder[a + k]]
<1> DEFINE order == [k \in 1 .. b - a |-> treeOrder[a + k]]
           Upwards(rows) == \A m, n \in DOMAIN rows : m < n => Position(rows[m]) < Position(rows[n])
<1>1. DOMAIN treeOrder = 1 .. Len(treeOrder) /\ Len(treeOrder) \in Nat
  BY LenProperties
<1>2. \A k \in 1 .. Len(treeOrder) : Position(treeOrder[k]) = k
  BY <1>1 DEF Position, IsInjective
<1>3. \A h \in hashes : Position(h) \in a + 1 .. b /\ h = treeOrder[Position(h)]
  BY <1>1, <1>2
<1>4. order \in [1 .. b - a -> hashes] /\ Upwards(order)
  <2>1. \A k \in 1 .. b - a : a + k \in a + 1 .. b /\ a + k \in 1 .. Len(treeOrder)
    BY <1>1
  <2>2. \A k \in 1 .. b - a : order[k] \in hashes /\ Position(order[k]) = a + k
    BY <1>2, <2>1
  <2> QED
    BY <2>2
<1>5. Cardinality(hashes) = b - a
  <2>1. order \in Bijection(1 .. b - a, hashes)
    <3>1. \A m, n \in 1 .. b - a : order[m] = order[n] => m = n
      <4>1. \A m \in 1 .. b - a : a + m \in 1 .. Len(treeOrder)
        BY <1>1
      <4> QED
        BY <1>2, <4>1
    <3>2. \A h \in hashes : \E k \in 1 .. b - a : order[k] = h
      <4> SUFFICES ASSUME NEW h \in hashes PROVE \E k \in 1 .. b - a : order[k] = h
        OBVIOUS
      <4>1. Position(h) - a \in 1 .. b - a /\ a + (Position(h) - a) = Position(h)
        BY <1>3
      <4>2. order[Position(h) - a] = h
        BY <1>3, <4>1
      <4> QED
        BY <4>1, <4>2
    <3> HIDE DEF order
    <3> QED
      BY <1>4, <3>1, <3>2 DEF Bijection, Injection, Surjection, IsInjective
  <2>2. IsFiniteSet(1 .. b - a) /\ Cardinality(1 .. b - a) = b - a
    BY FS_Interval
  <2> QED
    BY <2>1, <2>2, FS_Bijection DEF ExistsBijection
<1>6. ASSUME NEW rows \in [1 .. b - a -> hashes], Upwards(rows)
      PROVE  rows = order
  <2> DEFINE pos == [m \in 1 .. b - a |-> Position(rows[m])]
  <2>1. /\ \A m \in 1 .. b - a : pos[m] \in a + 1 .. b /\ rows[m] = treeOrder[pos[m]]
        /\ \A m, n \in 1 .. b - a : m < n => pos[m] < pos[n]
    BY <1>3, <1>6
  <2> HIDE DEF pos
  <2>2. ASSUME NEW m \in 1 .. b - a PROVE pos[m] = a + m
    <3> DEFINE below == [j \in 1 .. m |-> pos[j]]
               above == [j \in m .. b - a |-> pos[j]]
    <3>1. /\ pos[m] \in a + 1 .. b /\ m \in Nat /\ m <= b - a /\ 1 <= m
          /\ \A j \in 1 .. m : j \in 1 .. b - a
          /\ \A j \in m .. b - a : j \in 1 .. b - a
      BY <2>1
    <3>2. \A i, j \in 1 .. b - a : pos[i] = pos[j] => i = j
      BY <2>1
    <3>3. m - 1 <= pos[m] - (a + 1)
      <4>1. below \in [1 .. m -> a + 1 .. pos[m]]
        BY <2>1, <3>1
      <4>2. \A i, j \in 1 .. m : below[i] = below[j] => i = j
        BY <3>1, <3>2
      <4>3. 1 \in Int /\ m \in Int /\ 1 <= m /\ a + 1 \in Int /\ pos[m] \in Int /\ a + 1 <= pos[m]
        BY <3>1
      <4> HIDE DEF below
      <4> QED
        BY <4>1, <4>2, <4>3, IntervalsFit
    <3>4. (b - a) - m <= b - pos[m]
      <4>1. above \in [m .. b - a -> pos[m] .. b]
        BY <2>1, <3>1
      <4>2. \A i, j \in m .. b - a : above[i] = above[j] => i = j
        BY <3>1, <3>2
      <4>3. m \in Int /\ b - a \in Int /\ m <= b - a /\ pos[m] \in Int /\ b \in Int /\ pos[m] <= b
        BY <3>1
      <4> HIDE DEF above
      <4> QED
        BY <4>1, <4>2, <4>3, IntervalsFit
    <3>5. pos[m] \in Int /\ m \in Int /\ a \in Int /\ b \in Int
      BY <3>1
    <3>6. \A k, x, y, z \in Int : k - 1 <= z - (x + 1) /\ (y - x) - k <= y - z => z = x + k
      OBVIOUS
    <3> HIDE DEF below, above
    <3> QED
      BY Zenon, <3>3, <3>4, <3>5, <3>6
  <2>3. \A m \in 1 .. b - a : rows[m] = order[m]
    BY <2>1, <2>2
  <2> QED
    BY <1>4, <2>3
<1> HIDE DEF order
<1>7. InRowOrder(hashes) = CHOOSE rows \in [1 .. b - a -> hashes] : Upwards(rows)
  BY <1>5 DEF InRowOrder
<1> QED
  BY <1>4, <1>6, <1>7 DEF order
-----------------------------------------------------------------------------
(* The initial states *)

LEMMA SemaphoreInitInv == SemaphoreServerInit => SemaphoreInductiveInv
<1> SUFFICES ASSUME SemaphoreServerInit PROVE SemaphoreInductiveInv
  OBVIOUS
<1> USE DEF SemaphoreServerInit, RowsInit, DatabaseInit, SemaphoreInit, IDPInit, RegistryInit,
            IdleTask
<1>1. /\ << >> \in Seq(Commitments) /\ << >> \in Seq(Leaves) /\ Len(<< >>) = 0
      /\ IsInjective(<< >>) /\ ToSet(<< >>) = {}
  BY DEF IsInjective, ToSet
<1>2. SemaphoreTypeOK
  BY <1>1, PeriodAssumption, EmptySeq DEF SemaphoreTypeOK, IDPTypeOK, Periods
<1>3. Open = {}
  BY DEF Open
<1>4. SemaphoreServerTypeOK
  BY <1>1, <1>2, <1>3 DEF SemaphoreServerTypeOK
<1>5. RegistrationsFit
  BY <1>3 DEF RegistrationsFit, RowsFit, RequestsFit, RequestFits
<1>6. OrderFits
  <2>1. \A r \in Tokens : IsPrefix(groups[r], members)
    <3>1. IsPrefix(<< >>, << >>)
      BY <1>1 DEF IsPrefix
    <3> QED
      BY <3>1
  <2>2. Marked(0) /\ BatchesFit(0)
    BY <1>1 DEF Marked, BatchesFit
  <2> QED
    BY <2>1, <2>2 DEF OrderFits, GroupsFit
<1>7. SignaturesFit
  BY <1>1 DEF SignaturesFit
<1> QED
  BY <1>4, <1>5, <1>6, <1>7 DEF SemaphoreInductiveInv

-----------------------------------------------------------------------------
(* POST /register *)

RequestRecords ==
  [state : {"new", "check", "pubkey", "tree", "proof", "accepted", "rejected", "lost"},
   reg   : Registrations \cup {None}]

RequestsTypeOK ==
  /\ requests \in [Tokens -> RequestRecords]
  /\ \A r \in Open : requests[r].reg \in Registrations

LEMMA RequestsTyped ==
  ASSUME SemaphoreServerTypeOK
  PROVE  RequestsTypeOK
BY DEF SemaphoreServerTypeOK, RequestsTypeOK, RequestRecords

\* The types of what register does not touch.
LEMMA RegisterKeepsTypes ==
  ASSUME SemaphoreServerTypeOK, RequestsTypeOK',
         raced' \subseteq SUBSET Tokens,
         UNCHANGED <<semaphoreVars, task, inflight, groups, crashes>>,
         idp_pubkeys' \subseteq
           [pubkey : Commitments, identity : Identities, period : {ThePeriod}, token : Tokens],
         idp_tree_hashes' \subseteq
           [hash : Commitments, iteration : {NULL, 1}, period : {ThePeriod}],
         idp_pubkey_in_tree' \subseteq [hash : Commitments, pubkey : Commitments],
         treeOrder' \in Seq(Commitments),
         ToSet(treeOrder') = {row.hash : row \in idp_tree_hashes'},
         IsInjective(treeOrder')
  PROVE  SemaphoreServerTypeOK'
<1>1. SemaphoreTypeOK'
  BY DEF SemaphoreServerTypeOK, SemaphoreTypeOK, semaphoreVars, idpVars, registryVars, IDPTypeOK
<1> QED
  BY <1>1 DEF SemaphoreServerTypeOK, RequestsTypeOK, RequestRecords

LEMMA ArriveFits ==
  ASSUME SemaphoreServerTypeOK, RegistrationsFit, NEW r \in Tokens, NEW reg \in Registrations,
         Arrive(r, reg)
  PROVE  RequestsTypeOK' /\ RegistrationsFit' /\ raced' \subseteq SUBSET Tokens
<1>1. /\ requests[r].state = "new"
      /\ requests' = [requests EXCEPT ![r] = [state |-> "check", reg |-> reg]]
      /\ raced' = raced \cup {{q, r} : q \in Rivals(reg)}
      /\ UNCHANGED databaseVars
  BY DEF Arrive
<1>2. /\ requests' \in [Tokens -> RequestRecords]
      /\ requests'[r].state = "check" /\ requests'[r].reg = reg
      /\ \A q \in Tokens \ {r} : requests'[q] = requests[q]
  BY <1>1, RequestsTyped DEF RequestsTypeOK, RequestRecords
<1>3. Open' = Open \cup {r}
  BY <1>2 DEF Open
<1>4. RequestsTypeOK'
  <2>1. \A q \in Open' : requests'[q].reg \in Registrations
    BY <1>2, <1>3, RequestsTyped DEF RequestsTypeOK, Open
  <2> QED
    BY <1>2, <2>1 DEF RequestsTypeOK
<1>5. \A p, q \in Open' :
        requests'[p].reg.identity = requests'[q].reg.identity => p = q \/ {p, q} \in raced'
  <2>1. \A p, q \in Open : requests[p].reg.identity = requests[q].reg.identity
                             => p = q \/ {p, q} \in raced
    BY DEF RegistrationsFit, RequestsFit
  <2>2. \A q \in Open : requests[q].reg.identity = reg.identity => {q, r} \in raced'
    BY <1>1 DEF Rivals
  <2>3. Open \subseteq Tokens \ {r} /\ \A q : {q, r} = {r, q}
    BY <1>1 DEF Open
  <2> QED
    BY <1>1, <1>2, <1>3, <2>1, <2>2, <2>3
<1>6. ASSUME NEW q \in Tokens PROVE RequestFits(q)'
  <2>1. CASE q = r
    BY <1>1, <1>2, <2>1 DEF RegistrationsFit, RequestsFit, RequestFits, databaseVars
  <2>2. CASE q # r
    BY <1>1, <1>2, <2>2 DEF RegistrationsFit, RequestsFit, RequestFits, databaseVars, IsKey
  <2> QED
    BY <2>1, <2>2
<1>7. raced \subseteq SUBSET Tokens => raced' \subseteq SUBSET Tokens
  BY <1>1 DEF Rivals, Open
<1> QED
  BY <1>1, <1>3, <1>4, <1>5, <1>6, <1>7
  DEF RegistrationsFit, SemaphoreServerTypeOK, RowsFit, RequestsFit, IsKey, databaseVars

LEMMA CheckFits ==
  ASSUME SemaphoreServerTypeOK, RegistrationsFit, NEW r \in Tokens, Check(r)
  PROVE  RequestsTypeOK' /\ RegistrationsFit'
<1>1. /\ requests[r].state = "check" /\ r \in Open /\ requests[r].reg \in Registrations
      /\ UNCHANGED <<databaseVars, raced>>
  BY RequestsTyped DEF Check, Closes, Moves, RequestsTypeOK, RequestRecords, Open
<1>2. /\ requests' \in [Tokens -> RequestRecords]
      /\ \A q \in Tokens \ {r} : requests'[q] = requests[q]
      /\ \/ requests'[r].state = "rejected"
         \/ /\ requests'[r].state = "pubkey" /\ requests'[r].reg = requests[r].reg
            /\ ~ IsRegistered(requests[r].reg)
  BY RequestsTyped DEF Check, Closes, Moves, RequestsTypeOK, RequestRecords
<1>3. Open' \subseteq Open
  BY <1>1, <1>2 DEF Open
<1>4. RequestsTypeOK'
  <2>1. \A q \in Open' : requests'[q].reg \in Registrations
    BY <1>1, <1>2, <1>3, RequestsTyped DEF RequestsTypeOK, Open
  <2> QED
    BY <1>2, <2>1 DEF RequestsTypeOK
<1>5. ASSUME NEW q \in Tokens PROVE RequestFits(q)'
  <2>1. CASE q = r
    <3>1. requests'[r].state = "pubkey" =>
            \A row \in idp_pubkeys : row.identity # requests[r].reg.identity
      BY <1>1, <1>2 DEF IsRegistered, Registrations, SemaphoreServerTypeOK
    <3> QED
      BY <1>1, <1>2, <2>1, <3>1
      DEF RegistrationsFit, RequestsFit, RequestFits, databaseVars
  <2>2. CASE q # r
    BY <1>1, <1>2, <2>2 DEF RegistrationsFit, RequestsFit, RequestFits, databaseVars, IsKey
  <2> QED
    BY <2>1, <2>2
<1>6. \A p \in Open' : requests'[p].reg = requests[p].reg
  BY <1>2 DEF Open
<1> QED
  BY <1>1, <1>3, <1>4, <1>5, <1>6
  DEF RegistrationsFit, RowsFit, RequestsFit, IsKey, databaseVars

\* A request moves on to its next statement.
LEMMA MovesEffect ==
  ASSUME SemaphoreServerTypeOK, NEW r \in Tokens, requests[r].state \in {"pubkey", "tree"},
         NEW state \in {"tree", "proof"}, Moves(r, state)
  PROVE  /\ requests'[r].state = state /\ requests'[r].reg = requests[r].reg
         /\ \A q \in Tokens \ {r} : requests'[q] = requests[q]
         /\ Open' = Open /\ r \in Open /\ raced' = raced
         /\ requests[r].reg \in Registrations
         /\ RequestsTypeOK'
<1>1. requests \in [Tokens -> RequestRecords] /\ r \in Open /\ requests[r].reg \in Registrations
  BY RequestsTyped DEF RequestsTypeOK, RequestRecords, Open
<1>2. /\ requests' \in [Tokens -> RequestRecords]
      /\ requests'[r].state = state /\ requests'[r].reg = requests[r].reg
      /\ \A q \in Tokens \ {r} : requests'[q] = requests[q]
      /\ raced' = raced
  BY <1>1 DEF Moves, RequestRecords
<1>3. Open' = Open
  BY <1>1, <1>2 DEF Open
<1>4. \A q \in Open' : requests'[q].reg \in Registrations
  BY <1>2, <1>3, RequestsTyped DEF RequestsTypeOK, Open
<1> QED
  BY <1>1, <1>2, <1>3, <1>4 DEF RequestsTypeOK

LEMMA InsertPubkeyFits ==
  ASSUME SemaphoreServerTypeOK, RegistrationsFit, NEW r \in Tokens, InsertPubkey(r)
  PROVE  /\ RequestsTypeOK' /\ RegistrationsFit'
         /\ idp_pubkeys' \subseteq
              [pubkey : Commitments, identity : Identities, period : {ThePeriod}, token : Tokens]
<1> DEFINE reg == requests[r].reg
           new == [pubkey |-> reg.pubkey, identity |-> reg.identity,
                   period |-> reg.period, token |-> r]
<1>1. /\ requests[r].state = "pubkey" /\ Moves(r, "tree")
      /\ UNCHANGED <<idp_tree_hashes, idp_pubkey_in_tree>>
  BY DEF InsertPubkey
<1>2. /\ requests'[r].state = "tree" /\ requests'[r].reg = reg
      /\ \A q \in Tokens \ {r} : requests'[q] = requests[q]
      /\ Open' = Open /\ r \in Open /\ raced' = raced
      /\ reg \in Registrations
      /\ RequestsTypeOK'
  BY <1>1, MovesEffect
<1>3. /\ new \in [pubkey : Commitments, identity : Identities, period : {ThePeriod},
                  token : Tokens]
      /\ new.pubkey = reg.pubkey /\ new.identity = reg.identity
      /\ new.period = reg.period /\ new.token = r /\ reg.period = ThePeriod
  BY <1>2 DEF Registrations
<1>4. \/ idp_pubkeys' = idp_pubkeys /\ IsKey(reg.pubkey)
      \/ /\ idp_pubkeys' = idp_pubkeys \cup {new}
         /\ \A p \in idp_pubkeys : p.pubkey # reg.pubkey /\ p.token # r
  <2>1. \A p \in idp_pubkeys : p.token # r
    BY <1>1 DEF RegistrationsFit, RequestsFit, RequestFits
  <2> QED
    BY <2>1 DEF InsertPubkey, Register, IsKey
<1>5. /\ \A p \in idp_pubkeys : p.identity = reg.identity => {p.token, r} \in raced
      /\ \A q \in Open \ {r} : requests[q].reg.identity = reg.identity => {r, q} \in raced
  BY <1>1, <1>2 DEF RegistrationsFit, RequestsFit, RequestFits
<1> HIDE DEF new, reg
<1>6. /\ idp_pubkeys \subseteq idp_pubkeys'
      /\ \A p \in idp_pubkeys' : p \in idp_pubkeys \/ p = new
      /\ \E p \in idp_pubkeys' : p.pubkey = reg.pubkey
      /\ \A c : IsKey(c) => IsKey(c)'
  <2>1. CASE idp_pubkeys' = idp_pubkeys /\ IsKey(reg.pubkey)
    BY <1>2, <2>1 DEF IsKey
  <2>2. CASE idp_pubkeys' = idp_pubkeys \cup {new}
    <3>1. new \in idp_pubkeys' /\ new.pubkey = reg.pubkey
      BY <1>3, <2>2
    <3> QED
      BY <1>2, <2>2, <3>1 DEF IsKey
  <2> QED
    BY <1>4, <2>1, <2>2
<1>7. RowsFit'
  <2>1. \A p \in idp_pubkeys : p.identity = new.identity =>
          {p.token, new.token} \in raced /\ {new.token, p.token} \in raced
    <3>1. \A q : {q, r} = {r, q}
      OBVIOUS
    <3> QED
      BY <1>3, <1>5, <3>1
  <2>2. CASE idp_pubkeys' = idp_pubkeys
    BY <1>2, <2>2 DEF RegistrationsFit, RowsFit
  <2>3. CASE /\ idp_pubkeys' = idp_pubkeys \cup {new}
             /\ \A p \in idp_pubkeys : p.pubkey # reg.pubkey /\ p.token # r
    BY <1>2, <1>3, <2>1, <2>3 DEF RegistrationsFit, RowsFit
  <2> QED
    BY <1>4, <2>2, <2>3
<1>8. ASSUME NEW q \in Tokens PROVE RequestFits(q)'
  <2>1. CASE q = r
    BY <1>2, <1>6, <2>1 DEF RequestFits, IsKey
  <2>2. CASE q # r
    <3>1. requests'[q] = requests[q] /\ RequestFits(q)
      BY <1>2, <2>2 DEF RegistrationsFit, RequestsFit
    <3>2. requests[q].state = "pubkey" /\ new.identity = requests[q].reg.identity
            => {new.token, q} \in raced
      BY <1>3, <1>5, <2>2 DEF Open
    <3> QED
      BY <1>2, <1>3, <1>6, <2>2, <3>1, <3>2 DEF RequestFits
  <2> QED
    BY <2>1, <2>2
<1>9. RequestsFit'
  <2>1. \A q \in Open : requests'[q].reg = requests[q].reg
    BY <1>2 DEF Open, reg
  <2> QED
    BY <1>2, <1>8, <2>1 DEF RegistrationsFit, RequestsFit
<1>10. \A tree \in idp_tree_hashes' : IsKey(tree.hash)'
  BY <1>1, <1>6 DEF RegistrationsFit
<1>11. idp_pubkeys' \subseteq
         [pubkey : Commitments, identity : Identities, period : {ThePeriod}, token : Tokens]
  BY <1>3, <1>6 DEF SemaphoreServerTypeOK
<1> QED
  BY <1>2, <1>7, <1>9, <1>10, <1>11 DEF RegistrationsFit
LEMMA InsertTreeRowFits ==
  ASSUME SemaphoreServerTypeOK, RegistrationsFit, NEW r \in Tokens, InsertTreeRow(r)
  PROVE  /\ RequestsTypeOK' /\ RegistrationsFit'
         /\ idp_tree_hashes' \subseteq
              [hash : Commitments, iteration : {NULL, 1}, period : {ThePeriod}]
<1> DEFINE reg == requests[r].reg
           new == [hash |-> reg.pubkey, iteration |-> NULL, period |-> reg.period]
<1>1. /\ requests[r].state = "tree" /\ Moves(r, "proof")
      /\ UNCHANGED <<idp_pubkeys, idp_pubkey_in_tree>>
  BY DEF InsertTreeRow
<1>2. /\ requests'[r].state = "proof" /\ requests'[r].reg = reg
      /\ \A q \in Tokens \ {r} : requests'[q] = requests[q]
      /\ Open' = Open /\ raced' = raced
      /\ reg \in Registrations
      /\ RequestsTypeOK'
  BY <1>1, MovesEffect
<1>3. /\ new \in [hash : Commitments, iteration : {NULL, 1}, period : {ThePeriod}]
      /\ new.hash = reg.pubkey
  BY <1>2 DEF Registrations
<1>4. IsKey(reg.pubkey)
  BY <1>1 DEF RegistrationsFit, RequestsFit, RequestFits
<1>5. idp_tree_hashes' = idp_tree_hashes \/ idp_tree_hashes' = idp_tree_hashes \cup {new}
  BY DEF InsertTreeRow, InsertTree
<1> HIDE DEF new, reg
<1>6. RowsFit' /\ \A c : IsKey(c)' <=> IsKey(c)
  BY <1>1, <1>2 DEF RegistrationsFit, RowsFit, IsKey
<1>7. \A tree \in idp_tree_hashes' : IsKey(tree.hash)
  BY <1>3, <1>4, <1>5 DEF RegistrationsFit
<1>8. ASSUME NEW q \in Tokens PROVE RequestFits(q)'
  <2>1. CASE q = r
    BY <1>2, <2>1 DEF RequestFits
  <2>2. CASE q # r
    BY <1>1, <1>2, <1>6, <2>2 DEF RegistrationsFit, RequestsFit, RequestFits, IsKey
  <2> QED
    BY <2>1, <2>2
<1>9. RequestsFit'
  <2>1. \A q \in Open : requests'[q].reg = requests[q].reg
    BY <1>2 DEF Open, reg
  <2> QED
    BY <1>2, <1>8, <2>1 DEF RegistrationsFit, RequestsFit
<1>10. idp_tree_hashes' \subseteq
         [hash : Commitments, iteration : {NULL, 1}, period : {ThePeriod}]
  BY <1>3, <1>5 DEF SemaphoreServerTypeOK
<1> QED
  BY <1>2, <1>6, <1>7, <1>9, <1>10 DEF RegistrationsFit, IsKey

LEMMA InsertProofRowFits ==
  ASSUME SemaphoreServerTypeOK, RegistrationsFit, NEW r \in Tokens, InsertProofRow(r)
  PROVE  /\ RequestsTypeOK' /\ RegistrationsFit'
         /\ idp_pubkey_in_tree' \subseteq [hash : Commitments, pubkey : Commitments]
<1> DEFINE k == requests[r].reg.pubkey
<1>1. /\ requests[r].state = "proof"
      /\ requests' = [requests EXCEPT ![r] = [state |-> "accepted", reg |-> None]]
      /\ InsertProofs(k, {k})
      /\ UNCHANGED <<idp_pubkeys, idp_tree_hashes, raced>>
  BY DEF InsertProofRow, Closes
<1>2. \/ idp_pubkey_in_tree' = idp_pubkey_in_tree
      \/ idp_pubkey_in_tree' = idp_pubkey_in_tree \cup {[hash |-> k, pubkey |-> k]}
  BY <1>1 DEF InsertProofs
<1>3. k \in Commitments
  BY <1>1, RequestsTyped DEF RequestsTypeOK, Open, Registrations
<1> HIDE DEF k
<1>4. /\ requests' \in [Tokens -> RequestRecords]
      /\ requests'[r].state = "accepted"
      /\ \A q \in Tokens \ {r} : requests'[q] = requests[q]
  BY <1>1, RequestsTyped DEF RequestsTypeOK, RequestRecords
<1>5. Open' \subseteq Open /\ \A q \in Open' : requests'[q] = requests[q]
  BY <1>1, <1>4 DEF Open
<1>6. RequestsTypeOK'
  <2>1. \A q \in Open' : requests'[q].reg \in Registrations
    BY <1>5, RequestsTyped DEF RequestsTypeOK
  <2> QED
    BY <1>4, <2>1 DEF RequestsTypeOK
<1>7. idp_pubkey_in_tree' \subseteq [hash : Commitments, pubkey : Commitments]
  BY <1>2, <1>3 DEF SemaphoreServerTypeOK
<1>8. ASSUME NEW q \in Tokens PROVE RequestFits(q)'
  <2>1. CASE q = r
    BY <1>4, <2>1 DEF RequestFits
  <2>2. CASE q # r
    BY <1>1, <1>4, <2>2 DEF RegistrationsFit, RequestsFit, RequestFits, IsKey
  <2> QED
    BY <2>1, <2>2
<1> QED
  BY <1>1, <1>5, <1>6, <1>7, <1>8 DEF RegistrationsFit, RowsFit, RequestsFit, IsKey

LEMMA LostFits ==
  ASSUME SemaphoreServerTypeOK, RegistrationsFit, RequestsLost, UNCHANGED databaseVars
  PROVE  RequestsTypeOK' /\ RegistrationsFit'
<1>1. /\ requests' \in [Tokens -> RequestRecords]
      /\ \A q \in Tokens : requests'[q].state = "lost" \/ requests'[q] = requests[q]
      /\ \A q \in Open : requests'[q].state = "lost"
      /\ raced' = raced
  BY RequestsTyped DEF RequestsLost, RequestsTypeOK, RequestRecords, Open
<1>2. Open' = {}
  BY <1>1 DEF Open
<1>3. RequestsTypeOK'
  BY <1>1, <1>2 DEF RequestsTypeOK
<1>4. ASSUME NEW q \in Tokens PROVE RequestFits(q)'
  BY <1>1 DEF RegistrationsFit, RequestsFit, RequestFits, IsKey, databaseVars
<1> QED
  BY <1>1, <1>2, <1>3, <1>4 DEF RegistrationsFit, RowsFit, RequestsFit, IsKey, databaseVars

\* Marking rows and whatever the contracts and clients do is no concern of
\* requests.
LEMMA RegistrationsKept ==
  ASSUME RegistrationsFit, UNCHANGED <<idp_pubkeys, requests, raced>>,
         \A tree \in idp_tree_hashes' : \E t \in idp_tree_hashes : t.hash = tree.hash
  PROVE  RegistrationsFit'
BY DEF RegistrationsFit, RowsFit, RequestsFit, RequestFits, IsKey, Open
-----------------------------------------------------------------------------
(* The order of the rows *)

LEMMA OrderTyped ==
  ASSUME SemaphoreServerTypeOK
  PROVE  /\ treeOrder \in Seq(Commitments) /\ IsInjective(treeOrder)
         /\ Len(treeOrder) \in Nat /\ DOMAIN treeOrder = 1 .. Len(treeOrder)
         /\ \A k \in 1 .. Len(treeOrder) : treeOrder[k] \in Commitments
         /\ \A tree \in idp_tree_hashes : \E k \in 1 .. Len(treeOrder) : treeOrder[k] = tree.hash
         /\ \A k \in 1 .. Len(treeOrder) : \E tree \in idp_tree_hashes : treeOrder[k] = tree.hash
         /\ idp_tree_hashes \subseteq
              [hash : Commitments, iteration : {NULL, 1}, period : {ThePeriod}]
         /\ members \in Seq(Leaves) /\ Len(members) \in Nat
         /\ task.batch \in Seq(Commitments) /\ Len(task.batch) \in Nat
         /\ inflight \in Seq(Leaves) /\ Len(inflight) \in Nat
<1>1. treeOrder \in Seq(Commitments) /\ members \in Seq(Leaves)
      /\ task.batch \in Seq(Commitments) /\ inflight \in Seq(Leaves)
  BY DEF SemaphoreServerTypeOK, SemaphoreTypeOK
<1>2. DOMAIN treeOrder = 1 .. Len(treeOrder)
  BY <1>1, LenProperties
<1>3. ToSet(treeOrder) = {tree.hash : tree \in idp_tree_hashes}
  BY DEF SemaphoreServerTypeOK
<1>4. /\ \A tree \in idp_tree_hashes : \E k \in 1 .. Len(treeOrder) : treeOrder[k] = tree.hash
      /\ \A k \in 1 .. Len(treeOrder) : \E tree \in idp_tree_hashes : treeOrder[k] = tree.hash
  BY <1>2, <1>3 DEF ToSet
<1>5. IsInjective(treeOrder) /\ idp_tree_hashes \subseteq
        [hash : Commitments, iteration : {NULL, 1}, period : {ThePeriod}]
  BY DEF SemaphoreServerTypeOK
<1>6. /\ Len(treeOrder) \in Nat /\ Len(members) \in Nat
      /\ Len(task.batch) \in Nat /\ Len(inflight) \in Nat
  BY <1>1, LenProperties
<1>7. \A k \in 1 .. Len(treeOrder) : treeOrder[k] \in Commitments
  BY <1>1, ElementOfSeq
<1> QED
  BY <1>1, <1>2, <1>4, <1>5, <1>6, <1>7

\* The rows that wait are those after the n-th, and the group handed out is
\* what comes before.
LEMMA RowsSelected ==
  ASSUME SemaphoreServerTypeOK, OrderFits, NEW n \in Nat, Marked(n)
  PROVE  /\ TreesToInclude(ThePeriod) = {treeOrder[k] : k \in n + 1 .. Len(treeOrder)}
         /\ InRowOrder(TreesToInclude(ThePeriod))
              = [k \in 1 .. Len(treeOrder) - n |-> treeOrder[n + k]]
         /\ TreesIncluded = [k \in 1 .. n |-> BigInt[treeOrder[k]]]
<1>1. /\ n <= Len(treeOrder)
      /\ \A k \in 1 .. Len(treeOrder) : treeOrder[k] \in Included <=> k <= n
  BY OrderTyped DEF Marked
<1>2. \A s, t \in idp_tree_hashes : s.hash = t.hash => s = t
  BY DEF OrderFits
<1>3. \A tree \in idp_tree_hashes : tree.period = ThePeriod
  BY OrderTyped
<1>4. \A c : c \in TreesToInclude(ThePeriod)
               <=> c \notin Included /\ \E tree \in idp_tree_hashes : tree.hash = c
  BY <1>2, <1>3 DEF TreesToInclude, Included
<1>5. \A c : c \in TreesOfPeriod(ThePeriod) <=> \E tree \in idp_tree_hashes : tree.hash = c
  BY <1>3 DEF TreesOfPeriod
<1>6. \A c : (\E tree \in idp_tree_hashes : tree.hash = c)
               <=> \E k \in 1 .. Len(treeOrder) : treeOrder[k] = c
  BY OrderTyped
<1>7. TreesToInclude(ThePeriod) = {treeOrder[k] : k \in n + 1 .. Len(treeOrder)}
  <2>1. \A k \in n + 1 .. Len(treeOrder) : k \in 1 .. Len(treeOrder) /\ ~ k <= n
    BY OrderTyped
  <2>2. \A k \in 1 .. Len(treeOrder) : ~ k <= n => k \in n + 1 .. Len(treeOrder)
    BY OrderTyped
  <2>3. \A c : c \in TreesToInclude(ThePeriod)
                 <=> \E k \in n + 1 .. Len(treeOrder) : treeOrder[k] = c
    BY <1>1, <1>4, <1>6, <2>1, <2>2
  <2> QED
    BY <2>3
<1>8. TreesOfPeriod(ThePeriod) \ TreesToInclude(ThePeriod) = {treeOrder[k] : k \in 0 + 1 .. n}
  <2>1. \A k \in 0 + 1 .. n : k \in 1 .. Len(treeOrder) /\ k <= n
    BY <1>1, OrderTyped
  <2>2. \A k \in 1 .. Len(treeOrder) : k <= n => k \in 0 + 1 .. n
    BY OrderTyped
  <2>3. \A c : c \in TreesOfPeriod(ThePeriod) \ TreesToInclude(ThePeriod)
                 <=> \E k \in 0 + 1 .. n : treeOrder[k] = c
    BY <1>1, <1>4, <1>5, <1>6, <2>1, <2>2
  <2> QED
    BY <2>3
<1>9. InRowOrder(TreesToInclude(ThePeriod))
        = [k \in 1 .. Len(treeOrder) - n |-> treeOrder[n + k]]
  <2> DEFINE last == Len(treeOrder)
             hashes == TreesToInclude(ThePeriod)
  <2>1. last \in Nat /\ last <= Len(treeOrder) /\ n <= last
        /\ treeOrder \in Seq(Commitments) /\ IsInjective(treeOrder)
    BY <1>1, OrderTyped
  <2>2. hashes = {treeOrder[k] : k \in n + 1 .. last}
    BY <1>7
  <2> HIDE DEF last, hashes
  <2>3. InRowOrder(hashes) = [k \in 1 .. last - n |-> treeOrder[n + k]]
    BY <2>1, <2>2, NeighboursInOrder
  <2> QED
    BY <2>3 DEF last, hashes
<1>10. InRowOrder(TreesOfPeriod(ThePeriod) \ TreesToInclude(ThePeriod))
         = [k \in 1 .. n - 0 |-> treeOrder[0 + k]]
  <2>1. 0 \in Nat /\ 0 <= n
    OBVIOUS
  <2> QED
    BY <1>1, <1>8, <2>1, OrderTyped, NeighboursInOrder
<1>11. n - 0 = n /\ \A k \in 1 .. n : 0 + k = k
  OBVIOUS
<1>12. TreesIncluded = [k \in 1 .. n |-> BigInt[treeOrder[k]]]
  BY <1>10, <1>11 DEF TreesIncluded, Parsed
<1> QED
  BY <1>7, <1>9, <1>12

LEMMA OrderKept ==
  ASSUME OrderFits,
         UNCHANGED <<idp_tree_hashes, treeOrder, members, roots, task, inflight, groups, crashes>>
  PROVE  OrderFits'
BY DEF OrderFits, Marked, BatchesFit, NextRows, NextLeaves, GroupsFit, Included

\* Only the run, its transaction and the number of kills change.
LEMMA OnlyBatchesChange ==
  ASSUME OrderFits, UNCHANGED <<idp_tree_hashes, treeOrder, members, roots, groups>>,
         \A n \in Nat : Marked(n) /\ BatchesFit(n) => BatchesFit(n)'
  PROVE  OrderFits'
<1>1. \A n \in Nat : Marked(n) => Marked(n)'
  BY DEF Marked, Included
<1>2. GroupsFit'
  BY DEF OrderFits, GroupsFit
<1> QED
  BY <1>1, <1>2 DEF OrderFits

LEMMA InsertTreeRowOrder ==
  ASSUME SemaphoreServerTypeOK, OrderFits, NEW r \in Tokens, SemaphoreInsertTreeRow(r),
         UNCHANGED <<semaphoreVars, task, inflight, groups, crashes>>
  PROVE  /\ OrderFits'
         /\ treeOrder' \in Seq(Commitments) /\ IsInjective(treeOrder')
         /\ ToSet(treeOrder') = {row.hash : row \in idp_tree_hashes'}
<1> DEFINE c == requests[r].reg.pubkey
           new == [hash |-> c, iteration |-> NULL, period |-> requests[r].reg.period]
<1>1. c \in Commitments
  BY RequestsTyped DEF SemaphoreInsertTreeRow, InsertTreeRow, RequestsTypeOK, Open, Registrations
<1>2. new.hash = c /\ new.iteration = NULL
  OBVIOUS
<1>3. Contains(treeOrder, c) <=> \E tree \in idp_tree_hashes : tree.hash = c
  BY OrderTyped DEF Contains
<1>4. \/ idp_tree_hashes' = idp_tree_hashes /\ treeOrder' = treeOrder
      \/ /\ idp_tree_hashes' = idp_tree_hashes \cup {new}
         /\ treeOrder' = Append(treeOrder, c)
         /\ \A tree \in idp_tree_hashes : tree.hash # c
  BY <1>3 DEF SemaphoreInsertTreeRow, InsertTreeRow, InsertTree
<1> HIDE DEF c, new
<1>5. CASE idp_tree_hashes' = idp_tree_hashes /\ treeOrder' = treeOrder
  <2>1. OrderFits'
    BY <1>5, OrderKept DEF semaphoreVars
  <2> QED
    BY <1>5, <2>1 DEF SemaphoreServerTypeOK
<1>6. CASE /\ idp_tree_hashes' = idp_tree_hashes \cup {new}
           /\ treeOrder' = Append(treeOrder, c)
           /\ \A tree \in idp_tree_hashes : tree.hash # c
  <2>1. /\ treeOrder' \in Seq(Commitments) /\ Len(treeOrder') = Len(treeOrder) + 1
        /\ \A k \in 1 .. Len(treeOrder) : treeOrder'[k] = treeOrder[k]
        /\ treeOrder'[Len(treeOrder) + 1] = c
    BY <1>1, <1>6, OrderTyped
  <2>2. DOMAIN treeOrder' = 1 .. Len(treeOrder) + 1
    BY <2>1, LenProperties
  <2>3. \A k \in 1 .. Len(treeOrder) : treeOrder[k] # c
    BY <1>6, OrderTyped
  <2>4. \A k \in 1 .. Len(treeOrder) + 1 : k \in 1 .. Len(treeOrder) \/ k = Len(treeOrder) + 1
    BY OrderTyped
  <2>5. IsInjective(treeOrder')
    BY <2>1, <2>2, <2>3, <2>4, OrderTyped DEF IsInjective
  <2>6. ToSet(treeOrder') = {row.hash : row \in idp_tree_hashes'}
    <3>1. 1 .. Len(treeOrder) + 1 = 1 .. Len(treeOrder) \cup {Len(treeOrder) + 1}
      BY OrderTyped
    <3>2. \A d : d \in ToSet(treeOrder') <=>
                   d = c \/ \E k \in 1 .. Len(treeOrder) : treeOrder[k] = d
      BY <2>1, <2>2, <3>1 DEF ToSet
    <3>3. \A d : d \in {row.hash : row \in idp_tree_hashes'}
                   <=> d = c \/ \E row \in idp_tree_hashes : row.hash = d
      BY <1>2, <1>6
    <3>4. \A d : (\E k \in 1 .. Len(treeOrder) : treeOrder[k] = d)
                   <=> \E row \in idp_tree_hashes : row.hash = d
      BY OrderTyped
    <3> QED
      BY <3>2, <3>3, <3>4
  <2>7. Included' = Included /\ c \notin Included
    BY <1>2, <1>6 DEF Included
  <2>8. ASSUME NEW n \in Nat, Marked(n), BatchesFit(n)
        PROVE  Marked(n)' /\ BatchesFit(n)'
    <3>1. Marked(n)'
      <4>1. \A k \in 1 .. Len(treeOrder) + 1 : treeOrder'[k] \in Included <=> k <= n
        BY <2>1, <2>4, <2>7, <2>8, OrderTyped DEF Marked
      <4>2. \A k \in 1 .. Len(members) : members[k] = BigInt[treeOrder'[k]]
        BY <2>1, <2>8, OrderTyped DEF Marked
      <4> QED
        BY <2>1, <2>7, <2>8, <4>1, <4>2, OrderTyped DEF Marked, semaphoreVars
    <3>2. ASSUME NEW batch \in Seq(Commitments), NextRows(n, batch)
          PROVE  /\ n + Len(batch) <= Len(treeOrder')
                 /\ \A k \in 1 .. Len(batch) : batch[k] = treeOrder'[n + k]
      <4>1. Len(batch) \in Nat
        BY LenProperties
      <4>2. \A k \in 1 .. Len(batch) : n + k \in 1 .. Len(treeOrder)
        BY <3>2, <4>1, OrderTyped DEF NextRows
      <4>3. \A k \in 1 .. Len(batch) : treeOrder'[n + k] = treeOrder[n + k]
        BY <2>1, <4>2
      <4>4. n + Len(batch) <= Len(treeOrder')
        BY <2>1, <3>2, <4>1, OrderTyped DEF NextRows
      <4> QED
        BY <3>2, <4>3, <4>4 DEF NextRows
    <3>3. ASSUME NextLeaves(n, inflight) PROVE NextLeaves(n, inflight)'
      <4>1. \A k \in 1 .. Len(inflight) : n + k \in 1 .. Len(treeOrder)
        BY <3>3, OrderTyped DEF NextLeaves
      <4> QED
        BY <2>1, <3>3, <4>1, OrderTyped DEF NextLeaves
    <3>4. BatchesFit(n)'
      BY <2>8, <3>2, <3>3, OrderTyped DEF BatchesFit, NextRows, semaphoreVars
    <3> QED
      BY <3>1, <3>4
  <2>9. GroupsFit'
    BY DEF OrderFits, GroupsFit, semaphoreVars
  <2>10. \A s, t \in idp_tree_hashes' : s.hash = t.hash => s = t
    BY <1>2, <1>6 DEF OrderFits
  <2> QED
    BY <2>1, <2>5, <2>6, <2>8, <2>9, <2>10 DEF OrderFits
<1> QED
  BY <1>4, <1>5, <1>6
-----------------------------------------------------------------------------
(* A run of interval_task and its transaction *)

TaskRecords == [pc : {"idle", "submit", "mining", "update"}, batch : Seq(Commitments)]

\* The types after a step of the run, its transaction, a kill or a client.
LEMMA RunKeepsTypes ==
  ASSUME SemaphoreServerTypeOK, SemaphoreTypeOK', RequestsTypeOK',
         UNCHANGED <<idp_pubkeys, idp_pubkey_in_tree, raced, treeOrder>>,
         idp_tree_hashes' \subseteq
           [hash : Commitments, iteration : {NULL, 1}, period : {ThePeriod}],
         \A c : (\E row \in idp_tree_hashes' : row.hash = c)
                  <=> (\E row \in idp_tree_hashes : row.hash = c),
         task' \in TaskRecords, inflight' \in Seq(Leaves), crashes' \in Nat,
         groups' \in [Tokens -> Seq(Leaves)]
  PROVE  SemaphoreServerTypeOK'
<1>1. {row.hash : row \in idp_tree_hashes'} = {row.hash : row \in idp_tree_hashes}
  OBVIOUS
<1>2. ToSet(treeOrder)' = ToSet(treeOrder) /\ IsInjective(treeOrder)' = IsInjective(treeOrder)
  BY DEF ToSet, IsInjective
<1> QED
  BY <1>1, <1>2 DEF SemaphoreServerTypeOK, TaskRecords, RequestsTypeOK, RequestRecords

LEMMA ContractsKept ==
  ASSUME SemaphoreServerTypeOK, UNCHANGED semaphoreVars
  PROVE  SemaphoreTypeOK'
BY DEF SemaphoreServerTypeOK, SemaphoreTypeOK, semaphoreVars, idpVars, registryVars, IDPTypeOK

\* The same if tables and contracts stay as they are.
LEMMA RunOnly ==
  ASSUME SemaphoreServerTypeOK, UNCHANGED <<rowVars, semaphoreVars, treeOrder>>,
         task' \in TaskRecords, inflight' \in Seq(Leaves), crashes' \in Nat,
         groups' \in [Tokens -> Seq(Leaves)]
  PROVE  SemaphoreServerTypeOK'
<1>1. RequestsTypeOK'
  BY RequestsTyped DEF RequestsTypeOK, Open, rowVars
<1>2. idp_tree_hashes \subseteq [hash : Commitments, iteration : {NULL, 1}, period : {ThePeriod}]
  BY OrderTyped
<1> QED
  BY <1>1, <1>2, ContractsKept, RunKeepsTypes DEF rowVars, databaseVars

LEMMA SelectBatchInv ==
  ASSUME SemaphoreServerTypeOK, OrderFits, SelectBatch
  PROVE  SemaphoreServerTypeOK' /\ OrderFits'
<1> DEFINE batch == InRowOrder(TreesToInclude(ThePeriod))
<1>1. /\ task.pc = "idle" /\ TreesToInclude(ThePeriod) # {}
      /\ task' = [pc |-> "submit", batch |-> batch]
      /\ UNCHANGED <<rowVars, semaphoreVars, treeOrder, inflight, groups, crashes>>
  BY DEF SelectBatch, interval_lock
<1>2. ASSUME NEW n \in Nat, Marked(n)
      PROVE  /\ batch \in Seq(Commitments) /\ batch # << >>
             /\ NextRows(n, batch)
  <2>1. /\ TreesToInclude(ThePeriod) = {treeOrder[k] : k \in n + 1 .. Len(treeOrder)}
        /\ batch = [k \in 1 .. Len(treeOrder) - n |-> treeOrder[n + k]]
    BY <1>2, RowsSelected
  <2>2. n < Len(treeOrder)
    <3>1. \E k \in n + 1 .. Len(treeOrder) : TRUE
      BY <1>1, <2>1
    <3> QED
      BY <3>1, OrderTyped
  <2>3. \A k \in 1 .. Len(treeOrder) - n : treeOrder[n + k] \in Commitments
    BY OrderTyped
  <2> HIDE DEF batch
  <2>4. /\ batch \in Seq(Commitments) /\ Len(batch) = Len(treeOrder) - n
        /\ \A k \in 1 .. Len(treeOrder) - n : batch[k] = treeOrder[n + k]
    <3> DEFINE m == Len(treeOrder) - n
    <3>1. m \in Nat /\ m = Len(treeOrder) - n
      BY <2>2, OrderTyped
    <3> HIDE DEF m
    <3>2. batch \in [1 .. m -> Commitments] /\ \A k \in 1 .. m : batch[k] = treeOrder[n + k]
      BY <2>1, <2>3, <3>1
    <3>3. batch \in Seq(Commitments)
      BY <3>1, <3>2, SeqDef
    <3>4. Len(batch) = m
      <4>1. Len(batch) \in Nat /\ 1 .. Len(batch) = 1 .. m
        BY <3>2, <3>3, LenProperties
      <4> QED
        BY <3>1, <4>1
    <3> QED
      BY <3>1, <3>2, <3>3, <3>4
  <2> QED
    BY <2>2, <2>4, OrderTyped, EmptySeq DEF NextRows
<1> HIDE DEF batch
<1>3. task' \in TaskRecords
  BY <1>1, <1>2 DEF TaskRecords, OrderFits
<1>4. OrderFits'
  <2>1. ASSUME NEW n \in Nat, Marked(n), BatchesFit(n)
        PROVE  BatchesFit(n)'
    BY <1>1, <1>2, <2>1 DEF BatchesFit, NextRows, NextLeaves, semaphoreVars
  <2> QED
    BY <1>1, <2>1, OnlyBatchesChange DEF rowVars, databaseVars, semaphoreVars
<1> QED
  BY <1>1, <1>3, <1>4, RunOnly DEF SemaphoreServerTypeOK

LEMMA TaskAtPc ==
  ASSUME task \in TaskRecords, NEW pc \in {"idle", "submit", "mining", "update"}
  PROVE  /\ [task EXCEPT !.pc = pc] \in TaskRecords
         /\ [task EXCEPT !.pc = pc].pc = pc
         /\ [task EXCEPT !.pc = pc].batch = task.batch
BY DEF TaskRecords

\* A batch is sent only if its first row is not a member yet.
LEMMA SendBatchInv ==
  ASSUME SemaphoreServerTypeOK, OrderFits, SendBatch
  PROVE  SemaphoreServerTypeOK' /\ OrderFits'
<1> DEFINE parsed == Parsed(task.batch)
<1>1. /\ task.pc = "submit" /\ IsInjective(members \o parsed)
      /\ inflight' = parsed /\ task' = [task EXCEPT !.pc = "mining"]
      /\ UNCHANGED <<rowVars, semaphoreVars, treeOrder, groups, crashes>>
  BY DEF SendBatch, CanAddMembers
<1>2. /\ parsed \in Seq(Leaves) /\ Len(parsed) = Len(task.batch)
      /\ \A k \in 1 .. Len(task.batch) : parsed[k] = BigInt[task.batch[k]]
      /\ parsed = Parsed(task.batch)
  BY OrderTyped, ParsedFacts DEF SendBatch, CanAddMembers
<1> HIDE DEF parsed
<1>3. task \in TaskRecords
  BY DEF SemaphoreServerTypeOK, TaskRecords
<1>4. task' \in TaskRecords /\ task'.pc = "mining" /\ task'.batch = task.batch
  BY <1>1, <1>3, TaskAtPc
<1>5. ASSUME NEW n \in Nat, Marked(n), BatchesFit(n)
      PROVE  Len(members) = n
  <2>1. task.batch # << >> /\ NextRows(n, task.batch) /\ 1 \in 1 .. Len(task.batch)
    BY <1>1, <1>5, OrderTyped, EmptySeq DEF BatchesFit
  <2>2. SUFFICES ASSUME n < Len(members) PROVE FALSE
    BY <1>5, OrderTyped DEF Marked
  <2>3. parsed[1] = BigInt[treeOrder[n + 1]] /\ members[n + 1] = BigInt[treeOrder[n + 1]]
    <3>1. n + 1 \in 1 .. Len(members)
      BY <2>2, OrderTyped
    <3>2. members[n + 1] = BigInt[treeOrder[n + 1]]
      BY <1>5, <3>1 DEF Marked
    <3> QED
      BY <1>2, <2>1, <3>2 DEF NextRows
  <2>4. /\ DOMAIN (members \o parsed) = 1 .. Len(members) + Len(task.batch)
        /\ (members \o parsed)[n + 1] = members[n + 1]
        /\ (members \o parsed)[Len(members) + 1] = parsed[1]
    <3>1. /\ members \in Seq(Leaves) /\ parsed \in Seq(Leaves)
          /\ Len(members) \in Nat /\ Len(parsed) = Len(task.batch)
          /\ 1 \in 1 .. Len(parsed) /\ n + 1 \in 1 .. Len(members)
      BY <1>2, <2>1, <2>2, OrderTyped
    <3> QED
      BY <3>1
  <2>5. n + 1 \in 1 .. Len(members) + Len(task.batch)
        /\ Len(members) + 1 \in 1 .. Len(members) + Len(task.batch)
    BY <2>1, <2>2, OrderTyped
  <2>6. n + 1 = Len(members) + 1
    BY <1>1, <2>3, <2>4, <2>5 DEF IsInjective
  <2> QED
    BY <2>2, <2>6, OrderTyped
<1>6. ASSUME NEW n \in Nat, Marked(n), BatchesFit(n)
      PROVE  BatchesFit(n)'
  <2>1. NextRows(n, task.batch) /\ Len(members) = n /\ task.batch # << >>
    BY <1>1, <1>5, <1>6 DEF BatchesFit
  <2>2. NextLeaves(n, parsed)
    BY <1>2, <2>1 DEF NextRows, NextLeaves
  <2>3. inflight' = Parsed(task'.batch)
    BY <1>1, <1>4, <1>2
  <2> QED
    BY <1>1, <1>4, <1>6, <2>1, <2>2, <2>3
    DEF BatchesFit, NextRows, NextLeaves, semaphoreVars
<1>7. OrderFits'
  BY <1>1, <1>6, OnlyBatchesChange DEF rowVars, databaseVars, semaphoreVars
<1> QED
  BY <1>1, <1>4, <1>7, <1>2, RunOnly DEF SemaphoreServerTypeOK

LEMMA MembersGrow ==
  ASSUME SemaphoreServerTypeOK, GroupsFit, NEW batch \in Seq(Leaves),
         members' = members \o batch
  PROVE  /\ members' \in Seq(Leaves)
         /\ Len(members') = Len(members) + Len(batch)
         /\ \A k \in 1 .. Len(members) : members'[k] = members[k]
         /\ \A k \in 1 .. Len(batch) : members'[Len(members) + k] = batch[k]
         /\ \A g \in Seq(Leaves) : IsPrefix(g, members) => IsPrefix(g, members')
         /\ ToSet(members) \subseteq ToSet(members')
<1>1. /\ members \in Seq(Leaves) /\ Len(members) \in Nat /\ Len(batch) \in Nat
  BY OrderTyped, LenProperties
<1>2. /\ members' \in Seq(Leaves)
      /\ Len(members') = Len(members) + Len(batch)
      /\ \A k \in 1 .. Len(members) : members'[k] = members[k]
      /\ \A k \in 1 .. Len(batch) : members'[Len(members) + k] = batch[k]
  BY <1>1
<1>3. ASSUME NEW g \in Seq(Leaves), IsPrefix(g, members)
      PROVE  IsPrefix(g, members')
  <2>1. Len(g) \in Nat /\ Len(g) <= Len(members) /\ \A k \in 1 .. Len(g) : g[k] = members[k]
    BY <1>1, <1>3, PrefixPointwise, LenProperties
  <2>2. Len(g) <= Len(members') /\ \A k \in 1 .. Len(g) : g[k] = members'[k]
    BY <1>1, <1>2, <2>1
  <2> QED
    BY <1>2, <2>2, PrefixPointwise
<1>4. ToSet(members) \subseteq ToSet(members')
  <2>1. DOMAIN members = 1 .. Len(members) /\ DOMAIN members' = 1 .. Len(members')
    BY <1>1, <1>2, LenProperties
  <2>2. \A k \in 1 .. Len(members) : k \in 1 .. Len(members')
    BY <1>1, <1>2
  <2> QED
    BY <1>2, <2>1, <2>2 DEF ToSet
<1> QED
  BY <1>2, <1>3, <1>4
\* Of what is in flight nothing is a member yet, so it is never refused; the
\* run that waits for it has rows to mark.
LEMMA MineBatchInv ==
  ASSUME SemaphoreServerTypeOK, OrderFits, MineBatch
  PROVE  SemaphoreServerTypeOK' /\ OrderFits'
<1>1. /\ inflight # << >> /\ members' = members \o inflight /\ IsInjective(members')
      /\ inflight' = << >> /\ roots' = roots \cup {members'}
      /\ task' = IF Waits THEN [task EXCEPT !.pc = "update"] ELSE task
      /\ UNCHANGED <<rowVars, treeOrder, groups, crashes, idpVars, registryVars, nullifiers>>
  BY DEF MineBatch, AddMembers, CanAddMembers
<1>2. task \in TaskRecords
  BY DEF SemaphoreServerTypeOK, TaskRecords
<1>3. /\ task' \in TaskRecords /\ task'.batch = task.batch
      /\ task'.pc = IF Waits THEN "update" ELSE task.pc
  BY <1>1, <1>2, TaskAtPc
<1>4. /\ members' \in Seq(Leaves)
      /\ Len(members') = Len(members) + Len(inflight)
      /\ \A k \in 1 .. Len(members) : members'[k] = members[k]
      /\ \A k \in 1 .. Len(inflight) : members'[Len(members) + k] = inflight[k]
      /\ \A g \in Seq(Leaves) : IsPrefix(g, members) => IsPrefix(g, members')
  BY <1>1, OrderTyped, MembersGrow DEF OrderFits
<1>5. ASSUME NEW n \in Nat, Marked(n), BatchesFit(n)
      PROVE  Marked(n)' /\ BatchesFit(n)'
  <2>1. /\ Len(members) = n /\ NextLeaves(n, inflight)
        /\ n + Len(inflight) <= Len(treeOrder)
    BY <1>1, <1>5 DEF BatchesFit, NextLeaves
  <2>2. \A k \in 1 .. Len(members') : members'[k] = BigInt[treeOrder[k]]
    <3> SUFFICES ASSUME NEW k \in 1 .. Len(members') PROVE members'[k] = BigInt[treeOrder[k]]
      OBVIOUS
    <3>1. CASE k <= n
      <4>1. k \in 1 .. Len(members)
        BY <1>4, <2>1, <3>1, OrderTyped
      <4> QED
        BY <1>4, <1>5, <4>1 DEF Marked
    <3>2. CASE ~ k <= n
      <4>1. k - n \in 1 .. Len(inflight) /\ n + (k - n) = k
        BY <1>4, <2>1, <3>2, OrderTyped
      <4> QED
        BY <1>4, <2>1, <4>1 DEF NextLeaves
    <3> QED
      BY <3>1, <3>2
  <2>3. Marked(n)'
    BY <1>1, <1>4, <1>5, <2>1, <2>2, OrderTyped DEF Marked, Included, rowVars, databaseVars
  <2>4. Waits => task.pc = "mining" /\ Len(task.batch) = Len(inflight)
    BY OrderTyped, ParsedFacts DEF Waits
  <2>5. task.pc = "mining" => Waits
    BY <1>5 DEF BatchesFit, Waits
  <2>6. BatchesFit(n)'
    BY <1>1, <1>3, <1>4, <1>5, <2>1, <2>4, <2>5 DEF BatchesFit, NextRows, NextLeaves
  <2> QED
    BY <2>3, <2>6
<1>6. GroupsFit'
  <2>1. \A r \in Tokens : IsPrefix(groups'[r], members')
    BY <1>1, <1>4 DEF OrderFits, GroupsFit, SemaphoreServerTypeOK
  <2>2. IsPrefix(members', members')
    BY <1>4, PrefixPointwise
  <2>3. \A root \in roots' : IsPrefix(root, members')
    BY <1>1, <1>4, <2>2 DEF OrderFits, GroupsFit, SemaphoreServerTypeOK, SemaphoreTypeOK
  <2> QED
    BY <2>1, <2>3 DEF GroupsFit
<1>7. OrderFits'
  BY <1>1, <1>5, <1>6 DEF OrderFits, rowVars, databaseVars
<1>8. SemaphoreTypeOK'
  BY <1>1, <1>4 DEF SemaphoreServerTypeOK, SemaphoreTypeOK, IDPTypeOK, idpVars, registryVars
<1>9. RequestsTypeOK'
  BY <1>1, RequestsTyped DEF RequestsTypeOK, Open, rowVars
<1>10. inflight' \in Seq(Leaves)
  BY <1>1
<1>11. SemaphoreServerTypeOK'
  BY <1>1, <1>3, <1>8, <1>9, <1>10, RunKeepsTypes
  DEF SemaphoreServerTypeOK, rowVars, databaseVars
<1> QED
  BY <1>7, <1>11

\* One more row is marked.
LEMMA UpdateRowInv ==
  ASSUME SemaphoreServerTypeOK, OrderFits, UpdateRow
  PROVE  SemaphoreServerTypeOK' /\ OrderFits'
<1> DEFINE c == Head(task.batch)
<1>1. /\ task.pc = "update" /\ task.batch # << >>
      /\ idp_tree_hashes' = {IF row.hash = c THEN [row EXCEPT !.iteration = 1] ELSE row :
                               row \in idp_tree_hashes}
      /\ task' = AfterUpdate
      /\ UNCHANGED <<idp_pubkeys, idp_pubkey_in_tree, requests, raced, semaphoreVars,
                     treeOrder, inflight, groups, crashes>>
  BY DEF UpdateRow, UpdateTreeWithIteration
<1>2. \A row \in idp_tree_hashes :
        /\ [row EXCEPT !.iteration = 1] \in
             [hash : Commitments, iteration : {NULL, 1}, period : {ThePeriod}]
        /\ [row EXCEPT !.iteration = 1].hash = row.hash
        /\ [row EXCEPT !.iteration = 1].iteration = 1
  BY OrderTyped
<1>3. /\ c = task.batch[1] /\ Len(task.batch) \in Nat \ {0}
      /\ Tail(task.batch) \in Seq(Commitments) /\ Len(Tail(task.batch)) = Len(task.batch) - 1
      /\ \A k \in 1 .. Len(task.batch) - 1 : Tail(task.batch)[k] = task.batch[k + 1]
  BY <1>1, OrderTyped, HeadTailProperties, EmptySeq
<1> HIDE DEF c
<1>4. /\ \A row \in idp_tree_hashes' : \E old \in idp_tree_hashes :
           /\ row.hash = old.hash
           /\ row = old \/ (old.hash = c /\ row = [old EXCEPT !.iteration = 1])
      /\ \A old \in idp_tree_hashes : \E row \in idp_tree_hashes' :
           /\ row.hash = old.hash
           /\ IF old.hash = c THEN row = [old EXCEPT !.iteration = 1] ELSE row = old
  BY <1>1, <1>2
<1>5. \A s, t \in idp_tree_hashes' : s.hash = t.hash => s = t
  <2>1. \A row \in idp_tree_hashes' : \E old \in idp_tree_hashes :
          /\ row.hash = old.hash
          /\ row = IF old.hash = c THEN [old EXCEPT !.iteration = 1] ELSE old
    BY <1>1, <1>2
  <2> QED
    BY <2>1 DEF OrderFits
<1>6. /\ idp_tree_hashes' \subseteq
           [hash : Commitments, iteration : {NULL, 1}, period : {ThePeriod}]
      /\ \A d : (\E row \in idp_tree_hashes' : row.hash = d)
                  <=> (\E row \in idp_tree_hashes : row.hash = d)
  <2>1. idp_tree_hashes \subseteq [hash : Commitments, iteration : {NULL, 1}, period : {ThePeriod}]
    BY OrderTyped
  <2>2. idp_tree_hashes' \subseteq [hash : Commitments, iteration : {NULL, 1}, period : {ThePeriod}]
    BY <1>2, <1>4, <2>1
  <2>3. \A d : (\E row \in idp_tree_hashes' : row.hash = d)
                 <=> (\E row \in idp_tree_hashes : row.hash = d)
    BY <1>4
  <2> QED
    BY <2>2, <2>3
<1>7. ASSUME NEW n \in Nat, Marked(n), BatchesFit(n)
      PROVE  c = treeOrder[n + 1] /\ n + 1 \in 1 .. Len(treeOrder)
  <2>1. /\ n + Len(task.batch) <= Len(treeOrder)
        /\ \A k \in 1 .. Len(task.batch) : task.batch[k] = treeOrder[n + k]
    BY <1>1, <1>7 DEF BatchesFit, NextRows
  <2>2. 1 \in 1 .. Len(task.batch)
    BY <1>3
  <2>3. n + 1 \in 1 .. Len(treeOrder)
    BY <1>3, <1>7, <2>1, OrderTyped
  <2> QED
    BY <1>3, <2>1, <2>2, <2>3
<1>8. Included' = Included \cup {c}
  <2>1. \E old \in idp_tree_hashes : old.hash = c
    BY <1>7, OrderTyped DEF OrderFits
  <2>2. \A d : d \in Included' <=>
                 \E row \in idp_tree_hashes' : row.hash = d /\ row.iteration # NULL
    BY DEF Included
  <2>3. \A d : d \in Included <=> \E row \in idp_tree_hashes : row.hash = d /\ row.iteration # NULL
    BY DEF Included
  <2>4. 1 # NULL
    BY DEF NULL
  <2>5. \A d : d \in Included' => d \in Included \/ d = c
    BY <1>4, <2>2, <2>3
  <2>6. c \in Included'
    BY <1>2, <1>4, <2>1, <2>2, <2>4
  <2>7. \A d \in Included : d \in Included'
    BY <1>2, <1>4, <2>2, <2>3, <2>4
  <2> QED
    BY <2>5, <2>6, <2>7
<1>9. /\ task' \in TaskRecords
      /\ Len(task.batch) = 1 => task'.pc = "idle"
      /\ Len(task.batch) # 1 => task'.pc = "update" /\ task'.batch = Tail(task.batch)
  <2>1. task \in TaskRecords
    BY DEF SemaphoreServerTypeOK, TaskRecords
  <2>2. << >> \in Seq(Commitments)
    BY EmptySeq
  <2> QED
    BY <1>1, <1>3, <2>1, <2>2 DEF AfterUpdate, IdleTask, TaskRecords
<1>10. ASSUME NEW n \in Nat, Marked(n), BatchesFit(n)
       PROVE  n + 1 \in Nat /\ Marked(n + 1)' /\ BatchesFit(n + 1)'
  <2>1. /\ NextRows(n, task.batch) /\ inflight = << >>
        /\ n + Len(task.batch) = Len(members)
    BY <1>1, <1>10 DEF BatchesFit
  <2>2. \A k \in 1 .. Len(treeOrder) : treeOrder[k] \in Included' <=> k <= n + 1
    <3>1. \A k \in 1 .. Len(treeOrder) : treeOrder[k] = c <=> k = n + 1
      BY <1>7, <1>10, OrderTyped DEF IsInjective
    <3> QED
      BY <1>8, <1>10, <3>1, OrderTyped DEF Marked
  <2>3. Marked(n + 1)'
    BY <1>1, <1>3, <1>10, <2>1, <2>2, OrderTyped DEF Marked, semaphoreVars
  <2>4. Len(task.batch) # 1 =>
          /\ Tail(task.batch) # << >>
          /\ n + 1 + Len(Tail(task.batch)) = Len(members)
          /\ NextRows(n + 1, Tail(task.batch))
    <3>1. \A k \in 1 .. Len(task.batch) - 1 :
            k + 1 \in 1 .. Len(task.batch) /\ n + (k + 1) = n + 1 + k
      BY <1>3, <1>10
    <3>2. n + 1 + (Len(task.batch) - 1) = n + Len(task.batch)
      <4>1. \A j, k \in Int : j + 1 + (k - 1) = j + k
        OBVIOUS
      <4>2. n \in Int /\ Len(task.batch) \in Int
        BY <1>3, <1>10
      <4> QED
        BY Zenon, <4>1, <4>2
    <3>3. Len(task.batch) # 1 => Tail(task.batch) # << >>
      <4>1. Len(<< >>) = 0
        OBVIOUS
      <4>2. Len(task.batch) # 1 => Len(Tail(task.batch)) # 0
        BY <1>3
      <4> QED
        BY <4>1, <4>2
    <3> QED
      BY <1>3, <2>1, <3>1, <3>2, <3>3 DEF NextRows
  <2>5. Len(task.batch) = 1 => Len(members) = n + 1
    BY <2>1
  <2>6. BatchesFit(n + 1)'
    BY <1>1, <1>9, <2>1, <2>4, <2>5 DEF BatchesFit, NextRows, NextLeaves, semaphoreVars
  <2> QED
    BY <2>3, <2>6
<1>11. GroupsFit'
  BY <1>1 DEF OrderFits, GroupsFit, semaphoreVars
<1>12. OrderFits'
  BY <1>5, <1>10, <1>11 DEF OrderFits
<1>13. RequestsTypeOK'
  BY <1>1, RequestsTyped DEF RequestsTypeOK, Open
<1>14. SemaphoreServerTypeOK'
  BY <1>1, <1>6, <1>9, <1>13, ContractsKept, RunKeepsTypes DEF SemaphoreServerTypeOK
<1> QED
  BY <1>12, <1>14
-----------------------------------------------------------------------------
(* The end of the process *)

\* The run and the requests are gone; the transaction may stay.
LEMMA RestartInv ==
  ASSUME SemaphoreServerTypeOK, RegistrationsFit, OrderFits, Restart,
         inflight' \in {inflight, << >>}, crashes' \in Nat,
         crashes' = 0 => crashes = 0 /\ inflight' = inflight /\ task.pc = "submit"
  PROVE  SemaphoreServerTypeOK' /\ RegistrationsFit' /\ OrderFits'
<1>1. /\ RequestsLost /\ task' = IdleTask
      /\ UNCHANGED <<databaseVars, semaphoreVars, treeOrder, groups>>
  BY DEF Restart
<1>2. RequestsTypeOK' /\ RegistrationsFit'
  BY <1>1, LostFits
<1>3. /\ task' \in TaskRecords /\ task'.pc = "idle"
      /\ inflight' \in Seq(Leaves)
  BY <1>1, OrderTyped, EmptySeq DEF IdleTask, TaskRecords
<1>4. ASSUME NEW n \in Nat, Marked(n), BatchesFit(n)
      PROVE  BatchesFit(n)'
  BY <1>1, <1>3, <1>4 DEF BatchesFit, NextRows, NextLeaves, semaphoreVars
<1>5. OrderFits'
  BY <1>1, <1>4, OnlyBatchesChange DEF databaseVars, semaphoreVars
<1>6. idp_tree_hashes \subseteq [hash : Commitments, iteration : {NULL, 1}, period : {ThePeriod}]
  BY OrderTyped
<1>7. groups' \in [Tokens -> Seq(Leaves)]
  BY <1>1 DEF SemaphoreServerTypeOK
<1>8. SemaphoreServerTypeOK'
  BY <1>1, <1>2, <1>3, <1>6, <1>7, ContractsKept, RunKeepsTypes DEF databaseVars, RequestsLost
<1> QED
  BY <1>2, <1>5, <1>8

LEMMA ThrowInv ==
  ASSUME SemaphoreServerTypeOK, RegistrationsFit, OrderFits, Throw
  PROVE  SemaphoreServerTypeOK' /\ RegistrationsFit' /\ OrderFits'
<1>1. Restart /\ inflight' = inflight /\ crashes' = crashes /\ task.pc = "submit"
  BY DEF Throw
<1>2. crashes \in Nat
  BY DEF SemaphoreServerTypeOK
<1> QED
  BY <1>1, <1>2, RestartInv

LEMMA CrashInv ==
  ASSUME SemaphoreServerTypeOK, RegistrationsFit, OrderFits, Crash
  PROVE  SemaphoreServerTypeOK' /\ RegistrationsFit' /\ OrderFits'
<1>1. Restart /\ inflight' \in {inflight, << >>} /\ crashes' = crashes + 1
  BY DEF Crash
<1>2. crashes' \in Nat /\ crashes' # 0
  BY <1>1 DEF SemaphoreServerTypeOK
<1> QED
  BY <1>1, <1>2, RestartInv

-----------------------------------------------------------------------------
(* Clients and contracts *)

\* The group handed out is a beginning of the one on the blockchain.
LEMMA IncludedIsPrefix ==
  ASSUME SemaphoreServerTypeOK, OrderFits
  PROVE  TreesIncluded \in Seq(Leaves) /\ IsPrefix(TreesIncluded, members)
<1>1. ASSUME NEW n \in Nat, Marked(n)
      PROVE  TreesIncluded \in Seq(Leaves) /\ IsPrefix(TreesIncluded, members)
  <2>1. TreesIncluded = [k \in 1 .. n |-> BigInt[treeOrder[k]]]
    BY <1>1, RowsSelected
  <2>2. /\ n <= Len(members) /\ Len(members) <= Len(treeOrder)
        /\ \A k \in 1 .. Len(members) : members[k] = BigInt[treeOrder[k]]
    BY <1>1 DEF Marked
  <2>3. \A k \in 1 .. n : /\ k \in 1 .. Len(members)
                          /\ BigInt[treeOrder[k]] = members[k] /\ members[k] \in Leaves
    BY <1>1, <2>2, OrderTyped, ElementOfSeq
  <2>4. /\ TreesIncluded \in [1 .. n -> Leaves]
        /\ \A k \in 1 .. n : TreesIncluded[k] = members[k]
    BY <2>1, <2>3
  <2>5. TreesIncluded \in Seq(Leaves)
    BY <1>1, <2>4, SeqDef
  <2>6. Len(TreesIncluded) = n
    <3>1. Len(TreesIncluded) \in Nat /\ 1 .. Len(TreesIncluded) = 1 .. n
      BY <2>4, <2>5, LenProperties
    <3> QED
      BY <1>1, <3>1
  <2> QED
    BY <2>2, <2>4, <2>5, <2>6, OrderTyped, PrefixPointwise
<1> QED
  BY <1>1 DEF OrderFits

LEMMA ObtainInv ==
  ASSUME SemaphoreServerTypeOK, OrderFits, NEW r \in Tokens, Obtain(r)
  PROVE  SemaphoreServerTypeOK' /\ OrderFits'
<1>1. /\ groups' = [groups EXCEPT ![r] = TreesIncluded]
      /\ UNCHANGED <<rowVars, semaphoreVars, treeOrder, task, inflight, crashes>>
  BY DEF Obtain, GroupsServed
<1>2. groups \in [Tokens -> Seq(Leaves)]
  BY DEF SemaphoreServerTypeOK
<1>3. /\ groups' \in [Tokens -> Seq(Leaves)]
      /\ \A q \in Tokens : groups'[q] = groups[q] \/ groups'[q] = TreesIncluded
  BY <1>1, <1>2, IncludedIsPrefix
<1>4. GroupsFit'
  BY <1>1, <1>3, IncludedIsPrefix DEF OrderFits, GroupsFit, semaphoreVars
<1>5. OrderFits'
  <2>1. \A n \in Nat : Marked(n) /\ BatchesFit(n) => Marked(n)' /\ BatchesFit(n)'
    BY <1>1
    DEF Marked, BatchesFit, NextRows, NextLeaves, Included, rowVars, databaseVars, semaphoreVars
  <2> QED
    BY <1>1, <1>4, <2>1 DEF OrderFits, rowVars, databaseVars
<1>6. task' \in TaskRecords /\ inflight' \in Seq(Leaves) /\ crashes' \in Nat
  BY <1>1 DEF SemaphoreServerTypeOK, TaskRecords
<1> QED
  BY <1>1, <1>3, <1>5, <1>6, RunOnly

\* The types if only the contracts change.
LEMMA ContractsOnly ==
  ASSUME SemaphoreServerTypeOK, SemaphoreTypeOK',
         UNCHANGED <<rowVars, treeOrder, task, inflight, groups, crashes>>
  PROVE  SemaphoreServerTypeOK'
<1>1. RequestsTypeOK'
  BY RequestsTyped DEF RequestsTypeOK, Open, rowVars
<1>2. idp_tree_hashes \subseteq [hash : Commitments, iteration : {NULL, 1}, period : {ThePeriod}]
  BY OrderTyped
<1>3. /\ task' \in TaskRecords /\ inflight' \in Seq(Leaves) /\ crashes' \in Nat
      /\ groups' \in [Tokens -> Seq(Leaves)]
  BY DEF SemaphoreServerTypeOK, TaskRecords
<1> QED
  BY <1>1, <1>2, <1>3, RunKeepsTypes DEF rowVars, databaseVars

\* The group stays as it is and no root gets accepted.
LEMMA OrderOnceRootsShrink ==
  ASSUME OrderFits, members' = members, roots' \subseteq roots,
         UNCHANGED <<rowVars, treeOrder, task, inflight, groups, crashes>>
  PROVE  OrderFits'
<1>1. \A n \in Nat : Marked(n) /\ BatchesFit(n) => Marked(n)' /\ BatchesFit(n)'
  BY DEF Marked, BatchesFit, NextRows, NextLeaves, Included, rowVars, databaseVars
<1>2. GroupsFit'
  BY DEF OrderFits, GroupsFit
<1> QED
  BY <1>1, <1>2 DEF OrderFits, rowVars, databaseVars

LEMMA SignaturesKept ==
  ASSUME SignaturesFit, UNCHANGED <<petitionId, petitions, nullifiers>>,
         ToSet(members) \subseteq ToSet(members')
  PROVE  SignaturesFit'
BY DEF SignaturesFit, SignedBy

LEMMA ExpireRootInv ==
  ASSUME SemaphoreServerTypeOK, OrderFits, SignaturesFit, ExpireRoot,
         UNCHANGED <<rowVars, treeOrder, task, inflight, groups, crashes>>
  PROVE  SemaphoreServerTypeOK' /\ OrderFits' /\ SignaturesFit'
<1>1. roots' \subseteq roots /\ UNCHANGED <<idpVars, registryVars, members, nullifiers>>
  BY DEF ExpireRoot
<1>2. SemaphoreTypeOK'
  BY <1>1 DEF SemaphoreServerTypeOK, SemaphoreTypeOK, IDPTypeOK, idpVars, registryVars
<1>3. SignaturesFit'
  BY <1>1, SignaturesKept DEF registryVars
<1> QED
  BY <1>1, <1>2, <1>3, ContractsOnly, OrderOnceRootsShrink

PetitionTypes == PetitionRecords({})

LEMMA PetitionsTyped ==
  ASSUME SemaphoreServerTypeOK
  PROVE  /\ petitions \in Seq(PetitionTypes) /\ petitionId \in Nat /\ now \in Nat
         /\ now <= MaxPeriod
         /\ Len(petitions) \in Nat /\ DOMAIN petitions = 1 .. Len(petitions)
         /\ \A i \in DOMAIN petitions : /\ petitions[i] \in PetitionTypes
                                        /\ petitions[i].id \in PetitionIds
                                        /\ petitions[i].signers \in Nat
         /\ nullifiers \subseteq PetitionIds \X Leaves
<1>1. /\ petitions \in Seq(PetitionTypes) /\ petitionId \in Nat /\ now \in Nat
      /\ now <= MaxPeriod /\ nullifiers \subseteq PetitionIds \X Leaves
  BY PeriodAssumption
  DEF SemaphoreServerTypeOK, SemaphoreTypeOK, PetitionTypes, IDPTypeOK, Periods
<1>2. Len(petitions) \in Nat /\ DOMAIN petitions = 1 .. Len(petitions)
  BY <1>1, LenProperties
<1>3. \A i \in DOMAIN petitions : petitions[i] \in PetitionTypes
  BY <1>1, <1>2, ElementOfSeq
<1>4. \A p \in PetitionTypes : p.id \in PetitionIds /\ p.signers \in Nat
  BY DEF PetitionTypes, PetitionRecords
<1> QED
  BY <1>1, <1>2, <1>3, <1>4

\* No nullifier has the number of the new petition in it.
LEMMA CreatePetitionInv ==
  ASSUME SemaphoreServerTypeOK, OrderFits, SignaturesFit,
         NEW name \in Names, NEW p \in 0 .. MaxPeriod, SemaphoreCreatePetition(name, p),
         UNCHANGED <<rowVars, treeOrder, task, inflight, groups, crashes>>
  PROVE  SemaphoreServerTypeOK' /\ OrderFits' /\ SignaturesFit'
<1> DEFINE new == [id |-> InternalId(petitionId + 1, name), period |-> AssignedPeriod(p),
                   hasSigned |-> {}, signers |-> 0]
<1>1. /\ PeriodAllowed(p) /\ petitionId' = petitionId + 1
      /\ petitions' = Append(petitions, new)
      /\ UNCHANGED <<idpVars, members, roots, nullifiers>>
  BY DEF SemaphoreCreatePetition, CreatePetition
<1>2. /\ new.id = <<petitionId + 1, name>> /\ new.id \in PetitionIds /\ new.signers = 0
  BY PetitionsTyped DEF InternalId, PetitionIds
<1>3. new \in PetitionTypes
  <2>1. AssignedPeriod(p) \in PetitionPeriods
    BY <1>1, PetitionsTyped, PeriodAssumption
    DEF PeriodAllowed, AssignedPeriod, PetitionPeriods, SemaphoreServerTypeOK, SemaphoreTypeOK,
        IDPTypeOK, Periods
  <2> QED
    BY <1>2, <2>1 DEF PetitionTypes, PetitionRecords
<1> HIDE DEF new
<1>4. /\ petitions' \in Seq(PetitionTypes) /\ Len(petitions') = Len(petitions) + 1
      /\ \A i \in 1 .. Len(petitions) : petitions'[i] = petitions[i]
      /\ petitions'[Len(petitions) + 1] = new
      /\ DOMAIN petitions' = 1 .. Len(petitions) + 1
  <2>1. /\ petitions' \in Seq(PetitionTypes) /\ Len(petitions') = Len(petitions) + 1
        /\ \A i \in 1 .. Len(petitions) : petitions'[i] = petitions[i]
        /\ petitions'[Len(petitions) + 1] = new
    BY <1>1, <1>3, PetitionsTyped
  <2> QED
    BY <2>1, LenProperties
<1>5. SemaphoreTypeOK'
  BY <1>1, <1>4, PetitionsTyped
  DEF SemaphoreServerTypeOK, SemaphoreTypeOK, PetitionTypes, IDPTypeOK, idpVars
<1>6. SignedBy(new.id) = {}
  BY <1>2, PetitionsTyped DEF SignaturesFit, SignedBy
<1>7. SignaturesFit'
  <2>1. petitionId' = Len(petitions')
    BY <1>1, <1>4 DEF SignaturesFit
  <2>2. \A n \in nullifiers' : n[1][1] <= petitionId' /\ n[2] \in ToSet(members')
    BY <1>1, PetitionsTyped DEF SignaturesFit, PetitionIds
  <2>3. ASSUME NEW i \in DOMAIN petitions'
        PROVE  /\ petitions'[i].id[1] = i
               /\ petitions'[i].signers = Cardinality(SignedBy(petitions'[i].id))
    <3>1. CASE i \in 1 .. Len(petitions)
      BY <1>4, <3>1, PetitionsTyped DEF SignaturesFit
    <3>2. CASE i = Len(petitions) + 1
      <4>1. petitions'[i] = new /\ petitionId + 1 = i
        BY <1>4, <3>2 DEF SignaturesFit
      <4> QED
        BY <1>2, <1>6, <4>1, FS_EmptySet
    <3> QED
      BY <1>4, <2>3, <3>1, <3>2, PetitionsTyped
  <2>4. \A id : SignedBy(id)' = SignedBy(id)
    BY <1>1 DEF SignedBy
  <2> QED
    BY <2>1, <2>2, <2>3, <2>4, <1>1 DEF SignaturesFit, SignedBy
<1> QED
  BY <1>1, <1>5, <1>7, ContractsOnly, OrderOnceRootsShrink

\* A root accepted is a beginning of the group: who is in it is a member.  The
\* one more who signed is counted.
LEMMA SignInv ==
  ASSUME SemaphoreServerTypeOK, OrderFits, SignaturesFit,
         NEW r \in Tokens, NEW i \in DOMAIN petitions, SignWithGroup(r, i)
  PROVE  SemaphoreServerTypeOK' /\ OrderFits' /\ SignaturesFit'
<1>1. PICK row \in idp_pubkeys : SemaphoreSign(i, BigInt[row.pubkey], groups[r])
  BY DEF SignWithGroup
<1> DEFINE c == BigInt[row.pubkey]
           id == petitions[i].id
           new == [petitions[i] EXCEPT !.signers = @ + 1]
           After(other) == {n[2] : n \in {m \in nullifiers' : m[1] = other}}
<1>2. /\ groups[r] \in roots /\ c \in ToSet(groups[r]) /\ <<id, c>> \notin nullifiers
      /\ nullifiers' = nullifiers \cup {<<id, c>>}
      /\ petitions' = [petitions EXCEPT ![i] = new]
      /\ UNCHANGED <<idpVars, petitionId, members, roots, rowVars, treeOrder, task, inflight,
                     groups, crashes>>
  BY <1>1 DEF SignWithGroup, SemaphoreSign, SemaphoreCanSign
<1>3. c \in ToSet(members) /\ c \in Leaves
  <2>1. /\ members \in Seq(Leaves) /\ groups[r] \in Seq(Leaves)
        /\ IsPrefix(groups[r], members)
    BY DEF SemaphoreServerTypeOK, SemaphoreTypeOK, OrderFits, GroupsFit
  <2>2. PICK k \in DOMAIN groups[r] : groups[r][k] = c
    BY <1>2 DEF ToSet
  <2>3. /\ k \in 1 .. Len(groups[r]) /\ Len(groups[r]) \in Nat /\ Len(members) \in Nat
        /\ DOMAIN members = 1 .. Len(members)
    BY <2>1, <2>2, LenProperties
  <2>4. Len(groups[r]) <= Len(members) /\ groups[r][k] = members[k]
    BY <2>1, <2>3, PrefixPointwise
  <2>5. k \in DOMAIN members /\ members[k] = c
    BY <2>2, <2>3, <2>4
  <2>6. members[k] \in Leaves
    BY <2>1, <2>3, <2>5, ElementOfSeq
  <2> QED
    BY <2>5, <2>6 DEF ToSet
<1>4. /\ new \in PetitionTypes /\ new.id = id /\ new.signers = petitions[i].signers + 1
      /\ id \in PetitionIds
  <2>1. petitions[i] \in PetitionTypes /\ id \in PetitionIds
    BY PetitionsTyped
  <2>2. \A q \in PetitionTypes :
          LET n == [q EXCEPT !.signers = @ + 1]
          IN  n \in PetitionTypes /\ n.id = q.id /\ n.signers = q.signers + 1
    BY DEF PetitionTypes, PetitionRecords
  <2> QED
    BY <2>1, <2>2
<1> HIDE DEF c, id, new
<1>5. /\ petitions' \in Seq(PetitionTypes) /\ Len(petitions') = Len(petitions)
      /\ DOMAIN petitions' = DOMAIN petitions
      /\ petitions'[i] = new /\ \A j \in DOMAIN petitions \ {i} : petitions'[j] = petitions[j]
  <2>1. petitions' \in Seq(PetitionTypes) /\ Len(petitions') = Len(petitions)
    BY <1>2, <1>4, PetitionsTyped, ExceptSeq
  <2> QED
    BY <1>2, <2>1, PetitionsTyped
<1>6. nullifiers' \subseteq PetitionIds \X Leaves
  BY <1>2, <1>3, <1>4, PetitionsTyped
<1>7. SemaphoreTypeOK'
  BY <1>2, <1>5, <1>6
  DEF SemaphoreServerTypeOK, SemaphoreTypeOK, PetitionTypes, IDPTypeOK, idpVars
<1>8. /\ After(id) = SignedBy(id) \cup {c} /\ c \notin SignedBy(id)
      /\ \A other : other # id => After(other) = SignedBy(other)
  <2>1. \A other, d : d \in After(other) <=> <<other, d>> \in nullifiers'
    BY <1>6
  <2>2. \A other, d : d \in SignedBy(other) <=> <<other, d>> \in nullifiers
    BY PetitionsTyped DEF SignedBy
  <2>3. \A other, d : <<other, d>> \in nullifiers'
                        <=> <<other, d>> \in nullifiers \/ (other = id /\ d = c)
    BY <1>2
  <2> HIDE DEF After
  <2>4. \A other, d : d \in After(other) <=> d \in SignedBy(other) \/ (other = id /\ d = c)
    BY <2>1, <2>2, <2>3
  <2>5. c \notin SignedBy(id)
    BY <1>2, <2>2
  <2>6. ASSUME NEW other, other # id PROVE After(other) = SignedBy(other)
    <3>1. \A d : d \in After(other) <=> d \in SignedBy(other)
      BY <2>4, <2>6
    <3> QED
      BY Zenon, <3>1 DEF After, SignedBy
  <2>7. After(id) = SignedBy(id) \cup {c}
    BY <2>4
  <2> QED
    BY <2>5, <2>6, <2>7
<1>9. IsFiniteSet(SignedBy(id))
  <2>1. SignedBy(id) \subseteq ToSet(members)
    BY DEF SignaturesFit, SignedBy
  <2>2. IsFiniteSet(ToSet(members))
    <3>1. /\ ToSet(members) = {members[k] : k \in 1 .. Len(members)}
          /\ 1 \in Int /\ Len(members) \in Int
      BY OrderTyped, LenProperties DEF ToSet
    <3>2. IsFiniteSet(1 .. Len(members))
      BY <3>1, FS_Interval
    <3>3. [k \in 1 .. Len(members) |-> members[k]] \in Surjection(1 .. Len(members), ToSet(members))
      BY <3>1 DEF Surjection
    <3> QED
      BY <3>2, <3>3, FS_Surjection
  <2> QED
    BY <2>1, <2>2, FS_Subset
<1>10. Cardinality(SignedBy(id) \cup {c}) = Cardinality(SignedBy(id)) + 1
  BY <1>8, <1>9, FS_AddElement
<1>11. SignaturesFit'
  <2>1. petitionId' = Len(petitions')
    BY <1>2, <1>5 DEF SignaturesFit
  <2>2. \A n \in nullifiers' : n[1][1] <= petitionId' /\ n[2] \in ToSet(members')
    <3>1. id[1] <= petitionId
      BY PetitionsTyped DEF SignaturesFit, id
    <3> QED
      BY <1>2, <1>3, <3>1 DEF SignaturesFit
  <2>3. \A j \in DOMAIN petitions' : petitions'[j].id = petitions[j].id
    BY <1>4, <1>5 DEF id
  <2>4. \A j \in DOMAIN petitions' : petitions'[j].id[1] = j
    BY <1>5, <2>3 DEF SignaturesFit
  <2>5. ASSUME NEW j \in DOMAIN petitions'
        PROVE  petitions'[j].signers = Cardinality(After(petitions'[j].id))
    <3> HIDE DEF After
    <3>1. petitions[j].signers = Cardinality(SignedBy(petitions[j].id)) /\ petitions[j].id[1] = j
      BY <1>5, <2>5 DEF SignaturesFit
    <3>2. CASE j = i
      <4>1. petitions'[j].id = id /\ petitions'[j].signers = petitions[i].signers + 1
        BY <1>4, <1>5, <3>2
      <4>2. petitions[i].signers = Cardinality(SignedBy(id))
        BY <3>1, <3>2 DEF id
      <4> QED
        BY <1>8, <1>10, <4>1, <4>2
    <3>3. CASE j # i
      <4>1. petitions[j].id # id
        BY <3>1, <3>3 DEF SignaturesFit, id
      <4>2. petitions'[j] = petitions[j]
        BY <1>5, <2>5, <3>3
      <4> QED
        BY <1>8, <3>1, <4>1, <4>2
    <3> QED
      BY <3>2, <3>3
  <2>6. \A j \in DOMAIN petitions' : petitions'[j].signers = Cardinality(After(petitions'[j].id))
    BY <2>5
  <2> QED
    BY <2>1, <2>2, <2>4, <2>6 DEF SignaturesFit, SignedBy
<1> QED
  BY <1>2, <1>7, <1>11, ContractsOnly, OrderOnceRootsShrink
-----------------------------------------------------------------------------
(* The invariant *)

LEMMA RegisterInv ==
  ASSUME SemaphoreServerTypeOK, RegistrationsFit, OrderFits,
         NEW r \in Tokens, SemaphoreRegister(r)
  PROVE  SemaphoreServerTypeOK' /\ RegistrationsFit' /\ OrderFits'
<1>1. UNCHANGED <<semaphoreVars, task, inflight, groups, crashes>>
  BY DEF SemaphoreRegister
<1>2. /\ idp_pubkeys \subseteq
           [pubkey : Commitments, identity : Identities, period : {ThePeriod}, token : Tokens]
      /\ idp_tree_hashes \subseteq
           [hash : Commitments, iteration : {NULL, 1}, period : {ThePeriod}]
      /\ idp_pubkey_in_tree \subseteq [hash : Commitments, pubkey : Commitments]
      /\ treeOrder \in Seq(Commitments) /\ IsInjective(treeOrder)
      /\ ToSet(treeOrder) = {row.hash : row \in idp_tree_hashes}
      /\ raced \subseteq SUBSET Tokens
  BY DEF SemaphoreServerTypeOK
<1>3. CASE SemaphoreInsertTreeRow(r)
  <2>1. InsertTreeRow(r) /\ UNCHANGED <<idp_pubkeys, idp_pubkey_in_tree, raced>>
    BY <1>3 DEF SemaphoreInsertTreeRow, InsertTreeRow, Moves
  <2>2. /\ OrderFits'
        /\ treeOrder' \in Seq(Commitments) /\ IsInjective(treeOrder')
        /\ ToSet(treeOrder') = {row.hash : row \in idp_tree_hashes'}
    BY <1>1, <1>3, InsertTreeRowOrder
  <2>3. /\ RequestsTypeOK' /\ RegistrationsFit'
        /\ idp_tree_hashes' \subseteq
             [hash : Commitments, iteration : {NULL, 1}, period : {ThePeriod}]
    BY <2>1, InsertTreeRowFits
  <2> QED
    BY <1>1, <1>2, <2>1, <2>2, <2>3, RegisterKeepsTypes
<1>4. CASE /\ \/ \E identity \in Identities, commitment \in Commitments :
                   Arrive(r, [identity |-> identity, pubkey |-> commitment,
                              period |-> ThePeriod])
              \/ Check(r)
              \/ InsertPubkey(r)
              \/ InsertProofRow(r)
           /\ UNCHANGED treeOrder
  <2>1. idp_tree_hashes' = idp_tree_hashes
    BY <1>4 DEF Arrive, Check, InsertPubkey, InsertProofRow, databaseVars
  <2>2. OrderFits'
    BY <1>1, <1>4, <2>1, OrderKept DEF semaphoreVars
  <2>3. /\ treeOrder' \in Seq(Commitments) /\ IsInjective(treeOrder')
        /\ ToSet(treeOrder') = {row.hash : row \in idp_tree_hashes'}
    BY <1>2, <1>4, <2>1
  <2>4. CASE \E identity \in Identities, commitment \in Commitments :
               Arrive(r, [identity |-> identity, pubkey |-> commitment, period |-> ThePeriod])
    <3>1. PICK reg \in Registrations : Arrive(r, reg)
      BY <2>4 DEF Registrations
    <3>2. /\ RequestsTypeOK' /\ RegistrationsFit' /\ raced' \subseteq SUBSET Tokens
          /\ UNCHANGED databaseVars
      BY <3>1, ArriveFits DEF Arrive
    <3> QED
      BY <1>1, <1>2, <2>2, <2>3, <3>2, RegisterKeepsTypes DEF databaseVars
  <2>5. CASE Check(r)
    <3>1. RequestsTypeOK' /\ RegistrationsFit' /\ UNCHANGED <<databaseVars, raced>>
      BY <2>5, CheckFits DEF Check, Closes, Moves
    <3> QED
      BY <1>1, <1>2, <2>2, <2>3, <3>1, RegisterKeepsTypes DEF databaseVars
  <2>6. CASE InsertPubkey(r)
    <3>1. /\ RequestsTypeOK' /\ RegistrationsFit'
          /\ idp_pubkeys' \subseteq
               [pubkey : Commitments, identity : Identities, period : {ThePeriod}, token : Tokens]
      BY <2>6, InsertPubkeyFits
    <3>2. UNCHANGED <<idp_pubkey_in_tree, raced>>
      BY <2>6 DEF InsertPubkey, Moves
    <3> QED
      BY <1>1, <1>2, <2>1, <2>2, <2>3, <3>1, <3>2, RegisterKeepsTypes
  <2>7. CASE InsertProofRow(r)
    <3>1. /\ RequestsTypeOK' /\ RegistrationsFit'
          /\ idp_pubkey_in_tree' \subseteq [hash : Commitments, pubkey : Commitments]
      BY <2>7, InsertProofRowFits
    <3>2. UNCHANGED <<idp_pubkeys, raced>>
      BY <2>7 DEF InsertProofRow, Closes
    <3> QED
      BY <1>1, <1>2, <2>1, <2>2, <2>3, <3>1, <3>2, RegisterKeepsTypes
  <2> QED
    BY <1>4, <2>4, <2>5, <2>6, <2>7
<1> QED
  BY <1>3, <1>4 DEF SemaphoreRegister

LEMMA SemaphoreNextInv ==
  ASSUME SemaphoreInductiveInv, [SemaphoreServerNext]_semaphoreServerVars
  PROVE  SemaphoreInductiveInv'
<1>1. SemaphoreServerTypeOK /\ RegistrationsFit /\ OrderFits /\ SignaturesFit
  BY DEF SemaphoreInductiveInv
<1>2. ASSUME UNCHANGED <<idp_pubkeys, requests, raced, idp_tree_hashes>> PROVE RegistrationsFit'
  BY <1>1, <1>2, RegistrationsKept
<1>3. ASSUME UNCHANGED semaphoreVars PROVE SignaturesFit'
  <2>1. UNCHANGED <<petitionId, petitions, nullifiers, members>>
    BY <1>3 DEF semaphoreVars, registryVars
  <2>2. ToSet(members) \subseteq ToSet(members')
    BY <2>1
  <2> QED
    BY <1>1, <2>1, <2>2, SignaturesKept
<1>4. ASSUME NEW r \in Tokens, SemaphoreRegister(r) PROVE SemaphoreInductiveInv'
  <2>1. UNCHANGED semaphoreVars
    BY <1>4 DEF SemaphoreRegister
  <2> QED
    BY <1>1, <1>3, <1>4, <2>1, RegisterInv DEF SemaphoreInductiveInv
<1>5. ASSUME NEW r \in Tokens, Obtain(r) PROVE SemaphoreInductiveInv'
  <2>1. UNCHANGED <<rowVars, semaphoreVars>>
    BY <1>5 DEF Obtain
  <2> QED
    BY <1>1, <1>2, <1>3, <1>5, <2>1, ObtainInv DEF SemaphoreInductiveInv, rowVars, databaseVars
<1>6. ASSUME NEW r \in Tokens, NEW i \in DOMAIN petitions, SignWithGroup(r, i)
      PROVE  SemaphoreInductiveInv'
  <2>1. UNCHANGED rowVars
    BY <1>6 DEF SignWithGroup
  <2> QED
    BY <1>1, <1>2, <1>6, <2>1, SignInv DEF SemaphoreInductiveInv, rowVars, databaseVars
<1>7. CASE SelectBatch
  <2>1. UNCHANGED <<rowVars, semaphoreVars>>
    BY <1>7 DEF SelectBatch
  <2> QED
    BY <1>1, <1>2, <1>3, <1>7, <2>1, SelectBatchInv
    DEF SemaphoreInductiveInv, rowVars, databaseVars
<1>8. CASE SendBatch
  <2>1. UNCHANGED <<rowVars, semaphoreVars>>
    BY <1>8 DEF SendBatch
  <2> QED
    BY <1>1, <1>2, <1>3, <1>8, <2>1, SendBatchInv
    DEF SemaphoreInductiveInv, rowVars, databaseVars
<1>9. CASE UpdateRow
  <2>1. /\ UNCHANGED <<idp_pubkeys, requests, raced, semaphoreVars>>
        /\ \A tree \in idp_tree_hashes' : \E t \in idp_tree_hashes : t.hash = tree.hash
    <3>1. \A row \in idp_tree_hashes : [row EXCEPT !.iteration = 1].hash = row.hash
      BY <1>1, OrderTyped
    <3> QED
      BY <1>9, <3>1 DEF UpdateRow, UpdateTreeWithIteration
  <2>2. RegistrationsFit'
    BY <1>1, <2>1, RegistrationsKept
  <2> QED
    BY <1>1, <1>3, <1>9, <2>1, <2>2, UpdateRowInv DEF SemaphoreInductiveInv
<1>10. CASE Throw
  <2>1. UNCHANGED semaphoreVars
    BY <1>10 DEF Throw, Restart
  <2> QED
    BY <1>1, <1>3, <1>10, <2>1, ThrowInv DEF SemaphoreInductiveInv
<1>11. CASE MineBatch
  <2>1. /\ UNCHANGED <<rowVars, registryVars, nullifiers>> /\ members' = members \o inflight
        /\ inflight \in Seq(Leaves)
    BY <1>1, <1>11, OrderTyped DEF MineBatch, AddMembers
  <2>2. ToSet(members) \subseteq ToSet(members')
    BY <1>1, <2>1, MembersGrow DEF OrderFits
  <2>3. SignaturesFit'
    BY <1>1, <2>1, <2>2, SignaturesKept DEF registryVars
  <2> QED
    BY <1>1, <1>2, <1>11, <2>1, <2>3, MineBatchInv
    DEF SemaphoreInductiveInv, rowVars, databaseVars
<1>12. CASE Crash
  <2>1. UNCHANGED semaphoreVars
    BY <1>12 DEF Crash, Restart
  <2> QED
    BY <1>1, <1>3, <1>12, <2>1, CrashInv DEF SemaphoreInductiveInv
<1>13. CASE GroupOrPetitionChange
  <2>1. UNCHANGED <<rowVars, treeOrder, task, inflight, groups, crashes>>
    BY <1>13 DEF GroupOrPetitionChange
  <2>2. SemaphoreServerTypeOK' /\ OrderFits' /\ SignaturesFit'
    BY <1>1, <1>13, <2>1, ExpireRootInv, CreatePetitionInv DEF GroupOrPetitionChange
  <2> QED
    BY <1>1, <1>2, <2>1, <2>2 DEF SemaphoreInductiveInv, rowVars, databaseVars
<1>14. CASE UNCHANGED semaphoreServerVars
  <2>1. /\ UNCHANGED <<rowVars, semaphoreVars>>
        /\ UNCHANGED <<treeOrder, task, inflight, groups, crashes>>
    BY <1>14 DEF semaphoreServerVars
  <2>2. SemaphoreServerTypeOK'
    BY <1>1, <2>1, ContractsKept, ContractsOnly
  <2>3. OrderFits'
    BY <1>1, <2>1, OrderKept DEF rowVars, databaseVars, semaphoreVars
  <2> QED
    BY <1>1, <1>2, <1>3, <2>1, <2>2, <2>3 DEF SemaphoreInductiveInv, rowVars, databaseVars
<1> QED
  BY <1>4, <1>5, <1>6, <1>7, <1>8, <1>9, <1>10, <1>11, <1>12, <1>13, <1>14
  DEF SemaphoreServerNext, TaskStep

\* The inductive invariant: types; rows and requests agree; the rows that are
\* marked come first and are members, and batch and transaction continue them;
\* petitions count the nullifiers of members (register, interval_task,
\* addMembers, validateProof).
THEOREM SemaphoreInvariance == SemaphoreServerSpec => []SemaphoreInductiveInv
<1>1. SemaphoreServerInit => SemaphoreInductiveInv
  BY SemaphoreInitInv
<1>2. SemaphoreInductiveInv /\ [SemaphoreServerNext]_semaphoreServerVars
        => SemaphoreInductiveInv'
  BY SemaphoreNextInv
<1> QED
  BY <1>1, <1>2, PTL DEF SemaphoreServerSpec

-----------------------------------------------------------------------------
(* The properties *)

\* The group handed out, and the one a client holds, is a beginning of the
\* group on the blockchain, and all of it between two batches if there was no
\* kill (interval_task, proof_info).
THEOREM GroupsStayConsistent == SemaphoreServerSpec => []GroupsAreConsistent
<1>1. ASSUME SemaphoreInductiveInv PROVE GroupsAreConsistent
  <2>1. SemaphoreServerTypeOK /\ OrderFits
    BY <1>1 DEF SemaphoreInductiveInv
  <2>2. ASSUME crashes = 0, task.pc # "update" PROVE TreesIncluded = members
    <3>1. PICK n \in Nat : Marked(n) /\ BatchesFit(n)
      BY <2>1 DEF OrderFits
    <3>2. TreesIncluded = [k \in 1 .. n |-> BigInt[treeOrder[k]]]
      BY <2>1, <3>1, RowsSelected
    <3>3. Len(members) = n /\ \A k \in 1 .. Len(members) : members[k] = BigInt[treeOrder[k]]
      BY <2>2, <3>1 DEF Marked, BatchesFit
    <3>4. members = [k \in 1 .. Len(members) |-> members[k]]
      BY <2>1, OrderTyped, LenProperties
    <3> QED
      BY <3>2, <3>3, <3>4
  <2> QED
    BY <2>1, <2>2, IncludedIsPrefix DEF OrderFits, GroupsFit, GroupsAreConsistent
<1> QED
  BY <1>1, SemaphoreInvariance, PTL

\* The count of a petition is the number of the members that signed it, each of
\* them once (the scope of validateProof).
THEOREM SignersStayCounted == SemaphoreServerSpec => []SemaphoreSignersCountMembers
<1>1. ASSUME SemaphoreInductiveInv PROVE SemaphoreSignersCountMembers
  <2>1. SignaturesFit
    BY <1>1 DEF SemaphoreInductiveInv
  <2>2. \A id : SignedBy(id) \subseteq ToSet(members)
    BY <2>1 DEF SignaturesFit, SignedBy
  <2>3. \A i \in DOMAIN petitions :
          petitions[i].signers = Cardinality(SignedBy(petitions[i].id))
    BY <2>1 DEF SignaturesFit
  <2> QED
    BY <2>2, <2>3 DEF SemaphoreSignersCountMembers, SignedBy
<1> QED
  BY <1>1, SemaphoreInvariance, PTL

\* Members are the commitments of registered people, and two members are of one
\* identity only if the two requests raced, however many are handled at a time
\* (isRegistered, the primary keys, the rows interval_task selects).
THEOREM MembersOfIdentities == SemaphoreServerSpec => []OneMemberPerIdentity
<1>1. ASSUME SemaphoreInductiveInv PROVE OneMemberPerIdentity
  <2>1. SemaphoreServerTypeOK /\ RegistrationsFit /\ OrderFits
    BY <1>1 DEF SemaphoreInductiveInv
  <2> DEFINE row == [c \in ToSet(members) |-> CHOOSE p \in idp_pubkeys : BigInt[p.pubkey] = c]
  <2>2. ASSUME NEW c \in ToSet(members)
        PROVE  \E p \in idp_pubkeys : BigInt[p.pubkey] = c
    <3>1. PICK k \in 1 .. Len(members) : members[k] = c
      BY <2>1, OrderTyped, LenProperties DEF ToSet
    <3>2. PICK n \in Nat : Marked(n)
      BY <2>1 DEF OrderFits
    <3>3. k \in 1 .. Len(treeOrder) /\ BigInt[treeOrder[k]] = c
      BY <2>1, <3>1, <3>2, OrderTyped DEF Marked
    <3>4. PICK tree \in idp_tree_hashes : tree.hash = treeOrder[k]
      BY <2>1, <3>3, OrderTyped
    <3>5. IsKey(treeOrder[k])
      BY <2>1, <3>4 DEF RegistrationsFit
    <3> QED
      BY <3>3, <3>5 DEF IsKey
  <2>3. /\ row \in [ToSet(members) -> idp_pubkeys]
        /\ \A c \in ToSet(members) : row[c] \in idp_pubkeys /\ BigInt[row[c].pubkey] = c
    BY <2>2
  <2> HIDE DEF row
  <2>4. \A p, q \in idp_pubkeys : p.identity = q.identity
                                   => p = q \/ {p.token, q.token} \in raced
    BY <2>1 DEF RegistrationsFit, RowsFit
  <2>5. ASSUME NEW c \in ToSet(members), NEW d \in ToSet(members),
               row[c].identity = row[d].identity
        PROVE  c = d \/ {row[c].token, row[d].token} \in raced
    BY <2>3, <2>4, <2>5
  <2> QED
    BY <2>3, <2>5 DEF OneMemberPerIdentity
<1> QED
  BY <1>1, SemaphoreInvariance, PTL

=============================================================================
