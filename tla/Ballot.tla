------------------------------- MODULE Ballot -------------------------------
(***************************************************************************)
(* What the petition platform promises, whatever the mode in which voters  *)
(* identify themselves: voters are admitted for the current period only,   *)
(* a petition belongs to one period, which is not over when it is opened,  *)
(* and counts each voter admitted for that period at most once.            *)
(***************************************************************************)
EXTENDS Naturals, Sequences

CONSTANTS
  Voters,
  PetitionPeriods,  \* periods a petition may be assigned to
  Timely    \* whether a petition may only be signed during its period

VARIABLES
  now,       \* the current period
  admitted,  \* pairs <<voter, period>>
  ballots    \* sequence of [period, voted, count]

ballotVars == <<now, admitted, ballots>>

BallotInit ==
  /\ now = 1
  /\ admitted = {}
  /\ ballots = << >>

NewDay ==
  /\ now' \in Nat
  /\ now' > now
  /\ UNCHANGED <<admitted, ballots>>

\* Voters join the electorate of the period that is running.
Admit(vs) ==
  /\ admitted' = admitted \cup (vs \X {now})
  /\ UNCHANGED <<now, ballots>>

Open(p) ==
  /\ p >= now
  /\ ballots' = Append(ballots, [period |-> p, voted |-> {}, count |-> 0])
  /\ UNCHANGED <<now, admitted>>

Vote(b, v) ==
  /\ <<v, ballots[b].period>> \in admitted
  /\ v \notin ballots[b].voted
  /\ Timely => ballots[b].period = now
  /\ ballots' = [ballots EXCEPT ![b].voted = @ \cup {v}, ![b].count = @ + 1]
  /\ UNCHANGED <<now, admitted>>

BallotNext ==
  \/ NewDay
  \/ \E vs \in SUBSET Voters : Admit(vs)
  \/ \E p \in PetitionPeriods : Open(p)
  \/ \E b \in DOMAIN ballots, v \in Voters : Vote(b, v)

BallotSpec == BallotInit /\ [][BallotNext]_ballotVars

=============================================================================
