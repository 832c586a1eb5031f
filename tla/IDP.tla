-------------------------------- MODULE IDP --------------------------------
(***************************************************************************)
(* The part every identity-provider contract shares (platform/contracts/   *)
(* IDP.sol, abstract contract IDP): the account that may write to it and   *)
(* the voting period the block timestamp falls into.                       *)
(*                                                                         *)
(* The contracts observe block.timestamp only through period(), the        *)
(* quotient by PERIOD_LEN, so the clock is the number of the period.       *)
(* Timestamps grow from block to block and a period may pass without a     *)
(* transaction: the clock moves forward by any amount.  It starts at 1,    *)
(* since a real timestamp is far larger than any PERIOD_LEN deployed.      *)
(***************************************************************************)
EXTENDS Naturals

CONSTANTS
  Accounts,   \* externally owned accounts that may send transactions
  MaxPeriod   \* bound of the clock

ASSUME PeriodAssumption == MaxPeriod \in Nat \ {0}

VARIABLES
  now,        \* value of period() for the current block
  operator    \* the account allowed to write to the contract

idpVars == <<now, operator>>

Periods == 1 .. MaxPeriod

\* The types of the variables.
IDPTypeOK ==
  /\ now \in Periods
  /\ operator \in Accounts

\* The constructor makes its sender the operator.
IDPInit ==
  /\ now = 1
  /\ operator \in Accounts

\* A block whose timestamp lies in a later period.
NewPeriod ==
  \E p \in Periods :
    /\ p > now
    /\ now' = p
    /\ UNCHANGED operator

ChangeOperator(sender, newOperator) ==
  /\ sender = operator
  /\ operator' = newOperator
  /\ UNCHANGED now

=============================================================================
