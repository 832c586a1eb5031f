------------------------------ MODULE RootLog ------------------------------
(***************************************************************************)
(* What a ZKIDP contract promises to the petitions that read it, without   *)
(* its slot array, counter and lazy reset: a log of the Merkle roots of    *)
(* one period, which only grows until a root of a later period starts a    *)
(* new log, and which holds at most Capacity roots.                        *)
(***************************************************************************)
EXTENDS Naturals, Sequences

CONSTANTS Roots, Capacity

VARIABLES
  now,        \* the current period
  logPeriod,  \* the period the log belongs to, 0 before the first root
  log         \* the roots published in that period, in order

logVars == <<now, logPeriod, log>>

LogInit ==
  /\ now = 1
  /\ logPeriod = 0
  /\ log = << >>

\* Time passes; nothing that was published changes.
LogNewPeriod ==
  /\ now' \in Nat
  /\ now' > now
  /\ UNCHANGED <<logPeriod, log>>

\* A further root of the period whose log is being written.
Extend(rt) ==
  /\ logPeriod = now
  /\ Len(log) < Capacity
  /\ log' = Append(log, rt)
  /\ UNCHANGED <<now, logPeriod>>

\* The first root of a period replaces the log of an earlier one.
StartOver(rt) ==
  /\ logPeriod < now
  /\ Capacity > 0
  /\ log' = <<rt>>
  /\ logPeriod' = now
  /\ UNCHANGED now

LogNext ==
  \/ LogNewPeriod
  \/ \E rt \in Roots : Extend(rt) \/ StartOver(rt)

LogSpec == LogInit /\ [][LogNext]_logVars

=============================================================================
