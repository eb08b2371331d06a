---------------------------- MODULE OracleSource ----------------------------
(***************************************************************************)
(* The Oracle table a run reads, as far as the framework depends on it.    *)
(*                                                                         *)
(* Every row carries a watermark column that a transaction stamps from the *)
(* database clock when it updates the row, and the row becomes visible to  *)
(* a read only when the transaction commits.  The gap between the two is   *)
(* what `overlap' in the framework's configuration is for: a row may be    *)
(* stamped before a run's cut-off and committed after that run's read.     *)
(* Oracle is outside the repository; the model is what the queries of      *)
(* sql_builder.py can observe of it.                                       *)
(***************************************************************************)
EXTENDS Integers

CONSTANTS Keys,        \* the business keys (merge_keys) of the table
          CommitLag,   \* the longest time between a stamp and its commit
          Ties,        \* may two updates of one row carry the same stamp?
          MaxClock,    \* bound: the last instant of a behaviour
          MaxVersion   \* bound: how often one row is written

ASSUME SourceAssumption == /\ CommitLag \in Nat
                           /\ Ties \in BOOLEAN
                           /\ MaxClock \in Nat
                           /\ MaxVersion \in Nat

VARIABLES clock,    \* the clock of the database (SYSTIMESTAMP, the SCN)
          source,   \* the committed row of each key
          pending   \* the stamp of an update that is not committed, or 0

sourceVars == <<clock, source, pending>>

Row == [wm : Nat, ver : Nat]

\* No row has this key.  Stamps start at 1 and versions at 1.
NoRow == [wm |-> 0, ver |-> 0]

SourceTypeOK == /\ clock \in Nat
                /\ source \in [Keys -> Row]
                /\ pending \in [Keys -> Nat]

SourceInit == /\ clock = 1
              /\ source = [k \in Keys |-> NoRow]
              /\ pending = [k \in Keys |-> 0]

(***************************************************************************)
(* A transaction locks the row of k and stamps it.  With Ties FALSE the    *)
(* stamp is newer than the row's last one.  No row is stamped in the last  *)
(* instant, so that a cut-off can still lie behind every stamp.            *)
(***************************************************************************)
Update(k) == /\ pending[k] = 0
             /\ source[k].ver < MaxVersion
             /\ clock < MaxClock
             /\ Ties \/ clock > source[k].wm
             /\ pending' = [pending EXCEPT ![k] = clock]
             /\ UNCHANGED <<clock, source>>

\* The transaction commits: its row is visible from here on.
Commit(k) == /\ pending[k] # 0
             /\ source' = [source EXCEPT ![k] = [wm  |-> pending[k],
                                                 ver |-> source[k].ver + 1]]
             /\ pending' = [pending EXCEPT ![k] = 0]
             /\ UNCHANGED clock

\* Time passes, but no transaction stays open for longer than CommitLag.
Tick == /\ clock < MaxClock
        /\ \A k \in Keys : pending[k] = 0 \/ clock - pending[k] < CommitLag
        /\ clock' = clock + 1
        /\ UNCHANGED <<source, pending>>

SourceNext == Tick \/ \E k \in Keys : Update(k) \/ Commit(k)
=============================================================================
