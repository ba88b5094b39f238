----------------------------- MODULE RunLedger -----------------------------
(***************************************************************************)
(* What FastAPI promises its callers about one run: however many requests, *)
(* retries and writers there are, the run behaves as one ledger to which   *)
(* whole batches are appended one after the other.  A batch is recorded    *)
(* entirely or not at all, its entries take the next event_seqs, nothing   *)
(* already recorded moves, no client_event_id is recorded twice, the       *)
(* version counts the batches, the status only takes a legal step and the  *)
(* log always replays to it.                                               *)
(***************************************************************************)
EXTENDS RunRecord

VARIABLES status,   \* agent_runs_v2.status
          version,  \* agent_runs_v2.state_version
          log,      \* the rows of agent_run_events, in event_seq order
          effects   \* agent_runs_v2.side_effects, by tool_call_id

ledgerVars == <<status, version, log, effects>>

LedgerInit ==
  /\ status = "created"
  /\ version = 0
  /\ log = << >>
  /\ effects = << >>

\* new extends old at its end.
Extends(old, new) ==
  /\ Len(old) <= Len(new)
  /\ \A i \in 1..Len(old) : new[i] = old[i]

FreshEntries(old, new) ==
  \A i \in (Len(old) + 1)..Len(new) : \A j \in 1..Len(new) :
     i # j => new[i].id # new[j].id

AppendBatch ==
  /\ Len(log) < Len(log')
  /\ Extends(log, log')
  /\ FreshEntries(log, log')
  /\ version' = version + 1
  /\ MayMove(status, status')
  /\ Replays(log', status')
  /\ Extends(effects, effects')

LedgerSpec == LedgerInit /\ [][AppendBatch]_ledgerVars
=============================================================================
