----------------------------- MODULE ToolExecutor -----------------------------
(***************************************************************************)
(* ToolExecutor of the sidecar for one run: the semaphore of a concurrency *)
(* group, the attempts of a call with their timeout, backoff and abort,    *)
(* and the ledger entry that is appended to the run for every attempt.     *)
(* The executor is one JavaScript thread: a step is what runs between two  *)
(* awaits.  Around it run the tools (a request to FastAPI goes on after    *)
(* the executor has stopped waiting for it), the appends under way, and    *)
(* the abort signal of the run.                                            *)
(***************************************************************************)
EXTENDS Integers, Sequences, FiniteSets

CONSTANTS Calls,        \* tool calls
          Exposures,    \* the sets of calls the model may make in a run
          Writes,       \* those of tools that create proposals or records
          Groups,       \* concurrency groups
          GroupOf,      \* the group of a call's tool
          Limit,        \* maxConcurrency of a group
          MaxAttempts,  \* manifest.retry.maxAttempts of a call's tool
          RetryOn,      \* manifest.retry.retryOn, as far as it names codes
          NoCall,       \* not a call
          MaxOthers     \* bound: appends to the run by other processes

ASSUME CallsAssumption ==
  IsFiniteSet(Calls) /\ Writes \subseteq Calls /\ NoCall \notin Calls
ASSUME ExposuresAssumption == Exposures \subseteq SUBSET Calls
ASSUME GroupAssumption == GroupOf \in [Calls -> Groups] /\ Limit \in [Groups -> Nat \ {0}]
ASSUME AttemptsAssumption == MaxAttempts \in [Calls -> Nat \ {0}] /\ MaxOthers \in Nat

\* ToolErrorCode by what shouldRetry makes of it: "fatal" stands for the codes
\* of NEVER_RETRY_CODES.
Code   == {"success", "timeout", "transient", "fatal"}
\* sideEffectStatus of an entry; "unset" when the attempt threw.
Effect == {"done", "none", "unknown", "unset"}

ASSUME RetryAssumption == RetryOn \subseteq Code

Attempts == UNION {1..MaxAttempts[c] : c \in Calls}

Request == [stage : {"none", "sent", "recorded", "failed"},
            id : Nat, ver : Nat, seq : Nat]
NoRequest == [stage |-> "none", id |-> 0, ver |-> 0, seq |-> 0]

LedgerEntry == [id : Nat, call : Calls \cup {NoCall}, attempt : Nat, effect : Effect]

\* An entry without a result; its code is an error that is not retried.
NoEntry == [code |-> "fatal", effect |-> "unset"]

VARIABLES exposed,      \* the calls this run may make
          aborted,      \* the run's abort signal
          active,       \* per group: slots taken
          queue,        \* per group: the waiters, oldest first
          pc,           \* per call: where execute() is
          att,          \* per call: the current attempt, 0 before the first
          entry,        \* per call: code and effect of the attempt's entry
          told,         \* per call: what execute() returned or threw
          raw,          \* per call and attempt: the request to the tool
          req,          \* per call: the append of its entry under way
          seq, version, \* runState.lastEventSeq and runState.stateVersion
          log           \* the run's events, by event_seq; its length is also
                        \* the state version of the run row

slots  == <<active, queue>>
calls  == <<pc, att, entry, told>>
ledger == <<req, seq, version, log>>
vars   == <<exposed, aborted, slots, calls, raw, ledger>>

Waiting == {"queued"}
Holding == {"running", "storing", "persist", "repersist", "backoff"}
Holders(g) == {c \in Calls : GroupOf[c] = g /\ pc[c] \in Holding}

Init ==
  /\ exposed \in Exposures
  /\ aborted = FALSE
  /\ active = [g \in Groups |-> 0]
  /\ queue = [g \in Groups |-> << >>]
  /\ pc = [c \in Calls |-> "idle"]
  /\ att = [c \in Calls |-> 0]
  /\ entry = [c \in Calls |-> NoEntry]
  /\ told = [c \in Calls |-> "nothing"]
  /\ raw = [c \in Calls |-> [a \in Attempts |-> "none"]]
  /\ req = [c \in Calls |-> NoRequest]
  /\ seq = 0
  /\ version = 0
  /\ log = << >>

-----------------------------------------------------------------------------
(* Appending a ledger entry: persistLedgerEntry and the run's event log. *)

\* The event id and the version an append is sent with are those the sidecar
\* knows at that moment, whoever else is sending.
NewRequest == [stage |-> "sent", id |-> seq + 1, ver |-> version, seq |-> 0]

IdsLogged == {log[i].id : i \in DOMAIN log}

\* The answer: the state version of the run and the event's number.
Answered(c, v, n) == [stage |-> "recorded", id |-> req[c].id, ver |-> v, seq |-> n]

\* The server takes an id it knows for a retry, refuses a stale version, and
\* appends otherwise.
AppendNew(c) ==
  /\ req[c].stage = "sent"
  /\ req[c].id \notin IdsLogged
  /\ req[c].ver = Len(log)
  /\ log' = Append(log, [id |-> req[c].id, call |-> c, attempt |-> att[c],
                         effect |-> entry[c].effect])
  /\ req' = [req EXCEPT ![c] = Answered(c, Len(log) + 1, Len(log) + 1)]
  /\ UNCHANGED <<exposed, aborted, slots, calls, raw, seq, version>>

AppendDuplicate(c) ==
  /\ req[c].stage = "sent"
  /\ \E i \in DOMAIN log :
       /\ log[i].id = req[c].id
       /\ req' = [req EXCEPT ![c] = Answered(c, Len(log), i)]
  /\ UNCHANGED <<exposed, aborted, slots, calls, raw, seq, version, log>>

\* A 409, a request that is lost, or an answer that is.
AppendFails(c) ==
  /\ \/ req[c].stage = "sent"
     \/ req[c].stage = "recorded"
  /\ req' = [req EXCEPT ![c] = [NoRequest EXCEPT !.stage = "failed"]]
  /\ UNCHANGED <<exposed, aborted, slots, calls, raw, seq, version, log>>

\* Steering queued by the public route, or another writer of the run.
Others == {i \in DOMAIN log : log[i].call = NoCall}

OtherAppend ==
  /\ Cardinality(Others) < MaxOthers
  /\ log' = Append(log, [id |-> 0, call |-> NoCall, attempt |-> 0, effect |-> "unset"])
  /\ UNCHANGED <<exposed, aborted, slots, calls, raw, req, seq, version>>

\* The answer is taken over: the sequence number never goes back, the version
\* is overwritten.
TakeAnswer(c) ==
  /\ seq' = IF req[c].seq > seq THEN req[c].seq ELSE seq
  /\ version' = IF req[c].stage = "recorded" THEN req[c].ver ELSE version

-----------------------------------------------------------------------------
(* execute: checks, semaphore, attempts. *)

\* canExecuteInParallel(exposedManifests).
Parallel == exposed \cap Writes = {}

\* The agent calls its tools one after the other unless every exposed tool is
\* read-only.
MayCall(c) ==
  /\ c \in exposed
  /\ pc[c] = "idle"
  /\ Parallel \/ \A d \in Calls : pc[d] \in {"idle", "done"}

\* Cancelled, or refused by validation or policy: createErrorResult starts the
\* append and does not wait for it.
StartRefused(c) ==
  /\ MayCall(c)
  /\ pc' = [pc EXCEPT ![c] = "done"]
  /\ told' = [told EXCEPT ![c] = "failed"]
  /\ req' = [req EXCEPT ![c] = NewRequest]
  /\ UNCHANGED <<exposed, aborted, slots, att, entry, raw, seq, version, log>>

\* The next attempt of a call: the request goes out to the tool.
Launch(c) ==
  /\ att' = [att EXCEPT ![c] = @ + 1]
  /\ raw' = [raw EXCEPT ![c][att[c] + 1] = "sent"]

\* Faulty variant: one call too many.
HasSlotOrLast(g) == active[g] <= Limit[g]

HasSlot(g) == active[g] < Limit[g]

StartRun(c) ==
  LET g == GroupOf[c] IN
  /\ MayCall(c)
  /\ ~aborted
  /\ HasSlot(g)
  /\ active' = [active EXCEPT ![g] = @ + 1]
  /\ pc' = [pc EXCEPT ![c] = "running"]
  /\ Launch(c)
  /\ UNCHANGED <<exposed, aborted, queue, entry, told, ledger>>

StartWait(c) ==
  LET g == GroupOf[c] IN
  /\ MayCall(c)
  /\ ~aborted
  /\ ~HasSlot(g)
  /\ queue' = [queue EXCEPT ![g] = Append(@, c)]
  /\ pc' = [pc EXCEPT ![c] = "queued"]
  /\ UNCHANGED <<exposed, aborted, active, att, entry, told, raw, ledger>>

\* Faulty variant: the release forgets the waiters.
FinishWithoutWaking(c, out) ==
  LET g == GroupOf[c] IN
  /\ told' = [told EXCEPT ![c] = out]
  /\ entry' = [entry EXCEPT ![c] = NoEntry]
  /\ active' = [active EXCEPT ![g] = @ - 1]
  /\ pc' = [pc EXCEPT ![c] = "done"]
  /\ UNCHANGED <<queue, att, raw>>

\* execute() ends: the slot goes to the oldest waiter, whose first attempt
\* starts, or is given back.  No waiter is left once the run is aborted.
Finish(c, out) ==
  LET g == GroupOf[c] IN
  /\ told' = [told EXCEPT ![c] = out]
  /\ entry' = [entry EXCEPT ![c] = NoEntry]
  /\ IF queue[g] = << >>
       THEN /\ active' = [active EXCEPT ![g] = @ - 1]
            /\ pc' = [pc EXCEPT ![c] = "done"]
            /\ UNCHANGED <<queue, att, raw>>
       ELSE LET d == Head(queue[g]) IN
            /\ queue' = [queue EXCEPT ![g] = Tail(@)]
            /\ pc' = [pc EXCEPT ![c] = "done", ![d] = "running"]
            /\ Launch(d)
            /\ UNCHANGED active

-----------------------------------------------------------------------------
(* executeWithRetry and executeWithTimeout. *)

\* Faulty variants: every timeout counts as harmless; one attempt too many.
TimeoutHarmless(c) == "none"
RetryOnceMore(c, effect) ==
  att[c] <= MaxAttempts[c] /\ effect # "unknown" /\ entry[c].code \in RetryOn

\* classifyTimeoutSideEffect: only a read-only tool surely did nothing.
TimeoutEffect(c) == IF c \in Writes THEN "unknown" ELSE "none"

\* shouldRetry.
ShouldRetry(c, effect) ==
  /\ att[c] < MaxAttempts[c]
  /\ entry[c].code \notin {"success", "fatal"}
  /\ effect # "unknown"
  /\ entry[c].code \in RetryOn

\* The tool's answer wins the race: it acted, or refused to.
Return(c) ==
  /\ pc[c] = "running"
  /\ \/ /\ raw[c][att[c]] = "acted"
        /\ entry' = [entry EXCEPT ![c] =
                       [code |-> "success", effect |-> IF c \in Writes THEN "done" ELSE "none"]]
        /\ \/ /\ pc' = [pc EXCEPT ![c] = "storing"]
              /\ UNCHANGED req
           \/ /\ pc' = [pc EXCEPT ![c] = "persist"]
              /\ req' = [req EXCEPT ![c] = NewRequest]
        /\ UNCHANGED raw
     \/ /\ raw[c][att[c]] = "sent"
        /\ raw' = [raw EXCEPT ![c][att[c]] = "refused"]
        /\ \E code \in {"transient", "fatal"} :
             entry' = [entry EXCEPT ![c] = [code |-> code, effect |-> "none"]]
        /\ pc' = [pc EXCEPT ![c] = "persist"]
        /\ req' = [req EXCEPT ![c] = NewRequest]
  /\ UNCHANGED <<exposed, aborted, slots, att, told, seq, version, log>>

\* The timer wins the race.  Nothing stops the tool.
Timeout(c) ==
  /\ pc[c] = "running"
  /\ entry' = [entry EXCEPT ![c] = [code |-> "timeout", effect |-> TimeoutEffect(c)]]
  /\ pc' = [pc EXCEPT ![c] = "persist"]
  /\ req' = [req EXCEPT ![c] = NewRequest]
  /\ UNCHANGED <<exposed, aborted, slots, att, told, raw, seq, version, log>>

\* The request to the tool fails on the way there or back.
Throw(c) ==
  /\ pc[c] = "running"
  /\ \E code \in {"transient", "fatal"} :
       entry' = [entry EXCEPT ![c] = [code |-> code, effect |-> "unset"]]
  /\ pc' = [pc EXCEPT ![c] = "repersist"]
  /\ req' = [req EXCEPT ![c] = NewRequest]
  /\ UNCHANGED <<exposed, aborted, slots, att, told, raw, seq, version, log>>

\* A large result is stored before it is recorded; that may fail.
Store(c) ==
  /\ pc[c] = "storing"
  /\ \/ /\ pc' = [pc EXCEPT ![c] = "persist"]
        /\ UNCHANGED entry
     \/ /\ pc' = [pc EXCEPT ![c] = "repersist"]
        /\ \E code \in {"transient", "fatal"} : entry' = [entry EXCEPT ![c].code = code]
  /\ req' = [req EXCEPT ![c] = NewRequest]
  /\ UNCHANGED <<exposed, aborted, slots, att, told, raw, seq, version, log>>

\* The attempt is recorded: return its result, or wait and try again.
Recorded(c) ==
  /\ pc[c] = "persist"
  /\ req[c].stage = "recorded"
  /\ req' = [req EXCEPT ![c] = NoRequest]
  /\ TakeAnswer(c)
  /\ IF ShouldRetry(c, entry[c].effect)
       THEN /\ pc' = [pc EXCEPT ![c] = "backoff"]
            /\ UNCHANGED <<slots, att, entry, told, raw>>
       ELSE Finish(c, IF entry[c].code = "success" THEN "success" ELSE "failed")
  /\ UNCHANGED <<exposed, aborted, log>>

\* Faulty variant: the result is returned although it could not be recorded.
ReturnUnrecorded(c) ==
  /\ pc[c] = "persist"
  /\ req[c].stage = "failed"
  /\ req' = [req EXCEPT ![c] = NoRequest]
  /\ Finish(c, IF entry[c].code = "success" THEN "success" ELSE "failed")
  /\ UNCHANGED <<exposed, aborted, seq, version, log>>

\* The append failed: its error is caught like one of the tool, and the entry
\* is sent again with the error's code.
RecordFails(c) ==
  /\ pc[c] = "persist"
  /\ req[c].stage = "failed"
  /\ \E code \in {"transient", "fatal"} : entry' = [entry EXCEPT ![c].code = code]
  /\ pc' = [pc EXCEPT ![c] = "repersist"]
  /\ req' = [req EXCEPT ![c] = NewRequest]
  /\ UNCHANGED <<exposed, aborted, slots, att, told, raw, seq, version, log>>

\* A caught error is thrown on, whether or not its entry could be recorded:
\* shouldRetry is asked with an unknown side effect.  Faulty variant: it is
\* asked with that of the entry.
RethrowOrRetry(c) ==
  /\ pc[c] = "repersist"
  /\ req[c].stage \in {"recorded", "failed"}
  /\ req' = [req EXCEPT ![c] = NoRequest]
  /\ TakeAnswer(c)
  /\ IF ShouldRetry(c, entry[c].effect)
       THEN /\ pc' = [pc EXCEPT ![c] = "backoff"]
            /\ UNCHANGED <<slots, att, entry, told, raw>>
       ELSE Finish(c, "threw")
  /\ UNCHANGED <<exposed, aborted, log>>

Rethrow(c) ==
  /\ pc[c] = "repersist"
  /\ req[c].stage \in {"recorded", "failed"}
  /\ req' = [req EXCEPT ![c] = NoRequest]
  /\ TakeAnswer(c)
  /\ Finish(c, "threw")
  /\ UNCHANGED <<exposed, aborted, log>>

\* The backoff timer fires: a new entry for a new attempt.
TryAgain(c) ==
  /\ pc[c] = "backoff"
  /\ pc' = [pc EXCEPT ![c] = "running"]
  /\ entry' = [entry EXCEPT ![c] = NoEntry]
  /\ Launch(c)
  /\ UNCHANGED <<exposed, aborted, slots, told, ledger>>

\* The append that createErrorResult did not wait for is answered.
Unawaited(c) ==
  /\ pc[c] = "done"
  /\ req[c].stage \in {"recorded", "failed"}
  /\ req' = [req EXCEPT ![c] = NoRequest]
  /\ TakeAnswer(c)
  /\ UNCHANGED <<exposed, aborted, slots, calls, raw, log>>

-----------------------------------------------------------------------------
(* Around the executor. *)

\* The request of an attempt takes effect, that of a write however late.  A
\* read that nobody waits for is of no consequence.
Act(c, a) ==
  /\ raw[c][a] = "sent"
  /\ c \in Writes \/ (pc[c] = "running" /\ a = att[c])
  /\ raw' = [raw EXCEPT ![c][a] = "acted"]
  /\ UNCHANGED <<exposed, aborted, slots, calls, ledger>>

\* The run is aborted: waiters leave the queue and fail; the calls that listen,
\* because they wait for a tool or for the backoff timer, reject.  A call that
\* is storing or recording does not listen, nor does what it does afterwards.
Listening == {"running", "backoff"}

\* Faulty variant: waiters are not told.
AbortRunning ==
  /\ ~aborted
  /\ aborted' = TRUE
  /\ LET stopped == {c \in Calls : pc[c] \in Listening} IN
     /\ pc' = [c \in Calls |-> IF c \in stopped THEN "repersist" ELSE pc[c]]
     /\ entry' = [c \in Calls |->
          IF c \in stopped THEN [entry[c] EXCEPT !.code = "fatal"] ELSE entry[c]]
     /\ req' = [c \in Calls |-> IF c \in stopped THEN NewRequest ELSE req[c]]
  /\ UNCHANGED <<exposed, active, queue, told, att, raw, seq, version, log>>

Abort ==
  /\ ~aborted
  /\ aborted' = TRUE
  /\ queue' = [g \in Groups |-> << >>]
  /\ LET stopped == {c \in Calls : pc[c] \in Listening}
         left    == {c \in Calls : pc[c] \in Waiting} IN
     /\ pc' = [c \in Calls |-> IF c \in stopped THEN "repersist"
                               ELSE IF c \in left THEN "done" ELSE pc[c]]
     /\ entry' = [c \in Calls |->
          IF c \in stopped THEN [entry[c] EXCEPT !.code = "fatal"] ELSE entry[c]]
     /\ told' = [c \in Calls |-> IF c \in left THEN "failed" ELSE told[c]]
     /\ req' = [c \in Calls |-> IF c \in stopped \cup left THEN NewRequest ELSE req[c]]
  /\ UNCHANGED <<exposed, active, att, raw, seq, version, log>>

-----------------------------------------------------------------------------
ExecutorStep(c) ==
  \/ Return(c) \/ Timeout(c) \/ Throw(c) \/ Store(c)
  \/ Recorded(c) \/ RecordFails(c) \/ Rethrow(c) \/ TryAgain(c) \/ Unawaited(c)

AppendStep(c) == AppendNew(c) \/ AppendDuplicate(c) \/ AppendFails(c)

Next ==
  \/ Abort
  \/ OtherAppend
  \/ \E c \in Calls :
       \/ StartRefused(c) \/ StartRun(c) \/ StartWait(c)
       \/ ExecutorStep(c)
       \/ AppendStep(c)
       \/ \E a \in Attempts : Act(c, a)

\* The timers of the executor fire, and fetchJson gives up after its timeout,
\* so that every append is answered or fails.  Nothing is assumed of the tools,
\* of the agent or of the other writers.
Fairness == \A c \in Calls : WF_vars(ExecutorStep(c)) /\ WF_vars(AppendStep(c))

Spec == Init /\ [][Next]_vars /\ Fairness

-----------------------------------------------------------------------------
TypeOK ==
  /\ exposed \in SUBSET Calls
  /\ aborted \in BOOLEAN
  /\ active \in [Groups -> Nat]
  /\ queue \in [Groups -> Seq(Calls)]
  /\ pc \in [Calls -> {"idle", "done"} \cup Waiting \cup Holding]
  /\ att \in [Calls -> Nat]
  /\ \A c \in Calls : att[c] <= MaxAttempts[c]
  /\ entry \in [Calls -> [code : Code, effect : Effect]]
  /\ told \in [Calls -> {"nothing", "success", "failed", "threw"}]
  /\ raw \in [Calls -> [Attempts -> {"none", "sent", "acted", "refused"}]]
  /\ req \in [Calls -> Request]
  /\ seq \in Nat
  /\ version \in Nat
  /\ log \in Seq(LedgerEntry)

\* A slot is taken by exactly the calls between acquire and release, never by
\* more than the limit, whichever way a call ends; and nobody waits while a
\* slot is free.
SlotsAccounted ==
  \A g \in Groups :
    /\ active[g] = Cardinality(Holders(g))
    /\ active[g] <= Limit[g]
    /\ queue[g] # << >> => active[g] = Limit[g]

\* The attempts of a call that took effect.
Effects(c) == {a \in Attempts : raw[c][a] = "acted"}

\* A call that creates something creates it at most once, although its request
\* may take effect after the executor has given it up: an attempt follows only
\* one that the tool itself refused.
WritesActOnce ==
  \A c \in Writes :
    /\ \A a, b \in Effects(c) : a = b
    /\ Effects(c) # {} => \A a \in Attempts : raw[c][a] # "sent"

\* What the ledger says of a side effect stays true: an attempt of a write
\* recorded without one never takes effect, not even later; one recorded as
\* done did.
LedgerIsTrue ==
  \A i \in DOMAIN log :
    LET e == log[i] IN
    e.call \in Writes =>
      /\ e.effect = "none" => raw[e.call][e.attempt] = "refused"
      /\ e.effect = "done" => raw[e.call][e.attempt] = "acted"

\* While tools are called one after the other, a result that execute() returned
\* after running the tool is in the ledger, unless its entry was taken for one
\* with the same event id: that of a refused call, which nobody waited for, or
\* that of a call whose append was not answered, so that the sequence number
\* stayed where it was.
LoggedAttempts(c) == {log[i].attempt : i \in {j \in DOMAIN log : log[j].call = c}}
MayShadow(d) == att[d] = 0 \/ told[d] = "threw"

ReturnedIsRecorded ==
  ~Parallel => \A c \in Calls :
    told[c] = "success" =>
      \/ att[c] \in LoggedAttempts(c)
      \/ \E d \in Calls \ {c} : LoggedAttempts(d) # {} /\ MayShadow(d)

\* Once the run is aborted, no call reaches its tool for the first time: not
\* from the queue when a slot is given back, and not a new one.  What may still
\* start is a retry, of a call whose attempt was being recorded when the abort
\* came; of a tool that writes only where the tool refused that attempt.
OnlyRetriesStartAfterAbort ==
  [][ aborted =>
        \A c \in Calls : att'[c] # att[c] =>
          /\ att[c] > 0
          /\ c \in Writes => raw[c][att[c]] = "refused" ]_vars

\* Every call that was started ends, also one that waits behind others: the
\* slots it waits for are given back whatever becomes of their holders.
CallsEnd == \A c \in Calls : pc[c] # "idle" ~> pc[c] = "done"
=============================================================================
