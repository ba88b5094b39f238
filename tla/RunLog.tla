------------------------------- MODULE RunLog -------------------------------
(***************************************************************************)
(* AgentRuntimeService.append_events and append_steering for one run, as   *)
(* concurrent request threads execute them.  A request reads the run row   *)
(* (Begin), looks its ids up and checks its version and patch (Answer*,    *)
(* PassChecks), and writes in one transaction (Commit).  Nothing is locked *)
(* between the read and the write: SQLite takes the write lock at the      *)
(* first DML statement, so other requests may commit in between, and the   *)
(* row is written from the values read at Begin.  What catches that is the *)
(* unique index on (run_id, event_seq).                                    *)
(***************************************************************************)
EXTENDS RunRecord, Integers

CONSTANTS Threads,    \* request threads of the FastAPI process
          Requests,   \* the requests callers may send, and send again
          Ids,        \* client_event_ids and idempotency keys of callers
          ToolCalls,  \* tool_call_ids
          Types,      \* event types
          Vals,       \* payloads, as far as a property reads them
          MaxLag      \* bound: how many versions a caller may be behind

NoPatch    == "no patch"
AnyVersion == -1          \* expected_state_version is None

\* The ids the server makes up for the entries it adds on its own.
AutoState(key)    == <<key, "auto:state_changed">>
AutoTool(key, tc) == <<key, "auto:tool_result", tc>>

EntryId == Ids \cup {AutoState(k) : k \in Ids}
               \cup {AutoTool(k, tc) : k \in Ids, tc \in ToolCalls}

Entry == [id : EntryId, type : Types \cup {StateChange},
          val : Vals \cup Status \cup {NoPatch}]

RequestType ==
  [kind   : {"append", "steering"},
   key    : Ids,
   events : Seq([id : Ids, type : Types, val : Vals]),
   tools  : Seq(ToolCalls),
   patch  : Status \cup {NoPatch}]

-----------------------------------------------------------------------------
(* What a request writes. *)

\* Faulty variant: no state_changed entry beside events of the caller.
PatchEntriesAlone(r) ==
  IF r.patch = NoPatch \/ r.events # << >> THEN << >>
  ELSE << [id |-> AutoState(r.key), type |-> StateChange, val |-> r.patch] >>

PatchEntries(r) ==
  IF r.patch = NoPatch THEN << >>
  ELSE << [id |-> AutoState(r.key), type |-> StateChange, val |-> r.patch] >>

\* Only a request that carries nothing but tool results needs a marker.
MarkerEntries(r) ==
  IF r.events = << >> /\ r.patch = NoPatch
  THEN [i \in 1..Len(r.tools) |->
          [id   |-> AutoTool(r.key, r.tools[i]),
           type |-> StateChange, val |-> NoPatch]]
  ELSE << >>

\* The rows inserted, in the order of their event_seq.
Entries(r) == PatchEntries(r) \o r.events \o MarkerEntries(r)

Mutates(r) == r.patch # NoPatch \/ r.events # << >> \/ r.tools # << >>

\* The ids whose presence in the log makes a request a duplicate.
LookupIds(r) ==
  {r.events[i].id : i \in {1} \cap DOMAIN r.events}
    \cup {r.key, AutoState(r.key)}
    \cup {AutoTool(r.key, r.tools[i]) : i \in DOMAIN r.tools}

-----------------------------------------------------------------------------
ASSUME LagAssumption == MaxLag \in Nat

ASSUME RequestsAssumption == Requests \subseteq RequestType /\ Requests # {}

\* Payloads are told from statuses, and event types of callers from the
\* server's own.
ASSUME PayloadAssumption ==
  /\ StateChange \notin Types
  /\ Vals \cap Status = {}

\* Only some ids of a request are looked up.  The callers build their ids from
\* the run, a sequence number, a proposal or a message, and derive the key from
\* the same parts, so that requests with an id in common are the same request.
IdsOf(r) == {Entries(r)[i].id : i \in DOMAIN Entries(r)}

ASSUME IdsAssumption ==
  /\ \A r \in Requests : \A i, j \in DOMAIN Entries(r) :
       i # j => Entries(r)[i].id # Entries(r)[j].id
  /\ \A r, s \in Requests : LookupIds(r) \cap IdsOf(s) # {} => IdsOf(r) \subseteq IdsOf(s)
  /\ \A r, s \in Requests : IdsOf(r) \cap IdsOf(s) # {} => LookupIds(r) \cap IdsOf(s) # {}

\* A tool call is reported by one request.
ASSUME ToolsAssumption ==
  \A r, s \in Requests : \A i \in DOMAIN r.tools, j \in DOMAIN s.tools :
     r.tools[i] = s.tools[j] => r = s /\ i = j

-----------------------------------------------------------------------------
VARIABLES status, version, effects,  \* columns of the run row
          lastSeq,                   \* agent_runs_v2.last_event_seq
          events,                    \* the rows of agent_run_events, by event_seq
          pc, req, expected, snap    \* per thread: where it is, what it serves,
                                     \* and the run row as it read it

row     == [status |-> status, version |-> version, effects |-> effects,
            lastSeq |-> lastSeq]
table   == <<status, version, effects, lastSeq, events>>
threads == <<pc, req, expected, snap>>
vars    == <<table, threads>>

Row == [status : Status, version : Nat, effects : Seq(ToolCalls), lastSeq : Nat]

NoRow     == [status |-> "created", version |-> 0, effects |-> << >>, lastSeq |-> 0]
NoRequest == CHOOSE r \in Requests : TRUE

Init ==
  /\ status = "created"
  /\ version = 0
  /\ effects = << >>
  /\ lastSeq = 0
  /\ events = << >>
  /\ pc = [t \in Threads |-> "idle"]
  /\ req = [t \in Threads |-> NoRequest]
  /\ expected = [t \in Threads |-> AnyVersion]
  /\ snap = [t \in Threads |-> NoRow]

-----------------------------------------------------------------------------
Answer(t, outcome) ==
  /\ pc' = [pc EXCEPT ![t] = outcome]
  /\ UNCHANGED <<req, expected, snap>>

Leave(t) ==
  /\ pc' = [pc EXCEPT ![t] = "idle"]
  /\ req' = [req EXCEPT ![t] = NoRequest]
  /\ expected' = [expected EXCEPT ![t] = AnyVersion]
  /\ snap' = [snap EXCEPT ![t] = NoRow]

\* session.get(AgentRunV2, run_id): the row this request will write from.  A
\* caller's version is one it was told earlier.
Begin(t) ==
  /\ pc[t] = "idle"
  /\ \E r \in Requests, e \in {AnyVersion} \cup {v \in 0..version : version <= v + MaxLag} :
       /\ req' = [req EXCEPT ![t] = r]
       /\ expected' = [expected EXCEPT ![t] = e]
  /\ snap' = [snap EXCEPT ![t] = row]
  /\ pc' = [pc EXCEPT ![t] = "loaded"]
  /\ UNCHANGED table

\* Faulty variants: the entries the server adds are not looked up; only the
\* first event is.
DuplicateOfCaller(r) ==
  ({r.events[i].id : i \in {1} \cap DOMAIN r.events} \cup {r.key}) \cap Recorded(events) # {}
DuplicateEvent(r) ==
  {r.events[i].id : i \in {1} \cap DOMAIN r.events} \cap Recorded(events) # {}

Duplicate(r) == LookupIds(r) \cap Recorded(events) # {}

\* Faulty variant: only a version from the future is refused.
Ahead(t) == expected[t] # AnyVersion /\ expected[t] > snap[t].version

Stale(t) == expected[t] # AnyVersion /\ expected[t] # snap[t].version

\* Faulty variant: steering is not checked against the status.
IllegalPatch(t) ==
  req[t].patch # NoPatch /\ ~MayMove(snap[t].status, req[t].patch)

\* An illegal patch, or steering for a finished run.
Illegal(t) ==
  \/ req[t].patch # NoPatch /\ ~MayMove(snap[t].status, req[t].patch)
  \/ req[t].kind = "steering" /\ snap[t].status \in Terminal

\* The idempotent answer comes before the version check, so that an exact
\* retry is not answered 409.
AnswerDuplicate(t) ==
  /\ pc[t] = "loaded"
  /\ Duplicate(req[t])
  /\ Answer(t, "duplicate")
  /\ UNCHANGED table

AnswerStale(t) ==
  /\ pc[t] = "loaded"
  /\ ~Duplicate(req[t])
  /\ Stale(t)
  /\ Leave(t)
  /\ UNCHANGED table

AnswerRejected(t) ==
  /\ pc[t] = "loaded"
  /\ ~Duplicate(req[t])
  /\ ~Stale(t)
  /\ Illegal(t)
  /\ Leave(t)
  /\ UNCHANGED table

PassChecks(t) ==
  /\ pc[t] = "loaded"
  /\ ~Duplicate(req[t])
  /\ ~Stale(t)
  /\ ~Illegal(t)
  /\ Answer(t, "checked")
  /\ UNCHANGED table

\* The event_seqs a request assigns, counted from the row it read.
Seqs(t) == (snap[t].lastSeq + 1)..(snap[t].lastSeq + Len(Entries(req[t])))

\* Faulty variant: last_event_seq counts the caller's events only.
CountCallerEvents(t) == snap[t].lastSeq + Len(req[t].events)

\* run.last_event_seq += 1 once for every entry.
LastSeqAfter(t) == snap[t].lastSeq + Len(Entries(req[t]))

\* Faulty variants: no unique index, and one that includes client_event_id.
NoIndex(t) == FALSE
WiderIndex(t) ==
  \E i \in Seqs(t) \cap DOMAIN events :
    events[i].id = Entries(req[t])[i - snap[t].lastSeq].id

\* The unique index (run_id, event_seq) refuses the insert.
Collides(t) == Seqs(t) \cap DOMAIN events # {}

\* One transaction: the inserts and the update of the columns that were
\* assigned, from the values read at Begin.
Commit(t) ==
  LET r == req[t] IN
  /\ pc[t] = "checked"
  /\ ~Collides(t)
  /\ events' = [i \in DOMAIN events \cup Seqs(t) |->
                  IF i \in Seqs(t) THEN Entries(r)[i - snap[t].lastSeq] ELSE events[i]]
  /\ lastSeq' = IF Entries(r) = << >> THEN lastSeq ELSE LastSeqAfter(t)
  /\ version' = IF Mutates(r) THEN snap[t].version + 1 ELSE version
  /\ status' = IF r.patch \in {NoPatch, snap[t].status} THEN status ELSE r.patch
  /\ effects' = IF r.tools = << >> THEN effects ELSE snap[t].effects \o r.tools
  /\ Answer(t, "appended")

\* The unique index refuses an insert, or the database stays locked: the
\* transaction is rolled back.
FailCommit(t) ==
  /\ pc[t] = "checked"
  /\ Leave(t)
  /\ UNCHANGED table

\* The answer reaches the caller or is lost on the way, like the error answers
\* above; a caller who cannot tell may send the same request again.
Finish(t) ==
  /\ pc[t] \in {"appended", "duplicate"}
  /\ Leave(t)
  /\ UNCHANGED table

\* The server process dies: every request under way is gone, with no effect.
Crash ==
  /\ \E t \in Threads : pc[t] # "idle"
  /\ pc' = [t \in Threads |-> "idle"]
  /\ req' = [t \in Threads |-> NoRequest]
  /\ expected' = [t \in Threads |-> AnyVersion]
  /\ snap' = [t \in Threads |-> NoRow]
  /\ UNCHANGED table

Next ==
  \/ Crash
  \/ \E t \in Threads :
       \/ Begin(t) \/ AnswerDuplicate(t) \/ AnswerStale(t) \/ AnswerRejected(t)
       \/ PassChecks(t) \/ Commit(t) \/ FailCommit(t) \/ Finish(t)

Spec == Init /\ [][Next]_vars

-----------------------------------------------------------------------------
TypeOK ==
  /\ status \in Status
  /\ version \in Nat
  /\ lastSeq \in Nat
  /\ effects \in Seq(ToolCalls)
  /\ events \in [1..lastSeq -> Entry]
  /\ pc \in [Threads -> {"idle", "loaded", "checked", "appended", "duplicate"}]
  /\ req \in [Threads -> Requests]
  /\ expected \in [Threads -> Nat \cup {AnyVersion}]
  /\ snap \in [Threads -> Row]

Writes(t) == pc[t] = "checked" /\ pc'[t] = "appended" /\ Mutates(req[t])

\* No client_event_id is recorded twice, however often and by however many
\* threads a request is sent: the lookup of append_events and append_steering
\* is not atomic with the insert.
IdsRecordedOnce ==
  \A i, j \in DOMAIN events : i # j => events[i].id # events[j].id

\* A request that was answered with success is in the log: at the event_seqs
\* the answer names when it was appended, though another request may have been
\* committed between its read of last_event_seq and its write; with all its
\* ids when it was taken for a duplicate, though only some of them are looked
\* up.
AcknowledgedIsRecorded ==
  \A t \in Threads :
    /\ pc[t] = "appended" =>
         \A k \in DOMAIN Entries(req[t]) :
           /\ snap[t].lastSeq + k \in DOMAIN events
           /\ events[snap[t].lastSeq + k] = Entries(req[t])[k]
    /\ pc[t] = "duplicate" =>
         \A k \in DOMAIN Entries(req[t]) : Entries(req[t])[k].id \in Recorded(events)

\* A tool call enters run.side_effects once, and the JSON list that every
\* append rewrites as a whole loses none: each call whose result was
\* acknowledged is in it.
EffectsReportedOnce ==
  /\ \A i, j \in DOMAIN effects : i # j => effects[i] # effects[j]
  /\ \A t \in Threads : pc[t] = "appended" =>
       \A k \in DOMAIN req[t].tools :
         \E i \in DOMAIN effects : effects[i] = req[t].tools[k]

\* The run row and the log of the same run never disagree about the status:
\* replaying the run.state_changed events yields agent_runs_v2.status.
StatusReplays == Replays(events, status)

\* A write that names an expected_state_version takes place at exactly that
\* version, although the comparison was made on a row read earlier.
WritesAtExpectedVersion ==
  [][ \A t \in Threads :
        (Writes(t) /\ expected[t] # AnyVersion) => (version = expected[t]) ]_vars

\* A finished run stays as it finished and takes no more steering, even from
\* requests that were checked while it was still running.
StaysFinal ==
  status \in Terminal =>
    /\ status' = status
    /\ \A t \in Threads : Writes(t) => req[t].kind # "steering"

FinishedIsFinal == [][StaysFinal]_vars

Ledger == INSTANCE RunLedger WITH log <- events

\* Concurrent requests together implement the ledger that appends one batch
\* at a time.
ImplementsLedger == Ledger!LedgerSpec
=============================================================================
