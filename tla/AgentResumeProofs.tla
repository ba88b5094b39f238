------------------------- MODULE AgentResumeProofs -------------------------
(***************************************************************************)
(* What a resumed execution repeats, for any number of executions, calls,  *)
(* messages and events.                                                    *)
(*                                                                         *)
(* Each property compares an event with what an execution read of the log, *)
(* and a step can move both.  The proof says once what a step does to the  *)
(* log (LogSteps) and to one execution (ExecutionSteps); after that each   *)
(* part of the invariant is about the two events and the execution it      *)
(* names, and only Resume needs an argument about the page.                *)
(***************************************************************************)
EXTENDS AgentResume, TLAPS

Vals == CallResult \cup [over : BOOLEAN, blocked : BOOLEAN] \cup BOOLEAN
          \cup {None} \cup Nat \cup Terminal

EventTypes == {"tool.ledger_entry", "checkpoint.saved", "steering.queued", "steering.consumed",
               "run_plan.created", "run.state_changed"}

Event == [type : EventTypes, by : Nat, val : Vals]

Pcs == {"none", "loop", "record", "checkpoint", "pull",
        "consume", "plan", "final", "terminal", "failing", "report", "over"}

MemoryType == [recovered : SUBSET Calls, blocks : BOOLEAN, calls : Nat,
               doing : Calls \cup {None}, todo : SUBSET Nat]

\* The variables have their types.
Types ==
  /\ status \in Status
  /\ log \in Seq(Event)
  /\ pc \in [Runs -> Pcs]
  /\ memory \in [Runs -> MemoryType]
  /\ start \in [Runs -> [from : Nat, read : Nat]]
  /\ prompt \in [Runs -> SUBSET Nat]
  /\ called \subseteq Runs \X Calls
  /\ \A e \in Runs : pc[e] = "record" => memory[e].doing \in Calls

\* Every event has a value of its type; executions that wrote have started.
EventOK(i) ==
  /\ log[i].by \in Runs => pc[log[i].by] # "none"
  /\ log[i].type = "tool.ledger_entry" => log[i].by \in Runs /\ log[i].val \in CallResult
  /\ log[i].type = "checkpoint.saved" =>
       log[i].by \in Runs /\ log[i].val \in [over : BOOLEAN, blocked : BOOLEAN]
  /\ log[i].type = "steering.consumed" =>
       log[i].by \in Runs /\ log[i].val \in Nat /\ log[i].val < i
  /\ log[i].type = "run.state_changed" => log[i].by \in Runs /\ log[i].val \in Terminal

EventsInv == \A i \in DOMAIN log : EventOK(i)

\* An execution has read what the log has; one that has not started, nothing.
ReadInv ==
  \A e \in Runs :
    /\ start[e].from <= start[e].read /\ start[e].read <= Len(log)
    /\ \A q \in memory[e].todo : q <= Len(log)
    /\ pc[e] = "none" =>
         /\ start[e] = [from |-> 0, read |-> 0] /\ prompt[e] = {}
         /\ memory[e] = Forgotten /\ \A c \in Calls : <<e, c>> \notin called

\* An execution that needs its memory.
Working(e) == pc[e] \notin {"none", "failing", "report", "over"}

\* The recovered ledger holds every success in the page that was read.
RecoveredInv ==
  \A e \in Runs, i \in Seqs("tool.ledger_entry") :
    /\ Working(e) /\ log[i].val.result = "success"
    /\ start[e].from <= i /\ i <= start[e].read
    => log[i].val.call \in memory[e].recovered

\* An execution that met an unknown side effect says so in its checkpoints.
BlockedInv ==
  \A i \in Seqs("tool.ledger_entry") :
    log[i].val.result = "unknown" =>
      /\ Working(log[i].by) => memory[log[i].by].blocks
      /\ \A k \in Seqs("checkpoint.saved") :
           i < k /\ log[k].by = log[i].by => log[k].val.blocked

\* An execution that reported the end writes no checkpoint any more.
OverInv ==
  \A i \in Seqs("run.state_changed") :
    /\ pc[log[i].by] \in {"report", "over"}
    /\ \A k \in Seqs("checkpoint.saved") : i < k => log[k].by # log[i].by

\* What an execution is about to consume is not in its prompts, what it consumed
\* is, and what it is about to consume was not consumed before it read the log.
SteeringInv ==
  /\ \A e \in Runs : memory[e].todo \cap prompt[e] = {}
  /\ \A i \in Seqs("steering.consumed") : log[i].val \in prompt[log[i].by]
  /\ \A i \in Seqs("steering.consumed"), e \in Runs :
       i <= start[e].read => log[i].val \notin memory[e].todo

IInv ==
  /\ Types /\ EventsInv /\ ReadInv
  /\ RecoveredInv /\ RepeatedOnlyBehindCheckpoint
  /\ BlockedInv /\ UnknownStopsResume
  /\ OverInv /\ FinishedStaysFinished
  /\ SteeringInv /\ ConsumedOnce

-----------------------------------------------------------------------------
(* What a step does to the log. *)

LogGrows ==
  /\ log' \in Seq(Event)
  /\ Len(log) <= Len(log') /\ Len(log') <= Len(log) + 1
  /\ \A i \in DOMAIN log : i \in DOMAIN log' /\ log'[i] = log[i]

\* What can be said of an event that execution d or a user writes.
NewEvent(type, d, val) ==
  /\ d \in Runs \cup {User}
  /\ type = "steering.queued" => val = None
  /\ type = "run_plan.created" => val \in BOOLEAN
  /\ d \in Runs => pc[d] \notin {"none", "over"}
  /\ type = "tool.ledger_entry" =>
       /\ d \in Runs /\ pc[d] = "record" /\ val \in CallResult
       /\ Blocks(val.result) => memory'[d].blocks
  /\ type = "checkpoint.saved" =>
       /\ d \in Runs /\ pc[d] \in {"checkpoint", "final"}
       /\ val \in [over : BOOLEAN, blocked : BOOLEAN]
       /\ val.blocked = memory[d].blocks
  /\ type = "steering.consumed" =>
       /\ d \in Runs /\ val \in memory[d].todo /\ val \in prompt'[d]
  /\ type = "run.state_changed" =>
       /\ d \in Runs /\ pc'[d] \in {"report", "over"}
       /\ val \in Terminal /\ Legal(val) /\ status' = val

NewEvents ==
  \A i \in DOMAIN log' \ DOMAIN log :
    /\ i = Len(log) + 1
    /\ NewEvent(log'[i].type, log'[i].by, log'[i].val)

LEMMA Appended ==
  ASSUME log \in Seq(Event), NEW ev \in Event, log' = Append(log, ev)
  PROVE  LogGrows /\ \A i \in DOMAIN log' \ DOMAIN log : i = Len(log) + 1 /\ log'[i] = ev
<1>1. Len(log) \in Nat /\ DOMAIN log = 1..Len(log)
  OBVIOUS
<1>2. /\ log' \in Seq(Event) /\ Len(log') = Len(log) + 1
      /\ DOMAIN log' = 1..(Len(log) + 1)
  OBVIOUS
<1>3. log'[Len(log) + 1] = ev /\ \A i \in DOMAIN log : log'[i] = log[i]
  OBVIOUS
<1> QED
  BY <1>1, <1>2, <1>3 DEF LogGrows

\* The log grows by what an execution or a user writes.
LEMMA Written ==
  ASSUME log \in Seq(Event), NEW d \in Runs \cup {User}, NEW t \in EventTypes, NEW v \in Vals,
         log' = Append(log, [type |-> t, by |-> d, val |-> v]), NewEvent(t, d, v)
  PROVE  LogGrows /\ NewEvents
<1>1. [type |-> t, by |-> d, val |-> v] \in Event
  BY DEF Event, Runs, User
<1>2. PICK ev \in Event : /\ log' = Append(log, ev)
                         /\ ev.type = t /\ ev.by = d /\ ev.val = v
  BY <1>1
<1>3. LogGrows /\ \A i \in DOMAIN log' \ DOMAIN log : i = Len(log) + 1 /\ log'[i] = ev
  BY <1>2, Appended
<1> QED
  BY <1>2, <1>3 DEF NewEvents, NewEvent

LEMMA NotAppended ==
  ASSUME log \in Seq(Event), log' = log
  PROVE  LogGrows /\ NewEvents
<1>1. Len(log) \in Nat
  OBVIOUS
<1> QED
  BY <1>1 DEF LogGrows, NewEvents

LEMMA SendCases ==
  ASSUME NEW e \in Runs, NEW t, NEW v, Send(e, t, v) \/ Write(e, t, v) \/ Echo(e, t)
  PROVE  \/ log' = log
         \/ log' = Append(log, [type |-> t, by |-> e, val |-> v])
  BY DEF Send, Write, Echo

LEMMA LogSteps ==
  ASSUME Types, [Next]_vars
  PROVE  LogGrows /\ NewEvents
<1>0. log \in Seq(Event) /\ memory \in [Runs -> MemoryType]
  BY DEF Types
<1>1. ASSUME NEW e \in Runs, RecordCall(e) PROVE LogGrows /\ NewEvents
  <2>1. PICK r \in Results :
          /\ memory' = [memory EXCEPT ![e].blocks = @ \/ Blocks(r), ![e].doing = None]
          /\ \/ Send(e, "tool.ledger_entry", [call |-> memory[e].doing, result |-> r])
             \/ log' = log
    BY <1>1 DEF RecordCall
  <2>2. PICK val \in CallResult : val = [call |-> memory[e].doing, result |-> r] /\ val.result = r
    <3>1. PICK c \in Calls : c = memory[e].doing
      BY <1>1 DEF RecordCall, Types
    <3>2. [call |-> c, result |-> r] \in CallResult /\ [call |-> c, result |-> r].result = r
      BY DEF CallResult
    <3> QED
      BY <3>1, <3>2
  <2>3. Blocks(val.result) => memory'[e].blocks
    BY <1>0, <2>1, <2>2 DEF MemoryType
  <2>4. NewEvent("tool.ledger_entry", e, val) /\ val \in Vals
    BY <1>1, <2>2, <2>3 DEF RecordCall, NewEvent, Vals
  <2>5. \/ log' = log
        \/ log' = Append(log, [type |-> "tool.ledger_entry", by |-> e, val |-> val])
    BY <2>1, <2>2, SendCases
  <2>6. e \in Runs \cup {User}
    OBVIOUS
  <2> QED
    BY <1>0, <2>4, <2>5, <2>6, Written, NotAppended DEF EventTypes
<1>2. ASSUME NEW e \in Runs, NEW here \in {"checkpoint", "final"},
             NEW over \in BOOLEAN, NEW next, Save(e, here, over, next)
      PROVE  LogGrows /\ NewEvents
  <2>1. PICK b \in BOOLEAN : b = memory[e].blocks
    BY <1>0 DEF MemoryType
  <2>2. /\ [over |-> over, blocked |-> b] \in [over : BOOLEAN, blocked : BOOLEAN]
        /\ [over |-> over, blocked |-> b].blocked = b
    BY Zenon
  <2>3. PICK val \in [over : BOOLEAN, blocked : BOOLEAN] :
          val = [over |-> over, blocked |-> b] /\ val.blocked = b
    BY <2>2
  <2>4. NewEvent("checkpoint.saved", e, val)
    BY <1>2, <2>1, <2>3 DEF Save, NewEvent
  <2>5. \/ log' = log
        \/ log' = Append(log, [type |-> "checkpoint.saved", by |-> e, val |-> val])
    BY <1>2, <2>1, <2>3, SendCases DEF Save
  <2>6. val \in Vals /\ e \in Runs \cup {User}
    BY DEF Vals
  <2> QED
    BY <1>0, <2>4, <2>5, <2>6, Written, NotAppended DEF EventTypes
<1>3. ASSUME NEW e \in Runs, Consume(e) PROVE LogGrows /\ NewEvents
  <2>1. PICK q \in memory[e].todo :
          /\ Send(e, "steering.consumed", q)
          /\ prompt' = [prompt EXCEPT ![e] = @ \cup {q}]
    BY <1>3 DEF Consume
  <2>2. q \in Nat /\ q \in Vals
    BY <1>0 DEF MemoryType, Vals
  <2>3. NewEvent("steering.consumed", e, q)
    BY <1>3, <2>1, <2>2 DEF Consume, NewEvent, Types
  <2>4. \/ log' = log
        \/ log' = Append(log, [type |-> "steering.consumed", by |-> e, val |-> q])
    BY <2>1, SendCases
  <2>5. e \in Runs \cup {User}
    OBVIOUS
  <2> QED
    BY <1>0, <2>2, <2>3, <2>4, <2>5, Written, NotAppended DEF EventTypes
<1>4. ASSUME NEW e \in Runs, Plan(e) PROVE LogGrows /\ NewEvents
  <2>1. PICK done \in BOOLEAN : Send(e, "run_plan.created", done)
    BY <1>4 DEF Plan
  <2>2. NewEvent("run_plan.created", e, done) /\ done \in Vals
    BY <1>4 DEF Plan, NewEvent, Vals
  <2>3. \/ log' = log
        \/ log' = Append(log, [type |-> "run_plan.created", by |-> e, val |-> done])
    BY <2>1, SendCases
  <2>4. e \in Runs \cup {User}
    OBVIOUS
  <2> QED
    BY <1>0, <2>2, <2>3, <2>4, Written, NotAppended DEF EventTypes
<1>5. ASSUME NEW e \in Runs, Report(e) PROVE LogGrows /\ NewEvents
  <2>1. CASE Echo(e, "run.state_changed")
    BY <1>0, <2>1, NotAppended DEF Echo
  <2>2. CASE ~Echo(e, "run.state_changed")
    <3>1. PICK s \in Terminal : /\ Legal(s) /\ status' = s
                                /\ Write(e, "run.state_changed", s)
      BY <1>5, <2>2 DEF Report, Ends, Terminal
    <3>2. s \in Vals
      BY DEF Vals
    <3>3. pc'[e] \in {"report", "over"}
      BY <1>5 DEF Report, Leaves, Goes, Types
    <3>4. NewEvent("run.state_changed", e, s)
      BY <1>5, <3>1, <3>3 DEF Report, NewEvent
    <3>5. log' = Append(log, [type |-> "run.state_changed", by |-> e, val |-> s])
      BY <3>1 DEF Write
    <3>6. e \in Runs \cup {User}
      OBVIOUS
    <3> QED
      BY <1>0, <3>2, <3>4, <3>5, <3>6, Written DEF EventTypes
  <2> QED
    BY <2>1, <2>2
<1>6. ASSUME Steer PROVE LogGrows /\ NewEvents
  <2>1. NewEvent("steering.queued", User, None) /\ None \in Vals
    BY DEF NewEvent, Vals, User, Runs
  <2>2. log' = Append(log, [type |-> "steering.queued", by |-> User, val |-> None])
    BY <1>6 DEF Steer, Write
  <2>3. User \in Runs \cup {User}
    OBVIOUS
  <2> QED
    BY <1>0, <2>1, <2>2, <2>3, Written DEF EventTypes
<1>7. CASE log' = log
  BY <1>0, <1>7, NotAppended
<1>8. ASSUME NEW e \in Runs,
             \/ CallTool(e) \/ EndLoop(e) \/ Pull(e) \/ Fails(e)
             \/ Resume(e)
      PROVE  log' = log
  BY <1>8 DEF CallTool, EndLoop, Pull, Fails, Resume, ledger
<1>9. ASSUME Crash \/ Cancel \/ UNCHANGED vars PROVE log' = log
  BY <1>9 DEF Crash, Cancel, vars, ledger
<1> QED
  BY <1>1, <1>2, <1>3, <1>4, <1>5, <1>6, <1>7, <1>8, <1>9
  DEF Next, Execute, Checkpoint, FinalCheckpoint

-----------------------------------------------------------------------------
(* What a step does to one execution. *)

ExecutionStep(e) ==
  /\ start'[e] = start[e]
  /\ pc'[e] = "none" <=> pc[e] = "none"
  /\ pc[e] = "none" => memory'[e] = memory[e] /\ prompt'[e] = prompt[e]
  /\ pc[e] = "over" => pc'[e] = "over"
  /\ pc[e] = "report" => pc'[e] \in {"report", "over"}
  /\ pc[e] = "failing" => pc'[e] \in {"failing", "report", "over"}
  /\ pc'[e] \notin {"failing", "report", "over"} =>
       /\ memory'[e].recovered = memory[e].recovered
       /\ memory[e].blocks => memory'[e].blocks
  /\ \A c \in Calls : <<e, c>> \in called' =>
       \/ <<e, c>> \in called
       \/ pc[e] = "loop" /\ c \notin memory[e].recovered
  /\ \A q \in memory'[e].todo : q \in memory[e].todo \/ q \in Unconsumed
  /\ memory[e].todo \cap prompt[e] = {} => memory'[e].todo \cap prompt'[e] = {}
  /\ prompt[e] \subseteq prompt'[e]
  /\ prompt'[e] \subseteq prompt[e] \cup memory[e].todo

Untouched(e) ==
  /\ pc'[e] = pc[e] /\ memory'[e] = memory[e] /\ start'[e] = start[e]
  /\ prompt'[e] = prompt[e] /\ \A c \in Calls : <<e, c>> \in called' <=> <<e, c>> \in called

LEMMA UntouchedStep ==
  ASSUME Types, NEW e \in Runs, Untouched(e)
  PROVE  ExecutionStep(e)
  BY DEF Untouched, ExecutionStep, Types

\* A step of one execution leaves the others alone.
LEMMA OwnSteps ==
  ASSUME Types, NEW e \in Runs, Execute(e) \/ Resume(e),
         NEW d \in Runs, d # e
  PROVE  Untouched(d)
<1> USE DEF Types, Untouched, Goes, Leaves, facts
<1>1. CASE CallTool(e)
  BY <1>1 DEF CallTool
<1>2. CASE RecordCall(e)
  BY <1>2 DEF RecordCall
<1>3. CASE EndLoop(e)
  BY <1>3 DEF EndLoop
<1>4. CASE Checkpoint(e) \/ FinalCheckpoint(e)
  BY <1>4 DEF Checkpoint, FinalCheckpoint, Save
<1>5. CASE Pull(e)
  BY <1>5 DEF Pull
<1>6. CASE Consume(e)
  BY <1>6 DEF Consume
<1>7. CASE Plan(e)
  BY <1>7 DEF Plan
<1>8. CASE Report(e)
  BY <1>8 DEF Report
<1>9. CASE Fails(e)
  BY <1>9 DEF Fails
<1>10. CASE Resume(e)
  BY <1>10 DEF Resume
<1> QED
  BY <1>1, <1>2, <1>3, <1>4, <1>5, <1>6, <1>7, <1>8, <1>9, <1>10 DEF Execute

LEMMA ExecuteSteps ==
  ASSUME Types, NEW e \in Runs, Execute(e)
  PROVE  ExecutionStep(e)
<1> USE DEF Types, ExecutionStep, Goes, Leaves, facts, MemoryType
<1>1. CASE CallTool(e)
  BY <1>1 DEF CallTool, MayCall
<1>2. CASE RecordCall(e)
  BY <1>2 DEF RecordCall
<1>3. CASE EndLoop(e)
  <2>1. \/ memory'[e] = memory[e]
        \/ memory'[e] = [memory[e] EXCEPT !.todo = Unconsumed \ prompt[e]]
    BY <1>3 DEF EndLoop
  <2>2. \/ memory'[e] = memory[e]
        \/ /\ memory'[e].todo = Unconsumed \ prompt[e]
           /\ memory'[e].recovered = memory[e].recovered
           /\ memory'[e].blocks = memory[e].blocks
    BY <2>1
  <2> QED
    BY <1>3, <2>2 DEF EndLoop
<1>4. CASE Checkpoint(e) \/ FinalCheckpoint(e)
  BY <1>4 DEF Checkpoint, FinalCheckpoint, Save
<1>5. CASE Pull(e)
  <2>1. PICK list : /\ list = {}
                       \/ list = memory[e].todo \ prompt[e] \/ list = Unconsumed \ prompt[e]
                    /\ memory' = [memory EXCEPT ![e].todo = list]
    BY <1>5 DEF Pull
  <2>2. /\ memory'[e].todo = list
        /\ memory'[e].recovered = memory[e].recovered
        /\ memory'[e].blocks = memory[e].blocks
    BY <2>1
  <2>3. pc[e] = "pull" /\ pc'[e] \in {"plan", "consume"}
    BY <1>5 DEF Pull
  <2> QED
    BY <1>5, <2>1, <2>2, <2>3 DEF Pull
<1>6. CASE Consume(e)
  BY <1>6 DEF Consume
<1>7. CASE Plan(e)
  BY <1>7 DEF Plan
<1>8. CASE Report(e)
  BY <1>8 DEF Report, Forgotten
<1>9. CASE Fails(e)
  BY <1>9 DEF Fails, Forgotten
<1> QED
  BY <1>1, <1>2, <1>3, <1>4, <1>5, <1>6, <1>7, <1>8, <1>9 DEF Execute

LEMMA ExecutionSteps ==
  ASSUME Types, ReadInv, [Next]_vars, NEW e \in Runs
  PROVE  Resume(e) \/ ExecutionStep(e)
<1>1. CASE Crash
  BY <1>1 DEF Crash, Types, ReadInv, ExecutionStep, Alive, Forgotten, facts
<1>2. CASE Steer \/ Cancel \/ UNCHANGED vars
  BY <1>2, UntouchedStep DEF Steer, Cancel, vars, facts, Untouched
<1>3. CASE \E d \in Runs : Execute(d) \/ Resume(d)
  BY <1>3, OwnSteps, UntouchedStep, ExecuteSteps
<1> QED
  BY <1>1, <1>2, <1>3 DEF Next

-----------------------------------------------------------------------------
(* The types. *)

LEMMA PageTypes ==
  ASSUME log \in Seq(Event)
  PROVE  /\ DOMAIN log \subseteq Nat
         /\ \A i \in Unconsumed : i \in Nat /\ i <= Len(log)
         /\ \A t : InPage(t) \subseteq DOMAIN log
  BY DEF Unconsumed, InPage, Page, Seqs

LEMMA ForgottenType == Forgotten \in MemoryType
  BY DEF Forgotten, MemoryType

LEMMA MemoryUpdates ==
  ASSUME NEW m \in [Runs -> MemoryType], NEW e \in Runs
  PROVE  /\ \A x \in Calls, n \in Nat :
              [m EXCEPT ![e].doing = x, ![e].calls = n] \in [Runs -> MemoryType]
         /\ \A b \in BOOLEAN : [m EXCEPT ![e].blocks = b, ![e].doing = None] \in [Runs -> MemoryType]
         /\ \A t \in SUBSET Nat : [m EXCEPT ![e].todo = t] \in [Runs -> MemoryType]
         /\ \A r \in SUBSET Calls, b \in BOOLEAN :
              [m EXCEPT ![e].recovered = r, ![e].blocks = b] \in [Runs -> MemoryType]
         /\ [m EXCEPT ![e] = Forgotten] \in [Runs -> MemoryType]
  BY ForgottenType DEF MemoryType

\* The memory of every action keeps its type.
LEMMA MemoryKept ==
  ASSUME Types, EventsInv, [Next]_vars
  PROVE  memory' \in [Runs -> MemoryType]
<1>0. memory \in [Runs -> MemoryType] /\ Unconsumed \subseteq Nat
  BY PageTypes DEF Types
<1>1. ASSUME NEW e \in Runs, CallTool(e) PROVE memory' \in [Runs -> MemoryType]
  <2>1. PICK c \in Calls :
          memory' = [memory EXCEPT ![e].doing = c, ![e].calls = memory[e].calls + 1]
    BY <1>1 DEF CallTool
  <2>2. memory[e].calls + 1 \in Nat
    BY <1>0 DEF MemoryType
  <2> QED
    BY <1>0, <2>1, <2>2, MemoryUpdates
<1>2. ASSUME NEW e \in Runs, RecordCall(e) PROVE memory' \in [Runs -> MemoryType]
  <2>1. PICK r \in Results :
          memory' = [memory EXCEPT ![e].blocks = @ \/ Blocks(r), ![e].doing = None]
    BY <1>2 DEF RecordCall
  <2>2. PICK b \in BOOLEAN : b = (memory[e].blocks \/ Blocks(r))
    BY <1>0 DEF MemoryType, Blocks
  <2>3. memory' = [memory EXCEPT ![e].blocks = b, ![e].doing = None]
    BY <2>1, <2>2
  <2> QED
    BY <1>0, <2>3, MemoryUpdates
<1>3. ASSUME NEW e \in Runs, EndLoop(e) \/ Pull(e) PROVE memory' \in [Runs -> MemoryType]
  <2>1. PICK t \in SUBSET Nat : memory' = memory \/ memory' = [memory EXCEPT ![e].todo = t]
    BY <1>0, <1>3 DEF EndLoop, Pull, MemoryType
  <2>2. [memory EXCEPT ![e].todo = t] \in [Runs -> MemoryType]
    BY <1>0, MemoryUpdates
  <2> QED
    BY <1>0, <2>1, <2>2
<1>4. ASSUME NEW e \in Runs, Consume(e) PROVE memory' \in [Runs -> MemoryType]
  <2>1. PICK t \in SUBSET Nat : memory' = [memory EXCEPT ![e].todo = t]
    BY <1>0, <1>4 DEF Consume, MemoryType
  <2> QED
    BY <1>0, <2>1, MemoryUpdates
<1>5. ASSUME NEW e \in Runs, Report(e) \/ Fails(e)
      PROVE  memory' \in [Runs -> MemoryType]
  <2>1. memory' = memory \/ memory' = [memory EXCEPT ![e] = Forgotten]
    BY <1>5 DEF Report, Fails, Leaves
  <2> QED
    BY <1>0, <2>1, MemoryUpdates
<1>6. ASSUME NEW e \in Runs, Resume(e) PROVE memory' \in [Runs -> MemoryType]
  <2>1. PICK b \in BOOLEAN :
          b = (\E i \in InPage("tool.ledger_entry") : Blocks(log[i].val.result))
    OBVIOUS
  <2>2. PICK r : r = {log[i].val.call : i \in LedgerOf("success")}
    OBVIOUS
  <2>3. memory' = [memory EXCEPT ![e].recovered = r, ![e].blocks = b]
    BY <1>6, <2>1, <2>2 DEF Resume
  <2>4. r \in SUBSET Calls
    BY <2>2, PageTypes DEF LedgerOf, InPage, Seqs, EventsInv, EventOK, CallResult, Types
  <2> QED
    BY <1>0, <2>3, <2>4, MemoryUpdates
<1>7. ASSUME Crash PROVE memory' \in [Runs -> MemoryType]
  BY <1>7, ForgottenType DEF Crash
<1>8. ASSUME NEW e \in Runs, Checkpoint(e) \/ FinalCheckpoint(e) \/ Plan(e)
      PROVE  memory' = memory
  BY <1>8 DEF Checkpoint, FinalCheckpoint, Save, Plan
<1>9. ASSUME Steer \/ Cancel \/ UNCHANGED vars PROVE memory' = memory
  BY <1>9 DEF Steer, Cancel, vars
<1> QED
  BY <1>0, <1>1, <1>2, <1>3, <1>4, <1>5, <1>6, <1>7, <1>8, <1>9 DEF Next, Execute

LEMMA TypesKept ==
  ASSUME Types, EventsInv, [Next]_vars
  PROVE  Types'
<1>0. log' \in Seq(Event) /\ memory' \in [Runs -> MemoryType]
  BY LogSteps, MemoryKept DEF LogGrows
<1> USE <1>0 DEF Types, Pcs, Goes, facts, ledger
<1>1. ASSUME NEW e \in Runs, CallTool(e) PROVE Types'
  <2>1. PICK c \in Calls :
          /\ memory' = [memory EXCEPT ![e].doing = c, ![e].calls = @ + 1]
          /\ called' = called \cup {<<e, c>>}
    BY <1>1 DEF CallTool
  <2>3. memory'[e].doing \in Calls
    BY <2>1 DEF MemoryType
  <2>4. pc' \in [Runs -> Pcs] /\ \A d \in Runs : pc'[d] = "record" => memory'[d].doing \in Calls
    BY <1>1, <2>1, <2>3 DEF CallTool
  <2> QED
    BY <1>1, <2>1, <2>4 DEF CallTool
<1>2. ASSUME NEW e \in Runs, RecordCall(e) PROVE Types'
  BY <1>2 DEF RecordCall
<1>3. ASSUME NEW e \in Runs, EndLoop(e) PROVE Types'
  BY <1>3 DEF EndLoop
<1>4. ASSUME NEW e \in Runs, Checkpoint(e) \/ FinalCheckpoint(e) PROVE Types'
  BY <1>4 DEF Checkpoint, FinalCheckpoint, Save
<1>5. ASSUME NEW e \in Runs, Pull(e) PROVE Types'
  BY <1>5 DEF Pull
<1>6. ASSUME NEW e \in Runs, Consume(e) PROVE Types'
  <2>1. PICK q \in memory[e].todo :
          /\ prompt' = [prompt EXCEPT ![e] = @ \cup {q}]
          /\ memory' = [memory EXCEPT ![e].todo = @ \ {q}]
          /\ pc' = [pc EXCEPT ![e] = IF memory[e].todo = {q} THEN "loop" ELSE "consume"]
    BY <1>6 DEF Consume
  <2>2. prompt' \in [Runs -> SUBSET Nat] /\ pc' \in [Runs -> Pcs]
    BY <2>1 DEF MemoryType
  <2>3. \A d \in Runs : pc'[d] = "record" => memory'[d].doing \in Calls
    BY <2>1
  <2> QED
    BY <1>6, <2>2, <2>3 DEF Consume
<1>7. ASSUME NEW e \in Runs, Plan(e) PROVE Types'
  BY <1>7 DEF Plan
<1>8. ASSUME NEW e \in Runs, Report(e) PROVE Types'
  <2>1. status' \in Status
    BY <1>8 DEF Report, Ends, Terminal, Status, ledger
  <2>2. pc' \in [Runs -> Pcs]
    BY <1>8 DEF Report, Leaves
  <2>3. \A d \in Runs : pc'[d] = "record" => memory'[d].doing \in Calls
    BY <1>8 DEF Report, Leaves
  <2> QED
    BY <1>8, <2>1, <2>2, <2>3 DEF Report
<1>9. ASSUME NEW e \in Runs, Fails(e) PROVE Types'
  BY <1>9 DEF Fails, Leaves
<1>10. ASSUME Crash PROVE Types'
  BY <1>10 DEF Crash, Alive
<1>11. ASSUME NEW e \in Runs, Resume(e) PROVE Types'
  <2>1. PICK k \in DOMAIN log : start' = [start EXCEPT ![e] = [from |-> k, read |-> Len(log)]]
    BY <1>11 DEF Resume
  <2>2. [from |-> k, read |-> Len(log)] \in [from : Nat, read : Nat]
    BY PageTypes
  <2>3. start' \in [Runs -> [from : Nat, read : Nat]]
    BY <2>1, <2>2
  <2>4. prompt' \in [Runs -> SUBSET Nat]
    BY <1>11, PageTypes DEF Resume
  <2>5. pc' \in [Runs -> Pcs]
    BY <1>11 DEF Resume
  <2>6. \A d \in Runs : pc'[d] = "record" => memory'[d].doing \in Calls
    BY <1>11 DEF Resume
  <2> QED
    BY <1>11, <2>3, <2>4, <2>5, <2>6 DEF Resume
<1>13. ASSUME Steer \/ Cancel PROVE Types'
  BY <1>13 DEF Steer, Cancel, Status
<1>14. ASSUME UNCHANGED vars PROVE Types'
  BY <1>14 DEF vars
<1> QED
  BY <1>1, <1>2, <1>3, <1>4, <1>5, <1>6, <1>7, <1>8, <1>9, <1>10, <1>11, <1>13, <1>14
  DEF Next, Execute

\* What Resume does to its execution, and to nothing else.
LEMMA Snapshot ==
  ASSUME Types, ReadInv, NEW e \in Runs, Resume(e)
  PROVE  /\ pc[e] = "none" /\ pc'[e] \notin {"none", "failing", "report", "over"}
         /\ log' = log /\ called' = called /\ status' = status
         /\ start'[e].read = Len(log)
         /\ Latest(start'[e].from) /\ Eligible(start'[e].from)
         /\ memory'[e].recovered = {log[i].val.call : i \in LedgerOf("success")}
         /\ memory'[e].todo = {}
         /\ prompt'[e] = Unconsumed
<1>1. PICK k \in DOMAIN log :
        /\ Latest(k) /\ Eligible(k)
        /\ start' = [start EXCEPT ![e] = [from |-> k, read |-> Len(log)]]
  BY DEF Resume
<1>2. start'[e].from = k /\ start'[e].read = Len(log)
  BY <1>1 DEF Types
<1>3. memory'[e].recovered = {log[i].val.call : i \in LedgerOf("success")} /\ memory'[e].todo = {}
  BY DEF Resume, Types, MemoryType, ReadInv, Forgotten
<1> QED
  BY <1>1, <1>2, <1>3 DEF Resume, Types, Goes, ledger

-----------------------------------------------------------------------------
(* The parts of the invariant. *)

LEMMA EventsKept ==
  ASSUME Types, EventsInv, ReadInv, [Next]_vars
  PROVE  EventsInv'
<1>1. LogGrows /\ NewEvents
  BY LogSteps
<1>2. \A e \in Runs : pc[e] # "none" => pc'[e] # "none"
  BY ExecutionSteps, Snapshot DEF ExecutionStep
<1>3. ASSUME NEW i \in DOMAIN log PROVE EventOK(i)'
  <2>1. EventOK(i) /\ log'[i] = log[i]
    BY <1>1 DEF EventsInv, LogGrows
  <2> QED
    BY <2>1, <1>2 DEF EventOK
<1>4. ASSUME NEW i \in DOMAIN log' \ DOMAIN log PROVE EventOK(i)'
  <2>1. i = Len(log) + 1 /\ NewEvent(log'[i].type, log'[i].by, log'[i].val)
    BY <1>1 DEF NewEvents
  <2>2. log'[i].type = "steering.consumed" => log'[i].val \in Nat /\ log'[i].val < i
    BY <2>1 DEF NewEvent, ReadInv, Types, MemoryType
  <2> QED
    BY <2>1, <2>2, <1>2 DEF NewEvent, EventOK
<1> QED
  BY <1>3, <1>4 DEF EventsInv

LEMMA ReadKept ==
  ASSUME Types, EventsInv, ReadInv, [Next]_vars
  PROVE  ReadInv'
<1>1. LogGrows /\ Types'
  BY LogSteps, TypesKept
<1>2. Len(log) \in Nat /\ Len(log') \in Nat /\ Len(log) <= Len(log')
  BY <1>1 DEF Types, LogGrows
<1> SUFFICES ASSUME NEW e \in Runs
    PROVE /\ start'[e].from <= start'[e].read /\ start'[e].read <= Len(log')
          /\ \A q \in memory'[e].todo : q <= Len(log')
          /\ pc'[e] = "none" =>
              /\ start'[e] = [from |-> 0, read |-> 0] /\ prompt'[e] = {}
              /\ memory'[e] = Forgotten /\ \A c \in Calls : <<e, c>> \notin called'
  BY DEF ReadInv, Forgotten
<1>3. CASE Resume(e)
  BY <1>2, <1>3, Snapshot DEF Latest, Seqs, Types
<1>4. CASE ExecutionStep(e)
  <2>1. \A q \in memory'[e].todo : q <= Len(log')
    BY <1>1, <1>2, <1>4, PageTypes DEF ExecutionStep, ReadInv, Types, MemoryType
  <2> QED
    BY <1>2, <1>4, <2>1 DEF ExecutionStep, ReadInv, Types
<1> QED
  BY <1>3, <1>4, ExecutionSteps

\* An event of the next log is an old one, or the one that the step wrote.
LEMMA OldOrNew ==
  ASSUME Types, [Next]_vars, NEW t, NEW i \in Seqs(t)'
  PROVE  /\ i \in Nat /\ log'[i].type = t
         /\ \/ i \in Seqs(t) /\ log'[i] = log[i] /\ i <= Len(log)
            \/ i = Len(log) + 1 /\ NewEvent(t, log'[i].by, log'[i].val)
  BY LogSteps DEF Types, LogGrows, NewEvents, Seqs

\* What an execution has read is old.
LEMMA ReadIsOld ==
  ASSUME Types, ReadInv, [Next]_vars, NEW t, NEW i \in Seqs(t)', NEW e \in Runs,
         i <= start'[e].read
  PROVE  i \in Seqs(t) /\ log'[i] = log[i] /\ i \in Nat
<1>1. start'[e].read <= Len(log) /\ start'[e].read \in Nat /\ Len(log) \in Nat
  BY ExecutionSteps, Snapshot DEF ExecutionStep, ReadInv, Types
<1> QED
  BY <1>1, OldOrNew

\* Who has written is no execution that now starts.
LEMMA WriterSteps ==
  ASSUME Types, EventsInv, ReadInv, [Next]_vars, NEW i \in DOMAIN log, log[i].by \in Runs
  PROVE  ExecutionStep(log[i].by)
<1>1. PICK d \in Runs : d = log[i].by
  OBVIOUS
<1>2. pc[d] # "none"
  BY <1>1 DEF EventsInv, EventOK
<1> QED
  BY <1>1, <1>2, ExecutionSteps, Snapshot

LEMMA RecoveredKept ==
  ASSUME Types, EventsInv, ReadInv, RecoveredInv, [Next]_vars
  PROVE  RecoveredInv'
<1> SUFFICES ASSUME NEW e \in Runs, NEW i \in Seqs("tool.ledger_entry")',
                    Working(e)', log'[i].val.result = "success",
                    start'[e].from <= i, i <= start'[e].read
             PROVE  log'[i].val.call \in memory'[e].recovered
  BY DEF RecoveredInv
<1>1. i \in Seqs("tool.ledger_entry") /\ log'[i] = log[i] /\ i \in Nat
  BY ReadIsOld
<1>2. CASE Resume(e)
  <2>1. i \in Page
    BY <1>1, <1>2, Snapshot DEF Latest, Page, Seqs, Types
  <2>2. i \in LedgerOf("success")
    BY <1>1, <2>1 DEF LedgerOf, InPage
  <2> QED
    BY <1>1, <1>2, <2>2, Snapshot
<1>3. CASE ExecutionStep(e)
  <2>1. Working(e) /\ memory'[e].recovered = memory[e].recovered /\ start'[e] = start[e]
    BY <1>3 DEF ExecutionStep, Working
  <2> QED
    BY <1>1, <2>1 DEF RecoveredInv
<1> QED
  BY <1>2, <1>3, ExecutionSteps

LEMMA RepeatedKept ==
  ASSUME Types, EventsInv, ReadInv, RecoveredInv, RepeatedOnlyBehindCheckpoint, [Next]_vars
  PROVE  RepeatedOnlyBehindCheckpoint'
<1> SUFFICES ASSUME NEW e \in Runs, NEW i \in Seqs("tool.ledger_entry")',
                    log'[i].val.result = "success", <<e, log'[i].val.call>> \in called',
                    start'[e].from <= i, i <= start'[e].read
             PROVE  FALSE
  BY DEF RepeatedOnlyBehindCheckpoint
<1>1. i \in Seqs("tool.ledger_entry") /\ log'[i] = log[i] /\ i \in Nat
  BY ReadIsOld
<1>2. log[i].val.call \in Calls
  BY <1>1 DEF EventsInv, EventOK, Seqs, CallResult
<1>3. CASE Resume(e)
  BY <1>1, <1>2, <1>3, Snapshot DEF ReadInv
<1>4. CASE ExecutionStep(e)
  <2>1. start'[e] = start[e]
    BY <1>4 DEF ExecutionStep
  <2>2. <<e, log[i].val.call>> \notin called
    BY <1>1, <2>1 DEF RepeatedOnlyBehindCheckpoint
  <2>3. pc[e] = "loop" /\ log[i].val.call \notin memory[e].recovered
    BY <1>1, <1>2, <1>4, <2>2 DEF ExecutionStep
  <2> QED
    BY <1>1, <2>1, <2>3 DEF RecoveredInv, Working
<1> QED
  BY <1>3, <1>4, ExecutionSteps

LEMMA BlockedKept ==
  ASSUME Types, EventsInv, ReadInv, BlockedInv, [Next]_vars
  PROVE  BlockedInv'
<1> SUFFICES ASSUME NEW i \in Seqs("tool.ledger_entry")', log'[i].val.result = "unknown"
             PROVE  /\ pc'[log'[i].by] \notin {"none", "failing", "report", "over"}
                         => memory'[log'[i].by].blocks
                    /\ \A k \in Seqs("checkpoint.saved")' :
                         i < k /\ log'[k].by = log'[i].by => log'[k].val.blocked
  BY DEF BlockedInv, Working
<1>0. Len(log) \in Nat
  BY DEF Types
<1>1. CASE i \in Seqs("tool.ledger_entry") /\ log'[i] = log[i] /\ i \in Nat
  <2>1. PICK d \in Runs : d = log[i].by
    BY <1>1 DEF EventsInv, EventOK, Seqs
  <2>2. ExecutionStep(d)
    BY <1>1, <2>1, WriterSteps DEF Seqs
  <2>3. pc'[d] \notin {"none", "failing", "report", "over"} => memory'[d].blocks
    BY <1>1, <2>1, <2>2 DEF BlockedInv, ExecutionStep, Working
  <2>4. ASSUME NEW k \in Seqs("checkpoint.saved")', i < k, log'[k].by = d
        PROVE  log'[k].val.blocked
    <3>1. CASE k \in Seqs("checkpoint.saved") /\ log'[k] = log[k]
      BY <1>1, <2>1, <2>4, <3>1 DEF BlockedInv
    <3>2. CASE NewEvent("checkpoint.saved", d, log'[k].val)
      <4>1. pc[d] \in {"checkpoint", "final"} /\ log'[k].val.blocked = memory[d].blocks
        BY <3>2 DEF NewEvent
      <4> QED
        BY <1>1, <2>1, <4>1 DEF BlockedInv, Working
    <3> QED
      BY <2>4, <3>1, <3>2, OldOrNew
  <2> QED
    BY <1>1, <2>1, <2>3, <2>4
<1>2. CASE i = Len(log) + 1 /\ NewEvent("tool.ledger_entry", log'[i].by, log'[i].val)
  <2>1. memory'[log'[i].by].blocks
    BY <1>2 DEF NewEvent, Blocks
  <2>2. \A k \in Seqs("checkpoint.saved")' : ~(i < k)
    BY <1>0, <1>2, OldOrNew
  <2> QED
    BY <2>1, <2>2
<1> QED
  BY <1>1, <1>2, OldOrNew

\* What was hidden from an execution stays hidden.
LEMMA HiddenKept ==
  ASSUME Types, ReadInv, [Next]_vars, NEW e \in Runs, NEW t, NEW i \in Seqs(t),
         i <= start[e].read, ExecutionStep(e), HiddenByAnother(i, e)
  PROVE  HiddenByAnother(i, e)'
<1>1. start'[e] = start[e] /\ LogGrows
  BY LogSteps DEF ExecutionStep
<1>2. start[e].from \in DOMAIN log /\ i \in DOMAIN log
  BY DEF HiddenByAnother, ReadInv, Types, Seqs
<1> QED
  BY <1>1, <1>2 DEF HiddenByAnother, LogGrows

LEMMA UnknownKept ==
  ASSUME Types, EventsInv, ReadInv, BlockedInv, UnknownStopsResume, [Next]_vars
  PROVE  UnknownStopsResume'
<1> SUFFICES ASSUME NEW e \in Runs, NEW i \in Seqs("tool.ledger_entry")',
                    log'[i].val.result = "unknown", i <= start'[e].read
             PROVE  HiddenByAnother(i, e)'
  BY DEF UnknownStopsResume
<1>1. i \in Seqs("tool.ledger_entry") /\ log'[i] = log[i] /\ i \in Nat
  BY ReadIsOld
<1>2. CASE Resume(e)
  <2>1. PICK k : k = start'[e].from /\ Latest(k) /\ Eligible(k)
    BY <1>2, Snapshot
  <2>2. k \in Nat /\ k \in Seqs("checkpoint.saved") /\ log' = log
    BY <1>2, <2>1, Snapshot DEF Latest, Seqs, Types
  <2>3. i < k
    <3>1. ASSUME i \in Page PROVE FALSE
      BY <1>1, <2>1, <3>1 DEF Eligible, LedgerOf, InPage
    <3> QED
      BY <1>1, <2>1, <2>2, <3>1 DEF Latest, Page, Seqs, Types
  <2>4. log[k].by # log[i].by
    BY <1>1, <2>1, <2>2, <2>3 DEF BlockedInv, Eligible
  <2> QED
    BY <2>1, <2>2, <2>3, <2>4 DEF HiddenByAnother
<1>3. CASE ExecutionStep(e)
  <2>1. i <= start[e].read
    BY <1>3 DEF ExecutionStep
  <2> QED
    BY <1>1, <1>3, <2>1, HiddenKept DEF UnknownStopsResume
<1> QED
  BY <1>2, <1>3, ExecutionSteps

LEMMA OverKept ==
  ASSUME Types, EventsInv, ReadInv, OverInv, [Next]_vars
  PROVE  OverInv'
<1> SUFFICES ASSUME NEW i \in Seqs("run.state_changed")'
             PROVE  /\ pc'[log'[i].by] \in {"report", "over"}
                    /\ \A k \in Seqs("checkpoint.saved")' : i < k => log'[k].by # log'[i].by
  BY DEF OverInv
<1>0. Len(log) \in Nat
  BY DEF Types
<1>1. CASE i \in Seqs("run.state_changed") /\ log'[i] = log[i] /\ i \in Nat
  <2>1. PICK d \in Runs : d = log[i].by
    BY <1>1 DEF EventsInv, EventOK, Seqs
  <2>2. ExecutionStep(d) /\ pc[d] \in {"report", "over"}
    BY <1>1, <2>1, WriterSteps DEF OverInv, Seqs
  <2>3. ASSUME NEW k \in Seqs("checkpoint.saved")', i < k, log'[k].by = d
        PROVE  FALSE
    <3>1. CASE k \in Seqs("checkpoint.saved") /\ log'[k] = log[k]
      BY <1>1, <2>1, <2>3, <3>1 DEF OverInv
    <3>2. CASE NewEvent("checkpoint.saved", d, log'[k].val)
      BY <2>2, <3>2 DEF NewEvent
    <3> QED
      BY <2>3, <3>1, <3>2, OldOrNew
  <2> QED
    BY <1>1, <2>1, <2>2, <2>3 DEF ExecutionStep
<1>2. CASE i = Len(log) + 1 /\ NewEvent("run.state_changed", log'[i].by, log'[i].val)
  <2>1. \A k \in Seqs("checkpoint.saved")' : ~(i < k)
    BY <1>0, <1>2, OldOrNew
  <2> QED
    BY <1>2, <2>1 DEF NewEvent
<1> QED
  BY <1>1, <1>2, OldOrNew

\* A status that ends the run stays.
LEMMA TerminalStays ==
  ASSUME Types, [Next]_vars, status \in Terminal
  PROVE  status' = status
<1>1. ASSUME NEW e \in Runs, Report(e) PROVE status' = status
  <2>1. CASE UNCHANGED status
    BY <2>1
  <2>2. ASSUME NEW s \in Terminal, Legal(s), status' = s PROVE status' = status
    BY <2>2 DEF Legal, Terminal
  <2> QED
    BY <1>1, <2>1, <2>2 DEF Report, Ends, Terminal
<1>2. ASSUME NEW e \in Runs,
             \/ CallTool(e) \/ RecordCall(e) \/ EndLoop(e) \/ Checkpoint(e) \/ Pull(e)
             \/ Consume(e) \/ Plan(e) \/ FinalCheckpoint(e) \/ Fails(e)
             \/ Resume(e)
      PROVE  status' = status
  BY <1>2 DEF CallTool, RecordCall, EndLoop, Checkpoint, Pull, Consume, Plan, FinalCheckpoint,
              Save, Fails, Resume, ledger
<1>3. ASSUME Crash \/ Steer \/ Cancel \/ UNCHANGED vars PROVE status' = status
  BY <1>3 DEF Crash, Steer, Cancel, vars, ledger, Terminal
<1> QED
  BY <1>1, <1>2, <1>3 DEF Next, Execute

LEMMA FinishedKept ==
  ASSUME Types, EventsInv, ReadInv, OverInv, FinishedStaysFinished, [Next]_vars
  PROVE  FinishedStaysFinished'
<1>1. ASSUME NEW i \in Seqs("run.state_changed")' PROVE log'[i].val = status'
  <2>1. CASE i \in Seqs("run.state_changed") /\ log'[i] = log[i]
    BY <2>1, TerminalStays DEF FinishedStaysFinished, EventsInv, EventOK, Seqs
  <2>2. CASE NewEvent("run.state_changed", log'[i].by, log'[i].val)
    BY <2>2 DEF NewEvent
  <2> QED
    BY <2>1, <2>2, OldOrNew
<1>2. ASSUME NEW i \in Seqs("run.state_changed")', NEW e \in Runs, i <= start'[e].read
      PROVE  HiddenByAnother(i, e)'
  <2>1. i \in Seqs("run.state_changed") /\ log'[i] = log[i] /\ i \in Nat
    BY <1>2, ReadIsOld
  <2>2. CASE Resume(e)
    <3>1. PICK k : k = start'[e].from /\ Latest(k) /\ Eligible(k)
      BY <2>2, Snapshot
    <3>2. k \in Nat /\ k \in Seqs("checkpoint.saved") /\ log' = log
      BY <2>2, <3>1, Snapshot DEF Latest, Seqs, Types
    <3>3. i < k
      <4>1. ASSUME i \in Page PROVE FALSE
        BY <2>1, <3>1, <4>1 DEF Eligible, InPage, EventsInv, EventOK, Seqs
      <4> QED
        BY <2>1, <3>1, <3>2, <4>1 DEF Latest, Page, Seqs, Types
    <3>4. log[k].by # log[i].by
      BY <2>1, <3>2, <3>3 DEF OverInv
    <3> QED
      BY <3>1, <3>2, <3>3, <3>4 DEF HiddenByAnother
  <2>3. CASE ExecutionStep(e)
    <3>1. i <= start[e].read
      BY <1>2, <2>3 DEF ExecutionStep
    <3> QED
      BY <2>1, <2>3, <3>1, HiddenKept DEF FinishedStaysFinished
  <2> QED
    BY <2>2, <2>3, ExecutionSteps
<1> QED
  BY <1>1, <1>2 DEF FinishedStaysFinished

\* A message that was consumed is not taken for one that was not, wherever the
\* page begins: it was queued before.
LEMMA ConsumedIsKnown ==
  ASSUME Types, EventsInv, NEW i \in Seqs("steering.consumed")
  PROVE  log[i].val \notin Unconsumed
<1>1. i \in Nat /\ i \in DOMAIN log /\ log[i].val \in Nat /\ log[i].val < i
  BY DEF EventsInv, EventOK, Seqs, Types
<1>2. CASE i \in Page
  BY <1>2 DEF Unconsumed, InPage
<1>3. CASE i \notin Page
  <2>1. PICK k \in Seqs("checkpoint.saved") : ~(k <= i)
    BY <1>1, <1>3 DEF Page
  <2>2. k \in Nat /\ i < k
    BY <1>1, <2>1 DEF Seqs, Types
  <2> QED
    BY <1>1, <2>1, <2>2 DEF Unconsumed, InPage, Page
<1> QED
  BY <1>2, <1>3

LEMMA SteeringKept ==
  ASSUME Types, EventsInv, ReadInv, SteeringInv, [Next]_vars
  PROVE  SteeringInv'
<1>1. ASSUME NEW e \in Runs PROVE memory'[e].todo \cap prompt'[e] = {}
  BY ExecutionSteps, Snapshot DEF ExecutionStep, SteeringInv
<1>2. ASSUME NEW i \in Seqs("steering.consumed")' PROVE log'[i].val \in prompt'[log'[i].by]
  <2>1. CASE i \in Seqs("steering.consumed") /\ log'[i] = log[i]
    <3>1. PICK d \in Runs : d = log[i].by
      BY <2>1 DEF EventsInv, EventOK, Seqs
    <3>2. ExecutionStep(d)
      BY <2>1, <3>1, WriterSteps DEF Seqs
    <3> QED
      BY <2>1, <3>1, <3>2 DEF ExecutionStep, SteeringInv
  <2>2. CASE NewEvent("steering.consumed", log'[i].by, log'[i].val)
    BY <2>2 DEF NewEvent
  <2> QED
    BY <2>1, <2>2, OldOrNew
<1>3. ASSUME NEW i \in Seqs("steering.consumed")', NEW e \in Runs, i <= start'[e].read
      PROVE  log'[i].val \notin memory'[e].todo
  <2>1. i \in Seqs("steering.consumed") /\ log'[i] = log[i] /\ i \in Nat
    BY <1>3, ReadIsOld
  <2>2. log[i].val \notin Unconsumed
    BY <2>1, ConsumedIsKnown
  <2>3. CASE Resume(e)
    BY <2>3, Snapshot
  <2>4. CASE ExecutionStep(e)
    <3>1. log[i].val \notin memory[e].todo
      BY <1>3, <2>1, <2>4 DEF ExecutionStep, SteeringInv
    <3> QED
      BY <2>1, <2>2, <2>4, <3>1 DEF ExecutionStep
  <2> QED
    BY <2>3, <2>4, ExecutionSteps
<1> QED
  BY <1>1, <1>2, <1>3 DEF SteeringInv

LEMMA ConsumedKept ==
  ASSUME Types, EventsInv, ReadInv, SteeringInv, ConsumedOnce, [Next]_vars
  PROVE  ConsumedOnce'
<1>1. ASSUME NEW i \in Seqs("steering.consumed")', NEW e \in Runs, i <= start'[e].read
      PROVE  log'[i].val \notin prompt'[e]
  <2>1. i \in Seqs("steering.consumed") /\ log'[i] = log[i] /\ i \in Nat
    BY <1>1, ReadIsOld
  <2>2. CASE Resume(e)
    BY <2>1, <2>2, ConsumedIsKnown, Snapshot
  <2>3. CASE ExecutionStep(e)
    <3>1. log[i].val \notin memory[e].todo /\ log[i].val \notin prompt[e]
      BY <1>1, <2>1, <2>3 DEF ExecutionStep, SteeringInv, ConsumedOnce
    <3> QED
      BY <2>1, <2>3, <3>1 DEF ExecutionStep
  <2> QED
    BY <2>2, <2>3, ExecutionSteps
<1>2. ASSUME NEW i \in Seqs("steering.consumed"), NEW j \in Seqs("steering.consumed")',
             NewEvent("steering.consumed", log'[j].by, log'[j].val)
      PROVE  ~(log[i].by = log'[j].by /\ log[i].val = log'[j].val)
  <2>1. log'[j].by \in Runs /\ log'[j].val \in memory[log'[j].by].todo
    BY <1>2 DEF NewEvent
  <2> QED
    BY <2>1 DEF SteeringInv
<1>3. ASSUME NEW i \in Seqs("steering.consumed")', NEW j \in Seqs("steering.consumed")',
             log'[i].by = log'[j].by, log'[i].val = log'[j].val
      PROVE  i = j
  <2>1. \/ i \in Seqs("steering.consumed") /\ log'[i] = log[i]
        \/ i = Len(log) + 1 /\ NewEvent("steering.consumed", log'[i].by, log'[i].val)
    BY OldOrNew
  <2>2. \/ j \in Seqs("steering.consumed") /\ log'[j] = log[j]
        \/ j = Len(log) + 1 /\ NewEvent("steering.consumed", log'[j].by, log'[j].val)
    BY OldOrNew
  <2>3. CASE i \in Seqs("steering.consumed") /\ log'[i] = log[i]
    BY <1>2, <1>3, <2>2, <2>3 DEF ConsumedOnce
  <2>4. CASE i = Len(log) + 1 /\ NewEvent("steering.consumed", log'[i].by, log'[i].val)
    BY <1>2, <1>3, <2>2, <2>4
  <2> QED
    BY <2>1, <2>3, <2>4
<1> QED
  BY <1>1, <1>3 DEF ConsumedOnce

-----------------------------------------------------------------------------
(* What TypeOK says beyond the types. *)

\* Every event has the value of its type, and only a message that was queued
\* can be consumed.
FormOK(i) ==
  /\ log[i].by \in Runs \cup {User}
  /\ log[i].type = "steering.queued" => log[i].val = None
  /\ log[i].type = "steering.consumed" => log[i].val \in Seqs("steering.queued")
  /\ log[i].type = "run_plan.created" => log[i].val \in BOOLEAN

FormInv == \A i \in DOMAIN log : FormOK(i)

FreshInv == fresh \in [Runs -> BOOLEAN]

\* The budget holds, and what is recorded is the call that is under way.
CallInv ==
  \A e \in Runs : /\ memory[e].calls <= MaxCalls
                  /\ pc[e] = "record" <=> memory[e].doing # None

\* What an execution is about to consume or has in its prompts was queued, and
\* it was resumed from a checkpoint.
SourceInv ==
  \A e \in Runs :
    /\ memory[e].todo \cup prompt[e] \subseteq Seqs("steering.queued")
    /\ start[e].from = 0 \/ start[e].from \in Seqs("checkpoint.saved")

LEMMA SeqsKept ==
  ASSUME LogGrows, NEW t
  PROVE  Seqs(t) \subseteq Seqs(t)'
  BY DEF LogGrows, Seqs

LEMMA FormKept ==
  ASSUME Types, EventsInv, ReadInv, SourceInv, FormInv, [Next]_vars
  PROVE  FormInv'
<1>1. LogGrows /\ NewEvents /\ Seqs("steering.queued") \subseteq Seqs("steering.queued")'
  BY LogSteps, SeqsKept
<1>2. ASSUME NEW i \in DOMAIN log PROVE FormOK(i)'
  <2>1. FormOK(i) /\ log'[i] = log[i]
    BY <1>1 DEF FormInv, LogGrows
  <2> QED
    BY <1>1, <2>1 DEF FormOK
<1>3. ASSUME NEW i \in DOMAIN log' \ DOMAIN log PROVE FormOK(i)'
  <2>1. NewEvent(log'[i].type, log'[i].by, log'[i].val)
    BY <1>1 DEF NewEvents
  <2>2. log'[i].type = "steering.consumed" => log'[i].val \in Seqs("steering.queued")'
    BY <1>1, <2>1 DEF NewEvent, SourceInv
  <2> QED
    BY <2>1, <2>2 DEF NewEvent, FormOK
<1> QED
  BY <1>2, <1>3 DEF FormInv

LEMMA FreshKept ==
  ASSUME FreshInv, [Next]_vars
  PROVE  FreshInv'
<1> USE DEF FreshInv, Stamp, Write, Echo, Send
<1>1. ASSUME NEW e \in Runs, CallTool(e) \/ EndLoop(e) PROVE FreshInv'
  BY <1>1 DEF CallTool, EndLoop, Turn
<1>2. ASSUME NEW e \in Runs,
             RecordCall(e) \/ Checkpoint(e) \/ Consume(e) \/ Plan(e) \/ FinalCheckpoint(e)
      PROVE  FreshInv'
  BY <1>2 DEF RecordCall, Checkpoint, Consume, Plan, FinalCheckpoint, Save
<1>3. ASSUME NEW e \in Runs, Pull(e) \/ Report(e) \/ Fails(e) \/ Resume(e) PROVE FreshInv'
  BY <1>3 DEF Pull, Report, Fails, Resume
<1>4. CASE Crash \/ Steer \/ Cancel \/ UNCHANGED vars
  BY <1>4 DEF Crash, Steer, Cancel, vars
<1> QED
  BY <1>1, <1>2, <1>3, <1>4 DEF Next, Execute

\* What a step does to the call that is under way.
CallKept(e) ==
  /\ memory'[e].calls <= MaxCalls
  /\ pc'[e] = "record" <=> memory'[e].doing # None

LEMMA ForgottenCall ==
  ASSUME NEW e \in Runs, memory'[e] = Forgotten, pc'[e] # "record"
  PROVE  CallKept(e)
  BY ResumeAssumption DEF CallKept, Forgotten

LEMMA OwnCall ==
  ASSUME Types, ReadInv, CallInv, NEW e \in Runs, Execute(e) \/ Resume(e)
  PROVE  CallKept(e)
<1>0. /\ memory \in [Runs -> MemoryType] /\ pc \in [Runs -> Pcs]
      /\ memory[e].calls <= MaxCalls /\ memory[e].calls \in Nat /\ MaxCalls \in Nat
      /\ pc[e] = "record" <=> memory[e].doing # None
  BY ResumeAssumption DEF Types, MemoryType, CallInv
<1> USE DEF Goes
<1>1. CASE CallTool(e)
  <2>1. PICK c \in Calls : /\ MayCall(e, c)
                           /\ memory' = [memory EXCEPT ![e].doing = c, ![e].calls = @ + 1]
    BY <1>1 DEF CallTool
  <2>2. memory'[e].doing = c /\ memory'[e].calls = memory[e].calls + 1
    BY <1>0, <2>1 DEF MemoryType
  <2>3. pc'[e] = "record"
    BY <1>0, <1>1 DEF CallTool
  <2> QED
    BY <1>0, <2>1, <2>2, <2>3, NoneAssumption DEF CallKept, MayCall
<1>2. CASE RecordCall(e)
  <2>1. memory'[e].doing = None /\ memory'[e].calls = memory[e].calls
    BY <1>0, <1>2 DEF RecordCall, MemoryType
  <2>2. pc'[e] = "loop"
    BY <1>0, <1>2 DEF RecordCall
  <2> QED
    BY <1>0, <2>1, <2>2 DEF CallKept
<1>3. CASE EndLoop(e) \/ Pull(e) \/ Consume(e)
  <2>1. PICK t : memory' = memory \/ memory' = [memory EXCEPT ![e].todo = t]
    BY <1>0, <1>3 DEF EndLoop, Pull, Consume
  <2>2. memory'[e].doing = memory[e].doing /\ memory'[e].calls = memory[e].calls
    BY <1>0, <2>1 DEF MemoryType
  <2>3. pc[e] # "record" /\ pc'[e] # "record"
    BY <1>0, <1>3 DEF EndLoop, Pull, Consume
  <2> QED
    BY <1>0, <2>2, <2>3 DEF CallKept
<1>4. CASE Checkpoint(e) \/ Plan(e) \/ FinalCheckpoint(e)
  <2>1. memory' = memory /\ pc[e] # "record" /\ pc'[e] # "record"
    BY <1>0, <1>4 DEF Checkpoint, FinalCheckpoint, Save, Plan
  <2> QED
    BY <1>0, <2>1 DEF CallKept
<1>5. CASE Report(e) \/ Fails(e)
  <2>1. memory'[e] = Forgotten /\ pc'[e] # "record"
    BY <1>0, <1>5 DEF Report, Fails, Leaves
  <2> QED
    BY <2>1, ForgottenCall
<1>6. CASE Resume(e)
  <2>1. memory'[e].doing = memory[e].doing /\ memory'[e].calls = memory[e].calls
    BY <1>0, <1>6 DEF Resume, MemoryType
  <2>2. pc[e] # "record" /\ pc'[e] # "record"
    BY <1>0, <1>6 DEF Resume
  <2> QED
    BY <1>0, <2>1, <2>2 DEF CallKept
<1> QED
  BY <1>1, <1>2, <1>3, <1>4, <1>5, <1>6 DEF Execute

LEMMA CallsKept ==
  ASSUME Types, ReadInv, CallInv, [Next]_vars
  PROVE  CallInv'
<1> SUFFICES ASSUME NEW e \in Runs PROVE CallKept(e)
  BY DEF CallInv, CallKept
<1>1. CASE Untouched(e)
  BY <1>1 DEF Untouched, CallInv, CallKept
<1>2. CASE Execute(e) \/ Resume(e)
  BY <1>2, OwnCall
<1>3. ASSUME NEW d \in Runs, d # e, Execute(d) \/ Resume(d) PROVE CallKept(e)
  BY <1>1, <1>3, OwnSteps
<1>4. CASE Crash
  BY <1>4, ForgottenCall DEF Crash, Alive, Types
<1>5. CASE Steer \/ Cancel \/ UNCHANGED vars
  BY <1>1, <1>5 DEF Steer, Cancel, vars, facts, Untouched
<1> QED
  BY <1>2, <1>3, <1>4, <1>5 DEF Next

LEMMA SourceKept ==
  ASSUME Types, ReadInv, SourceInv, [Next]_vars
  PROVE  SourceInv'
<1>1. /\ Seqs("steering.queued") \subseteq Seqs("steering.queued")'
      /\ Seqs("checkpoint.saved") \subseteq Seqs("checkpoint.saved")'
  BY LogSteps, SeqsKept
<1>2. Unconsumed \subseteq Seqs("steering.queued")
  BY DEF Unconsumed, InPage
<1> SUFFICES ASSUME NEW e \in Runs
             PROVE  /\ memory'[e].todo \cup prompt'[e] \subseteq Seqs("steering.queued")'
                    /\ start'[e].from = 0 \/ start'[e].from \in Seqs("checkpoint.saved")'
  BY DEF SourceInv
<1>3. CASE Resume(e)
  BY <1>1, <1>2, <1>3, Snapshot DEF Latest
<1>4. CASE ExecutionStep(e)
  BY <1>1, <1>2, <1>4 DEF ExecutionStep, SourceInv
<1> QED
  BY <1>3, <1>4, ExecutionSteps

-----------------------------------------------------------------------------
(* The theorems. *)

LEMMA InitHolds == Init => IInv
<1> SUFFICES ASSUME Init PROVE IInv
  OBVIOUS
<1> USE DEF Init
<1>1. Types
  BY ForgottenType, ResumeAssumption DEF Types, Status, Pcs, Runs
<1>2. DOMAIN log = {} /\ \A t : Seqs(t) = {}
  BY DEF Seqs
<1>3. ReadInv
  BY <1>1 DEF ReadInv, Forgotten
<1> QED
  BY <1>1, <1>2, <1>3
  DEF IInv, EventsInv, RecoveredInv, RepeatedOnlyBehindCheckpoint, BlockedInv,
      UnknownStopsResume, OverInv, FinishedStaysFinished, SteeringInv, ConsumedOnce, Forgotten

LEMMA NextKeeps == IInv /\ [Next]_vars => IInv'
  BY TypesKept, EventsKept, ReadKept, RecoveredKept, RepeatedKept, BlockedKept, UnknownKept,
     OverKept, FinishedKept, SteeringKept, ConsumedKept DEF IInv

THEOREM Invariance == Spec => []IInv
  BY InitHolds, NextKeeps, PTL DEF Spec

\* A resume never repeats a write whose success it could read: what was recorded
\* after its checkpoint is skipped by toPiTool.
THEOREM RepeatsOnlyBehindCheckpoint == Spec => []RepeatedOnlyBehindCheckpoint
  BY Invariance, PTL DEF IInv

\* checkResumeEligibility never lets a resume pass an unknown side effect, unless
\* another execution's checkpoint hides it.
THEOREM UnknownStops == Spec => []UnknownStopsResume
  BY Invariance, PTL DEF IInv

\* checkResumeEligibility never lets a finished run start again, unless another
\* execution's checkpoint hides its end, and there is one end.
THEOREM FinishedStays == Spec => []FinishedStaysFinished
  BY Invariance, PTL DEF IInv

\* Steering recorded as consumed does not reach the prompts of a later execution,
\* and reaches those of one execution once.
THEOREM ConsumesOnce == Spec => []ConsumedOnce
  BY Invariance, PTL DEF IInv

\* The variables have their types: every event has the value its type says, the
\* budget of tool calls holds in every execution, and steering is consumed and
\* put into prompts only after it was queued.
THEOREM TypesHold == Spec => []TypeOK
<1> DEFINE JInv == FormInv /\ FreshInv /\ CallInv /\ SourceInv
<1>1. Init => JInv
  <2> SUFFICES ASSUME Init PROVE JInv
    OBVIOUS
  <2>1. DOMAIN log = {} /\ FreshInv
    BY DEF Init, FreshInv
  <2>2. CallInv
    BY ResumeAssumption DEF Init, CallInv, Forgotten
  <2>3. SourceInv
    BY DEF Init, SourceInv, Forgotten
  <2> QED
    BY <2>1, <2>2, <2>3 DEF FormInv
<1>2. IInv /\ JInv /\ [Next]_vars => JInv'
  BY FormKept, FreshKept, CallsKept, SourceKept DEF IInv
<1>3. IInv /\ JInv => TypeOK
  <2> SUFFICES ASSUME IInv, JInv PROVE TypeOK
    OBVIOUS
  <2>1. Types /\ EventsInv /\ ReadInv
    BY DEF IInv
  <2>2. ASSUME NEW i \in DOMAIN log PROVE IsEvent(i, Seqs("steering.queued"))
    <3>1. log[i].type \in EventTypes
      <4>1. log \in Seq(Event)
        BY <2>1 DEF Types
      <4>2. log[i] \in Event
        BY <4>1
      <4> QED
        BY <4>2 DEF Event
    <3>2. EventOK(i) /\ FormOK(i)
      BY <2>1 DEF EventsInv, FormInv
    <3> QED
      BY <3>1, <3>2 DEF IsEvent, EventOK, FormOK, EventTypes
  <2>3. ASSUME NEW e \in Runs PROVE IsExecution(e, Seqs("steering.queued"))
    <3>1. /\ pc[e] \in Pcs /\ memory[e] \in MemoryType /\ start[e] \in [from : Nat, read : Nat]
          /\ start[e].from <= start[e].read /\ start[e].read <= Len(log) /\ Len(log) \in Nat
      BY <2>1 DEF Types, ReadInv
    <3>2. DOMAIN memory[e] = DOMAIN Forgotten
      BY <3>1 DEF MemoryType, Forgotten
    <3>3. start[e].from = 0 \/ log[start[e].from].type = "checkpoint.saved"
      BY DEF SourceInv, Seqs
    <3>4. start[e].read \in start[e].from..Len(log)
      BY <3>1
    <3>5. memory[e].calls \in 0..MaxCalls
      BY <3>1, ResumeAssumption DEF MemoryType, CallInv
    <3> QED
      BY <3>1, <3>2, <3>3, <3>4, <3>5
      DEF IsExecution, Pcs, MemoryType, FreshInv, CallInv, SourceInv
  <2> QED
    BY <2>1, <2>2, <2>3 DEF TypeOK, Types
<1> HIDE DEF JInv
<1> QED
  BY <1>1, <1>2, <1>3, Invariance, PTL DEF Spec
=============================================================================
