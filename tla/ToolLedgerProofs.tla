--------------------------- MODULE ToolLedgerProofs ---------------------------
(***************************************************************************)
(* Proofs about ToolExecutor, continued: the abort, and what the ledger    *)
(* holds of a result that was returned, for any calls, groups, limits and  *)
(* numbers of attempts.                                                    *)
(*                                                                         *)
(* The argument: while tools are called one after the other, an event id   *)
(* that is sent is greater than that of every entry whose answer was taken *)
(* over.  An entry found under the same id is then this attempt's own, or  *)
(* one whose answer nobody took over: that of a refused call, or of one    *)
(* that threw.                                                             *)
(***************************************************************************)
EXTENDS ToolExecutorProofs

\* Nobody waits for a slot of an aborted run.
Closed == aborted => \A g \in Groups : queue[g] = << >>

Recording == {"persist", "repersist"}

\* One call at a time, and none of them has to wait.
Solo ==
  /\ \A c \in Calls : pc[c] # "queued"
  /\ \A c, d \in Calls : pc[c] \in Holding /\ pc[d] \in Holding => c = d

\* The append of a call: whose it is, the id it was sent with, and the entry
\* it was answered with.
Appends ==
  /\ seq <= Len(log)
  /\ \A c \in Calls :
       /\ req[c].stage # "none" =>
            pc[c] \in Recording \/ (pc[c] = "done" /\ att[c] = 0)
       /\ req[c].stage = "sent" => req[c].id >= 1 /\ req[c].id <= seq + 1
       /\ req[c].stage = "recorded" =>
            /\ req[c].seq \in 1..Len(log)
            /\ log[req[c].seq].id = req[c].id
            /\ req[c].id >= 1
       /\ req[c].stage = "failed" => req[c].seq = 0

\* An entry is that of an attempt that has been recorded, its id is at most
\* its number, and once the answer was taken over at most the sequence number.
Settled ==
  \A i \in 1..Len(log) :
    /\ log[i].id <= i
    /\ log[i].call = NoCall => log[i].id = 0
    /\ \A d \in Calls : log[i].call = d =>
         /\ pc[d] # "idle"
         /\ log[i].attempt <= att[d]
         /\ pc[d] \in {"running", "storing"} => log[i].attempt < att[d]
         /\ \/ MayShadow(d)
            \/ log[i].id <= seq
            \/ pc[d] \in Recording /\ log[i].attempt = att[d]

\* An entry with the id under way is that of a refused call or of one that
\* threw, or it is this attempt's own; a first append of an attempt has put no
\* entry under another id.
Fresh ==
  \A c \in Calls :
    pc[c] \in Recording /\ req[c].stage \in {"sent", "recorded"} =>
      \A i \in 1..Len(log) : \A d \in Calls : log[i].call = d =>
        /\ log[i].id = req[c].id =>
             MayShadow(d) \/ (d = c /\ log[i].attempt = att[c])
        /\ pc[c] = "persist" /\ d = c /\ log[i].attempt = att[c] =>
             log[i].id = req[c].id

Untold == \A c \in Calls : pc[c] # "done" => told[c] = "nothing"

\* ReturnedIsRecorded for one call.
IsRecorded(c) ==
  told[c] = "success" =>
    \/ \E i \in 1..Len(log) : log[i].call = c /\ log[i].attempt = att[c]
    \/ \E d \in Calls \ {c} : MayShadow(d) /\ \E i \in 1..Len(log) : log[i].call = d

OneByOne == Solo /\ Appends /\ Settled /\ Fresh /\ Untold /\ \A c \in Calls : IsRecorded(c)

LedgerInv == ~Parallel => OneByOne

-----------------------------------------------------------------------------
(* The abort. *)

\* A call that ends in an aborted run hands its slot to nobody.
LEMMA FinishAborted ==
  ASSUME Closed, aborted, NEW c \in Calls, NEW out, Finish(c, out)
  PROVE  UNCHANGED <<queue, att>>
<1>1. queue[GroupOf[c]] = << >>
  BY GroupAssumption DEF Closed
<1> QED
  BY <1>1 DEF Finish

\* What starts in a step of an aborted run.
OnlyRetries ==
  aborted =>
    \A c \in Calls : att'[c] # att[c] =>
      /\ att[c] > 0
      /\ c \in Writes => raw[c][att[c]] = "refused"

LEMMA AbortedStep ==
  ASSUME IInv, Closed, [Next]_vars
  PROVE  /\ Closed'
         /\ OnlyRetries
<1> DEFINE Quiet == OnlyRetries
<1> SUFFICES Closed' /\ Quiet
  OBVIOUS
<1>1. ASSUME aborted' = aborted, queue' = queue, att' = att
      PROVE  Closed' /\ Quiet
  BY <1>1 DEF Closed, OnlyRetries
<1>2. ASSUME ~aborted, aborted' = aborted
      PROVE  Closed' /\ Quiet
  BY <1>2 DEF Closed, OnlyRetries
<1>3. CASE Abort
  BY <1>3 DEF Abort, Closed, OnlyRetries
<1>4. CASE OtherAppend
  BY <1>1, <1>4 DEF OtherAppend, slots, calls
<1>5. ASSUME NEW c \in Calls, StartRefused(c) \/ StartRun(c) \/ StartWait(c)
      PROVE  Closed' /\ Quiet
  BY <1>1, <1>2, <1>5 DEF StartRefused, StartRun, StartWait, slots
<1>6. ASSUME NEW c \in Calls, ExecutorStep(c)
      PROVE  Closed' /\ Quiet
  <2>1. ASSUME NEW out, Finish(c, out), aborted' = aborted
        PROVE  Closed' /\ Quiet
    BY <1>1, <1>2, <2>1, FinishAborted
  <2>2. CASE Return(c) \/ Timeout(c) \/ Throw(c) \/ Store(c) \/ RecordFails(c) \/ Unawaited(c)
    BY <1>1, <2>2 DEF Return, Timeout, Throw, Store, RecordFails, Unawaited, slots, calls
  <2>3. CASE Recorded(c)
    <3>1. CASE ShouldRetry(c, entry[c].effect)
      BY <1>1, <2>3, <3>1 DEF Recorded, slots
    <3>2. CASE ~ShouldRetry(c, entry[c].effect)
      BY <2>1, <2>3, <3>2 DEF Recorded
    <3> QED
      BY <3>1, <3>2
  <2>4. CASE Rethrow(c)
    BY <2>1, <2>4 DEF Rethrow
  <2>5. CASE TryAgain(c)
    <3>1. att[c] >= 1 /\ att[c] \in Nat
      BY <2>5 DEF TryAgain, IInv, AttInv, TypeOK, Holding
    <3>2. c \in Writes => raw[c][att[c]] = "refused"
      BY <2>5 DEF TryAgain, IInv, WriteInv
    <3>3. \A d \in Calls : d # c => att'[d] = att[d]
      BY <2>5 DEF TryAgain, Launch, IInv, TypeOK
    <3>4. OnlyRetries
      BY <3>1, <3>2, <3>3 DEF OnlyRetries
    <3> QED
      BY <2>5, <3>4 DEF TryAgain, Closed, slots
  <2> QED
    BY <1>6, <2>2, <2>3, <2>4, <2>5 DEF ExecutorStep
<1>7. ASSUME NEW c \in Calls, AppendStep(c)
      PROVE  Closed' /\ Quiet
  BY <1>1, <1>7 DEF AppendStep, AppendNew, AppendDuplicate, AppendFails, slots, calls
<1>8. ASSUME NEW c \in Calls, NEW a \in Attempts, Act(c, a)
      PROVE  Closed' /\ Quiet
  BY <1>1, <1>8 DEF Act, slots, calls
<1>9. CASE UNCHANGED vars
  BY <1>1, <1>9 DEF vars, slots, calls
<1> QED
  BY <1>3, <1>4, <1>5, <1>6, <1>7, <1>8, <1>9 DEF Next

LEMMA SpecClosed == Spec => [](IInv /\ Closed)
<1>1. Init => IInv /\ Closed
  BY InitInv DEF Init, Closed
<1>2. IInv /\ Closed /\ [Next]_vars => IInv' /\ Closed'
  BY NextInv, AbortedStep
<1> QED
  BY <1>1, <1>2, PTL DEF Spec

\* Once the run is aborted, no call reaches its tool for the first time, for
\* any number of calls waiting in any number of groups: whoever ends afterwards
\* finds nobody to hand its slot to.  A retry may still start, that of a write
\* only after an attempt that its tool refused.
THEOREM AbortStartsRetriesOnly == Spec => OnlyRetriesStartAfterAbort
<1>1. IInv /\ Closed /\ [Next]_vars => [OnlyRetries]_vars
  BY AbortedStep
<1>2. Spec => [][OnlyRetries]_vars
  BY <1>1, SpecClosed, PTL DEF Spec
<1> QED
  BY <1>2 DEF OnlyRetriesStartAfterAbort, OnlyRetries

-----------------------------------------------------------------------------
(* One call after the other: the steps of the log. *)

LEMMA LogFacts ==
  ASSUME TypeOK
  PROVE  /\ seq \in Nat /\ Len(log) \in Nat /\ DOMAIN log = 1..Len(log)
         /\ \A i \in 1..Len(log) : /\ log[i].id \in Nat /\ log[i].attempt \in Nat
                                   /\ log[i].call \in Calls \cup {NoCall}
         /\ \A c \in Calls : /\ req[c] \in Request /\ req[c].id \in Nat /\ req[c].seq \in Nat
                             /\ att[c] \in Nat
<1>1. log \in Seq(LedgerEntry) /\ seq \in Nat
  BY DEF TypeOK
<1>2. Len(log) \in Nat /\ DOMAIN log = 1..Len(log)
      /\ \A i \in 1..Len(log) : log[i] \in LedgerEntry
  BY <1>1
<1>3. \A c \in Calls : req[c] \in Request /\ att[c] \in Nat
  BY DEF TypeOK
<1> QED
  BY <1>1, <1>2, <1>3 DEF LedgerEntry, Request

\* A call with an entry that may shadow another is over.
LEMMA ShadowDone ==
  ASSUME IInv, Solo, Untold, NEW d \in Calls, MayShadow(d), pc[d] # "idle"
  PROVE  pc[d] = "done"
<1>1. pc[d] \in {"idle", "done"} \cup Waiting \cup Holding
  BY DEF IInv, TypeOK
<1>2. pc[d] # "queued"
  BY DEF Solo
<1>3. CASE att[d] = 0
  <2>1. pc[d] \notin Holding
    BY <1>3 DEF IInv, AttInv
  <2> QED
    BY <1>1, <1>2, <2>1 DEF Waiting
<1>4. CASE told[d] = "threw"
  BY <1>4 DEF Untold
<1> QED
  BY <1>3, <1>4 DEF MayShadow

\* What does not read the appends under way.
LEMMA SameCalls ==
  ASSUME OneByOne, UNCHANGED <<pc, att, told, seq, log>>
  PROVE  Solo' /\ Settled' /\ Untold' /\ \A c \in Calls : IsRecorded(c)'
<1>1. Solo' /\ Untold'
  BY DEF OneByOne, Solo, Untold
<1>2. Settled'
  BY DEF OneByOne, Settled, MayShadow
<1>3. \A c \in Calls : IsRecorded(c)'
  BY DEF OneByOne, IsRecorded, MayShadow
<1> QED
  BY <1>1, <1>2, <1>3

LEMMA FailsStep ==
  ASSUME IInv, OneByOne, NEW c \in Calls, AppendFails(c)
  PROVE  OneByOne'
<1>1. /\ UNCHANGED <<pc, att, told, seq, log>>
      /\ req[c].stage \in {"sent", "recorded"}
  BY DEF AppendFails, calls
<1>2. \A d \in Calls : d # c => req'[d] = req[d]
  BY DEF AppendFails, IInv, TypeOK
<1>3. req'[c].stage = "failed" /\ req'[c].seq = 0
  BY DEF AppendFails, IInv, TypeOK, NoRequest
<1>4. Appends'
  BY <1>1, <1>2, <1>3 DEF OneByOne, Appends
<1>5. Fresh'
  BY <1>1, <1>2, <1>3 DEF OneByOne, Fresh, MayShadow
<1> QED
  BY <1>1, <1>4, <1>5, SameCalls DEF OneByOne

LEMMA DuplicateStep ==
  ASSUME IInv, OneByOne, NEW c \in Calls, AppendDuplicate(c)
  PROVE  OneByOne'
<1>1. UNCHANGED <<pc, att, told, seq, log>> /\ req[c].stage = "sent"
  BY DEF AppendDuplicate, calls
<1>2. PICK i \in DOMAIN log :
        log[i].id = req[c].id /\ req' = [req EXCEPT ![c] = Answered(c, Len(log), i)]
  BY DEF AppendDuplicate
<1>3. i \in 1..Len(log)
  BY <1>2, LogFacts DEF IInv
<1>4. \A d \in Calls : d # c => req'[d] = req[d]
  BY <1>2 DEF IInv, TypeOK
<1>5. req'[c].stage = "recorded" /\ req'[c].id = req[c].id /\ req'[c].seq = i
  BY <1>2 DEF IInv, TypeOK, Answered
<1>6. Appends'
  BY <1>1, <1>2, <1>3, <1>4, <1>5 DEF OneByOne, Appends
<1>7. Fresh'
  BY <1>1, <1>4, <1>5 DEF OneByOne, Fresh, MayShadow
<1> QED
  BY <1>1, <1>6, <1>7, SameCalls DEF OneByOne

\* The log grows: what was said of its entries still holds, and is true of the
\* new one.
LEMMA GrownStep ==
  ASSUME IInv, OneByOne, UNCHANGED <<pc, att, told, seq>>,
         Len(log') = Len(log) + 1, \A i \in 1..Len(log) : log'[i] = log[i],
         NEW e, log'[Len(log) + 1] = e,
         e.id \in Nat, e.id <= Len(log) + 1, e.call = NoCall => e.id = 0,
         \A d \in Calls : e.call = d =>
           /\ pc[d] \in Recording \/ (MayShadow(d) /\ pc[d] = "done")
           /\ e.attempt = att[d]
  PROVE  Solo' /\ Settled' /\ Untold' /\ \A c \in Calls : IsRecorded(c)'
<1>1. Solo' /\ Untold'
  BY DEF OneByOne, Solo, Untold
<1>2. Len(log) \in Nat /\ \A d \in Calls : att[d] \in Nat
  BY LogFacts DEF IInv
<1>3. \A d \in Calls : MayShadow(d)' = MayShadow(d)
  BY DEF MayShadow
<1>4. Settled'
  <2> SUFFICES ASSUME NEW i \in 1..Len(log')
               PROVE  /\ log'[i].id <= i
                      /\ log'[i].call = NoCall => log'[i].id = 0
                      /\ \A d \in Calls : log'[i].call = d =>
                           /\ pc[d] # "idle"
                           /\ log'[i].attempt <= att[d]
                           /\ pc[d] \in {"running", "storing"} => log'[i].attempt < att[d]
                           /\ \/ MayShadow(d)
                              \/ log'[i].id <= seq
                              \/ pc[d] \in Recording /\ log'[i].attempt = att[d]
    BY <1>3 DEF Settled
  <2>1. CASE i \in 1..Len(log)
    BY <2>1 DEF OneByOne, Settled
  <2>2. CASE i = Len(log) + 1
    BY <1>2, <2>2 DEF Recording
  <2> QED
    BY <1>2, <2>1, <2>2
<1>5. ASSUME NEW c \in Calls PROVE IsRecorded(c)'
  <2> SUFFICES ASSUME told[c] = "success"
               PROVE  \/ \E i \in 1..Len(log') : log'[i].call = c /\ log'[i].attempt = att[c]
                      \/ \E d \in Calls \ {c} : MayShadow(d) /\ \E i \in 1..Len(log') : log'[i].call = d
    BY <1>3 DEF IsRecorded
  <2>1. \A i \in 1..Len(log) : i \in 1..Len(log')
    BY <1>2
  <2>2. CASE \E i \in 1..Len(log) : log[i].call = c /\ log[i].attempt = att[c]
    BY <2>1, <2>2
  <2>3. CASE \E d \in Calls \ {c} : MayShadow(d) /\ \E i \in 1..Len(log) : log[i].call = d
    BY <2>1, <2>3
  <2> QED
    BY <2>2, <2>3 DEF OneByOne, IsRecorded
<1> QED
  BY <1>1, <1>4, <1>5

LEMMA NewStep ==
  ASSUME IInv, OneByOne, NEW c \in Calls, AppendNew(c)
  PROVE  OneByOne'
<1> DEFINE e == [id |-> req[c].id, call |-> c, attempt |-> att[c], effect |-> entry[c].effect]
<1>1. UNCHANGED <<pc, att, told, seq>> /\ req[c].stage = "sent"
  BY DEF AppendNew, calls
<1>2. log \in Seq(LedgerEntry) /\ e \in LedgerEntry
  BY DEF IInv, TypeOK, LedgerEntry, Request
<1>3. log' = Append(log, e) /\ req' = [req EXCEPT ![c] = Answered(c, Len(log) + 1, Len(log) + 1)]
  BY DEF AppendNew
<1>4. e.id = req[c].id /\ e.call = c /\ e.attempt = att[c]
  OBVIOUS
<1> HIDE DEF e
<1>5. /\ Len(log') = Len(log) + 1
      /\ \A i \in 1..Len(log) : log'[i] = log[i]
      /\ log'[Len(log) + 1] = e
  BY <1>2, <1>3
<1>6. /\ seq \in Nat /\ Len(log) \in Nat /\ req[c].id \in Nat /\ att[c] \in Nat
      /\ req[c].id >= 1 /\ req[c].id <= seq + 1 /\ seq <= Len(log)
  BY <1>1, LogFacts DEF IInv, OneByOne, Appends
<1>7. pc[c] \in Recording \/ (pc[c] = "done" /\ att[c] = 0)
  BY <1>1 DEF OneByOne, Appends
<1>8. Solo' /\ Settled' /\ Untold' /\ \A d \in Calls : IsRecorded(d)'
  <2>1. e.id \in Nat /\ e.id <= Len(log) + 1 /\ e.call # NoCall
    BY <1>4, <1>6, CallsAssumption
  <2>2. \A d \in Calls : e.call = d =>
          /\ pc[d] \in Recording \/ (MayShadow(d) /\ pc[d] = "done")
          /\ e.attempt = att[d]
    BY <1>4, <1>7 DEF MayShadow
  <2> QED
    BY <1>1, <1>5, <2>1, <2>2, GrownStep
<1>9. \A d \in Calls : d # c => req'[d] = req[d]
  BY <1>3 DEF IInv, TypeOK
<1>10. req'[c].stage = "recorded" /\ req'[c].id = req[c].id /\ req'[c].seq = Len(log) + 1
  BY <1>3 DEF IInv, TypeOK, Answered
<1>11. Appends'
  <2> SUFFICES ASSUME NEW d \in Calls
               PROVE  /\ req'[d].stage # "none" =>
                           pc[d] \in Recording \/ (pc[d] = "done" /\ att[d] = 0)
                      /\ req'[d].stage = "sent" => req'[d].id >= 1 /\ req'[d].id <= seq + 1
                      /\ req'[d].stage = "recorded" =>
                           /\ req'[d].seq \in 1..Len(log')
                           /\ log'[req'[d].seq].id = req'[d].id
                           /\ req'[d].id >= 1
                      /\ req'[d].stage = "failed" => req'[d].seq = 0
    BY <1>1, <1>5, <1>6 DEF Appends
  <2>1. CASE d = c
    BY <1>4, <1>5, <1>6, <1>7, <1>10, <2>1
  <2>2. CASE d # c
    <3>1. /\ req[d].stage # "none" =>
               pc[d] \in Recording \/ (pc[d] = "done" /\ att[d] = 0)
          /\ req[d].stage = "sent" => req[d].id >= 1 /\ req[d].id <= seq + 1
          /\ req[d].stage = "recorded" =>
               /\ req[d].seq \in 1..Len(log)
               /\ log[req[d].seq].id = req[d].id
               /\ req[d].id >= 1
          /\ req[d].stage = "failed" => req[d].seq = 0
      BY DEF OneByOne, Appends
    <3>2. req'[d] = req[d]
      BY <1>9, <2>2
    <3>3. \A n \in 1..Len(log) : n \in 1..Len(log') /\ log'[n] = log[n]
      BY <1>5, <1>6
    <3> QED
      BY <3>1, <3>2, <3>3
  <2> QED
    BY <2>1, <2>2
<1>12. Fresh'
  <2> SUFFICES ASSUME NEW b \in Calls, pc[b] \in Recording,
                      req'[b].stage \in {"sent", "recorded"},
                      NEW i \in 1..Len(log'), NEW d \in Calls, log'[i].call = d
               PROVE  /\ log'[i].id = req'[b].id =>
                           MayShadow(d) \/ (d = b /\ log'[i].attempt = att[b])
                      /\ pc[b] = "persist" /\ d = b /\ log'[i].attempt = att[b] =>
                           log'[i].id = req'[b].id
    BY <1>1 DEF Fresh, MayShadow
  <2>1. req[b].stage \in {"sent", "recorded"} /\ req'[b].id = req[b].id
    BY <1>1, <1>9, <1>10
  <2>2. CASE i \in 1..Len(log)
    <3>1. log'[i] = log[i] /\ log[i].call = d
      BY <1>5, <2>2
    <3> QED
      BY <2>1, <2>2, <3>1 DEF OneByOne, Fresh
  <2>3. CASE i = Len(log) + 1
    <3>1. log'[i] = e /\ d = c
      BY <1>4, <1>5, <2>3
    <3>2. pc[c] \in Recording => b = c
      BY DEF OneByOne, Solo, Recording, Holding
    <3>3. CASE pc[c] = "done" /\ att[c] = 0
      BY <3>1, <3>3 DEF MayShadow, Recording
    <3>4. CASE pc[c] \in Recording
      BY <1>4, <2>1, <3>1, <3>2, <3>4
    <3> QED
      BY <1>7, <3>3, <3>4
  <2> QED
    BY <1>5, <1>6, <2>2, <2>3
<1> QED
  BY <1>8, <1>11, <1>12 DEF OneByOne

LEMMA OtherStep ==
  ASSUME IInv, OneByOne, OtherAppend
  PROVE  OneByOne'
<1> DEFINE e == [id |-> 0, call |-> NoCall, attempt |-> 0, effect |-> "unset"]
<1>1. UNCHANGED <<pc, att, told, seq, req>>
  BY DEF OtherAppend, calls
<1>2. log \in Seq(LedgerEntry) /\ e \in LedgerEntry
  BY DEF IInv, TypeOK, LedgerEntry, Effect
<1>3. log' = Append(log, e)
  BY DEF OtherAppend
<1>4. e.id = 0 /\ e.call = NoCall
  OBVIOUS
<1> HIDE DEF e
<1>5. /\ Len(log') = Len(log) + 1
      /\ \A i \in 1..Len(log) : log'[i] = log[i]
      /\ log'[Len(log) + 1] = e
  BY <1>2, <1>3
<1>6. Len(log) \in Nat /\ seq \in Nat
  BY LogFacts DEF IInv
<1>7. Solo' /\ Settled' /\ Untold' /\ \A d \in Calls : IsRecorded(d)'
  <2>1. e.id \in Nat /\ e.id <= Len(log) + 1 /\ \A d \in Calls : e.call # d
    BY <1>4, <1>6, CallsAssumption
  <2> QED
    BY <1>1, <1>4, <1>5, <2>1, GrownStep
<1>8. \A n \in 1..Len(log) : n \in 1..Len(log') /\ log'[n] = log[n]
  BY <1>5, <1>6
<1>9. Appends'
  BY <1>1, <1>5, <1>6, <1>8 DEF OneByOne, Appends
<1>10. \A i \in 1..Len(log') : \A d \in Calls : log'[i].call = d => i \in 1..Len(log)
  BY <1>4, <1>5, <1>6, CallsAssumption
<1>11. Fresh'
  BY <1>1, <1>5, <1>10 DEF OneByOne, Fresh, MayShadow
<1> QED
  BY <1>7, <1>9, <1>11 DEF OneByOne

-----------------------------------------------------------------------------
(* One call after the other: the steps of the calls. *)

Same(d) == att'[d] = att[d] /\ told'[d] = told[d]

\* What a step that leaves the log and the sequence number alone makes of a
\* call: it starts, is refused, gets its result, or sends an entry.
Move(d) ==
  \/ Same(d) /\ pc'[d] = pc[d] /\ req'[d] = req[d]
  \/ /\ pc[d] = "idle" /\ pc'[d] = "done"
     /\ att'[d] = att[d] /\ told'[d] = "failed" /\ req'[d] = NewRequest
  \/ /\ pc[d] \in {"idle", "backoff"} /\ pc'[d] = "running"
     /\ att'[d] = att[d] + 1 /\ told'[d] = told[d] /\ req'[d] = req[d]
  \/ Same(d) /\ pc[d] = "running" /\ pc'[d] = "storing" /\ req'[d] = req[d]
  \/ /\ pc[d] \in {"running", "storing"} /\ pc'[d] \in Recording
     /\ Same(d) /\ req'[d] = NewRequest
  \/ /\ pc[d] \in {"backoff", "persist"} /\ pc'[d] = "repersist"
     /\ Same(d) /\ req'[d] = NewRequest

\* Before a call records, nothing of it is under way.
LEMMA NothingSent ==
  ASSUME IInv, Appends, NEW d \in Calls, pc[d] \notin Recording, pc[d] # "done"
  PROVE  req[d].stage = "none"
  BY DEF Appends

LEMMA MovesStep ==
  ASSUME IInv, OneByOne, Solo', UNCHANGED <<seq, log>>, \A d \in Calls : Move(d)
  PROVE  OneByOne'
<1>1. /\ Solo /\ Appends /\ Settled /\ Fresh /\ Untold
      /\ seq \in Nat /\ Len(log) \in Nat
      /\ \A i \in 1..Len(log) : log[i].id \in Nat /\ log[i].attempt \in Nat
      /\ \A d \in Calls : att[d] \in Nat
  BY LogFacts DEF IInv, OneByOne
<1>2. ASSUME NEW d \in Calls, pc[d] = "done"
      PROVE  Same(d) /\ pc'[d] = pc[d] /\ req'[d] = req[d]
  BY <1>2 DEF Move
<1>3. ASSUME NEW d \in Calls, pc[d] # "idle", MayShadow(d)
      PROVE  MayShadow(d)'
  <2>1. Same(d)
    BY <1>1, <1>2, <1>3, ShadowDone
  <2> QED
    BY <1>3, <2>1 DEF MayShadow, Same
<1>4. NewRequest.stage = "sent" /\ NewRequest.id = seq + 1
  BY DEF NewRequest
<1>5. Appends'
  <2> SUFFICES ASSUME NEW d \in Calls
               PROVE  /\ req'[d].stage # "none" =>
                           pc'[d] \in Recording \/ (pc'[d] = "done" /\ att'[d] = 0)
                      /\ req'[d].stage = "sent" => req'[d].id >= 1 /\ req'[d].id <= seq + 1
                      /\ req'[d].stage = "recorded" =>
                           /\ req'[d].seq \in 1..Len(log)
                           /\ log[req'[d].seq].id = req'[d].id
                           /\ req'[d].id >= 1
                      /\ req'[d].stage = "failed" => req'[d].seq = 0
    BY <1>1 DEF Appends
  <2>1. /\ req[d].stage # "none" =>
             pc[d] \in Recording \/ (pc[d] = "done" /\ att[d] = 0)
        /\ req[d].stage = "sent" => req[d].id >= 1 /\ req[d].id <= seq + 1
        /\ req[d].stage = "recorded" =>
             /\ req[d].seq \in 1..Len(log)
             /\ log[req[d].seq].id = req[d].id
             /\ req[d].id >= 1
        /\ req[d].stage = "failed" => req[d].seq = 0
    BY <1>1 DEF Appends
  <2>2. pc[d] = "idle" => att[d] = 0
    BY DEF IInv, AttInv
  <2>3. CASE req'[d] = NewRequest
    <3>1. pc'[d] \in Recording \/ (pc'[d] = "done" /\ att'[d] = 0)
      <4>1. pc'[d] \in Recording \/ (pc[d] = "idle" /\ pc'[d] = "done" /\ att'[d] = att[d])
            \/ (Same(d) /\ pc'[d] = pc[d] /\ req'[d] = req[d])
        BY <1>4, <2>1, <2>3 DEF Move, Recording
      <4>2. CASE Same(d) /\ pc'[d] = pc[d] /\ req'[d] = req[d]
        BY <1>4, <2>1, <2>3, <4>2 DEF Same
      <4> QED
        BY <2>2, <4>1, <4>2
    <3> QED
      BY <1>1, <1>4, <2>3, <3>1
  <2>4. CASE req'[d] = req[d] /\ req'[d] # NewRequest
    <3>1. CASE Same(d) /\ pc'[d] = pc[d]
      BY <2>1, <2>4, <3>1 DEF Same
    <3>2. CASE pc[d] \in {"idle", "backoff", "running"}
      <4>1. req[d].stage = "none"
        BY <1>1, <3>2, NothingSent DEF Recording
      <4> QED
        BY <2>4, <4>1
    <3> QED
      BY <2>4, <3>1, <3>2 DEF Move
  <2> QED
    BY <2>3, <2>4 DEF Move
<1>6. Settled'
  <2> SUFFICES ASSUME NEW i \in 1..Len(log), NEW d \in Calls, log[i].call = d
               PROVE  /\ pc'[d] # "idle"
                      /\ log[i].attempt <= att'[d]
                      /\ pc'[d] \in {"running", "storing"} => log[i].attempt < att'[d]
                      /\ \/ MayShadow(d)'
                         \/ log[i].id <= seq
                         \/ pc'[d] \in Recording /\ log[i].attempt = att'[d]
    BY <1>1 DEF Settled
  <2>1. /\ pc[d] # "idle"
        /\ log[i].attempt <= att[d]
        /\ pc[d] \in {"running", "storing"} => log[i].attempt < att[d]
        /\ \/ MayShadow(d)
           \/ log[i].id <= seq
           \/ pc[d] \in Recording /\ log[i].attempt = att[d]
    BY <1>1 DEF Settled
  <2>2. log[i].attempt \in Nat /\ att[d] \in Nat
    BY <1>1
  <2>3. /\ pc'[d] # "idle"
        /\ log[i].attempt <= att'[d]
        /\ pc'[d] \in {"running", "storing"} => log[i].attempt < att'[d]
    BY <2>1, <2>2 DEF Move, Same, Recording
  <2>4. CASE MayShadow(d)
    BY <1>3, <2>1, <2>3, <2>4
  <2>5. CASE log[i].id <= seq
    BY <2>3, <2>5
  <2>6. CASE pc[d] \in Recording /\ log[i].attempt = att[d]
    <3>1. pc'[d] \in Recording /\ att'[d] = att[d]
      BY <2>6 DEF Move, Same, Recording
    <3> QED
      BY <2>3, <2>6, <3>1
  <2> QED
    BY <2>1, <2>4, <2>5, <2>6
<1>7. Fresh'
  <2> SUFFICES ASSUME NEW c \in Calls, pc'[c] \in Recording,
                      req'[c].stage \in {"sent", "recorded"},
                      NEW i \in 1..Len(log), NEW d \in Calls, log[i].call = d
               PROVE  /\ log[i].id = req'[c].id =>
                           MayShadow(d)' \/ (d = c /\ log[i].attempt = att'[c])
                      /\ pc'[c] = "persist" /\ d = c /\ log[i].attempt = att'[c] =>
                           log[i].id = req'[c].id
    BY DEF Fresh
  <2>1. /\ pc[d] # "idle"
        /\ pc[d] \in {"running", "storing"} => log[i].attempt < att[d]
        /\ \/ MayShadow(d)
           \/ log[i].id <= seq
           \/ pc[d] \in Recording /\ log[i].attempt = att[d]
    BY <1>1 DEF Settled
  <2>2. log[i].attempt \in Nat /\ att[d] \in Nat /\ log[i].id \in Nat
    BY <1>1
  <2>3. CASE Same(c) /\ pc'[c] = pc[c] /\ req'[c] = req[c]
    <3>1. /\ log[i].id = req[c].id =>
               MayShadow(d) \/ (d = c /\ log[i].attempt = att[c])
          /\ pc[c] = "persist" /\ d = c /\ log[i].attempt = att[c] =>
               log[i].id = req[c].id
      <4>1. pc[c] \in Recording /\ req[c].stage \in {"sent", "recorded"}
        BY <2>3
      <4> QED
        BY <1>1, <4>1 DEF Fresh
    <3> QED
      BY <1>3, <2>1, <2>3, <3>1 DEF Same
  <2>4. CASE /\ pc[c] \in {"running", "storing", "backoff", "persist"}
             /\ pc'[c] = "persist" => pc[c] \in {"running", "storing"}
             /\ att'[c] = att[c] /\ req'[c] = NewRequest
    <3>1. pc[d] \in Recording => d = c
      BY <1>1, <2>4 DEF Solo, Recording, Holding
    <3>2. log[i].id = req'[c].id => MayShadow(d)' \/ (d = c /\ log[i].attempt = att'[c])
      BY <1>1, <1>3, <1>4, <2>1, <2>2, <2>4, <3>1
    <3>3. pc'[c] = "persist" => ~(d = c /\ log[i].attempt = att'[c])
      BY <2>1, <2>2, <2>4
    <3> QED
      BY <3>2, <3>3
  <2> QED
    BY <2>3, <2>4 DEF Move, Same, Recording
<1>8. Untold'
  BY <1>1 DEF Untold, Move, Same, Recording
<1>9. ASSUME NEW c \in Calls PROVE IsRecorded(c)'
  <2> SUFFICES ASSUME told'[c] = "success"
               PROVE  \/ \E i \in 1..Len(log) : log[i].call = c /\ log[i].attempt = att'[c]
                      \/ \E d \in Calls \ {c} : /\ MayShadow(d)'
                                                /\ \E i \in 1..Len(log) : log[i].call = d
    BY DEF IsRecorded
  <2>1. told[c] = "success"
    BY DEF Move, Same
  <2>2. att'[c] = att[c]
    BY <1>1, <1>2, <2>1 DEF Untold, Same
  <2>3. \A d \in Calls : (\E i \in 1..Len(log) : log[i].call = d) => pc[d] # "idle"
    BY <1>1 DEF Settled
  <2>4. \/ \E i \in 1..Len(log) : log[i].call = c /\ log[i].attempt = att[c]
        \/ \E d \in Calls \ {c} : MayShadow(d) /\ \E i \in 1..Len(log) : log[i].call = d
    BY <2>1 DEF OneByOne, IsRecorded
  <2> QED
    BY <1>3, <2>2, <2>3, <2>4
<1> QED
  BY <1>5, <1>6, <1>7, <1>8, <1>9 DEF OneByOne

\* The answer of an append is taken over: the attempt is over or tried again,
\* and every entry it wrote is settled.
LEMMA EndStep ==
  ASSUME IInv, OneByOne, NEW c \in Calls,
         req[c].stage \in {"recorded", "failed"}, TakeAnswer(c),
         req' = [req EXCEPT ![c] = NoRequest],
         UNCHANGED <<att, log>>,
         \A d \in Calls : d # c => pc'[d] = pc[d] /\ told'[d] = told[d],
         \/ pc[c] = "done" /\ pc'[c] = "done" /\ told'[c] = told[c]
         \/ /\ pc[c] = "persist" /\ req[c].stage = "recorded"
            /\ pc'[c] = "backoff" /\ told'[c] = told[c]
         \/ /\ pc[c] = "persist" /\ req[c].stage = "recorded"
            /\ pc'[c] = "done" /\ told'[c] \in {"success", "failed"}
         \/ pc[c] = "repersist" /\ pc'[c] = "done" /\ told'[c] = "threw"
  PROVE  OneByOne'
<1>1. /\ Solo /\ Appends /\ Settled /\ Fresh /\ Untold
      /\ seq \in Nat /\ Len(log) \in Nat /\ req[c].seq \in Nat
      /\ \A i \in 1..Len(log) : log[i].id \in Nat /\ log[i].attempt \in Nat
      /\ \A d \in Calls : att[d] \in Nat
  BY LogFacts DEF IInv, OneByOne
<1>2. /\ seq' \in Nat /\ seq <= seq' /\ req[c].seq <= seq'
      /\ seq' = seq \/ seq' = req[c].seq
  BY <1>1 DEF TakeAnswer
<1>3. /\ req'[c].stage = "none"
      /\ \A d \in Calls : d # c => req'[d] = req[d]
  BY DEF NoRequest, IInv, TypeOK
<1>4. Solo'
  <2>1. \A d \in Calls : pc'[d] \in Holding => pc[d] \in Holding
    BY DEF Holding
  <2> QED
    BY <1>1, <2>1 DEF Solo
<1>5. Untold'
  BY <1>1 DEF Untold
<1>6. seq' <= Len(log)
  BY <1>1, <1>2 DEF Appends
<1>7. \A d \in Calls : d # c => pc'[d] = pc[d] /\ told'[d] = told[d] /\ (MayShadow(d)' <=> MayShadow(d))
  BY DEF MayShadow
<1>8. pc[c] # "done" => pc[c] \in Recording /\ ~MayShadow(c) /\ c \in Calls
  BY <1>1, ShadowDone DEF Recording
<1>9. pc[c] = "done" => (MayShadow(c)' <=> MayShadow(c))
  BY DEF MayShadow
<1>10. Appends'
  <2> SUFFICES ASSUME NEW d \in Calls
               PROVE  /\ req'[d].stage # "none" =>
                           pc'[d] \in Recording \/ (pc'[d] = "done" /\ att[d] = 0)
                      /\ req'[d].stage = "sent" => req'[d].id >= 1 /\ req'[d].id <= seq' + 1
                      /\ req'[d].stage = "recorded" =>
                           /\ req'[d].seq \in 1..Len(log)
                           /\ log[req'[d].seq].id = req'[d].id
                           /\ req'[d].id >= 1
                      /\ req'[d].stage = "failed" => req'[d].seq = 0
    BY <1>6 DEF Appends
  <2>1. CASE d = c
    BY <1>3, <2>1
  <2>2. CASE d # c
    <3>1. req[d].id \in Nat
      BY LogFacts DEF IInv
    <3> QED
      BY <1>1, <1>2, <1>3, <1>7, <2>2, <3>1 DEF Appends
  <2> QED
    BY <2>1, <2>2
<1>11. Settled'
  <2> SUFFICES ASSUME NEW i \in 1..Len(log), NEW d \in Calls, log[i].call = d
               PROVE  /\ pc'[d] # "idle"
                      /\ log[i].attempt <= att[d]
                      /\ pc'[d] \in {"running", "storing"} => log[i].attempt < att[d]
                      /\ \/ MayShadow(d)'
                         \/ log[i].id <= seq'
                         \/ pc'[d] \in Recording /\ log[i].attempt = att[d]
    BY <1>1 DEF Settled
  <2>1. /\ pc[d] # "idle"
        /\ log[i].attempt <= att[d]
        /\ pc[d] \in {"running", "storing"} => log[i].attempt < att[d]
        /\ \/ MayShadow(d)
           \/ log[i].id <= seq
           \/ pc[d] \in Recording /\ log[i].attempt = att[d]
        /\ log[i].id \in Nat
    BY <1>1 DEF Settled
  <2>2. CASE d # c
    BY <1>1, <1>2, <1>7, <2>1, <2>2
  <2>3. CASE d = c
    <3>1. pc'[d] # "idle" /\ pc'[d] \notin {"running", "storing"}
      BY <2>3
    <3>2. CASE pc[c] = "done"
      BY <1>1, <1>2, <1>9, <2>1, <2>3, <3>1, <3>2 DEF Recording
    <3>3. CASE pc[c] = "repersist"
      BY <2>1, <2>3, <3>1, <3>3 DEF MayShadow
    <3>4. CASE pc[c] = "persist"
      <4>1. req[c].stage = "recorded"
        BY <3>4
      <4>2. /\ req[c].seq \in 1..Len(log) /\ log[req[c].seq].id = req[c].id
            /\ log[req[c].seq].id <= req[c].seq
        BY <1>1, <4>1 DEF Appends, Settled
      <4>3. log[i].attempt = att[c] => log[i].id = req[c].id
        BY <1>1, <2>3, <3>4, <4>1 DEF Fresh, Recording
      <4>4. log[i].id <= seq \/ log[i].attempt = att[c]
        BY <1>8, <2>1, <2>3, <3>4
      <4>5. log[i].id <= seq'
        BY <1>1, <1>2, <2>1, <4>2, <4>3, <4>4
      <4> QED
        BY <2>1, <3>1, <4>5
    <3> QED
      BY <3>2, <3>3, <3>4
  <2> QED
    BY <2>2, <2>3
<1>12. Fresh'
  <2> SUFFICES ASSUME NEW b \in Calls, pc'[b] \in Recording,
                      req'[b].stage \in {"sent", "recorded"},
                      NEW i \in 1..Len(log), NEW d \in Calls, log[i].call = d
               PROVE  /\ log[i].id = req'[b].id =>
                           MayShadow(d)' \/ (d = b /\ log[i].attempt = att[b])
                      /\ pc'[b] = "persist" /\ d = b /\ log[i].attempt = att[b] =>
                           log[i].id = req'[b].id
    BY DEF Fresh
  <2>1. b # c
    BY <1>3
  <2>2. pc[b] \in Recording /\ pc'[b] = pc[b] /\ req'[b] = req[b]
    BY <1>3, <1>7, <2>1
  <2>3. pc[c] = "done"
    BY <1>1, <1>8, <2>1, <2>2 DEF Solo, Recording, Holding
  <2>4. MayShadow(d) => MayShadow(d)'
    BY <1>7, <1>9, <2>3
  <2>5. req[b].stage \in {"sent", "recorded"}
    BY <2>2
  <2>6. /\ log[i].id = req[b].id =>
             MayShadow(d) \/ (d = b /\ log[i].attempt = att[b])
        /\ pc[b] = "persist" /\ d = b /\ log[i].attempt = att[b] =>
             log[i].id = req[b].id
    BY <1>1, <2>2, <2>5 DEF Fresh
  <2> QED
    BY <2>2, <2>4, <2>6
<1>13. ASSUME NEW b \in Calls PROVE IsRecorded(b)'
  <2> SUFFICES ASSUME told'[b] = "success"
               PROVE  \/ \E i \in 1..Len(log) : log[i].call = b /\ log[i].attempt = att[b]
                      \/ \E d \in Calls \ {b} : /\ MayShadow(d)'
                                                /\ \E i \in 1..Len(log) : log[i].call = d
    BY DEF IsRecorded
  <2>1. \A d \in Calls : MayShadow(d) => MayShadow(d)'
    BY <1>7, <1>8, <1>9
  <2>2. CASE told[b] = "success"
    <3>1. \/ \E i \in 1..Len(log) : log[i].call = b /\ log[i].attempt = att[b]
          \/ \E d \in Calls \ {b} : MayShadow(d) /\ \E i \in 1..Len(log) : log[i].call = d
      BY <2>2 DEF OneByOne, IsRecorded
    <3> QED
      BY <2>1, <3>1
  <2>3. CASE told[b] # "success"
    <3>1. b = c /\ pc[c] = "persist" /\ req[c].stage = "recorded"
      BY <1>7, <2>3
    <3> DEFINE n == req[c].seq
    <3>2. n \in 1..Len(log) /\ log[n].id = req[c].id /\ req[c].id >= 1
      BY <1>1, <3>1 DEF Appends
    <3>3. log[n].call \in Calls
      <4>1. log[n].call # NoCall
        BY <1>1, <3>2 DEF Settled
      <4> QED
        BY <3>2, <4>1, LogFacts DEF IInv
    <3>4. MayShadow(log[n].call) \/ (log[n].call = c /\ log[n].attempt = att[c])
      BY <1>1, <3>1, <3>2, <3>3 DEF Fresh, Recording
    <3> HIDE DEF n
    <3>5. CASE log[n].call = c /\ log[n].attempt = att[c]
      BY <3>1, <3>2, <3>5
    <3>6. CASE MayShadow(log[n].call)
      <4>1. log[n].call # c
        BY <1>8, <3>1, <3>6
      <4> QED
        BY <2>1, <3>1, <3>2, <3>3, <3>6, <4>1
    <3> QED
      BY <3>4, <3>5, <3>6
  <2> QED
    BY <2>2, <2>3
<1> QED
  BY <1>4, <1>5, <1>10, <1>11, <1>12, <1>13 DEF OneByOne

\* Nobody waits, so that a call that ends hands its slot to nobody.
LEMMA FinishSolo ==
  ASSUME IInv, Solo, NEW c \in Calls, NEW out, Finish(c, out)
  PROVE  /\ att' = att
         /\ pc' = [pc EXCEPT ![c] = "done"]
         /\ told' = [told EXCEPT ![c] = out]
<1> DEFINE q == queue[GroupOf[c]]
<1>1. q = << >>
  <2> SUFFICES ASSUME q # << >> PROVE FALSE
    OBVIOUS
  <2>1. GroupOf[c] \in Groups
    BY GroupAssumption
  <2>2. q \in Seq(Calls)
    BY <2>1 DEF IInv, TypeOK
  <2>3. 1 \in 1..Len(q) /\ q[1] \in Calls
    BY <2>2
  <2>4. pc[q[1]] = "queued"
    BY <2>1, <2>3 DEF IInv, QueueInv
  <2> QED
    BY <2>3, <2>4 DEF Solo
<1> QED
  BY <1>1 DEF Finish

\* While a call may be made, no other is under way; a slot is free for it.
LEMMA CallAlone ==
  ASSUME IInv, ~Parallel, NEW c \in Calls, MayCall(c)
  PROVE  /\ \A d \in Calls : pc[d] \in {"idle", "done"}
         /\ HasSlot(GroupOf[c])
<1>1. \A d \in Calls : pc[d] \in {"idle", "done"}
  BY DEF MayCall
<1>2. GroupOf[c] \in Groups /\ Limit[GroupOf[c]] \in Nat \ {0}
  BY GroupAssumption
<1>3. Holders(GroupOf[c]) = {}
  BY <1>1 DEF Holders, Holding
<1>4. active[GroupOf[c]] = 0
  BY <1>2, <1>3, FS_EmptySet DEF IInv, SlotsAccounted
<1> QED
  BY <1>1, <1>2, <1>4 DEF HasSlot

\* A step of one call is a move of that call.
LEMMA OneMoves ==
  ASSUME IInv, OneByOne, NEW c \in Calls, Move(c), UNCHANGED <<seq, log>>,
         \A d \in Calls : d # c => Same(d) /\ pc'[d] = pc[d] /\ req'[d] = req[d],
         \/ pc[c] \in Holding
         \/ \A d \in Calls : pc[d] \in {"idle", "done"}
  PROVE  OneByOne'
<1>1. \A d \in Calls : Move(d)
  BY DEF Move
<1>2. /\ pc'[c] # "queued"
      /\ pc[c] # "queued"
  BY DEF Move, OneByOne, Solo, Recording
<1>3. Solo'
  <2>1. \A d \in Calls : pc'[d] # "queued"
    BY <1>2 DEF OneByOne, Solo
  <2>2. \A d \in Calls : pc'[d] \in Holding /\ d # c => pc[d] \in Holding
    OBVIOUS
  <2>3. CASE pc[c] \in Holding
    BY <2>1, <2>2, <2>3 DEF OneByOne, Solo
  <2>4. CASE \A d \in Calls : pc[d] \in {"idle", "done"}
    <3>1. \A d \in Calls : pc'[d] \in Holding => d = c
      BY <2>2, <2>4 DEF Holding
    <3> QED
      BY <2>1, <3>1 DEF Solo
  <2> QED
    BY <2>3, <2>4
<1> QED
  BY <1>1, <1>3, MovesStep

LEMMA StartsStep ==
  ASSUME IInv, OneByOne, ~Parallel, NEW c \in Calls,
         StartRefused(c) \/ StartRun(c) \/ StartWait(c)
  PROVE  OneByOne'
<1>1. /\ MayCall(c) /\ pc[c] = "idle"
      /\ \A d \in Calls : pc[d] \in {"idle", "done"}
      /\ HasSlot(GroupOf[c])
  BY CallAlone DEF StartRefused, StartRun, StartWait, MayCall
<1>2. CASE StartRefused(c)
  <2>1. /\ UNCHANGED <<seq, log, att>>
        /\ pc' = [pc EXCEPT ![c] = "done"]
        /\ told' = [told EXCEPT ![c] = "failed"]
        /\ req' = [req EXCEPT ![c] = NewRequest]
    BY <1>2 DEF StartRefused
  <2>2. Move(c)
    BY <1>1, <2>1 DEF IInv, TypeOK, Move
  <2>3. \A d \in Calls : d # c => Same(d) /\ pc'[d] = pc[d] /\ req'[d] = req[d]
    BY <2>1 DEF IInv, TypeOK, Same
  <2> QED
    BY <1>1, <2>1, <2>2, <2>3, OneMoves
<1>3. CASE StartRun(c)
  <2>1. /\ UNCHANGED <<seq, log, told, req>>
        /\ pc' = [pc EXCEPT ![c] = "running"]
        /\ att' = [att EXCEPT ![c] = @ + 1]
    BY <1>3 DEF StartRun, Launch, ledger
  <2>2. Move(c)
    BY <1>1, <2>1 DEF IInv, TypeOK, Move
  <2>3. \A d \in Calls : d # c => Same(d) /\ pc'[d] = pc[d] /\ req'[d] = req[d]
    BY <2>1 DEF IInv, TypeOK, Same
  <2> QED
    BY <1>1, <2>1, <2>2, <2>3, OneMoves
<1>4. ~StartWait(c)
  BY <1>1 DEF StartWait
<1> QED
  BY <1>2, <1>3, <1>4

\* The steps that send the entry of an attempt, or put its result aside.
LEMMA SendsStep ==
  ASSUME IInv, OneByOne, NEW c \in Calls,
         Return(c) \/ Timeout(c) \/ Throw(c) \/ Store(c) \/ RecordFails(c)
  PROVE  OneByOne'
<1>1. UNCHANGED <<seq, log, att, told>>
  BY DEF Return, Timeout, Throw, Store, RecordFails
<1>2. \/ /\ pc[c] = "running" /\ pc' = [pc EXCEPT ![c] = "storing"]
         /\ UNCHANGED req
      \/ /\ pc[c] \in {"running", "storing"}
         /\ pc' = [pc EXCEPT ![c] = "persist"] \/ pc' = [pc EXCEPT ![c] = "repersist"]
         /\ req' = [req EXCEPT ![c] = NewRequest]
      \/ /\ pc[c] = "persist" /\ pc' = [pc EXCEPT ![c] = "repersist"]
         /\ req' = [req EXCEPT ![c] = NewRequest]
  BY DEF Return, Timeout, Throw, Store, RecordFails
<1>3. /\ pc \in [Calls -> {"idle", "done"} \cup Waiting \cup Holding]
      /\ req \in [Calls -> Request]
  BY DEF IInv, TypeOK
<1>4. Same(c) /\ Move(c) /\ pc[c] \in Holding
  BY <1>1, <1>2, <1>3 DEF Same, Move, Recording, Holding
<1>5. \A d \in Calls : d # c => Same(d) /\ pc'[d] = pc[d] /\ req'[d] = req[d]
  BY <1>1, <1>2, <1>3 DEF Same
<1> QED
  BY <1>1, <1>4, <1>5, OneMoves

LEMMA AgainStep ==
  ASSUME IInv, OneByOne, NEW c \in Calls, TryAgain(c)
  PROVE  OneByOne'
<1>1. /\ UNCHANGED <<seq, log, told, req>> /\ pc[c] = "backoff"
      /\ pc' = [pc EXCEPT ![c] = "running"]
      /\ att' = [att EXCEPT ![c] = @ + 1]
  BY DEF TryAgain, Launch, ledger
<1>2. Move(c) /\ pc[c] \in Holding
  BY <1>1 DEF IInv, TypeOK, Move, Holding
<1>3. \A d \in Calls : d # c => Same(d) /\ pc'[d] = pc[d] /\ req'[d] = req[d]
  BY <1>1 DEF IInv, TypeOK, Same
<1> QED
  BY <1>1, <1>2, <1>3, OneMoves

LEMMA AbortStep ==
  ASSUME IInv, OneByOne, Abort
  PROVE  OneByOne'
<1>1. UNCHANGED <<seq, log, att>>
  BY DEF Abort
<1>2. \A d \in Calls : pc[d] # "queued"
  BY DEF OneByOne, Solo
<1>3. ASSUME NEW d \in Calls, pc[d] \in Listening
      PROVE  pc'[d] = "repersist" /\ req'[d] = NewRequest
  BY <1>3 DEF Abort
<1>4. ASSUME NEW d \in Calls, pc[d] \notin Listening
      PROVE  pc'[d] = pc[d] /\ req'[d] = req[d]
  BY <1>2, <1>4 DEF Abort, Waiting
<1>5. \A d \in Calls : told'[d] = told[d]
  BY <1>2 DEF Abort, Waiting
<1>6. \A d \in Calls : Same(d)
  BY <1>1, <1>5 DEF Same
<1>7. \A d \in Calls : Move(d)
  BY <1>3, <1>4, <1>6 DEF Move, Listening, Recording
<1>8. Solo'
  BY <1>2, <1>3, <1>4 DEF OneByOne, Solo, Listening, Holding
<1> QED
  BY <1>1, <1>7, <1>8, MovesStep

LEMMA AnswersStep ==
  ASSUME IInv, OneByOne, NEW c \in Calls,
         Recorded(c) \/ Rethrow(c) \/ Unawaited(c)
  PROVE  OneByOne'
<1>1. /\ req[c].stage \in {"recorded", "failed"} /\ TakeAnswer(c)
      /\ req' = [req EXCEPT ![c] = NoRequest] /\ UNCHANGED log
  BY DEF Recorded, Rethrow, Unawaited
<1>2. ASSUME NEW out, Finish(c, out)
      PROVE  /\ UNCHANGED att
             /\ pc'[c] = "done" /\ told'[c] = out
             /\ \A d \in Calls : d # c => pc'[d] = pc[d] /\ told'[d] = told[d]
  BY <1>2, FinishSolo DEF IInv, TypeOK, OneByOne
<1>3. CASE Unawaited(c)
  BY <1>1, <1>3, EndStep DEF Unawaited, calls
<1>4. CASE Rethrow(c)
  <2>1. pc[c] = "repersist" /\ Finish(c, "threw")
    BY <1>4 DEF Rethrow
  <2> QED
    BY <1>1, <1>2, <2>1, EndStep
<1>5. CASE Recorded(c)
  <2>1. pc[c] = "persist" /\ req[c].stage = "recorded"
    BY <1>5 DEF Recorded
  <2>2. CASE ShouldRetry(c, entry[c].effect)
    <3>1. UNCHANGED <<att, told>> /\ pc' = [pc EXCEPT ![c] = "backoff"]
      BY <1>5, <2>2 DEF Recorded
    <3>2. /\ pc'[c] = "backoff" /\ told'[c] = told[c]
          /\ \A d \in Calls : d # c => pc'[d] = pc[d] /\ told'[d] = told[d]
      BY <3>1 DEF IInv, TypeOK
    <3> QED
      BY <1>1, <2>1, <3>1, <3>2, EndStep
  <2>3. CASE ~ShouldRetry(c, entry[c].effect)
    <3>1. Finish(c, IF entry[c].code = "success" THEN "success" ELSE "failed")
      BY <1>5, <2>3 DEF Recorded
    <3>2. PICK out \in {"success", "failed"} : Finish(c, out)
      BY <3>1
    <3> QED
      BY <1>1, <1>2, <2>1, <3>2, EndStep
  <2> QED
    BY <2>2, <2>3
<1> QED
  BY <1>3, <1>4, <1>5

\* What is exposed does not change during a run.
LEMMA SameExposed ==
  ASSUME [Next]_vars
  PROVE  exposed' = exposed
<1>1. ASSUME NEW c \in Calls, ExecutorStep(c) PROVE exposed' = exposed
  BY <1>1 DEF ExecutorStep, Return, Timeout, Throw, Store, Recorded, RecordFails,
              Rethrow, TryAgain, Unawaited
<1>2. ASSUME NEW c \in Calls, AppendStep(c) PROVE exposed' = exposed
  BY <1>2 DEF AppendStep, AppendNew, AppendDuplicate, AppendFails
<1>3. ASSUME NEW c \in Calls, StartRefused(c) \/ StartRun(c) \/ StartWait(c)
      PROVE  exposed' = exposed
  BY <1>3 DEF StartRefused, StartRun, StartWait
<1>4. ASSUME NEW c \in Calls, NEW a \in Attempts, Act(c, a) PROVE exposed' = exposed
  BY <1>4 DEF Act
<1>5. CASE Abort \/ OtherAppend
  BY <1>5 DEF Abort, OtherAppend
<1>6. CASE UNCHANGED vars
  BY <1>6 DEF vars
<1> QED
  BY <1>1, <1>2, <1>3, <1>4, <1>5, <1>6 DEF Next

LEMMA LedgerStep ==
  ASSUME IInv, LedgerInv, [Next]_vars
  PROVE  LedgerInv'
<1> SUFFICES ASSUME ~Parallel PROVE OneByOne'
  BY SameExposed DEF LedgerInv, Parallel
<1>1. OneByOne
  BY DEF LedgerInv
<1>2. CASE Abort
  BY <1>1, <1>2, AbortStep
<1>3. CASE OtherAppend
  BY <1>1, <1>3, OtherStep
<1>4. ASSUME NEW c \in Calls, StartRefused(c) \/ StartRun(c) \/ StartWait(c)
      PROVE  OneByOne'
  BY <1>1, <1>4, StartsStep
<1>5. ASSUME NEW c \in Calls, ExecutorStep(c)
      PROVE  OneByOne'
  BY <1>1, <1>5, SendsStep, AgainStep, AnswersStep DEF ExecutorStep
<1>6. ASSUME NEW c \in Calls, AppendStep(c)
      PROVE  OneByOne'
  BY <1>1, <1>6, NewStep, DuplicateStep, FailsStep DEF AppendStep
<1>7. ASSUME UNCHANGED <<pc, att, told, seq, log, req>>
      PROVE  OneByOne'
  BY <1>1, <1>7, SameCalls DEF OneByOne, Appends, Fresh, MayShadow
<1>8. ASSUME NEW c \in Calls, NEW a \in Attempts, Act(c, a)
      PROVE  OneByOne'
  BY <1>7, <1>8 DEF Act, calls, ledger
<1>9. CASE UNCHANGED vars
  BY <1>7, <1>9 DEF vars, calls, ledger
<1> QED
  BY <1>2, <1>3, <1>4, <1>5, <1>6, <1>8, <1>9 DEF Next

LEMMA LedgerInit == Init => LedgerInv
<1> SUFFICES ASSUME Init PROVE OneByOne
  BY DEF LedgerInv
<1>1. /\ log = << >> /\ seq = 0 /\ Len(log) = 0
      /\ \A c \in Calls : pc[c] = "idle" /\ told[c] = "nothing" /\ req[c].stage = "none"
  BY DEF Init, NoRequest
<1>2. Solo /\ Untold
  BY <1>1 DEF Solo, Untold, Holding
<1>3. Appends /\ Settled /\ Fresh
  BY <1>1 DEF Appends, Settled, Fresh
<1>4. \A c \in Calls : IsRecorded(c)
  BY <1>1 DEF IsRecorded
<1> QED
  BY <1>2, <1>3, <1>4 DEF OneByOne

\* While tools are called one after the other, a result that was returned is
\* in the ledger, or its entry was taken for that of a call that was refused
\* or threw: for any number of attempts, appends that fail and other writers.
THEOREM ResultsRecorded == Spec => []ReturnedIsRecorded
<1>1. Init => IInv /\ LedgerInv
  BY InitInv, LedgerInit
<1>2. IInv /\ LedgerInv /\ [Next]_vars => IInv' /\ LedgerInv'
  BY NextInv, LedgerStep
<1>3. IInv /\ LedgerInv => ReturnedIsRecorded
  <2> SUFFICES ASSUME IInv, OneByOne, NEW c \in Calls, told[c] = "success"
               PROVE  \/ att[c] \in LoggedAttempts(c)
                      \/ \E d \in Calls \ {c} : LoggedAttempts(d) # {} /\ MayShadow(d)
    BY DEF ReturnedIsRecorded, LedgerInv
  <2>1. DOMAIN log = 1..Len(log)
    BY LogFacts DEF IInv
  <2>2. CASE \E i \in 1..Len(log) : log[i].call = c /\ log[i].attempt = att[c]
    BY <2>1, <2>2 DEF LoggedAttempts
  <2>3. CASE \E d \in Calls \ {c} : MayShadow(d) /\ \E i \in 1..Len(log) : log[i].call = d
    <3>1. PICK d \in Calls \ {c} : MayShadow(d) /\ \E i \in 1..Len(log) : log[i].call = d
      BY <2>3
    <3>2. LoggedAttempts(d) # {}
      BY <2>1, <3>1 DEF LoggedAttempts
    <3> QED
      BY <3>1, <3>2
  <2> QED
    BY <2>2, <2>3 DEF OneByOne, IsRecorded
<1> QED
  BY <1>1, <1>2, <1>3, PTL DEF Spec
=============================================================================
