-------------------------- MODULE ToolExecutorProofs --------------------------
(***************************************************************************)
(* Proofs about ToolExecutor: its types, the accounting of the slots, that *)
(* a write acts at most once and that the ledger stays true, for any       *)
(* calls, groups, limits and numbers of attempts.                          *)
(*                                                                         *)
(* The argument: the queue of a group holds exactly calls that wait, each  *)
(* once (QueueInv), so that a slot handed over moves from one holder to    *)
(* one that held none (SlotsAccounted).  A write that comes to a further   *)
(* attempt was refused in the one before: what may have acted is recorded  *)
(* as unknown, or its error is thrown (WriteInv).                          *)
(***************************************************************************)
EXTENDS ToolExecutor, FiniteSetTheorems, SequenceTheorems, TLAPS

QueueInv ==
  \A g \in Groups :
    /\ \A i \in 1..Len(queue[g]) :
         pc[queue[g][i]] = "queued" /\ GroupOf[queue[g][i]] = g
    /\ \A i, j \in 1..Len(queue[g]) : i # j => queue[g][i] # queue[g][j]

AttInv ==
  \A c \in Calls :
    /\ pc[c] \in {"idle", "queued"} => att[c] = 0
    /\ pc[c] \in {"idle", "queued", "done", "running"} => entry[c] = NoEntry
    /\ pc[c] \in Holding => att[c] >= 1
    /\ pc[c] = "backoff" => att[c] < MaxAttempts[c]
    /\ pc[c] = "storing" => entry[c].code = "success"

WriteInv ==
  \A c \in Writes :
    /\ \A a \in Attempts :
         /\ a < att[c] => raw[c][a] = "refused"
         /\ a > att[c] => raw[c][a] = "none"
    /\ pc[c] = "backoff" => raw[c][att[c]] = "refused"
    /\ pc[c] = "persist" =>
         \/ entry[c].code = "success"
         \/ entry[c].effect = "unknown"
         \/ raw[c][att[c]] = "refused"
    /\ entry[c].effect = "none" => att[c] >= 1 /\ raw[c][att[c]] = "refused"
    /\ entry[c].effect = "done" => att[c] >= 1 /\ raw[c][att[c]] = "acted"

\* What the ledger says of one entry, given the requests to the tools.
EntryTrue(r, e) ==
  e.call \in Writes =>
    /\ e.effect = "none" => e.attempt \in Attempts /\ r[e.call][e.attempt] = "refused"
    /\ e.effect = "done" => e.attempt \in Attempts /\ r[e.call][e.attempt] = "acted"

LogInv == \A i \in 1..Len(log) : EntryTrue(raw, log[i])

IInv == TypeOK /\ QueueInv /\ SlotsAccounted /\ AttInv /\ WriteInv /\ LogInv

-----------------------------------------------------------------------------
(* Facts about the constants and about sets of holders. *)

LEMMA AttemptsFacts ==
  /\ Attempts \subseteq Nat
  /\ \A c \in Calls : \A n \in Nat : n >= 1 /\ n <= MaxAttempts[c] => n \in Attempts
  /\ \A a \in Attempts : a >= 1
<1>1. \A c \in Calls : MaxAttempts[c] \in Nat
  BY AttemptsAssumption
<1>2. \A c \in Calls : \A n \in 1..MaxAttempts[c] : n \in Attempts
  BY DEF Attempts
<1>3. \A a \in Attempts : \E c \in Calls : a \in 1..MaxAttempts[c]
  BY DEF Attempts
<1> QED
  BY <1>1, <1>2, <1>3

LEMMA HoldersFinite == \A g \in Groups : IsFiniteSet(Holders(g)) /\ Cardinality(Holders(g)) \in Nat
<1> SUFFICES ASSUME NEW g \in Groups
             PROVE  IsFiniteSet(Holders(g)) /\ Cardinality(Holders(g)) \in Nat
  OBVIOUS
<1>1. Holders(g) \in SUBSET Calls
  BY DEF Holders
<1> QED
  BY <1>1, CallsAssumption, FS_Subset, FS_CardinalityType

\* A step that moves no slot and adds no waiter.
LEMMA SameHolders ==
  ASSUME SlotsAccounted, active' = active,
         \A g \in Groups : queue'[g] # << >> => queue[g] # << >>,
         \A c \in Calls : pc'[c] \in Holding <=> pc[c] \in Holding
  PROVE  SlotsAccounted'
<1>1. \A g \in Groups : Holders(g)' = Holders(g)
  BY DEF Holders
<1> QED
  BY <1>1 DEF SlotsAccounted

-----------------------------------------------------------------------------
LEMMA InitInv == Init => IInv
<1> SUFFICES ASSUME Init PROVE IInv
  OBVIOUS
<1> USE DEF Init
<1>1. TypeOK
  <2>1. \A g \in Groups : queue[g] \in Seq(Calls)
    OBVIOUS
  <2>2. /\ log \in Seq(LedgerEntry)
        /\ queue \in [Groups -> Seq(Calls)]
    OBVIOUS
  <2>3. exposed \in SUBSET Calls /\ aborted \in BOOLEAN /\ active \in [Groups -> Nat]
    BY ExposuresAssumption
  <2>4. pc \in [Calls -> {"idle", "done"} \cup Waiting \cup Holding]
    OBVIOUS
  <2>5. att \in [Calls -> Nat] /\ \A c \in Calls : att[c] <= MaxAttempts[c]
    BY AttemptsAssumption
  <2>6. entry \in [Calls -> [code : Code, effect : Effect]]
    BY DEF NoEntry, Code, Effect
  <2>7. told \in [Calls -> {"nothing", "success", "failed", "threw"}]
    OBVIOUS
  <2>8. raw \in [Calls -> [Attempts -> {"none", "sent", "acted", "refused"}]]
    OBVIOUS
  <2>9. req \in [Calls -> Request] /\ seq \in Nat /\ version \in Nat
    BY DEF NoRequest, Request
  <2> QED
    BY <2>2, <2>3, <2>4, <2>5, <2>6, <2>7, <2>8, <2>9 DEF TypeOK
<1>2. QueueInv
  BY DEF QueueInv
<1>3. SlotsAccounted
  <2> SUFFICES ASSUME NEW g \in Groups
               PROVE  /\ active[g] = Cardinality(Holders(g))
                      /\ active[g] <= Limit[g]
                      /\ queue[g] # << >> => active[g] = Limit[g]
    BY DEF SlotsAccounted
  <2>1. Holders(g) = {}
    BY DEF Holders, Holding
  <2> QED
    BY <2>1, FS_EmptySet, GroupAssumption
<1>4. AttInv
  BY DEF AttInv, Holding
<1>5. WriteInv
  BY CallsAssumption, AttemptsFacts DEF WriteInv, NoEntry
<1>6. LogInv
  BY DEF LogInv
<1> QED
  BY <1>1, <1>2, <1>3, <1>4, <1>5, <1>6 DEF IInv

-----------------------------------------------------------------------------
(* Steps that leave the calls and the slots alone. *)

\* What does not read the ledger's variables is preserved by a step that
\* changes only these.
LEMMA LedgerOnly ==
  ASSUME IInv, UNCHANGED <<exposed, aborted, slots, calls, raw>>
  PROVE  QueueInv' /\ SlotsAccounted' /\ AttInv' /\ WriteInv'
<1>1. QueueInv'
  BY DEF IInv, QueueInv, slots, calls
<1>2. SlotsAccounted'
  BY SameHolders DEF IInv, slots, calls
<1>3. AttInv'
  BY DEF IInv, AttInv, calls
<1>4. WriteInv'
  BY DEF IInv, WriteInv, calls
<1> QED
  BY <1>1, <1>2, <1>3, <1>4

\* An answer changes the request and what runState knows.
LEMMA AnswerTypes ==
  ASSUME TypeOK, NEW c \in Calls, TakeAnswer(c)
  PROVE  seq' \in Nat /\ version' \in Nat
<1>1. req[c] \in Request
  BY DEF TypeOK
<1> QED
  BY <1>1 DEF TypeOK, TakeAnswer, Request

LEMMA NewRequestType ==
  ASSUME TypeOK
  PROVE  NewRequest \in Request
  BY DEF TypeOK, NewRequest, Request

\* The log grows by an entry that is true.
LEMMA LogGrows ==
  ASSUME LogInv, raw' = raw, log \in Seq(LedgerEntry), NEW e \in LedgerEntry, EntryTrue(raw, e),
         Len(log') = Len(log) + 1, \A i \in 1..Len(log) : log'[i] = log[i],
         log'[Len(log) + 1] = e
  PROVE  LogInv'
<1> SUFFICES ASSUME NEW i \in 1..Len(log') PROVE EntryTrue(raw', log'[i])
  BY DEF LogInv
<1>1. Len(log) \in Nat
  OBVIOUS
<1>2. CASE i \in 1..Len(log)
  <2>1. EntryTrue(raw, log[i])
    BY <1>2 DEF LogInv
  <2> QED
    BY <1>2, <2>1 DEF EntryTrue
<1>3. CASE i = Len(log) + 1
  BY <1>3 DEF EntryTrue
<1> QED
  BY <1>1, <1>2, <1>3

LEMMA AppendNewInv ==
  ASSUME IInv, NEW c \in Calls, AppendNew(c)
  PROVE  IInv'
<1> DEFINE e == [id |-> req[c].id, call |-> c, attempt |-> att[c], effect |-> entry[c].effect]
<1>1. TypeOK
  BY DEF IInv
<1>2. log \in Seq(LedgerEntry) /\ Len(log) \in Nat
  BY <1>1 DEF TypeOK
<1>3. e \in LedgerEntry
  BY <1>1 DEF TypeOK, LedgerEntry, Request
<1>4. /\ log' = Append(log, e)
      /\ UNCHANGED <<exposed, aborted, slots, calls, raw, seq, version>>
  BY DEF AppendNew
<1>5. req' \in [Calls -> Request]
  BY <1>1, <1>2 DEF TypeOK, AppendNew, Answered, Request
<1> HIDE DEF e
<1>6. /\ log' \in Seq(LedgerEntry)
      /\ Len(log') = Len(log) + 1
      /\ \A i \in 1..Len(log) : log'[i] = log[i]
      /\ log'[Len(log) + 1] = e
  BY <1>2, <1>3, <1>4
<1>7. TypeOK'
  BY <1>1, <1>4, <1>5, <1>6 DEF TypeOK, slots, calls
<1>8. EntryTrue(raw, e)
  <2>1. att[c] \in Nat /\ att[c] <= MaxAttempts[c]
    BY <1>1 DEF TypeOK
  <2> QED
    BY <2>1, AttemptsFacts DEF e, EntryTrue, IInv, WriteInv
<1>9. LogInv'
  BY <1>2, <1>4, <1>6, <1>8, LogGrows DEF IInv
<1> QED
  BY <1>4, <1>7, <1>9, LedgerOnly DEF IInv

LEMMA AppendDuplicateInv ==
  ASSUME IInv, NEW c \in Calls, AppendDuplicate(c)
  PROVE  IInv'
<1>1. TypeOK
  BY DEF IInv
<1>2. Len(log) \in Nat /\ DOMAIN log = 1..Len(log)
  BY <1>1 DEF TypeOK
<1>3. PICK i \in DOMAIN log : req' = [req EXCEPT ![c] = Answered(c, Len(log), i)]
  BY DEF AppendDuplicate
<1>4. UNCHANGED <<exposed, aborted, slots, calls, raw, seq, version, log>>
  BY DEF AppendDuplicate
<1>5. req' \in [Calls -> Request]
  BY <1>1, <1>2, <1>3 DEF TypeOK, Answered, Request
<1>6. TypeOK'
  BY <1>1, <1>4, <1>5 DEF TypeOK, slots, calls
<1>7. LogInv'
  BY <1>4 DEF IInv, LogInv, EntryTrue
<1> QED
  BY <1>4, <1>6, <1>7, LedgerOnly DEF IInv

LEMMA AppendFailsInv ==
  ASSUME IInv, NEW c \in Calls, AppendFails(c)
  PROVE  IInv'
<1>1. TypeOK
  BY DEF IInv
<1>2. UNCHANGED <<exposed, aborted, slots, calls, raw, seq, version, log>>
  BY DEF AppendFails
<1>3. req' \in [Calls -> Request]
  BY <1>1 DEF TypeOK, AppendFails, NoRequest, Request
<1>4. TypeOK'
  BY <1>1, <1>2, <1>3 DEF TypeOK, slots, calls
<1>5. LogInv'
  BY <1>2 DEF IInv, LogInv, EntryTrue
<1> QED
  BY <1>2, <1>4, <1>5, LedgerOnly DEF IInv

LEMMA OtherAppendInv ==
  ASSUME IInv, OtherAppend
  PROVE  IInv'
<1> DEFINE e == [id |-> 0, call |-> NoCall, attempt |-> 0, effect |-> "unset"]
<1>1. TypeOK
  BY DEF IInv
<1>2. log \in Seq(LedgerEntry) /\ Len(log) \in Nat
  BY <1>1 DEF TypeOK
<1>3. e \in LedgerEntry
  BY DEF LedgerEntry, Effect
<1>4. /\ log' = Append(log, e)
      /\ UNCHANGED <<exposed, aborted, slots, calls, raw, req, seq, version>>
  BY DEF OtherAppend
<1>5. e.call \notin Writes
  BY CallsAssumption
<1> HIDE DEF e
<1>6. /\ log' \in Seq(LedgerEntry)
      /\ Len(log') = Len(log) + 1
      /\ \A i \in 1..Len(log) : log'[i] = log[i]
      /\ log'[Len(log) + 1] = e
  BY <1>2, <1>3, <1>4
<1>7. TypeOK'
  BY <1>1, <1>4, <1>6 DEF TypeOK, slots, calls
<1>8. EntryTrue(raw, e)
  BY <1>5 DEF EntryTrue
<1>9. LogInv'
  BY <1>2, <1>4, <1>6, <1>8, LogGrows DEF IInv
<1> QED
  BY <1>4, <1>7, <1>9, LedgerOnly DEF IInv

LEMMA UnawaitedInv ==
  ASSUME IInv, NEW c \in Calls, Unawaited(c)
  PROVE  IInv'
<1>1. TypeOK
  BY DEF IInv
<1>2. UNCHANGED <<exposed, aborted, slots, calls, raw, log>>
  BY DEF Unawaited
<1>3. req' \in [Calls -> Request]
  BY <1>1 DEF TypeOK, Unawaited, NoRequest, Request
<1>4. seq' \in Nat /\ version' \in Nat
  BY <1>1, AnswerTypes DEF Unawaited
<1>5. TypeOK'
  BY <1>1, <1>2, <1>3, <1>4 DEF TypeOK, slots, calls
<1>6. LogInv'
  BY <1>2 DEF IInv, LogInv, EntryTrue
<1> QED
  BY <1>2, <1>5, <1>6, LedgerOnly DEF IInv

-----------------------------------------------------------------------------
(* Steps of one call. *)

\* A step that keeps the queue, lets no call start or stop waiting, and moves
\* no slot.
LEMMA QuietStep ==
  ASSUME IInv, UNCHANGED <<active, queue>>,
         \A c \in Calls : pc'[c] = "queued" <=> pc[c] = "queued",
         \A c \in Calls : pc'[c] \in Holding <=> pc[c] \in Holding
  PROVE  QueueInv' /\ SlotsAccounted'
<1>1. SlotsAccounted'
  BY SameHolders DEF IInv
<1>2. \A g \in Groups : \A i \in 1..Len(queue[g]) : queue[g][i] \in Calls
  BY DEF IInv, TypeOK
<1>3. QueueInv'
  BY <1>2 DEF IInv, QueueInv
<1> QED
  BY <1>1, <1>3

LEMMA StartRefusedInv ==
  ASSUME IInv, NEW c \in Calls, StartRefused(c)
  PROVE  IInv'
<1> USE DEF StartRefused, MayCall
<1>1. TypeOK /\ c \in Calls /\ pc[c] = "idle"
  BY DEF IInv
<1>2. UNCHANGED <<exposed, aborted, active, queue, att, entry, raw, seq, version, log>>
  BY DEF slots
<1>3. TypeOK'
  BY <1>1, <1>2, NewRequestType DEF TypeOK
<1>4. /\ \A d \in Calls : pc'[d] = IF d = c THEN "done" ELSE pc[d]
  BY <1>1 DEF TypeOK
<1>5. QueueInv' /\ SlotsAccounted'
  BY <1>1, <1>2, <1>4, QuietStep DEF Holding
<1>6. AttInv'
  BY <1>1, <1>2, <1>4 DEF IInv, AttInv, Holding
<1>7. WriteInv'
  BY <1>1, <1>2, <1>4, CallsAssumption DEF IInv, WriteInv
<1>8. LogInv'
  BY <1>2 DEF IInv, LogInv, EntryTrue
<1> QED
  BY <1>3, <1>5, <1>6, <1>7, <1>8 DEF IInv

\* A step in which the entry of a call is written or sent.
LEMMA EntryStep ==
  ASSUME IInv, NEW c \in Calls, NEW e \in [code : Code, effect : Effect],
         NEW p \in {"storing", "persist", "repersist"},
         pc[c] \in {"running", "storing", "persist"},
         entry' = [entry EXCEPT ![c] = e],
         p = "storing" => e.code = "success",
         pc' = [pc EXCEPT ![c] = p],
         req' \in [Calls -> Request],
         raw' \in [Calls -> [Attempts -> {"none", "sent", "acted", "refused"}]],
         \A d \in Calls, a \in Attempts :
            raw'[d][a] = raw[d][a] \/ (d = c /\ a = att[c] /\ raw[d][a] = "sent"),
         UNCHANGED <<exposed, aborted, slots, att, told, seq, version, log>>,
         c \in Writes =>
           /\ p = "persist" => \/ e.code = "success"
                               \/ e.effect = "unknown"
                               \/ raw'[c][att[c]] = "refused"
           /\ e.effect = "none" => raw'[c][att[c]] = "refused"
           /\ e.effect = "done" => raw'[c][att[c]] = "acted"
  PROVE  IInv'
<1>1. TypeOK
  BY DEF IInv
<1>2. TypeOK'
  BY <1>1 DEF TypeOK, slots, Holding
<1>3. \A d \in Calls : pc'[d] = IF d = c THEN p ELSE pc[d]
  BY <1>1 DEF TypeOK
<1>4. \A d \in Calls : entry'[d] = IF d = c THEN e ELSE entry[d]
  BY <1>1 DEF TypeOK
<1>5. QueueInv' /\ SlotsAccounted'
  BY <1>3, QuietStep DEF Holding, slots
<1>6. AttInv'
  <2> SUFFICES ASSUME NEW d \in Calls
               PROVE  /\ pc'[d] \in {"idle", "queued"} => att[d] = 0
                      /\ pc'[d] \in {"idle", "queued", "done", "running"} => entry'[d] = NoEntry
                      /\ pc'[d] \in Holding => att[d] >= 1
                      /\ pc'[d] = "backoff" => att[d] < MaxAttempts[d]
                      /\ pc'[d] = "storing" => entry'[d].code = "success"
    BY DEF AttInv
  <2> QED
    BY <1>3, <1>4 DEF IInv, AttInv, Holding
<1>7. att[c] >= 1 /\ att[c] \in Nat
  BY <1>1 DEF IInv, AttInv, Holding, TypeOK
<1>8. WriteInv'
  <2> SUFFICES ASSUME NEW d \in Writes
               PROVE  /\ \A a \in Attempts :
                           /\ a < att[d] => raw'[d][a] = "refused"
                           /\ a > att[d] => raw'[d][a] = "none"
                      /\ pc'[d] = "backoff" => raw'[d][att[d]] = "refused"
                      /\ pc'[d] = "persist" =>
                           \/ entry'[d].code = "success"
                           \/ entry'[d].effect = "unknown"
                           \/ raw'[d][att[d]] = "refused"
                      /\ entry'[d].effect = "none" => att[d] >= 1 /\ raw'[d][att[d]] = "refused"
                      /\ entry'[d].effect = "done" => att[d] >= 1 /\ raw'[d][att[d]] = "acted"
    BY DEF WriteInv
  <2>1. d \in Calls /\ att[d] \in Nat /\ att[d] <= MaxAttempts[d]
    BY <1>1, CallsAssumption DEF TypeOK
  <2>2. CASE d = c
    BY <1>3, <1>4, <1>7, <2>1, <2>2 DEF IInv, WriteInv
  <2>3. CASE d # c
    <3>1. \A a \in Attempts : raw'[d][a] = raw[d][a]
      BY <2>1, <2>3
    <3>2. pc'[d] = pc[d] /\ entry'[d] = entry[d]
      BY <1>3, <1>4, <2>1, <2>3
    <3>3. att[d] >= 1 => att[d] \in Attempts
      BY <2>1, AttemptsFacts
    <3>4. pc[d] \in {"backoff", "persist"} => att[d] >= 1
      BY <2>1 DEF IInv, AttInv, Holding
    <3> QED
      BY <3>1, <3>2, <3>3, <3>4 DEF IInv, WriteInv
  <2> QED
    BY <2>2, <2>3
<1>9. LogInv'
  <2> SUFFICES ASSUME NEW i \in 1..Len(log), EntryTrue(raw, log[i])
               PROVE  EntryTrue(raw', log[i])
    BY DEF LogInv, IInv
  <2> QED
    BY CallsAssumption DEF EntryTrue
<1> QED
  BY <1>2, <1>5, <1>6, <1>8, <1>9 DEF IInv

\* The append that a step sends has its type.
LEMMA SentType ==
  ASSUME TypeOK, NEW c \in Calls, req' = [req EXCEPT ![c] = NewRequest]
  PROVE  req' \in [Calls -> Request]
  BY NewRequestType DEF TypeOK

LEMMA ReturnInv ==
  ASSUME IInv, NEW c \in Calls, Return(c)
  PROVE  IInv'
<1> USE DEF Return
<1>1. TypeOK /\ pc[c] = "running"
  BY DEF IInv
<1>2. UNCHANGED <<exposed, aborted, slots, att, told, seq, version, log>>
  OBVIOUS
<1>3. CASE raw[c][att[c]] = "acted" /\ UNCHANGED raw
  <2> DEFINE e == [code |-> "success", effect |-> IF c \in Writes THEN "done" ELSE "none"]
  <2>1. entry' = [entry EXCEPT ![c] = e] /\ e \in [code : Code, effect : Effect]
    BY <1>3 DEF Code, Effect
  <2>2. raw' \in [Calls -> [Attempts -> {"none", "sent", "acted", "refused"}]]
    BY <1>1, <1>3 DEF TypeOK
  <2>3. CASE pc' = [pc EXCEPT ![c] = "storing"] /\ UNCHANGED req
    <3>1. req' \in [Calls -> Request]
      BY <1>1, <2>3 DEF TypeOK
    <3> QED
      BY <1>1, <1>2, <1>3, <2>1, <2>2, <2>3, <3>1, EntryStep
  <2>4. CASE pc' = [pc EXCEPT ![c] = "persist"] /\ req' = [req EXCEPT ![c] = NewRequest]
    <3>1. req' \in [Calls -> Request]
      BY <1>1, <2>4, SentType
    <3> QED
      BY <1>1, <1>2, <1>3, <2>1, <2>2, <2>4, <3>1, EntryStep
  <2> QED
    BY <1>3, <2>3, <2>4
<1>4. CASE /\ raw[c][att[c]] = "sent"
           /\ raw' = [raw EXCEPT ![c][att[c]] = "refused"]
           /\ \E code \in {"transient", "fatal"} :
                entry' = [entry EXCEPT ![c] = [code |-> code, effect |-> "none"]]
           /\ pc' = [pc EXCEPT ![c] = "persist"]
           /\ req' = [req EXCEPT ![c] = NewRequest]
  <2>1. PICK code \in {"transient", "fatal"} :
          entry' = [entry EXCEPT ![c] = [code |-> code, effect |-> "none"]]
    BY <1>4
  <2>2. att[c] \in Attempts
    BY <1>1, AttemptsFacts DEF IInv, AttInv, TypeOK, Holding
  <2>3. raw' \in [Calls -> [Attempts -> {"none", "sent", "acted", "refused"}]]
    BY <1>1, <1>4 DEF TypeOK
  <2>4. /\ raw'[c][att[c]] = "refused"
        /\ \A d \in Calls, a \in Attempts :
             raw'[d][a] = raw[d][a] \/ (d = c /\ a = att[c] /\ raw[d][a] = "sent")
    BY <1>1, <1>4, <2>2 DEF TypeOK
  <2>5. [code |-> code, effect |-> "none"] \in [code : Code, effect : Effect]
    BY DEF Code, Effect
  <2>6. req' \in [Calls -> Request]
    BY <1>1, <1>4, SentType
  <2> QED
    BY <1>1, <1>2, <1>4, <2>1, <2>3, <2>4, <2>5, <2>6, EntryStep
<1> QED
  BY <1>3, <1>4

LEMMA TimeoutInv ==
  ASSUME IInv, NEW c \in Calls, Timeout(c)
  PROVE  IInv'
<1> DEFINE e == [code |-> "timeout", effect |-> TimeoutEffect(c)]
<1>1. TypeOK /\ pc[c] = "running"
  BY DEF IInv, Timeout
<1>2. e \in [code : Code, effect : Effect]
  BY DEF Code, Effect, TimeoutEffect
<1>3. req' \in [Calls -> Request]
  BY <1>1, SentType DEF Timeout
<1>4. raw' \in [Calls -> [Attempts -> {"none", "sent", "acted", "refused"}]] /\ raw' = raw
  BY <1>1 DEF TypeOK, Timeout
<1>5. c \in Writes => e.effect = "unknown"
  BY DEF TimeoutEffect
<1>6. /\ entry' = [entry EXCEPT ![c] = e]
      /\ pc' = [pc EXCEPT ![c] = "persist"]
      /\ UNCHANGED <<exposed, aborted, slots, att, told, seq, version, log>>
  BY DEF Timeout
<1> HIDE DEF e
<1> QED
  BY <1>1, <1>2, <1>3, <1>4, <1>5, <1>6, EntryStep

LEMMA ThrowInv ==
  ASSUME IInv, NEW c \in Calls, Throw(c)
  PROVE  IInv'
<1>1. TypeOK /\ pc[c] = "running"
  BY DEF IInv, Throw
<1>2. PICK code \in {"transient", "fatal"} :
        entry' = [entry EXCEPT ![c] = [code |-> code, effect |-> "unset"]]
  BY DEF Throw
<1>3. req' \in [Calls -> Request]
  BY <1>1, SentType DEF Throw
<1>4. raw' \in [Calls -> [Attempts -> {"none", "sent", "acted", "refused"}]] /\ raw' = raw
  BY <1>1 DEF TypeOK, Throw
<1>5. [code |-> code, effect |-> "unset"] \in [code : Code, effect : Effect]
  BY DEF Code, Effect
<1>6. /\ pc' = [pc EXCEPT ![c] = "repersist"]
      /\ UNCHANGED <<exposed, aborted, slots, att, told, seq, version, log>>
  BY DEF Throw
<1> QED
  BY <1>1, <1>2, <1>3, <1>4, <1>5, <1>6, EntryStep

\* An entry that keeps its effect says of the tool what it said before.
LEMMA SameEffect ==
  ASSUME IInv, NEW c \in Calls, NEW p \in {"persist", "repersist"},
         pc[c] \in {"storing", "persist"}, pc' = [pc EXCEPT ![c] = p],
         NEW code \in Code, entry' = [entry EXCEPT ![c].code = code],
         p = "persist" => code = "success",
         req' = [req EXCEPT ![c] = NewRequest],
         UNCHANGED <<exposed, aborted, slots, att, told, raw, seq, version, log>>
  PROVE  IInv'
<1> DEFINE e == [code |-> code, effect |-> entry[c].effect]
<1>1. TypeOK
  BY DEF IInv
<1>2. e \in [code : Code, effect : Effect] /\ entry' = [entry EXCEPT ![c] = e]
  <2>1. entry[c] \in [code : Code, effect : Effect]
    BY <1>1 DEF TypeOK
  <2>2. [entry[c] EXCEPT !.code = code] = e
    BY <2>1
  <2> QED
    BY <2>1, <2>2
<1>3. req' \in [Calls -> Request]
  BY <1>1, SentType
<1>4. raw' \in [Calls -> [Attempts -> {"none", "sent", "acted", "refused"}]] /\ raw' = raw
  BY <1>1 DEF TypeOK
<1>5. c \in Writes =>
        /\ p = "persist" => e.code = "success"
        /\ e.effect = "none" => raw'[c][att[c]] = "refused"
        /\ e.effect = "done" => raw'[c][att[c]] = "acted"
  BY <1>4 DEF IInv, WriteInv
<1> HIDE DEF e
<1> QED
  BY <1>1, <1>2, <1>3, <1>4, <1>5, EntryStep

LEMMA StoreInv ==
  ASSUME IInv, NEW c \in Calls, Store(c)
  PROVE  IInv'
<1>1. TypeOK /\ pc[c] = "storing"
  BY DEF IInv, Store
<1>2. CASE pc' = [pc EXCEPT ![c] = "persist"] /\ UNCHANGED entry
  <2>1. entry[c].code = "success"
    BY <1>1 DEF IInv, AttInv
  <2>2. entry' = [entry EXCEPT ![c].code = "success"]
    BY <1>1, <1>2, <2>1 DEF TypeOK
  <2> QED
    BY <1>1, <1>2, <2>2, SameEffect DEF Store, Code
<1>3. CASE /\ pc' = [pc EXCEPT ![c] = "repersist"]
           /\ \E code \in {"transient", "fatal"} : entry' = [entry EXCEPT ![c].code = code]
  <2>1. PICK code \in {"transient", "fatal"} : entry' = [entry EXCEPT ![c].code = code]
    BY <1>3
  <2> QED
    BY <1>1, <1>3, <2>1, SameEffect DEF Store, Code
<1> QED
  BY <1>2, <1>3 DEF Store

LEMMA RecordFailsInv ==
  ASSUME IInv, NEW c \in Calls, RecordFails(c)
  PROVE  IInv'
<1>1. PICK code \in {"transient", "fatal"} : entry' = [entry EXCEPT ![c].code = code]
  BY DEF RecordFails
<1> QED
  BY <1>1, SameEffect DEF RecordFails, Code

LEMMA ActInv ==
  ASSUME IInv, NEW c \in Calls, NEW a \in Attempts, Act(c, a)
  PROVE  IInv'
<1>1. TypeOK /\ raw[c][a] = "sent"
  BY DEF IInv, Act
<1>2. UNCHANGED <<exposed, aborted, active, queue, pc, att, entry, told, ledger>>
  BY DEF Act, slots, calls
<1>3. \A d \in Calls, b \in Attempts :
        raw'[d][b] = IF d = c /\ b = a THEN "acted" ELSE raw[d][b]
  BY <1>1 DEF TypeOK, Act
<1>4. TypeOK'
  BY <1>1, <1>2 DEF TypeOK, Act, ledger
<1>5. QueueInv' /\ SlotsAccounted'
  BY <1>2, QuietStep
<1>6. AttInv'
  BY <1>2 DEF IInv, AttInv
<1>7. WriteInv'
  <2> SUFFICES ASSUME NEW d \in Writes
               PROVE  /\ \A b \in Attempts :
                           /\ b < att[d] => raw'[d][b] = "refused"
                           /\ b > att[d] => raw'[d][b] = "none"
                      /\ pc[d] = "backoff" => raw'[d][att[d]] = "refused"
                      /\ pc[d] = "persist" =>
                           \/ entry[d].code = "success"
                           \/ entry[d].effect = "unknown"
                           \/ raw'[d][att[d]] = "refused"
                      /\ entry[d].effect = "none" => att[d] >= 1 /\ raw'[d][att[d]] = "refused"
                      /\ entry[d].effect = "done" => att[d] >= 1 /\ raw'[d][att[d]] = "acted"
    BY <1>2 DEF WriteInv
  <2>1. d \in Calls /\ att[d] \in Nat /\ att[d] <= MaxAttempts[d]
    BY <1>1, CallsAssumption DEF TypeOK
  <2>2. att[d] >= 1 => att[d] \in Attempts
    BY <2>1, AttemptsFacts
  <2>3. pc[d] \in {"backoff", "persist"} => att[d] >= 1
    BY <2>1 DEF IInv, AttInv, Holding
  <2> QED
    BY <1>1, <1>3, <2>1, <2>2, <2>3 DEF IInv, WriteInv
<1>8. LogInv'
  <2> SUFFICES ASSUME NEW i \in 1..Len(log), EntryTrue(raw, log[i])
               PROVE  EntryTrue(raw', log[i])
    BY <1>2 DEF LogInv, IInv, ledger
  <2> QED
    BY <1>1, <1>3, CallsAssumption DEF EntryTrue
<1> QED
  BY <1>4, <1>5, <1>6, <1>7, <1>8 DEF IInv

\* A further attempt: of a call that waits for its slot, or after a backoff.
\* What it follows was refused.
LEMMA LaunchInv ==
  ASSUME TypeOK, AttInv, WriteInv, LogInv, NEW d \in Calls, Launch(d),
         pc[d] \in {"idle", "queued", "backoff"},
         NEW S \in SUBSET Calls, d \notin S,
         \A c \in Calls : pc'[c] = IF c = d THEN "running"
                                   ELSE IF c \in S THEN "done" ELSE pc[c],
         \A c \in Calls : entry'[c] = IF c \in S \cup {d} THEN NoEntry ELSE entry[c],
         UNCHANGED log
  PROVE  /\ att' \in [Calls -> Nat]
         /\ \A c \in Calls : att'[c] <= MaxAttempts[c]
         /\ raw' \in [Calls -> [Attempts -> {"none", "sent", "acted", "refused"}]]
         /\ AttInv' /\ WriteInv' /\ LogInv'
<1>1. att[d] \in Nat /\ att[d] + 1 <= MaxAttempts[d]
  <2>0. MaxAttempts[d] \in Nat \ {0}
    BY AttemptsAssumption
  <2>1. att[d] \in Nat /\ MaxAttempts[d] \in Nat /\ MaxAttempts[d] >= 1
    BY <2>0 DEF TypeOK
  <2>2. CASE pc[d] \in {"idle", "queued"}
    BY <2>1, <2>2 DEF AttInv
  <2>3. CASE pc[d] = "backoff"
    BY <2>1, <2>3 DEF AttInv
  <2> QED
    BY <2>2, <2>3
<1> USE DEF Launch
<1>2. \A c \in Calls : att'[c] = IF c = d THEN att[d] + 1 ELSE att[c]
  BY DEF TypeOK
<1>3. att' \in [Calls -> Nat] /\ \A c \in Calls : att'[c] <= MaxAttempts[c]
  BY <1>1, <1>2 DEF TypeOK
<1>4. att[d] + 1 \in Attempts
  BY <1>1, AttemptsFacts
<1>5. \A c \in Calls, a \in Attempts :
        raw'[c][a] = IF c = d /\ a = att[d] + 1 THEN "sent" ELSE raw[c][a]
  BY <1>4 DEF TypeOK
<1>6. raw' \in [Calls -> [Attempts -> {"none", "sent", "acted", "refused"}]]
  BY <1>4 DEF TypeOK
<1>7. AttInv'
  <2> SUFFICES ASSUME NEW c \in Calls
               PROVE  /\ pc'[c] \in {"idle", "queued"} => att'[c] = 0
                      /\ pc'[c] \in {"idle", "queued", "done", "running"} => entry'[c] = NoEntry
                      /\ pc'[c] \in Holding => att'[c] >= 1
                      /\ pc'[c] = "backoff" => att'[c] < MaxAttempts[c]
                      /\ pc'[c] = "storing" => entry'[c].code = "success"
    BY DEF AttInv
  <2> QED
    BY <1>1, <1>2 DEF AttInv, Holding
<1>8. d \in Writes => \A a \in Attempts : a <= att[d] => raw[d][a] = "refused"
  <2> SUFFICES ASSUME d \in Writes, NEW a \in Attempts, a <= att[d]
               PROVE  raw[d][a] = "refused"
    OBVIOUS
  <2>1. a \in Nat /\ a >= 1
    BY AttemptsFacts
  <2>2. pc[d] = "backoff"
    BY <1>1, <2>1 DEF AttInv
  <2> QED
    BY <1>1, <2>1, <2>2 DEF WriteInv
<1>9. WriteInv'
  <2> SUFFICES ASSUME NEW c \in Writes
               PROVE  /\ \A a \in Attempts :
                           /\ a < att'[c] => raw'[c][a] = "refused"
                           /\ a > att'[c] => raw'[c][a] = "none"
                      /\ pc'[c] = "backoff" => raw'[c][att'[c]] = "refused"
                      /\ pc'[c] = "persist" =>
                           \/ entry'[c].code = "success"
                           \/ entry'[c].effect = "unknown"
                           \/ raw'[c][att'[c]] = "refused"
                      /\ entry'[c].effect = "none" => att'[c] >= 1 /\ raw'[c][att'[c]] = "refused"
                      /\ entry'[c].effect = "done" => att'[c] >= 1 /\ raw'[c][att'[c]] = "acted"
    BY DEF WriteInv
  <2>1. c \in Calls /\ att[c] \in Nat /\ att[c] <= MaxAttempts[c]
    BY CallsAssumption DEF TypeOK
  <2>2. CASE c = d
    <3>1. \A a \in Attempts : a \in Nat
      BY AttemptsFacts
    <3>2. entry'[c].effect = "unset" /\ pc'[c] = "running"
      BY <2>1, <2>2 DEF NoEntry
    <3>3. \A a \in Attempts : /\ a < att'[c] => raw'[c][a] = "refused"
                              /\ a > att'[c] => raw'[c][a] = "none"
      BY <1>1, <1>2, <1>5, <1>8, <2>1, <2>2, <3>1 DEF WriteInv
    <3> QED
      BY <3>2, <3>3
  <2>3. CASE c # d
    <3>1. att[c] >= 1 => att[c] \in Attempts
      BY <2>1, AttemptsFacts
    <3>2. pc[c] \in {"backoff", "persist"} => att[c] >= 1
      BY <2>1 DEF AttInv, Holding
    <3>3. att'[c] = att[c] /\ \A a \in Attempts : raw'[c][a] = raw[c][a]
      BY <1>2, <1>5, <2>1, <2>3
    <3>4. CASE c \in S
      BY <2>1, <2>3, <3>1, <3>3, <3>4 DEF WriteInv, NoEntry
    <3>5. CASE c \notin S
      BY <2>1, <2>3, <3>1, <3>2, <3>3, <3>5 DEF WriteInv
    <3> QED
      BY <3>4, <3>5
  <2> QED
    BY <2>2, <2>3
<1>10. LogInv'
  <2> SUFFICES ASSUME NEW i \in 1..Len(log), EntryTrue(raw, log[i])
               PROVE  EntryTrue(raw', log[i])
    BY DEF LogInv
  <2>1. \A a \in Attempts : d \in Writes /\ a = att[d] + 1 => raw[d][a] = "none"
    BY <1>1 DEF WriteInv
  <2> QED
    BY <1>5, <2>1, CallsAssumption DEF EntryTrue
<1> QED
  BY <1>3, <1>6, <1>7, <1>9, <1>10

LEMMA TryAgainInv ==
  ASSUME IInv, NEW c \in Calls, TryAgain(c)
  PROVE  IInv'
<1>1. TypeOK /\ pc[c] = "backoff" /\ Launch(c)
  BY DEF IInv, TryAgain
<1>2. UNCHANGED <<exposed, aborted, active, queue, told, req, seq, version, log>>
  BY DEF TryAgain, slots, ledger
<1>3. /\ \A d \in Calls : pc'[d] = IF d = c THEN "running" ELSE pc[d]
      /\ \A d \in Calls : entry'[d] = IF d = c THEN NoEntry ELSE entry[d]
  BY <1>1 DEF TypeOK, TryAgain
<1>4. /\ att' \in [Calls -> Nat]
      /\ \A d \in Calls : att'[d] <= MaxAttempts[d]
      /\ raw' \in [Calls -> [Attempts -> {"none", "sent", "acted", "refused"}]]
      /\ AttInv' /\ WriteInv' /\ LogInv'
  <2> DEFINE S == {}
  <2>1. /\ \A d \in Calls : pc'[d] = IF d = c THEN "running"
                                     ELSE IF d \in S THEN "done" ELSE pc[d]
        /\ \A d \in Calls : entry'[d] = IF d \in S \cup {c} THEN NoEntry ELSE entry[d]
        /\ S \in SUBSET Calls /\ c \notin S
    BY <1>3
  <2> HIDE DEF S
  <2> QED
    BY <1>1, <1>2, <2>1, LaunchInv DEF IInv
<1>5. pc' \in [Calls -> {"idle", "done"} \cup Waiting \cup Holding]
      /\ entry' \in [Calls -> [code : Code, effect : Effect]]
  BY <1>1 DEF TypeOK, TryAgain, Holding, NoEntry, Code, Effect
<1>6. TypeOK'
  BY <1>1, <1>2, <1>4, <1>5 DEF TypeOK
<1>7. QueueInv' /\ SlotsAccounted'
  BY <1>1, <1>2, <1>3, QuietStep DEF Holding
<1> QED
  BY <1>4, <1>6, <1>7 DEF IInv

LEMMA StartRunInv ==
  ASSUME IInv, NEW c \in Calls, StartRun(c)
  PROVE  IInv'
<1> DEFINE g == GroupOf[c]
<1>1. TypeOK /\ pc[c] = "idle" /\ Launch(c) /\ entry[c] = NoEntry
  BY DEF IInv, StartRun, MayCall, AttInv
<1>2. UNCHANGED <<exposed, aborted, queue, entry, told, req, seq, version, log>>
  BY DEF StartRun, ledger
<1>3. \A d \in Calls : pc'[d] = IF d = c THEN "running" ELSE pc[d]
  BY <1>1 DEF TypeOK, StartRun
<1>4. /\ att' \in [Calls -> Nat]
      /\ \A d \in Calls : att'[d] <= MaxAttempts[d]
      /\ raw' \in [Calls -> [Attempts -> {"none", "sent", "acted", "refused"}]]
      /\ AttInv' /\ WriteInv' /\ LogInv'
  <2> DEFINE S == {}
  <2>1. /\ \A d \in Calls : pc'[d] = IF d = c THEN "running"
                                     ELSE IF d \in S THEN "done" ELSE pc[d]
        /\ \A d \in Calls : entry'[d] = IF d \in S \cup {c} THEN NoEntry ELSE entry[d]
        /\ S \in SUBSET Calls /\ c \notin S
    BY <1>1, <1>2, <1>3
  <2> HIDE DEF S
  <2> QED
    BY <1>1, <1>2, <2>1, LaunchInv DEF IInv
<1>5. g \in Groups /\ active[g] \in Nat /\ Limit[g] \in Nat /\ active[g] < Limit[g]
  BY <1>1, GroupAssumption DEF TypeOK, StartRun, HasSlot
<1>6. \A h \in Groups : active'[h] = IF h = g THEN active[g] + 1 ELSE active[h]
  BY <1>1 DEF TypeOK, StartRun
<1>7. TypeOK'
  <2>1. pc' \in [Calls -> {"idle", "done"} \cup Waiting \cup Holding]
        /\ active' \in [Groups -> Nat]
    BY <1>1, <1>5 DEF TypeOK, StartRun, Holding
  <2> QED
    BY <1>1, <1>2, <1>4, <2>1 DEF TypeOK
<1>8. QueueInv'
  <2>1. \A h \in Groups : \A i \in 1..Len(queue[h]) : queue[h][i] \in Calls
    BY <1>1 DEF TypeOK
  <2> QED
    BY <1>1, <1>2, <1>3, <2>1 DEF IInv, QueueInv
<1>9. SlotsAccounted'
  <2> SUFFICES ASSUME NEW h \in Groups
               PROVE  /\ active'[h] = Cardinality(Holders(h)')
                      /\ active'[h] <= Limit[h]
                      /\ queue'[h] # << >> => active'[h] = Limit[h]
    BY DEF SlotsAccounted
  <2>1. active[h] = Cardinality(Holders(h)) /\ active[h] <= Limit[h]
        /\ (queue[h] # << >> => active[h] = Limit[h])
    BY DEF IInv, SlotsAccounted
  <2>2. CASE h = g
    <3>1. Holders(h)' = Holders(h) \cup {c} /\ c \notin Holders(h)
      BY <1>1, <1>3, <2>2 DEF Holders, Holding
    <3>2. Cardinality(Holders(h)') = Cardinality(Holders(h)) + 1
      BY <3>1, HoldersFinite, FS_AddElement
    <3> QED
      BY <1>2, <1>5, <1>6, <2>1, <2>2, <3>2
  <2>3. CASE h # g
    <3>1. Holders(h)' = Holders(h)
      BY <1>1, <1>3, <2>3 DEF Holders, Holding
    <3> QED
      BY <1>2, <1>6, <2>1, <2>3, <3>1
  <2> QED
    BY <2>2, <2>3
<1> QED
  BY <1>4, <1>7, <1>8, <1>9 DEF IInv

LEMMA StartWaitInv ==
  ASSUME IInv, NEW c \in Calls, StartWait(c)
  PROVE  IInv'
<1> DEFINE g == GroupOf[c]
<1>1. TypeOK /\ pc[c] = "idle"
  BY DEF IInv, StartWait, MayCall
<1>2. UNCHANGED <<exposed, aborted, active, att, entry, told, raw, req, seq, version, log>>
  BY DEF StartWait, ledger
<1>3. \A d \in Calls : pc'[d] = IF d = c THEN "queued" ELSE pc[d]
  BY <1>1 DEF TypeOK, StartWait
<1>4. g \in Groups /\ active[g] \in Nat /\ Limit[g] \in Nat /\ ~(active[g] < Limit[g])
  BY <1>1, GroupAssumption DEF TypeOK, StartWait, HasSlot
<1>5. \A h \in Groups : queue'[h] = IF h = g THEN Append(queue[g], c) ELSE queue[h]
  BY <1>1 DEF TypeOK, StartWait
<1>6. \A h \in Groups : /\ queue[h] \in Seq(Calls)
                        /\ Len(queue[h]) \in Nat
                        /\ \A i \in 1..Len(queue[h]) : queue[h][i] \in Calls
  BY <1>1 DEF TypeOK
<1>7. TypeOK'
  <2>1. pc' \in [Calls -> {"idle", "done"} \cup Waiting \cup Holding]
    BY <1>1 DEF TypeOK, StartWait, Waiting
  <2>2. queue' \in [Groups -> Seq(Calls)]
    BY <1>1, <1>4, <1>6 DEF TypeOK, StartWait
  <2> QED
    BY <1>1, <1>2, <2>1, <2>2 DEF TypeOK
<1>8. QueueInv'
  <2> SUFFICES ASSUME NEW h \in Groups
               PROVE  /\ \A i \in 1..Len(queue'[h]) :
                           pc'[queue'[h][i]] = "queued" /\ GroupOf[queue'[h][i]] = h
                      /\ \A i, j \in 1..Len(queue'[h]) : i # j => queue'[h][i] # queue'[h][j]
    BY DEF QueueInv
  <2>1. /\ \A i \in 1..Len(queue[h]) : pc[queue[h][i]] = "queued" /\ GroupOf[queue[h][i]] = h
        /\ \A i, j \in 1..Len(queue[h]) : i # j => queue[h][i] # queue[h][j]
    BY DEF IInv, QueueInv
  <2>2. CASE h # g
    BY <1>1, <1>3, <1>5, <1>6, <2>1, <2>2
  <2>3. CASE h = g
    <3>1. /\ Len(queue'[h]) = Len(queue[h]) + 1
          /\ \A i \in 1..Len(queue[h]) : queue'[h][i] = queue[h][i]
          /\ queue'[h][Len(queue[h]) + 1] = c
      <4>1. queue'[h] = Append(queue[h], c) /\ queue[h] \in Seq(Calls)
        BY <1>5, <1>6, <2>3
      <4> QED
        BY <4>1
    <3>2. ASSUME NEW i \in 1..Len(queue[h]) PROVE queue[h][i] # c
      <4>1. pc[queue[h][i]] = "queued"
        BY <2>1
      <4> QED
        BY <1>1, <4>1
    <3>3. pc'[c] = "queued" /\ GroupOf[c] = h
      BY <1>3, <2>3
    <3>4. ASSUME NEW i \in 1..Len(queue'[h])
          PROVE  pc'[queue'[h][i]] = "queued" /\ GroupOf[queue'[h][i]] = h
      <4>1. CASE i \in 1..Len(queue[h])
        BY <1>3, <1>6, <2>1, <3>1, <4>1
      <4>2. CASE i = Len(queue[h]) + 1
        BY <3>1, <3>3, <4>2
      <4> QED
        BY <1>6, <3>1, <4>1, <4>2
    <3>5. ASSUME NEW i \in 1..Len(queue'[h]), NEW j \in 1..Len(queue'[h]), i # j
          PROVE  queue'[h][i] # queue'[h][j]
      <4>1. i \in Nat /\ j \in Nat /\ Len(queue[h]) \in Nat
        BY <1>6, <3>1
      <4>2. CASE i <= Len(queue[h]) /\ j <= Len(queue[h])
        BY <2>1, <3>1, <3>5, <4>1, <4>2
      <4>3. CASE i = Len(queue[h]) + 1
        BY <3>1, <3>2, <3>5, <4>1, <4>3
      <4>4. CASE j = Len(queue[h]) + 1
        BY <3>1, <3>2, <3>5, <4>1, <4>4
      <4> QED
        BY <3>1, <4>1, <4>2, <4>3, <4>4
    <3> QED
      BY <3>4, <3>5
  <2> QED
    BY <2>2, <2>3
<1>9. SlotsAccounted'
  <2>1. \A h \in Groups : Holders(h)' = Holders(h)
    BY <1>1, <1>3 DEF Holders, Holding
  <2>2. active[g] = Limit[g]
    BY <1>4 DEF IInv, SlotsAccounted
  <2> QED
    BY <1>2, <1>5, <2>1, <2>2 DEF IInv, SlotsAccounted
<1>10. AttInv'
  BY <1>1, <1>2, <1>3 DEF IInv, AttInv, Holding
<1>11. WriteInv'
  BY <1>1, <1>2, <1>3, CallsAssumption DEF IInv, WriteInv
<1>12. LogInv'
  BY <1>2 DEF IInv, LogInv
<1> QED
  BY <1>7, <1>8, <1>9, <1>10, <1>11, <1>12 DEF IInv

-----------------------------------------------------------------------------
(* The end of a call, its retry, and the abort. *)

\* A call ends and gives its slot back: nobody waits for it.
LEMMA ReleaseInv ==
  ASSUME IInv, NEW c \in Calls, pc[c] \in {"persist", "repersist"},
         NEW out \in {"success", "failed", "threw"}, Finish(c, out),
         queue[GroupOf[c]] = << >>,
         req' \in [Calls -> Request], seq' \in Nat, version' \in Nat,
         UNCHANGED <<exposed, aborted, log>>
  PROVE  IInv'
<1> DEFINE g == GroupOf[c]
<1>1. TypeOK
  BY DEF IInv
<1>2. UNCHANGED <<queue, att, raw>>
  BY DEF Finish
<1>3. \A d \in Calls : pc'[d] = IF d = c THEN "done" ELSE pc[d]
  BY <1>1 DEF TypeOK, Finish
<1>4. \A d \in Calls : entry'[d] = IF d = c THEN NoEntry ELSE entry[d]
  BY <1>1 DEF TypeOK, Finish
<1>5. g \in Groups
  BY GroupAssumption
<1>6. \A h \in Groups : active'[h] = IF h = g THEN active[g] - 1 ELSE active[h]
  BY <1>1 DEF TypeOK, Finish
<1>7. \A h \in Groups : /\ active[h] = Cardinality(Holders(h))
                        /\ active[h] <= Limit[h]
                        /\ queue[h] # << >> => active[h] = Limit[h]
  BY DEF IInv, SlotsAccounted
<1>8. c \in Holders(g)
  BY DEF Holders, Holding
<1>9. active[g] \in Nat /\ active[g] >= 1 /\ Limit[g] \in Nat
  <2>1. Cardinality(Holders(g)) # 0
    BY <1>5, <1>8, HoldersFinite, FS_EmptySet
  <2> QED
    BY <1>1, <1>5, <1>7, <2>1, GroupAssumption DEF TypeOK
<1>10. TypeOK'
  <2>1. pc' \in [Calls -> {"idle", "done"} \cup Waiting \cup Holding]
    BY <1>1 DEF TypeOK, Finish
  <2>2. entry' \in [Calls -> [code : Code, effect : Effect]]
    BY <1>1 DEF TypeOK, Finish, NoEntry, Code, Effect
  <2>3. active' \in [Groups -> Nat]
    <3>1. active' = [active EXCEPT ![g] = active[g] - 1]
      BY DEF Finish
    <3>2. active[g] - 1 \in Nat
      BY <1>9
    <3> QED
      BY <1>1, <3>1, <3>2 DEF TypeOK
  <2>4. told' \in [Calls -> {"nothing", "success", "failed", "threw"}]
    BY <1>1 DEF TypeOK, Finish
  <2> QED
    BY <1>1, <1>2, <2>1, <2>2, <2>3, <2>4 DEF TypeOK
<1>11. QueueInv'
  <2>1. \A h \in Groups : \A i \in 1..Len(queue[h]) : queue[h][i] \in Calls
    BY <1>1 DEF TypeOK
  <2> QED
    BY <1>2, <1>3, <2>1 DEF IInv, QueueInv
<1>12. SlotsAccounted'
  <2> SUFFICES ASSUME NEW h \in Groups
               PROVE  /\ active'[h] = Cardinality(Holders(h)')
                      /\ active'[h] <= Limit[h]
                      /\ queue'[h] # << >> => active'[h] = Limit[h]
    BY DEF SlotsAccounted
  <2>1. CASE h = g
    <3>1. Holders(h)' = Holders(h) \ {c}
      BY <1>3, <2>1 DEF Holders, Holding
    <3>2. Cardinality(Holders(h)') = Cardinality(Holders(h)) - 1
      BY <1>8, <2>1, <3>1, HoldersFinite, FS_RemoveElement
    <3> QED
      BY <1>2, <1>6, <1>7, <1>9, <2>1, <3>2
  <2>2. CASE h # g
    <3>1. Holders(h)' = Holders(h)
      BY <1>3, <2>2 DEF Holders, Holding
    <3> QED
      BY <1>2, <1>6, <1>7, <2>2, <3>1
  <2> QED
    BY <2>1, <2>2
<1>13. AttInv'
  BY <1>2, <1>3, <1>4 DEF IInv, AttInv, Holding
<1>14. WriteInv'
  BY <1>2, <1>3, <1>4, CallsAssumption DEF IInv, WriteInv, NoEntry
<1>15. LogInv'
  BY <1>2 DEF IInv, LogInv
<1> QED
  BY <1>10, <1>11, <1>12, <1>13, <1>14, <1>15 DEF IInv

\* A call ends and hands its slot to the oldest waiter.
LEMMA HandOverInv ==
  ASSUME IInv, NEW c \in Calls, pc[c] \in {"persist", "repersist"},
         NEW out \in {"success", "failed", "threw"}, Finish(c, out),
         queue[GroupOf[c]] # << >>,
         req' \in [Calls -> Request], seq' \in Nat, version' \in Nat,
         UNCHANGED <<exposed, aborted, log>>
  PROVE  IInv'
<1> DEFINE g == GroupOf[c]
           q == queue[g]
           d == Head(q)
           S == {c}
<1>1. TypeOK /\ g \in Groups
  BY GroupAssumption DEF IInv
<1>2. /\ q \in Seq(Calls) /\ q # << >>
      /\ Len(q) \in Nat /\ Len(q) >= 1 /\ d = q[1] /\ d \in Calls
  BY <1>1 DEF TypeOK
<1>3. /\ Tail(q) \in Seq(Calls)
      /\ Len(Tail(q)) = Len(q) - 1
      /\ \A i \in 1..Len(Tail(q)) : Tail(q)[i] = q[i + 1]
  BY <1>2, HeadTailProperties
<1>4. pc[d] = "queued" /\ GroupOf[d] = g /\ d # c
  BY <1>1, <1>2 DEF IInv, QueueInv
<1>5. /\ UNCHANGED active /\ Launch(d)
      /\ pc' = [pc EXCEPT ![c] = "done", ![d] = "running"]
      /\ queue' = [queue EXCEPT ![g] = Tail(q)]
      /\ entry' = [entry EXCEPT ![c] = NoEntry]
      /\ told' = [told EXCEPT ![c] = out]
  BY DEF Finish
<1> HIDE DEF q, d
<1>6. \A e \in Calls : pc'[e] = IF e = d THEN "running"
                                ELSE IF e \in S THEN "done" ELSE pc[e]
  BY <1>1, <1>2, <1>4, <1>5 DEF TypeOK
<1>7. \A e \in Calls : entry'[e] = IF e \in S \cup {d} THEN NoEntry ELSE entry[e]
  <2>1. entry[d] = NoEntry
    BY <1>2, <1>4 DEF IInv, AttInv
  <2> QED
    BY <1>1, <1>2, <1>5, <2>1 DEF TypeOK
<1>8. /\ att' \in [Calls -> Nat]
      /\ \A e \in Calls : att'[e] <= MaxAttempts[e]
      /\ raw' \in [Calls -> [Attempts -> {"none", "sent", "acted", "refused"}]]
      /\ AttInv' /\ WriteInv' /\ LogInv'
  <2>1. S \in SUBSET Calls /\ d \notin S
    BY <1>4
  <2> HIDE DEF S
  <2> QED
    BY <1>2, <1>4, <1>5, <1>6, <1>7, <2>1, LaunchInv DEF IInv
<1>9. \A h \in Groups : queue'[h] = IF h = g THEN Tail(q) ELSE queue[h]
  BY <1>1, <1>5 DEF TypeOK
<1>10. TypeOK'
  <2>1. pc' \in [Calls -> {"idle", "done"} \cup Waiting \cup Holding]
    BY <1>1, <1>5 DEF TypeOK, Holding
  <2>2. entry' \in [Calls -> [code : Code, effect : Effect]]
    BY <1>1, <1>5 DEF TypeOK, NoEntry, Code, Effect
  <2>3. queue' \in [Groups -> Seq(Calls)]
    BY <1>1, <1>3, <1>5 DEF TypeOK
  <2>4. told' \in [Calls -> {"nothing", "success", "failed", "threw"}]
    BY <1>1, <1>5 DEF TypeOK
  <2> QED
    BY <1>1, <1>5, <1>8, <2>1, <2>2, <2>3, <2>4 DEF TypeOK
<1>11. QueueInv'
  <2> SUFFICES ASSUME NEW h \in Groups
               PROVE  /\ \A i \in 1..Len(queue'[h]) :
                           pc'[queue'[h][i]] = "queued" /\ GroupOf[queue'[h][i]] = h
                      /\ \A i, j \in 1..Len(queue'[h]) : i # j => queue'[h][i] # queue'[h][j]
    BY DEF QueueInv
  <2>1. /\ \A i \in 1..Len(queue[h]) : /\ pc[queue[h][i]] = "queued"
                                       /\ GroupOf[queue[h][i]] = h
                                       /\ queue[h][i] \in Calls
        /\ \A i, j \in 1..Len(queue[h]) : i # j => queue[h][i] # queue[h][j]
    BY <1>1 DEF IInv, QueueInv, TypeOK
  <2>2. CASE h # g
    <3>1. \A i \in 1..Len(queue[h]) : queue[h][i] # d
      BY <1>4, <2>1, <2>2
    <3> QED
      BY <1>6, <1>9, <2>1, <2>2, <3>1
  <2>3. CASE h = g
    <3>1. queue'[h] = Tail(q) /\ queue[h] = q
      BY <1>9, <2>3 DEF q
    <3>2. ASSUME NEW i \in 1..Len(Tail(q))
          PROVE  /\ i + 1 \in 1..Len(q) /\ i \in Nat
                 /\ Tail(q)[i] = q[i + 1] /\ q[i + 1] # d
      BY <1>2, <1>3, <2>1, <3>1
    <3>3. ASSUME NEW i \in 1..Len(Tail(q))
          PROVE  pc'[Tail(q)[i]] = "queued" /\ GroupOf[Tail(q)[i]] = h
      BY <1>6, <2>1, <3>1, <3>2
    <3>4. ASSUME NEW i \in 1..Len(Tail(q)), NEW j \in 1..Len(Tail(q)), i # j
          PROVE  Tail(q)[i] # Tail(q)[j]
      BY <2>1, <3>1, <3>2, <3>4
    <3> QED
      BY <3>1, <3>3, <3>4
  <2> QED
    BY <2>2, <2>3
<1>12. SlotsAccounted'
  <2> SUFFICES ASSUME NEW h \in Groups
               PROVE  /\ active[h] = Cardinality(Holders(h)')
                      /\ active[h] <= Limit[h]
                      /\ queue'[h] # << >> => active[h] = Limit[h]
    BY <1>5 DEF SlotsAccounted
  <2>1. /\ active[h] = Cardinality(Holders(h)) /\ active[h] <= Limit[h]
        /\ queue[h] # << >> => active[h] = Limit[h]
    BY DEF IInv, SlotsAccounted
  <2>2. CASE h = g
    <3>1. c \in Holders(h) /\ d \notin Holders(h)
      BY <1>4, <2>2 DEF Holders, Holding
    <3>2. Holders(h)' = (Holders(h) \ {c}) \cup {d}
      BY <1>2, <1>4, <1>6, <2>2 DEF Holders, Holding
    <3>3. /\ IsFiniteSet(Holders(h) \ {c})
          /\ Cardinality(Holders(h) \ {c}) = Cardinality(Holders(h)) - 1
      BY <3>1, HoldersFinite, FS_RemoveElement
    <3>4. Cardinality(Holders(h)') = Cardinality(Holders(h)) - 1 + 1
      BY <3>1, <3>2, <3>3, FS_AddElement
    <3>5. queue[h] # << >>
      BY <1>2, <2>2 DEF q
    <3> QED
      BY <2>1, <3>4, <3>5, HoldersFinite
  <2>3. CASE h # g
    <3>1. Holders(h)' = Holders(h)
      BY <1>2, <1>4, <1>6, <2>3 DEF Holders, Holding
    <3> QED
      BY <1>9, <2>1, <2>3, <3>1
  <2> QED
    BY <2>2, <2>3
<1> QED
  BY <1>8, <1>10, <1>11, <1>12 DEF IInv

LEMMA FinishInv ==
  ASSUME IInv, NEW c \in Calls, pc[c] \in {"persist", "repersist"},
         NEW out \in {"success", "failed", "threw"}, Finish(c, out),
         req' \in [Calls -> Request], seq' \in Nat, version' \in Nat,
         UNCHANGED <<exposed, aborted, log>>
  PROVE  IInv'
<1>1. CASE queue[GroupOf[c]] = << >>
  BY <1>1, ReleaseInv
<1>2. CASE queue[GroupOf[c]] # << >>
  BY <1>2, HandOverInv
<1> QED
  BY <1>1, <1>2

LEMMA RethrowInv ==
  ASSUME IInv, NEW c \in Calls, Rethrow(c)
  PROVE  IInv'
<1>1. TypeOK
  BY DEF IInv
<1>2. req' \in [Calls -> Request]
  BY <1>1 DEF TypeOK, Rethrow, NoRequest, Request
<1>3. seq' \in Nat /\ version' \in Nat
  BY <1>1, AnswerTypes DEF Rethrow
<1>4. /\ pc[c] \in {"persist", "repersist"}
      /\ Finish(c, "threw")
      /\ UNCHANGED <<exposed, aborted, log>>
  BY DEF Rethrow
<1> QED
  BY <1>2, <1>3, <1>4, FinishInv

\* A recorded attempt is tried again: the tool refused it.
LEMMA RecordedInv ==
  ASSUME IInv, NEW c \in Calls, Recorded(c)
  PROVE  IInv'
<1>1. TypeOK
  BY DEF IInv
<1>2. req' \in [Calls -> Request]
  BY <1>1 DEF TypeOK, Recorded, NoRequest, Request
<1>3. seq' \in Nat /\ version' \in Nat
  BY <1>1, AnswerTypes DEF Recorded
<1>4. pc[c] = "persist" /\ UNCHANGED <<exposed, aborted, log>>
  BY DEF Recorded
<1>5. CASE ~ShouldRetry(c, entry[c].effect)
  <2>1. PICK out \in {"success", "failed", "threw"} : Finish(c, out)
    BY <1>5 DEF Recorded
  <2> QED
    BY <1>2, <1>3, <1>4, <2>1, FinishInv
<1>6. CASE ShouldRetry(c, entry[c].effect)
  <2>1. UNCHANGED <<active, queue, att, entry, told, raw>> /\ pc' = [pc EXCEPT ![c] = "backoff"]
    BY <1>6 DEF Recorded, slots
  <2>2. \A d \in Calls : pc'[d] = IF d = c THEN "backoff" ELSE pc[d]
    BY <1>1, <2>1 DEF TypeOK
  <2>3. /\ att[c] < MaxAttempts[c] /\ entry[c].code # "success"
        /\ entry[c].effect # "unknown"
    BY <1>6 DEF ShouldRetry
  <2>4. TypeOK'
    <3>1. pc' \in [Calls -> {"idle", "done"} \cup Waiting \cup Holding]
      BY <1>1, <2>1 DEF TypeOK, Holding
    <3> QED
      BY <1>1, <1>2, <1>3, <1>4, <2>1, <3>1 DEF TypeOK
  <2>5. QueueInv' /\ SlotsAccounted'
    BY <1>4, <2>1, <2>2, QuietStep DEF Holding
  <2>6. AttInv'
    BY <1>4, <2>1, <2>2, <2>3 DEF IInv, AttInv, Holding
  <2>7. WriteInv'
    BY <1>4, <2>1, <2>2, <2>3, CallsAssumption DEF IInv, WriteInv
  <2>8. LogInv'
    BY <1>4, <2>1 DEF IInv, LogInv
  <2> QED
    BY <2>4, <2>5, <2>6, <2>7, <2>8 DEF IInv
<1> QED
  BY <1>5, <1>6

LEMMA AbortInv ==
  ASSUME IInv, Abort
  PROVE  IInv'
<1> DEFINE stopped == {c \in Calls : pc[c] \in Listening}
           left    == {c \in Calls : pc[c] \in Waiting}
<1>1. TypeOK
  BY DEF IInv
<1>2. /\ aborted' = TRUE
      /\ queue' = [g \in Groups |-> << >>]
      /\ UNCHANGED <<exposed, active, att, raw, seq, version, log>>
  BY DEF Abort
<1>3. \A c \in Calls : pc'[c] = IF pc[c] \in {"running", "backoff"} THEN "repersist"
                                ELSE IF pc[c] = "queued" THEN "done" ELSE pc[c]
  BY DEF Abort, Listening, Waiting
<1>4. \A c \in Calls : entry'[c] = IF pc[c] \in {"running", "backoff"}
                                   THEN [entry[c] EXCEPT !.code = "fatal"] ELSE entry[c]
  BY DEF Abort, Listening
<1>5. \A c \in Calls : entry'[c].effect = entry[c].effect
  BY <1>1, <1>4 DEF TypeOK
<1>6. TypeOK'
  <2>1. pc' \in [Calls -> {"idle", "done"} \cup Waiting \cup Holding]
    BY <1>1 DEF Abort, TypeOK, Holding
  <2>2. entry' \in [Calls -> [code : Code, effect : Effect]]
    BY <1>1 DEF Abort, TypeOK, Code
  <2>3. told' \in [Calls -> {"nothing", "success", "failed", "threw"}]
    BY <1>1 DEF Abort, TypeOK
  <2>4. req' \in [Calls -> Request]
    BY <1>1, NewRequestType DEF Abort, TypeOK
  <2>5. queue' \in [Groups -> Seq(Calls)]
    <3>1. << >> \in Seq(Calls)
      OBVIOUS
    <3> QED
      BY <1>2, <3>1
  <2> QED
    BY <1>1, <1>2, <2>1, <2>2, <2>3, <2>4, <2>5 DEF TypeOK
<1>7. QueueInv'
  BY <1>2 DEF QueueInv
<1>8. SlotsAccounted'
  BY <1>2, <1>3, SameHolders DEF IInv, Holding
<1>9. AttInv'
  BY <1>2, <1>3, <1>4 DEF IInv, AttInv, Holding
<1>10. WriteInv'
  <2> SUFFICES ASSUME NEW c \in Writes
               PROVE  /\ \A a \in Attempts :
                           /\ a < att[c] => raw[c][a] = "refused"
                           /\ a > att[c] => raw[c][a] = "none"
                      /\ pc'[c] = "backoff" => raw[c][att[c]] = "refused"
                      /\ pc'[c] = "persist" =>
                           \/ entry'[c].code = "success"
                           \/ entry'[c].effect = "unknown"
                           \/ raw[c][att[c]] = "refused"
                      /\ entry'[c].effect = "none" => att[c] >= 1 /\ raw[c][att[c]] = "refused"
                      /\ entry'[c].effect = "done" => att[c] >= 1 /\ raw[c][att[c]] = "acted"
    BY <1>2 DEF WriteInv
  <2>1. c \in Calls
    BY CallsAssumption
  <2>2. pc'[c] # "backoff" /\ (pc'[c] = "persist" => pc[c] = "persist" /\ entry'[c] = entry[c])
    BY <1>3, <1>4, <2>1
  <2> QED
    BY <1>5, <2>1, <2>2 DEF IInv, WriteInv
<1>11. LogInv'
  BY <1>2 DEF IInv, LogInv
<1> QED
  BY <1>6, <1>7, <1>8, <1>9, <1>10, <1>11 DEF IInv

LEMMA NextInv ==
  ASSUME IInv, [Next]_vars
  PROVE  IInv'
<1>1. CASE Abort
  BY <1>1, AbortInv
<1>2. CASE OtherAppend
  BY <1>2, OtherAppendInv
<1>3. ASSUME NEW c \in Calls,
             StartRefused(c) \/ StartRun(c) \/ StartWait(c)
      PROVE  IInv'
  BY <1>3, StartRefusedInv, StartRunInv, StartWaitInv
<1>4. ASSUME NEW c \in Calls, ExecutorStep(c)
      PROVE  IInv'
  BY <1>4, ReturnInv, TimeoutInv, ThrowInv, StoreInv, RecordedInv, RecordFailsInv,
     RethrowInv, TryAgainInv, UnawaitedInv DEF ExecutorStep
<1>5. ASSUME NEW c \in Calls, AppendStep(c)
      PROVE  IInv'
  BY <1>5, AppendNewInv, AppendDuplicateInv, AppendFailsInv DEF AppendStep
<1>6. ASSUME NEW c \in Calls, NEW a \in Attempts, Act(c, a)
      PROVE  IInv'
  BY <1>6, ActInv
<1>7. CASE UNCHANGED vars
  BY <1>7, LedgerOnly DEF IInv, TypeOK, LogInv, EntryTrue, vars, slots, calls, ledger
<1> QED
  BY <1>1, <1>2, <1>3, <1>4, <1>5, <1>6, <1>7 DEF Next

-----------------------------------------------------------------------------
(* What the specification promises. *)

LEMMA SpecInv == Spec => []IInv
<1>1. Init => IInv
  BY InitInv
<1>2. IInv /\ [Next]_vars => IInv'
  BY NextInv
<1> QED
  BY <1>1, <1>2, PTL DEF Spec

\* The executor keeps its variables within their types; with it, no call is
\* ever attempted more often than its manifest allows.
THEOREM TypeCorrect == Spec => []TypeOK
<1>1. IInv => TypeOK
  BY DEF IInv
<1> QED
  BY <1>1, SpecInv, PTL

\* Whichever way calls end, the slots of a group are those its running calls
\* hold, never more than its limit, and nobody waits beside a free one.
THEOREM SlotsCorrect == Spec => []SlotsAccounted
<1>1. IInv => SlotsAccounted
  BY DEF IInv
<1> QED
  BY <1>1, SpecInv, PTL

\* A call of a tool that creates something creates it at most once, for any
\* number of attempts, any retry policy, and requests that act at any time.
THEOREM WritesCorrect == Spec => []WritesActOnce
<1>1. IInv => WritesActOnce
  <2> SUFFICES ASSUME IInv, NEW c \in Writes
               PROVE  /\ \A a, b \in Effects(c) : a = b
                      /\ Effects(c) # {} => \A a \in Attempts : raw[c][a] # "sent"
    BY DEF WritesActOnce
  <2>1. c \in Calls /\ att[c] \in Nat /\ Attempts \subseteq Nat
    BY CallsAssumption, AttemptsFacts DEF IInv, TypeOK
  <2>2. \A a \in Attempts : raw[c][a] \in {"acted", "sent"} => a = att[c]
    <3> SUFFICES ASSUME NEW a \in Attempts, raw[c][a] \in {"acted", "sent"}
                 PROVE  a = att[c]
      OBVIOUS
    <3>1. ~(a < att[c]) /\ ~(a > att[c])
      BY DEF IInv, WriteInv
    <3>2. a \in Nat
      BY <2>1
    <3> QED
      BY <2>1, <3>1, <3>2
  <2> QED
    BY <2>2 DEF Effects
<1> QED
  BY <1>1, SpecInv, PTL

\* What the ledger says of the side effect of an attempt stays true.
THEOREM LedgerCorrect == Spec => []LedgerIsTrue
<1>1. IInv => LedgerIsTrue
  <2> SUFFICES ASSUME IInv, NEW i \in DOMAIN log, log[i].call \in Writes
               PROVE  /\ log[i].effect = "none" => raw[log[i].call][log[i].attempt] = "refused"
                      /\ log[i].effect = "done" => raw[log[i].call][log[i].attempt] = "acted"
    BY DEF LedgerIsTrue
  <2>1. i \in 1..Len(log)
    BY DEF IInv, TypeOK
  <2> QED
    BY <2>1 DEF IInv, LogInv, EntryTrue
<1> QED
  BY <1>1, SpecInv, PTL
=============================================================================
