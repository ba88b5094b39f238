---------------------------- MODULE RunLogProofs ----------------------------
(***************************************************************************)
(* Proofs about RunLog: its types, the safety of the append path, and that *)
(* it implements RunLedger, for any threads, requests and lengths of logs. *)
(*                                                                         *)
(* The argument: a request writes from the row it read, and every write    *)
(* with entries moves last_event_seq, so that a request whose row is not   *)
(* the current one collides with an event_seq that is taken and writes     *)
(* nothing (SnapFresh).  What it was checked for therefore holds when it   *)
(* commits (ChecksHold).  That the ids it does not look up are new follows *)
(* from the request being recorded as a whole or not at all (IdsWhole).    *)
(***************************************************************************)
EXTENDS RunLog, SequenceTheorems, TLAPS

\* The marker of an absent patch is not a status.
LEMMA NoPatchIsNoStatus == NoPatch \notin Status
  BY DEF NoPatch, Status

\* A function on an initial segment of the naturals is a sequence.
LEMMA FunctionIsSeq ==
  ASSUME NEW S, NEW n \in Nat, NEW f \in [1..n -> S]
  PROVE  f \in Seq(S) /\ Len(f) = n
  OBVIOUS

\* The components of a request have their types.
LEMMA RequestFields ==
  ASSUME NEW r \in Requests
  PROVE  /\ r.kind \in {"append", "steering"}
         /\ r.key \in Ids
         /\ r.events \in Seq([id : Ids, type : Types, val : Vals])
         /\ r.tools \in Seq(ToolCalls)
         /\ r.patch \in Status \cup {NoPatch}
  BY RequestsAssumption DEF RequestType

\* The entry of a patch: one state_changed that carries the status, or none.
LEMMA PatchEntriesShape ==
  ASSUME NEW r \in Requests
  PROVE  /\ PatchEntries(r) \in Seq(Entry)
         /\ r.patch = NoPatch => Len(PatchEntries(r)) = 0
         /\ r.patch # NoPatch =>
              /\ Len(PatchEntries(r)) = 1
              /\ PatchEntries(r)[1].type = StateChange
              /\ PatchEntries(r)[1].val = r.patch
<1> DEFINE e == [id |-> AutoState(r.key), type |-> StateChange, val |-> r.patch]
<1>1. AutoState(r.key) \in EntryId
  BY RequestFields DEF EntryId
<1>2. e \in Entry /\ e.type = StateChange /\ e.val = r.patch
  BY RequestFields, <1>1 DEF Entry
<1>3. CASE r.patch = NoPatch
  BY <1>3 DEF PatchEntries
<1>4. CASE r.patch # NoPatch
  <2>1. PatchEntries(r) = <<e>>
    BY <1>4 DEF PatchEntries
  <2> HIDE DEF e
  <2> QED
    BY <1>2, <1>4, <2>1
<1> QED
  BY <1>3, <1>4

\* The events of a caller are entries that carry no status.
LEMMA EventsShape ==
  ASSUME NEW r \in Requests
  PROVE  /\ r.events \in Seq(Entry)
         /\ \A i \in 1..Len(r.events) : r.events[i].type # StateChange
<1> DEFINE E == [id : Ids, type : Types, val : Vals]
<1>1. r.events \in Seq(E)
  BY RequestFields
<1>2. E \subseteq Entry
  BY DEF Entry, EntryId
<1>3. r.events \in Seq(Entry)
  BY <1>1, <1>2, SeqMonotonic
<1>4. \A i \in 1..Len(r.events) : r.events[i] \in E
  BY <1>1, ElementOfSeq
<1>5. \A i \in 1..Len(r.events) : r.events[i].type # StateChange
  BY <1>4, PayloadAssumption
<1> QED
  BY <1>3, <1>5

\* The markers of tool results are entries that carry no status.
LEMMA MarkerEntriesShape ==
  ASSUME NEW r \in Requests
  PROVE  /\ MarkerEntries(r) \in Seq(Entry)
         /\ \A i \in 1..Len(MarkerEntries(r)) : MarkerEntries(r)[i].val = NoPatch
         /\ Len(MarkerEntries(r)) = IF r.events = << >> /\ r.patch = NoPatch
                                    THEN Len(r.tools) ELSE 0
<1>1. CASE ~(r.events = << >> /\ r.patch = NoPatch)
  BY <1>1 DEF MarkerEntries
<1>2. CASE r.events = << >> /\ r.patch = NoPatch
  <2> DEFINE n == Len(r.tools)
             m(i) == [id |-> AutoTool(r.key, r.tools[i]), type |-> StateChange,
                      val |-> NoPatch]
             f == [i \in 1..n |-> m(i)]
  <2>1. n \in Nat
    BY RequestFields
  <2>2. \A i \in 1..n : m(i) \in Entry /\ m(i).val = NoPatch
    <3> SUFFICES ASSUME NEW i \in 1..n
                 PROVE  m(i) \in Entry /\ m(i).val = NoPatch
      OBVIOUS
    <3>1. r.tools[i] \in ToolCalls /\ r.key \in Ids
      BY RequestFields, ElementOfSeq
    <3>2. AutoTool(r.key, r.tools[i]) \in EntryId
      BY <3>1 DEF EntryId
    <3> QED
      BY <3>2 DEF Entry
  <2>3. MarkerEntries(r) = f
    BY <1>2 DEF MarkerEntries
  <2> HIDE DEF n, m
  <2>4. f \in [1..n -> Entry] /\ \A i \in 1..n : f[i].val = NoPatch
    BY <2>2
  <2>5. f \in Seq(Entry) /\ Len(f) = n
    BY <2>1, <2>4, FunctionIsSeq
  <2> QED
    BY <1>2, <2>3, <2>4, <2>5 DEF n
<1> QED
  BY <1>1, <1>2

\* What a request writes: a sequence of entries, empty exactly when the request
\* mutates nothing, with a move of the status exactly at its head and exactly
\* when it carries a patch.
LEMMA EntriesShape ==
  ASSUME NEW r \in Requests
  PROVE  /\ Entries(r) \in Seq(Entry)
         /\ Len(Entries(r)) \in Nat
         /\ DOMAIN Entries(r) = 1..Len(Entries(r))
         /\ Mutates(r) <=> Len(Entries(r)) > 0
         /\ r.patch # NoPatch => /\ Len(Entries(r)) > 0
                                 /\ Entries(r)[1].type = StateChange
                                 /\ Entries(r)[1].val = r.patch
         /\ \A i \in 1..Len(Entries(r)) :
              (Entries(r)[i].type = StateChange /\ Entries(r)[i].val \in Status)
                => (i = 1 /\ r.patch # NoPatch)
<1> DEFINE p == PatchEntries(r)
           e == r.events
           m == MarkerEntries(r)
<1>1. p \in Seq(Entry) /\ e \in Seq(Entry) /\ m \in Seq(Entry)
  BY PatchEntriesShape, EventsShape, MarkerEntriesShape
<1>2. Len(p) \in Nat /\ Len(e) \in Nat /\ Len(m) \in Nat /\ Len(r.tools) \in Nat
  BY <1>1, LenProperties, RequestFields
<1>3. /\ p \o e \in Seq(Entry)
      /\ Len(p \o e) = Len(p) + Len(e)
      /\ \A i \in 1..(Len(p) + Len(e)) :
           (p \o e)[i] = IF i <= Len(p) THEN p[i] ELSE e[i - Len(p)]
  BY <1>1, ConcatProperties
<1>4. /\ (p \o e) \o m \in Seq(Entry)
      /\ Len((p \o e) \o m) = Len(p \o e) + Len(m)
      /\ \A i \in 1..(Len(p \o e) + Len(m)) :
           ((p \o e) \o m)[i] = IF i <= Len(p \o e) THEN (p \o e)[i] ELSE m[i - Len(p \o e)]
  <2> DEFINE pe == p \o e
  <2>1. pe \in Seq(Entry)
    BY <1>3
  <2> HIDE DEF pe, m
  <2>2. /\ pe \o m \in Seq(Entry)
        /\ Len(pe \o m) = Len(pe) + Len(m)
        /\ \A i \in 1..(Len(pe) + Len(m)) :
             (pe \o m)[i] = IF i <= Len(pe) THEN pe[i] ELSE m[i - Len(pe)]
    BY <1>1, <2>1, ConcatProperties
  <2> QED
    BY <2>2 DEF pe
<1>5. Entries(r) = (p \o e) \o m
  BY <1>1, ConcatAssociative DEF Entries
<1>6. Entries(r) \in Seq(Entry) /\ DOMAIN Entries(r) = 1..Len(Entries(r))
      /\ Len(Entries(r)) \in Nat
  BY <1>4, <1>5, LenProperties
<1>7. e # << >> <=> Len(e) > 0
  BY <1>1, EmptySeq
<1>8. r.tools # << >> <=> Len(r.tools) > 0
  BY RequestFields, EmptySeq
<1>9. Mutates(r) <=> Len(Entries(r)) > 0
  BY <1>2, <1>3, <1>4, <1>5, <1>7, <1>8, PatchEntriesShape, MarkerEntriesShape DEF Mutates
<1>10. ASSUME r.patch # NoPatch
       PROVE  /\ Len(Entries(r)) > 0
              /\ Entries(r)[1].type = StateChange
              /\ Entries(r)[1].val = r.patch
  BY <1>2, <1>3, <1>4, <1>5, <1>10, PatchEntriesShape
<1>11. ASSUME NEW i \in 1..Len(Entries(r)),
              Entries(r)[i].type = StateChange, Entries(r)[i].val \in Status
       PROVE  i = 1 /\ r.patch # NoPatch
  <2> HIDE DEF p, e, m
  <2>1. CASE i <= Len(p)
    <3>1. Len(p) = IF r.patch = NoPatch THEN 0 ELSE 1
      BY PatchEntriesShape DEF p
    <3>2. i \in Nat /\ i > 0
      BY <1>6
    <3> QED
      BY <2>1, <3>1, <3>2
  <2>2. CASE i > Len(p) /\ i <= Len(p) + Len(e)
    <3>1. Entries(r)[i] = e[i - Len(p)] /\ i - Len(p) \in 1..Len(e)
      BY <1>2, <1>3, <1>4, <1>5, <1>6, <2>2
    <3> QED
      <4>1. e[i - Len(p)].type # StateChange
        BY <3>1, EventsShape DEF e
      <4> QED
        BY <1>11, <3>1, <4>1
  <2>3. CASE i > Len(p) + Len(e)
    <3> DEFINE j == i - (Len(p) + Len(e))
    <3>1. Entries(r)[i] = m[j] /\ j \in 1..Len(m)
      BY <1>2, <1>3, <1>4, <1>5, <1>6, <2>3
    <3>2. m[j].val = NoPatch
      BY <3>1, MarkerEntriesShape DEF m
    <3> QED
      BY <1>11, <3>1, <3>2, NoPatchIsNoStatus
  <2> QED
    BY <1>2, <1>6, <2>1, <2>2, <2>3
<1> QED
  BY <1>6, <1>9, <1>10, <1>11

-----------------------------------------------------------------------------
(* The inductive invariant. *)

InFlight(t) == pc[t] \in {"loaded", "checked"}

\* The row a request read is behind the table, or is the table's row: every
\* write moves last_event_seq.
SnapFresh ==
  \A t \in Threads : InFlight(t) =>
    /\ snap[t].lastSeq <= lastSeq
    /\ snap[t].lastSeq = lastSeq => snap[t] = row

\* What a checked request was checked for still holds, or it cannot commit.
ChecksHold ==
  \A t \in Threads : pc[t] = "checked" =>
    /\ ~Stale(t)
    /\ ~Illegal(t)
    /\ snap[t].lastSeq = lastSeq => ~Duplicate(req[t])

\* Every id and every effect came with a request recorded as a whole.
IdsWhole ==
  \A id \in Recorded(events) : \E s \in Requests :
    id \in IdsOf(s) /\ IdsOf(s) \subseteq Recorded(events)

EffectsWhole ==
  \A i \in DOMAIN effects : \E s \in Requests :
    /\ \E j \in DOMAIN s.tools : effects[i] = s.tools[j]
    /\ IdsOf(s) \subseteq Recorded(events)

Inv == IdsRecordedOnce /\ AcknowledgedIsRecorded /\ EffectsReportedOnce /\ StatusReplays

IInv == TypeOK /\ SnapFresh /\ ChecksHold /\ IdsWhole /\ EffectsWhole /\ Inv

\* An idle thread holds a request.
LEMMA NoRequestIsARequest == NoRequest \in Requests
  BY RequestsAssumption DEF NoRequest

\* An idle thread holds a row.
LEMMA NoRowIsARow == NoRow \in Row
  BY DEF NoRow, Row, Status

\* The invariant holds of a run that was just created.
THEOREM InitIInv == Init => IInv
<1> SUFFICES ASSUME Init PROVE IInv
  OBVIOUS
<1>1. \A t \in Threads : pc[t] = "idle"
  BY DEF Init
<1>2. TypeOK
  <2>1. events \in [1..0 -> Entry]
    BY DEF Init
  <2> QED
    BY <2>1, NoRequestIsARequest, NoRowIsARow DEF Init, TypeOK, Status, AnyVersion
<1>3. SnapFresh /\ ChecksHold
  BY <1>1 DEF SnapFresh, ChecksHold, InFlight
<1>4. IdsWhole /\ EffectsWhole /\ IdsRecordedOnce
  BY DEF Init, IdsWhole, EffectsWhole, IdsRecordedOnce, Recorded
<1>5. AcknowledgedIsRecorded /\ EffectsReportedOnce
  BY <1>1 DEF Init, AcknowledgedIsRecorded, EffectsReportedOnce
<1>6. StatusReplays
  BY DEF Init, StatusReplays, Replays, Moves
<1> QED
  BY <1>2, <1>3, <1>4, <1>5, <1>6 DEF IInv, Inv

-----------------------------------------------------------------------------
(* The writes.  The unique index lets a request with entries commit only   *)
(* when nobody wrote since it read its row.                                *)

\* A request with nothing to write leaves the table as it is.
LEMMA CommitNothing ==
  ASSUME TypeOK, NEW t \in Threads, Commit(t), ~Mutates(req[t])
  PROVE  UNCHANGED table
<1> DEFINE r == req[t]
<1>1. r \in Requests
  BY DEF TypeOK
<1>2. Len(Entries(r)) = 0 /\ Entries(r) = << >>
  <2>1. Entries(r) \in Seq(Entry) /\ ~(Len(Entries(r)) > 0) /\ Len(Entries(r)) \in Nat
    BY <1>1, EntriesShape
  <2> QED
    BY <2>1, EmptySeq
<1>3. snap[t].lastSeq \in Nat
  BY DEF TypeOK, Row
<1>4. Seqs(t) = {}
  BY <1>2, <1>3 DEF Seqs
<1>5. events' = [i \in DOMAIN events |-> events[i]]
  BY <1>4 DEF Commit
<1>6. events' = events
  BY <1>5 DEF TypeOK
<1>7. r.patch = NoPatch /\ r.tools = << >>
  BY DEF Mutates
<1> QED
  BY <1>2, <1>6, <1>7 DEF Commit, table

\* A request with something to write commits at the row it read, and appends
\* its entries after lastSeq.
LEMMA CommitWrites ==
  ASSUME IInv, NEW t \in Threads, Commit(t), Mutates(req[t])
  PROVE  /\ req[t] \in Requests
         /\ Len(Entries(req[t])) \in Nat
         /\ Len(Entries(req[t])) > 0
         /\ snap[t] = row
         /\ ~Duplicate(req[t]) /\ ~Stale(t) /\ ~Illegal(t)
         /\ lastSeq' = lastSeq + Len(Entries(req[t]))
         /\ version' = version + 1
         /\ status' = IF req[t].patch = NoPatch THEN status ELSE req[t].patch
         /\ effects' = effects \o req[t].tools
         /\ events' \in [1..(lastSeq + Len(Entries(req[t]))) -> Entry]
         /\ \A i \in 1..lastSeq : events'[i] = events[i]
         /\ \A k \in 1..Len(Entries(req[t])) : events'[lastSeq + k] = Entries(req[t])[k]
<1> DEFINE r == req[t]
           n == Len(Entries(r))
<1>1. r \in Requests
  BY DEF IInv, TypeOK
<1>2. n \in Nat /\ n > 0 /\ Entries(r) \in Seq(Entry) /\ Entries(r) # << >>
  BY <1>1, EntriesShape, EmptySeq
<1>3. snap[t].lastSeq \in Nat /\ lastSeq \in Nat /\ DOMAIN events = 1..lastSeq
  BY DEF IInv, TypeOK, Row
<1>4. pc[t] = "checked" /\ snap[t].lastSeq <= lastSeq
  BY DEF Commit, IInv, SnapFresh, InFlight
<1>5. snap[t].lastSeq = lastSeq
  <2>1. SUFFICES ASSUME snap[t].lastSeq < lastSeq PROVE FALSE
    BY <1>3, <1>4
  <2>2. snap[t].lastSeq + 1 \in Seqs(t) /\ snap[t].lastSeq + 1 \in DOMAIN events
    BY <1>2, <1>3, <2>1 DEF Seqs
  <2> QED
    BY <2>2 DEF Commit, Collides
<1>6. snap[t] = row
  BY <1>4, <1>5 DEF IInv, SnapFresh, InFlight
<1>7. snap[t].status = status /\ snap[t].version = version /\ snap[t].effects = effects
  BY <1>6 DEF row
<1>8. ~Duplicate(r) /\ ~Stale(t) /\ ~Illegal(t)
  BY <1>4, <1>5 DEF IInv, ChecksHold
<1>9. lastSeq' = lastSeq + n /\ version' = version + 1
  BY <1>2, <1>5, <1>7 DEF Commit, LastSeqAfter
<1>10. status' = IF r.patch = NoPatch THEN status ELSE r.patch
  BY <1>7 DEF Commit
<1>11. effects' = effects \o r.tools
  <2>1. effects \in Seq(ToolCalls)
    BY DEF IInv, TypeOK
  <2>2. CASE r.tools = << >>
    BY <2>1, <2>2, ConcatEmptySeq DEF Commit
  <2>3. CASE r.tools # << >>
    BY <1>7, <2>3 DEF Commit
  <2> QED
    BY <2>2, <2>3
<1>12. Seqs(t) = (lastSeq + 1)..(lastSeq + n)
  BY <1>5 DEF Seqs
<1>13. events' = [i \in 1..(lastSeq + n) |->
                    IF i > lastSeq THEN Entries(r)[i - lastSeq] ELSE events[i]]
  <2>1. 1..lastSeq \cup Seqs(t) = 1..(lastSeq + n)
    BY <1>2, <1>3, <1>12
  <2>2. \A i \in 1..(lastSeq + n) : i \in Seqs(t) <=> i > lastSeq
    BY <1>2, <1>3, <1>12
  <2>3. events' = [i \in 1..(lastSeq + n) |->
                     IF i \in Seqs(t) THEN Entries(r)[i - lastSeq] ELSE events[i]]
    BY <1>3, <1>5, <2>1 DEF Commit
  <2> QED
    BY <2>2, <2>3
<1>14. \A i \in 1..lastSeq : events'[i] = events[i]
  BY <1>2, <1>3, <1>13
<1>15. \A k \in 1..n : events'[lastSeq + k] = Entries(r)[k]
  BY <1>2, <1>3, <1>13
<1>16. events' \in [1..(lastSeq + n) -> Entry]
  <2>1. \A k \in 1..n : Entries(r)[k] \in Entry
    BY <1>2, ElementOfSeq
  <2>2. \A i \in 1..lastSeq : events[i] \in Entry
    BY DEF IInv, TypeOK
  <2>3. \A i \in 1..(lastSeq + n) :
          (IF i > lastSeq THEN Entries(r)[i - lastSeq] ELSE events[i]) \in Entry
    BY <1>2, <1>3, <2>1, <2>2
  <2> QED
    BY <1>13, <2>3
<1> QED
  BY <1>1, <1>2, <1>6, <1>8, <1>9, <1>10, <1>11, <1>14, <1>15, <1>16

\* The ids a commit adds are the ids of its request, and were not there.
LEMMA CommitRecords ==
  ASSUME IInv, NEW t \in Threads, Commit(t), Mutates(req[t])
  PROVE  /\ Recorded(events') = Recorded(events) \cup IdsOf(req[t])
         /\ IdsOf(req[t]) \cap Recorded(events) = {}
         /\ IdsOf(req[t]) # {}
<1> DEFINE r == req[t]
           n == Len(Entries(r))
<1>1. /\ r \in Requests /\ n \in Nat /\ n > 0
      /\ events' \in [1..(lastSeq + n) -> Entry]
      /\ \A i \in 1..lastSeq : events'[i] = events[i]
      /\ \A k \in 1..n : events'[lastSeq + k] = Entries(r)[k]
      /\ ~Duplicate(r)
  BY CommitWrites
<1>2. lastSeq \in Nat /\ DOMAIN events = 1..lastSeq /\ DOMAIN Entries(r) = 1..n
  BY <1>1, EntriesShape DEF IInv, TypeOK
<1>3. Recorded(events') = Recorded(events) \cup IdsOf(r)
  <2>1. ASSUME NEW i \in DOMAIN events'
        PROVE  events'[i].id \in Recorded(events) \cup IdsOf(r)
    <3>1. CASE i \in 1..lastSeq
      BY <1>1, <1>2, <3>1 DEF Recorded
    <3>2. CASE i \notin 1..lastSeq
      <4>1. i - lastSeq \in 1..n /\ i = lastSeq + (i - lastSeq)
        BY <1>1, <1>2, <2>1, <3>2
      <4>2. events'[i] = Entries(r)[i - lastSeq]
        BY <1>1, <4>1
      <4> QED
        BY <1>2, <4>1, <4>2 DEF IdsOf
    <3> QED
      BY <3>1, <3>2
  <2>2. ASSUME NEW i \in DOMAIN events
        PROVE  events[i].id \in Recorded(events')
    <3>1. i \in 1..lastSeq /\ i \in 1..(lastSeq + n)
      BY <1>1, <1>2, <2>2
    <3>2. i \in DOMAIN events' /\ events'[i] = events[i]
      BY <1>1, <3>1
    <3> QED
      BY <3>2 DEF Recorded
  <2>3. ASSUME NEW k \in DOMAIN Entries(r)
        PROVE  Entries(r)[k].id \in Recorded(events')
    <3>1. k \in 1..n /\ lastSeq + k \in 1..(lastSeq + n)
      BY <1>1, <1>2, <2>3
    <3>2. lastSeq + k \in DOMAIN events' /\ events'[lastSeq + k] = Entries(r)[k]
      BY <1>1, <3>1
    <3> QED
      BY <3>2 DEF Recorded
  <2>4. Recorded(events') \subseteq Recorded(events) \cup IdsOf(r)
    <3>1. Recorded(events') = {events'[i].id : i \in DOMAIN events'}
      BY DEF Recorded
    <3> QED
      BY <2>1, <3>1
  <2>5. Recorded(events) \subseteq Recorded(events')
    <3>1. Recorded(events) = {events[i].id : i \in DOMAIN events}
      BY DEF Recorded
    <3> QED
      BY <2>2, <3>1
  <2>6. IdsOf(r) \subseteq Recorded(events')
    BY <2>3 DEF IdsOf
  <2> QED
    BY <2>4, <2>5, <2>6
<1>4. IdsOf(r) \cap Recorded(events) = {}
  <2> SUFFICES ASSUME NEW id \in IdsOf(r), id \in Recorded(events)
               PROVE  FALSE
    OBVIOUS
  <2>1. PICK s \in Requests : id \in IdsOf(s) /\ IdsOf(s) \subseteq Recorded(events)
    BY DEF IInv, IdsWhole
  <2>2. LookupIds(r) \cap IdsOf(s) # {}
    BY <1>1, <2>1, IdsAssumption
  <2> QED
    BY <1>1, <2>1, <2>2 DEF Duplicate
<1>5. IdsOf(r) # {}
  <2>1. 1 \in DOMAIN Entries(r)
    BY <1>1, <1>2
  <2> QED
    BY <2>1 DEF IdsOf
<1> QED
  BY <1>3, <1>4, <1>5

-----------------------------------------------------------------------------
(* The parts of the invariant that only read the table. *)

\* A commit keeps every id single and every recorded request whole.
LEMMA CommitKeepsIds ==
  ASSUME IInv, NEW t \in Threads, Commit(t), Mutates(req[t])
  PROVE  IdsWhole' /\ IdsRecordedOnce'
<1> DEFINE r == req[t]
           n == Len(Entries(r))
<1>1. /\ r \in Requests /\ n \in Nat
      /\ events' \in [1..(lastSeq + n) -> Entry]
      /\ \A i \in 1..lastSeq : events'[i] = events[i]
      /\ \A k \in 1..n : events'[lastSeq + k] = Entries(r)[k]
  BY CommitWrites
<1>2. lastSeq \in Nat /\ DOMAIN events = 1..lastSeq /\ DOMAIN Entries(r) = 1..n
  BY <1>1, EntriesShape DEF IInv, TypeOK
<1>3. Recorded(events') = Recorded(events) \cup IdsOf(r)
      /\ IdsOf(r) \cap Recorded(events) = {}
  BY CommitRecords
<1>4. IdsWhole'
  <2> SUFFICES ASSUME NEW id \in Recorded(events')
               PROVE  \E s \in Requests : id \in IdsOf(s) /\ IdsOf(s) \subseteq Recorded(events')
    BY DEF IdsWhole
  <2>1. CASE id \in IdsOf(r)
    BY <1>1, <1>3, <2>1
  <2>2. CASE id \in Recorded(events)
    BY <1>3, <2>2 DEF IInv, IdsWhole
  <2> QED
    BY <1>3, <2>1, <2>2
<1>5. IdsRecordedOnce'
  <2> SUFFICES ASSUME NEW i \in 1..(lastSeq + n), NEW j \in 1..(lastSeq + n), i < j,
                      events'[i].id = events'[j].id
               PROVE  FALSE
    <3>1. DOMAIN events' = 1..(lastSeq + n)
      BY <1>1
    <3> QED
      BY <1>1, <1>2, <3>1 DEF IdsRecordedOnce
  <2>1. CASE j <= lastSeq
    <3>1. i \in DOMAIN events /\ j \in DOMAIN events
      BY <1>2, <2>1
    <3>2. events[i].id = events[j].id
      BY <1>1, <1>2, <3>1
    <3> QED
      BY <1>2, <3>1, <3>2 DEF IInv, Inv, IdsRecordedOnce
  <2>2. CASE j > lastSeq
    <3>1. j - lastSeq \in 1..n /\ lastSeq + (j - lastSeq) = j
      BY <1>1, <1>2, <2>2
    <3>2. events'[j] = Entries(r)[j - lastSeq]
      BY <1>1, <3>1
    <3>3. events'[j].id \in IdsOf(r)
      BY <1>2, <3>1, <3>2 DEF IdsOf
    <3>4. CASE i <= lastSeq
      <4>1. i \in DOMAIN events /\ events'[i] = events[i]
        BY <1>1, <1>2, <3>4
      <4>2. events'[i].id \in Recorded(events)
        BY <4>1 DEF Recorded
      <4> QED
        BY <1>3, <3>3, <4>2
    <3>5. CASE i > lastSeq
      <4>1. i - lastSeq \in 1..n /\ lastSeq + (i - lastSeq) = i /\ i - lastSeq # j - lastSeq
        BY <1>1, <1>2, <3>5
      <4>2. events'[i] = Entries(r)[i - lastSeq]
        BY <1>1, <4>1
      <4> QED
        BY <1>1, <1>2, <3>1, <3>2, <4>1, <4>2, IdsAssumption
    <3> QED
      BY <1>1, <1>2, <3>4, <3>5
  <2> QED
    BY <1>1, <1>2, <2>1, <2>2
<1> QED
  BY <1>4, <1>5

\* No call enters twice, and none that was there leaves.
EffectsDistinct == \A i, j \in DOMAIN effects : i # j => effects[i] # effects[j]

\* A commit keeps the tool calls of side_effects single and those reported in it.
LEMMA CommitKeepsEffects ==
  ASSUME IInv, NEW t \in Threads, Commit(t), Mutates(req[t])
  PROVE  /\ EffectsWhole' /\ EffectsDistinct'
         /\ effects \in Seq(ToolCalls) /\ effects' \in Seq(ToolCalls)
         /\ Len(effects) \in Nat /\ Len(effects) <= Len(effects')
         /\ \A i \in 1..Len(effects) : effects'[i] = effects[i]
         /\ \A k \in DOMAIN req[t].tools : \E i \in DOMAIN effects' : effects'[i] = req[t].tools[k]
<1> DEFINE r == req[t]
           m == Len(effects)
           n == Len(r.tools)
<1>1. /\ r \in Requests /\ effects' = effects \o r.tools /\ ~Duplicate(r)
  BY CommitWrites
<1>2. effects \in Seq(ToolCalls) /\ r.tools \in Seq(ToolCalls)
  BY <1>1, RequestFields DEF IInv, TypeOK
<1>3. /\ m \in Nat /\ n \in Nat /\ DOMAIN effects = 1..m /\ DOMAIN r.tools = 1..n
  BY <1>2, LenProperties
<1>4. /\ effects' \in Seq(ToolCalls) /\ Len(effects') = m + n
      /\ \A i \in 1..(m + n) : effects'[i] = IF i <= m THEN effects[i] ELSE r.tools[i - m]
  <2> DEFINE tools == r.tools
  <2>1. tools \in Seq(ToolCalls) /\ effects' = effects \o tools
    BY <1>1, <1>2
  <2> HIDE DEF tools
  <2>2. /\ effects \o tools \in Seq(ToolCalls)
        /\ Len(effects \o tools) = Len(effects) + Len(tools)
        /\ \A i \in 1..(Len(effects) + Len(tools)) :
             (effects \o tools)[i] = IF i <= Len(effects) THEN effects[i] ELSE tools[i - Len(effects)]
    BY <1>2, <2>1, ConcatProperties
  <2> QED
    BY <2>1, <2>2 DEF tools
<1>5. DOMAIN effects' = 1..(m + n)
  BY <1>4, LenProperties
<1>6. Recorded(events') = Recorded(events) \cup IdsOf(r) /\ IdsOf(r) # {}
      /\ IdsOf(r) \cap Recorded(events) = {}
  BY CommitRecords
<1> HIDE DEF m, n
<1>7. EffectsWhole'
  <2> SUFFICES ASSUME NEW i \in 1..(m + n)
               PROVE  \E s \in Requests :
                        /\ \E j \in DOMAIN s.tools : effects'[i] = s.tools[j]
                        /\ IdsOf(s) \subseteq Recorded(events')
    BY <1>5 DEF EffectsWhole
  <2>1. CASE i <= m
    <3>1. i \in DOMAIN effects /\ effects'[i] = effects[i]
      BY <1>3, <1>4, <2>1
    <3>2. PICK s \in Requests : /\ \E j \in DOMAIN s.tools : effects[i] = s.tools[j]
                                /\ IdsOf(s) \subseteq Recorded(events)
      BY <3>1 DEF IInv, EffectsWhole
    <3> QED
      BY <1>6, <3>1, <3>2
  <2>2. CASE i > m
    <3>1. i - m \in DOMAIN r.tools /\ effects'[i] = r.tools[i - m]
      BY <1>3, <1>4, <2>2
    <3> QED
      BY <1>1, <1>6, <3>1
  <2> QED
    BY <1>3, <2>1, <2>2
<1>8. EffectsDistinct'
  <2> SUFFICES ASSUME NEW i \in 1..(m + n), NEW j \in 1..(m + n), i < j,
                      effects'[i] = effects'[j]
               PROVE  FALSE
    BY <1>3, <1>5 DEF EffectsDistinct
  <2>1. CASE j <= m
    <3>1. i \in DOMAIN effects /\ j \in DOMAIN effects /\ effects[i] = effects[j]
      BY <1>3, <1>4, <2>1
    <3> QED
      BY <1>3, <3>1 DEF IInv, Inv, EffectsReportedOnce
  <2>2. CASE i <= m /\ j > m
    <3>1. i \in DOMAIN effects /\ effects'[i] = effects[i]
      BY <1>3, <1>4, <2>2
    <3>2. j - m \in DOMAIN r.tools /\ effects'[j] = r.tools[j - m]
      BY <1>3, <1>4, <2>2
    <3>3. PICK s \in Requests : /\ \E k \in DOMAIN s.tools : effects[i] = s.tools[k]
                                /\ IdsOf(s) \subseteq Recorded(events)
      BY <3>1 DEF IInv, EffectsWhole
    <3>4. s = r
      BY <1>1, <3>1, <3>2, <3>3, ToolsAssumption
    <3> QED
      BY <1>6, <3>3, <3>4
  <2>3. CASE i > m
    <3>1. /\ i - m \in DOMAIN r.tools /\ j - m \in DOMAIN r.tools
          /\ r.tools[i - m] = r.tools[j - m] /\ i - m # j - m
      BY <1>3, <1>4, <2>3
    <3> QED
      BY <1>1, <3>1, ToolsAssumption
  <2> QED
    BY <1>3, <2>1, <2>2, <2>3
<1>9. \A i \in 1..m : effects'[i] = effects[i]
  BY <1>3, <1>4
<1>10. \A k \in DOMAIN r.tools : \E i \in DOMAIN effects' : effects'[i] = r.tools[k]
  <2> SUFFICES ASSUME NEW k \in 1..n
               PROVE  \E i \in 1..(m + n) : effects'[i] = r.tools[k]
    BY <1>3, <1>5
  <2>1. m + k \in 1..(m + n) /\ (m + k) - m = k /\ ~(m + k <= m)
    BY <1>3
  <2>2. effects'[m + k] = r.tools[k]
    BY <1>4, <2>1
  <2> QED
    BY <2>1, <2>2
<1> QED
  BY <1>2, <1>3, <1>4, <1>7, <1>8, <1>9, <1>10 DEF m

\* A commit leaves a log that replays to the new status.
LEMMA CommitKeepsStatus ==
  ASSUME IInv, NEW t \in Threads, Commit(t), Mutates(req[t])
  PROVE  StatusReplays'
<1> DEFINE r == req[t]
           n == Len(Entries(r))
<1>1. /\ r \in Requests /\ n \in Nat /\ n > 0
      /\ events' \in [1..(lastSeq + n) -> Entry]
      /\ \A i \in 1..lastSeq : events'[i] = events[i]
      /\ \A k \in 1..n : events'[lastSeq + k] = Entries(r)[k]
      /\ status' = IF r.patch = NoPatch THEN status ELSE r.patch
  BY CommitWrites
<1>2. lastSeq \in Nat /\ DOMAIN events = 1..lastSeq /\ DOMAIN events' = 1..(lastSeq + n)
  BY <1>1 DEF IInv, TypeOK
<1>3. /\ r.patch # NoPatch => /\ Entries(r)[1].type = StateChange
                              /\ Entries(r)[1].val = r.patch
      /\ \A k \in 1..n :
           (Entries(r)[k].type = StateChange /\ Entries(r)[k].val \in Status)
             => (k = 1 /\ r.patch # NoPatch)
  BY <1>1, EntriesShape
<1>4. Moves(events) \subseteq 1..lastSeq
  BY <1>2 DEF Moves
<1> HIDE DEF n
<1>5. \A i \in Moves(events') :
        i \in Moves(events) \/ (i = lastSeq + 1 /\ r.patch # NoPatch)
  <2> SUFFICES ASSUME NEW i \in 1..(lastSeq + n),
                      events'[i].type = StateChange, events'[i].val \in Status
               PROVE  i \in Moves(events) \/ (i = lastSeq + 1 /\ r.patch # NoPatch)
    BY <1>2 DEF Moves
  <2>1. CASE i <= lastSeq
    <3>1. i \in 1..lastSeq /\ events'[i] = events[i]
      BY <1>1, <1>2, <2>1
    <3> QED
      BY <1>2, <3>1 DEF Moves
  <2>2. CASE i > lastSeq
    <3>1. i - lastSeq \in 1..n /\ lastSeq + (i - lastSeq) = i
      BY <1>1, <1>2, <2>2
    <3>2. events'[i] = Entries(r)[i - lastSeq]
      BY <1>1, <3>1 DEF n
    <3>3. i - lastSeq = 1 /\ r.patch # NoPatch
      BY <1>3, <3>1, <3>2
    <3> QED
      BY <1>2, <3>3
  <2> QED
    BY <1>1, <1>2, <2>1, <2>2
<1>6. \A i \in Moves(events) : i \in Moves(events') /\ events'[i].val = events[i].val
  <2> SUFFICES ASSUME NEW i \in Moves(events)
               PROVE  i \in Moves(events') /\ events'[i].val = events[i].val
    OBVIOUS
  <2>1. i \in 1..lastSeq /\ i \in 1..(lastSeq + n) /\ events'[i] = events[i]
    BY <1>1, <1>2, <1>4
  <2> QED
    BY <1>2, <2>1 DEF Moves
<1>7. CASE r.patch = NoPatch
  <2>1. Moves(events') = Moves(events) /\ status' = status
    BY <1>1, <1>5, <1>6, <1>7
  <2> QED
    BY <1>6, <2>1 DEF IInv, Inv, StatusReplays, Replays
<1>8. CASE r.patch # NoPatch
  <2>1. lastSeq + 1 \in 1..(lastSeq + n) /\ 1 \in 1..n
    BY <1>1, <1>2 DEF n
  <2>2. events'[lastSeq + 1] = Entries(r)[1]
    BY <1>1, <2>1 DEF n
  <2>3. r.patch \in Status
    BY <1>1, <1>8, RequestFields
  <2>4. lastSeq + 1 \in Moves(events') /\ events'[lastSeq + 1].val = r.patch
    BY <1>2, <1>3, <1>8, <2>1, <2>2, <2>3 DEF Moves
  <2>5. \A j \in Moves(events') : j <= lastSeq + 1
    BY <1>2, <1>4, <1>5
  <2> QED
    BY <1>1, <1>8, <2>4, <2>5 DEF StatusReplays, Replays
<1> QED
  BY <1>7, <1>8

-----------------------------------------------------------------------------
(* The invariant as a part about the table and a part about each thread. *)

TableOK == IdsWhole /\ EffectsWhole /\ IdsRecordedOnce /\ EffectsDistinct /\ StatusReplays

ThreadOK(t) ==
  /\ InFlight(t) => /\ snap[t].lastSeq <= lastSeq
                    /\ snap[t].lastSeq = lastSeq => snap[t] = row
  /\ pc[t] = "checked" => /\ ~Stale(t)
                          /\ ~Illegal(t)
                          /\ snap[t].lastSeq = lastSeq => ~Duplicate(req[t])
  /\ pc[t] = "appended" =>
       /\ \A k \in DOMAIN Entries(req[t]) :
            /\ snap[t].lastSeq + k \in DOMAIN events
            /\ events[snap[t].lastSeq + k] = Entries(req[t])[k]
       /\ \A k \in DOMAIN req[t].tools :
            \E i \in DOMAIN effects : effects[i] = req[t].tools[k]
  /\ pc[t] = "duplicate" =>
       \A k \in DOMAIN Entries(req[t]) : Entries(req[t])[k].id \in Recorded(events)

\* The invariant as a condition on the table and one on each thread.
LEMMA Split == IInv <=> TypeOK /\ TableOK /\ \A t \in Threads : ThreadOK(t)
<1>1. IInv => TypeOK /\ TableOK
  BY DEF IInv, Inv, TableOK, EffectsReportedOnce, EffectsDistinct
<1>2. ASSUME IInv, NEW t \in Threads PROVE ThreadOK(t)
  BY <1>2 DEF IInv, Inv, SnapFresh, ChecksHold, AcknowledgedIsRecorded,
              EffectsReportedOnce, ThreadOK
<1>3. ASSUME TypeOK, TableOK, \A t \in Threads : ThreadOK(t) PROVE IInv
  <2>1. SnapFresh /\ ChecksHold
    BY <1>3 DEF ThreadOK, SnapFresh, ChecksHold
  <2>2. AcknowledgedIsRecorded /\ EffectsReportedOnce
    BY <1>3 DEF ThreadOK, TableOK, EffectsDistinct, AcknowledgedIsRecorded, EffectsReportedOnce
  <2> QED
    BY <1>3, <2>1, <2>2 DEF IInv, Inv, TableOK
<1> QED
  BY <1>1, <1>2, <1>3

\* A thread that does not move is unaffected by a step that leaves the table.
LEMMA ThreadFrame ==
  ASSUME NEW t \in Threads, ThreadOK(t), UNCHANGED table,
         pc'[t] = pc[t], req'[t] = req[t], expected'[t] = expected[t], snap'[t] = snap[t]
  PROVE  ThreadOK(t)'
<1>1. row' = row
  BY DEF table, row
<1>2. Duplicate(req[t])' <=> Duplicate(req[t])
  BY DEF table, Duplicate
<1>3. (Stale(t)' <=> Stale(t)) /\ (Illegal(t)' <=> Illegal(t))
  BY DEF Stale, Illegal
<1>4. InFlight(t)' <=> InFlight(t)
  BY DEF InFlight
<1>5. UNCHANGED <<events, effects, lastSeq>>
  BY DEF table
<1> QED
  BY <1>1, <1>2, <1>3, <1>4, <1>5 DEF ThreadOK

\* A step that leaves the table leaves what only reads it.
LEMMA TableFrame ==
  ASSUME TableOK, UNCHANGED table
  PROVE  TableOK'
BY DEF TableOK, table, IdsWhole, EffectsWhole, IdsRecordedOnce, EffectsDistinct, StatusReplays

\* Nothing is asked of an idle thread.
LEMMA IdleThreadOK ==
  ASSUME NEW t \in Threads, pc[t] = "idle"
  PROVE  ThreadOK(t)
BY DEF ThreadOK, InFlight

\* A committed write leaves every other request behind the table, and leaves
\* what was acknowledged.
LEMMA CommitKeepsThreads ==
  ASSUME IInv, NEW t \in Threads, Commit(t), Mutates(req[t]), NEW u \in Threads
  PROVE  ThreadOK(u)'
<1> DEFINE r == req[t]
           n == Len(Entries(r))
<1>1. /\ r \in Requests /\ n \in Nat /\ n > 0 /\ snap[t] = row /\ lastSeq' = lastSeq + n
      /\ events' \in [1..(lastSeq + n) -> Entry]
      /\ \A i \in 1..lastSeq : events'[i] = events[i]
      /\ \A k \in 1..n : events'[lastSeq + k] = Entries(r)[k]
  BY CommitWrites
<1>2. /\ lastSeq \in Nat /\ DOMAIN events = 1..lastSeq /\ DOMAIN events' = 1..(lastSeq + n)
      /\ DOMAIN Entries(r) = 1..n
  BY <1>1, EntriesShape DEF IInv, TypeOK
<1>3. /\ effects \in Seq(ToolCalls) /\ effects' \in Seq(ToolCalls)
      /\ Len(effects) \in Nat /\ Len(effects) <= Len(effects')
      /\ \A i \in 1..Len(effects) : effects'[i] = effects[i]
      /\ \A k \in DOMAIN r.tools : \E i \in DOMAIN effects' : effects'[i] = r.tools[k]
  BY CommitKeepsEffects
<1>4. Recorded(events) \subseteq Recorded(events')
  BY CommitRecords
<1>5. pc' = [pc EXCEPT ![t] = "appended"] /\ UNCHANGED <<req, expected, snap>>
  BY DEF Commit, Answer
<1>6. pc \in [Threads -> {"idle", "loaded", "checked", "appended", "duplicate"}]
      /\ snap[u].lastSeq \in Nat
  BY DEF IInv, TypeOK, Row
<1>7. CASE u = t
  <2>1. pc'[u] = "appended" /\ snap[u].lastSeq = lastSeq
    BY <1>1, <1>5, <1>6, <1>7 DEF row
  <2>2. \A k \in 1..n : /\ lastSeq + k \in DOMAIN events'
                        /\ events'[lastSeq + k] = Entries(r)[k]
    BY <1>1, <1>2
  <2> QED
    BY <1>2, <1>3, <1>5, <1>7, <2>1, <2>2 DEF ThreadOK, InFlight
<1>8. CASE u # t
  <2>1. pc'[u] = pc[u] /\ req'[u] = req[u] /\ snap'[u] = snap[u] /\ expected'[u] = expected[u]
    BY <1>5, <1>6, <1>8
  <2>2. ThreadOK(u)
    BY Split
  <2>3. InFlight(u)' <=> InFlight(u)
    BY <2>1 DEF InFlight
  <2>4. InFlight(u) => snap[u].lastSeq < lastSeq'
    BY <1>1, <1>2, <1>6, <2>2 DEF ThreadOK
  <2>5. (Stale(u)' <=> Stale(u)) /\ (Illegal(u)' <=> Illegal(u))
    BY <2>1 DEF Stale, Illegal
  <2>6. pc[u] = "appended" =>
          \A k \in DOMAIN Entries(req[u]) :
            /\ snap[u].lastSeq + k \in DOMAIN events'
            /\ events'[snap[u].lastSeq + k] = Entries(req[u])[k]
    BY <1>1, <1>2, <2>2 DEF ThreadOK
  <2>7. pc[u] = "appended" =>
          \A k \in DOMAIN req[u].tools :
            \E i \in DOMAIN effects' : effects'[i] = req[u].tools[k]
    <3>1. DOMAIN effects = 1..Len(effects) /\ DOMAIN effects' = 1..Len(effects')
          /\ Len(effects') \in Nat
      BY <1>3, LenProperties
    <3>2. \A i \in DOMAIN effects : i \in DOMAIN effects' /\ effects'[i] = effects[i]
      BY <1>3, <3>1
    <3> QED
      BY <2>2, <3>2 DEF ThreadOK
  <2>8. pc[u] = "duplicate" =>
          \A k \in DOMAIN Entries(req[u]) : Entries(req[u])[k].id \in Recorded(events')
    BY <1>4, <2>2 DEF ThreadOK
  <2>9. pc[u] = "checked" => InFlight(u)
    BY DEF InFlight
  <2>10. pc[u] = "checked" => ~Stale(u) /\ ~Illegal(u)
    BY <2>2 DEF ThreadOK
  <2>11. lastSeq' \in Nat /\ (snap[u].lastSeq < lastSeq' => snap[u].lastSeq <= lastSeq' /\ snap[u].lastSeq # lastSeq')
    BY <1>1, <1>2, <1>6
  <2> QED
    BY <2>1, <2>3, <2>4, <2>5, <2>6, <2>7, <2>8, <2>9, <2>10, <2>11 DEF ThreadOK
<1> QED
  BY <1>7, <1>8

-----------------------------------------------------------------------------
(* Every step keeps the invariant. *)

\* A commit keeps the types.
LEMMA CommitKeepsTypes ==
  ASSUME IInv, NEW t \in Threads, Commit(t)
  PROVE  TypeOK'
<1>1. TypeOK
  BY DEF IInv
<1>2. pc' \in [Threads -> {"idle", "loaded", "checked", "appended", "duplicate"}]
      /\ req' \in [Threads -> Requests] /\ expected' \in [Threads -> Nat \cup {AnyVersion}]
      /\ snap' \in [Threads -> Row]
  BY <1>1 DEF TypeOK, Commit, Answer
<1>3. CASE ~Mutates(req[t])
  <2>1. UNCHANGED table
    BY <1>1, <1>3, CommitNothing
  <2> QED
    BY <1>1, <1>2, <2>1 DEF TypeOK, table
<1>4. CASE Mutates(req[t])
  <2>1. /\ req[t] \in Requests /\ Len(Entries(req[t])) \in Nat
        /\ lastSeq' = lastSeq + Len(Entries(req[t])) /\ version' = version + 1
        /\ status' = IF req[t].patch = NoPatch THEN status ELSE req[t].patch
        /\ events' \in [1..(lastSeq + Len(Entries(req[t]))) -> Entry]
    BY <1>4, CommitWrites
  <2>2. effects' \in Seq(ToolCalls)
    BY <1>4, CommitKeepsEffects
  <2>3. status' \in Status
    BY <1>1, <2>1, RequestFields DEF TypeOK
  <2>4. lastSeq' \in Nat /\ version' \in Nat
    BY <1>1, <2>1 DEF TypeOK
  <2> QED
    BY <1>2, <2>1, <2>2, <2>3, <2>4 DEF TypeOK
<1> QED
  BY <1>3, <1>4

\* A request that is answered without a write keeps the invariant.
LEMMA LeaveKeepsInvariant ==
  ASSUME IInv, NEW t \in Threads, Leave(t), UNCHANGED table
  PROVE  IInv'
<1>1. TypeOK /\ TableOK /\ \A u \in Threads : ThreadOK(u)
  BY Split
<1>2. TypeOK'
  BY <1>1, NoRequestIsARequest, NoRowIsARow DEF TypeOK, Leave, table
<1>3. TableOK'
  BY <1>1, TableFrame
<1>4. ASSUME NEW u \in Threads PROVE ThreadOK(u)'
  <2>1. CASE u = t
    <3>1. pc'[u] = "idle"
      BY <1>1, <2>1 DEF Leave, TypeOK
    <3> QED
      BY <3>1 DEF ThreadOK, InFlight
  <2>2. CASE u # t
    <3>1. pc'[u] = pc[u] /\ req'[u] = req[u] /\ expected'[u] = expected[u] /\ snap'[u] = snap[u]
      BY <1>1, <2>2 DEF Leave, TypeOK
    <3> QED
      BY <1>1, <3>1, ThreadFrame
  <2> QED
    BY <2>1, <2>2
<1> QED
  BY <1>2, <1>3, <1>4 DEF IInv, Inv, TableOK, ThreadOK, SnapFresh, ChecksHold,
     AcknowledgedIsRecorded, EffectsReportedOnce, EffectsDistinct

\* Every step keeps the invariant.
LEMMA NextKeepsInvariant == IInv /\ [Next]_vars => IInv'
<1> SUFFICES ASSUME IInv, [Next]_vars PROVE IInv'
  OBVIOUS
<1>1. TypeOK /\ TableOK /\ \A u \in Threads : ThreadOK(u)
  BY Split
<1>2. ASSUME TypeOK', TableOK', \A u \in Threads : ThreadOK(u)'
      PROVE  IInv'
  BY <1>2 DEF IInv, Inv, TableOK, ThreadOK, SnapFresh, ChecksHold,
     AcknowledgedIsRecorded, EffectsReportedOnce, EffectsDistinct
<1>3. CASE UNCHANGED vars
  <2>1. UNCHANGED table /\ UNCHANGED <<pc, req, expected, snap>>
    BY <1>3 DEF vars, threads
  <2>2. TypeOK'
    BY <1>1, <2>1 DEF TypeOK, table
  <2>3. TableOK'
    BY <1>1, <2>1, TableFrame
  <2>4. \A u \in Threads : ThreadOK(u)'
    BY <1>1, <2>1, ThreadFrame
  <2> QED
    BY <1>2, <2>2, <2>3, <2>4
<1>4. CASE Crash
  <2>1. TypeOK'
    BY <1>1, <1>4, NoRequestIsARequest, NoRowIsARow DEF TypeOK, Crash, table
  <2>2. TableOK'
    BY <1>1, <1>4, TableFrame DEF Crash
  <2>3. ASSUME NEW u \in Threads PROVE ThreadOK(u)'
    BY <1>4 DEF Crash, ThreadOK, InFlight
  <2> QED
    BY <1>2, <2>1, <2>2, <2>3
<1>5. ASSUME NEW t \in Threads, Begin(t) PROVE IInv'
  <2>1. PICK r \in Requests, e \in {AnyVersion} \cup {v \in 0..version : version <= v + MaxLag} :
          req' = [req EXCEPT ![t] = r] /\ expected' = [expected EXCEPT ![t] = e]
    BY <1>5 DEF Begin
  <2>2. row \in Row
    BY <1>1 DEF TypeOK, row, Row
  <2>3. TypeOK'
    <3>1. e \in Nat \cup {AnyVersion}
      BY <1>1, <2>1 DEF TypeOK
    <3> QED
      BY <1>1, <1>5, <2>1, <2>2, <3>1 DEF TypeOK, Begin, table
  <2>4. TableOK'
    BY <1>1, <1>5, TableFrame DEF Begin
  <2>5. ASSUME NEW u \in Threads PROVE ThreadOK(u)'
    <3>1. CASE u = t
      <4>1. pc'[u] = "loaded" /\ snap'[u] = row /\ row' = row /\ lastSeq' = lastSeq
            /\ lastSeq \in Nat
        BY <1>1, <1>5, <3>1 DEF Begin, TypeOK, table, row
      <4> QED
        BY <4>1 DEF ThreadOK, InFlight, row
    <3>2. CASE u # t
      <4>1. pc'[u] = pc[u] /\ req'[u] = req[u] /\ expected'[u] = expected[u] /\ snap'[u] = snap[u]
        BY <1>1, <1>5, <2>1, <3>2 DEF Begin, TypeOK
      <4> QED
        BY <1>1, <1>5, <4>1, ThreadFrame DEF Begin
    <3> QED
      BY <3>1, <3>2
  <2> QED
    BY <1>2, <2>3, <2>4, <2>5
<1>6. ASSUME NEW t \in Threads, AnswerDuplicate(t) PROVE IInv'
  <2>1. UNCHANGED table /\ pc' = [pc EXCEPT ![t] = "duplicate"] /\ UNCHANGED <<req, expected, snap>>
    BY <1>6 DEF AnswerDuplicate, Answer
  <2>2. TypeOK'
    BY <1>1, <2>1 DEF TypeOK, table
  <2>3. TableOK'
    BY <1>1, <2>1, TableFrame
  <2>4. ASSUME NEW u \in Threads PROVE ThreadOK(u)'
    <3>1. CASE u = t
      <4>1. req[t] \in Requests /\ LookupIds(req[t]) \cap Recorded(events) # {}
        BY <1>1, <1>6 DEF TypeOK, AnswerDuplicate, Duplicate
      <4>2. PICK id \in Recorded(events) : id \in LookupIds(req[t])
        BY <4>1
      <4>3. PICK s \in Requests : id \in IdsOf(s) /\ IdsOf(s) \subseteq Recorded(events)
        BY <1>1, <4>2 DEF TableOK, IdsWhole
      <4>4. IdsOf(req[t]) \subseteq Recorded(events)
        BY <4>1, <4>2, <4>3, IdsAssumption
      <4>5. \A k \in DOMAIN Entries(req[t]) : Entries(req[t])[k].id \in Recorded(events)
        BY <4>4 DEF IdsOf
      <4>6. pc'[u] = "duplicate" /\ req'[u] = req[t] /\ events' = events
        BY <1>1, <2>1, <3>1 DEF TypeOK, table
      <4> QED
        BY <4>5, <4>6 DEF ThreadOK, InFlight
    <3>2. CASE u # t
      <4>1. pc'[u] = pc[u] /\ req'[u] = req[u] /\ expected'[u] = expected[u] /\ snap'[u] = snap[u]
        BY <1>1, <2>1, <3>2 DEF TypeOK
      <4> QED
        BY <1>1, <2>1, <4>1, ThreadFrame
    <3> QED
      BY <3>1, <3>2
  <2> QED
    BY <1>2, <2>2, <2>3, <2>4
<1>7. ASSUME NEW t \in Threads, PassChecks(t) PROVE IInv'
  <2>1. UNCHANGED table /\ pc' = [pc EXCEPT ![t] = "checked"] /\ UNCHANGED <<req, expected, snap>>
    BY <1>7 DEF PassChecks, Answer
  <2>2. TypeOK'
    BY <1>1, <2>1 DEF TypeOK, table
  <2>3. TableOK'
    BY <1>1, <2>1, TableFrame
  <2>4. ASSUME NEW u \in Threads PROVE ThreadOK(u)'
    <3>1. CASE u = t
      <4>1. ~Duplicate(req[t])' /\ ~Stale(t)' /\ ~Illegal(t)'
        BY <1>7, <2>1 DEF PassChecks, Duplicate, Stale, Illegal, table
      <4>2. /\ InFlight(t)
            /\ snap[t].lastSeq <= lastSeq
            /\ snap[t].lastSeq = lastSeq => snap[t] = row
        BY <1>1, <1>7 DEF PassChecks, ThreadOK, InFlight
      <4>3. pc'[t] = "checked" /\ row' = row /\ lastSeq' = lastSeq
        BY <1>1, <2>1 DEF TypeOK, table, row
      <4> QED
        BY <2>1, <3>1, <4>1, <4>2, <4>3 DEF ThreadOK
    <3>2. CASE u # t
      <4>1. pc'[u] = pc[u] /\ req'[u] = req[u] /\ expected'[u] = expected[u] /\ snap'[u] = snap[u]
        BY <1>1, <2>1, <3>2 DEF TypeOK
      <4> QED
        BY <1>1, <2>1, <4>1, ThreadFrame
    <3> QED
      BY <3>1, <3>2
  <2> QED
    BY <1>2, <2>2, <2>3, <2>4
<1>8. ASSUME NEW t \in Threads, Commit(t) PROVE IInv'
  <2>1. TypeOK'
    BY <1>8, CommitKeepsTypes
  <2>2. CASE Mutates(req[t])
    <3>1. TableOK'
      BY <1>8, <2>2, CommitKeepsIds, CommitKeepsEffects, CommitKeepsStatus DEF TableOK
    <3>2. \A u \in Threads : ThreadOK(u)'
      BY <1>8, <2>2, CommitKeepsThreads
    <3> QED
      BY <1>2, <2>1, <3>1, <3>2
  <2>3. CASE ~Mutates(req[t])
    <3>1. UNCHANGED table
      BY <1>1, <1>8, <2>3, CommitNothing
    <3>2. TableOK'
      BY <1>1, <3>1, TableFrame
    <3>3. pc' = [pc EXCEPT ![t] = "appended"] /\ UNCHANGED <<req, expected, snap>>
      BY <1>8 DEF Commit, Answer
    <3>4. ASSUME NEW u \in Threads PROVE ThreadOK(u)'
      <4>1. CASE u = t
        <5>1. req[t] \in Requests
          BY <1>1 DEF TypeOK
        <5>2. DOMAIN Entries(req[t]) = {}
          BY <2>3, <5>1, EntriesShape
        <5>3. DOMAIN req[t].tools = {}
          BY <2>3 DEF Mutates
        <5>4. pc'[u] = "appended" /\ req'[u] = req[t]
          BY <1>1, <3>3, <4>1 DEF TypeOK
        <5> QED
          BY <5>2, <5>3, <5>4 DEF ThreadOK, InFlight
      <4>2. CASE u # t
        <5>1. pc'[u] = pc[u] /\ req'[u] = req[u] /\ expected'[u] = expected[u] /\ snap'[u] = snap[u]
          BY <1>1, <3>3, <4>2 DEF TypeOK
        <5> QED
          BY <1>1, <3>1, <5>1, ThreadFrame
      <4> QED
        BY <4>1, <4>2
    <3> QED
      BY <1>2, <2>1, <3>2, <3>4
  <2> QED
    BY <2>2, <2>3
<1>9. ASSUME NEW t \in Threads,
             AnswerStale(t) \/ AnswerRejected(t) \/ FailCommit(t) \/ Finish(t)
      PROVE  IInv'
  BY <1>9, LeaveKeepsInvariant DEF AnswerStale, AnswerRejected, FailCommit, Finish
<1> QED
  BY <1>3, <1>4, <1>5, <1>6, <1>7, <1>8, <1>9 DEF Next

-----------------------------------------------------------------------------
(* The results. *)

\* The inductive invariant holds in every state of every run.
THEOREM Invariance == Spec => []IInv
<1>1. Init => IInv
  BY InitIInv
<1>2. IInv /\ [Next]_vars => IInv'
  BY NextKeepsInvariant
<1> QED
  BY <1>1, <1>2, PTL DEF Spec

\* The columns of the run row, the event table and the requests under way stay
\* in their types: no gap in event_seq, whatever the requests are.
THEOREM TypeCorrect == Spec => []TypeOK
<1>1. IInv => TypeOK
  BY DEF IInv
<1> QED
  BY <1>1, Invariance, PTL

\* The non-atomic idempotency lookup never lets an id in twice.
THEOREM IdsRecordedOnceHolds == Spec => []IdsRecordedOnce
<1>1. IInv => IdsRecordedOnce
  BY DEF IInv, Inv
<1> QED
  BY <1>1, Invariance, PTL

\* A success answered to a caller is never taken back.
THEOREM AcknowledgedIsRecordedHolds == Spec => []AcknowledgedIsRecorded
<1>1. IInv => AcknowledgedIsRecorded
  BY DEF IInv, Inv
<1> QED
  BY <1>1, Invariance, PTL

\* Rewriting side_effects as a whole neither loses nor repeats a tool call.
THEOREM EffectsReportedOnceHolds == Spec => []EffectsReportedOnce
<1>1. IInv => EffectsReportedOnce
  BY DEF IInv, Inv
<1> QED
  BY <1>1, Invariance, PTL

\* The status column is always what the log replays to.
THEOREM StatusReplaysHolds == Spec => []StatusReplays
<1>1. IInv => StatusReplays
  BY DEF IInv, Inv
<1> QED
  BY <1>1, Invariance, PTL

\* Only Commit takes a request from checked to appended.
LEMMA WriteIsCommit ==
  ASSUME IInv, Next, NEW t \in Threads, Writes(t)
  PROVE  Commit(t)
<1>1. pc \in [Threads -> {"idle", "loaded", "checked", "appended", "duplicate"}]
      /\ pc[t] = "checked" /\ pc'[t] = "appended"
  BY DEF IInv, TypeOK, Writes
<1>2. ~Crash
  BY <1>1 DEF Crash
<1>3. PICK u \in Threads :
        \/ Begin(u) \/ AnswerDuplicate(u) \/ AnswerStale(u) \/ AnswerRejected(u)
        \/ PassChecks(u) \/ Commit(u) \/ FailCommit(u) \/ Finish(u)
  BY <1>2 DEF Next
<1>4. u = t
  BY <1>1, <1>3 DEF Begin, AnswerDuplicate, AnswerStale, AnswerRejected, PassChecks, Commit,
                    FailCommit, Finish, Answer, Leave
<1> QED
  BY <1>1, <1>3, <1>4 DEF Begin, AnswerDuplicate, AnswerStale, AnswerRejected, PassChecks,
                          FailCommit, Finish, Answer, Leave

\* A write takes place at the row its request was checked against.
LEMMA WritesAreCurrent ==
  ASSUME IInv, Next, NEW t \in Threads, Writes(t)
  PROVE  snap[t] = row /\ ~Stale(t) /\ ~Illegal(t)
<1>1. Commit(t)
  BY WriteIsCommit
<1> QED
  BY <1>1, CommitWrites DEF Writes

\* The version comparison is made on a row read earlier, and still a write that
\* names a version never lands on another one.
THEOREM WritesAtExpectedVersionHolds == Spec => WritesAtExpectedVersion
<1> DEFINE A == \A t \in Threads :
                  (Writes(t) /\ expected[t] # AnyVersion) => (version = expected[t])
<1>1. ASSUME IInv, [Next]_vars PROVE [A]_vars
  <2>1. ASSUME Next, NEW t \in Threads, Writes(t), expected[t] # AnyVersion
        PROVE  version = expected[t]
    BY <1>1, <2>1, WritesAreCurrent DEF Stale, row
  <2> QED
    BY <1>1, <2>1
<1>2. Spec => [][A]_vars
  BY <1>1, Invariance, PTL DEF Spec
<1> QED
  BY <1>2 DEF WritesAtExpectedVersion

\* A commit moves the status along the transition table.
LEMMA StatusAfterCommit ==
  ASSUME IInv, NEW t \in Threads, Commit(t)
  PROVE  status' \in Status /\ MayMove(status, status')
<1>1. CASE ~Mutates(req[t])
  <2>1. status' = status /\ status \in Status
    BY <1>1, CommitNothing DEF IInv, TypeOK, table
  <2> QED
    BY <2>1 DEF MayMove
<1>2. CASE Mutates(req[t])
  <2>1. /\ snap[t] = row /\ ~Illegal(t)
        /\ status' = IF req[t].patch = NoPatch THEN status ELSE req[t].patch
    BY <1>2, CommitWrites
  <2>2. status' \in Status
    BY CommitKeepsTypes DEF TypeOK
  <2>3. snap[t].status = status
    BY <2>1 DEF row
  <2> QED
    BY <2>1, <2>2, <2>3 DEF Illegal, MayMove
<1> QED
  BY <1>1, <1>2

\* Only a commit changes the table.
LEMMA TableChangesByCommit ==
  ASSUME Next
  PROVE  UNCHANGED table \/ \E t \in Threads : Commit(t)
BY DEF Next, Crash, Begin, AnswerDuplicate, AnswerStale, AnswerRejected, PassChecks,
       FailCommit, Finish

\* A run that has finished keeps its outcome and takes no more steering.
THEOREM FinishedIsFinalHolds == Spec => FinishedIsFinal
<1>1. ASSUME IInv, [Next]_vars PROVE [StaysFinal]_vars
  <2> SUFFICES ASSUME Next, status \in Terminal PROVE StaysFinal
    BY <1>1 DEF StaysFinal
  <2>1. status' = status
    <3>1. CASE UNCHANGED table
      BY <3>1 DEF table
    <3>2. ASSUME NEW t \in Threads, Commit(t) PROVE status' = status
      <4>1. MayMove(status, status')
        BY <1>1, <3>2, StatusAfterCommit
      <4>2. ValidTransitions(status) = {}
        BY DEF Terminal, ValidTransitions
      <4> QED
        BY <4>1, <4>2 DEF MayMove
    <3> QED
      BY <3>1, <3>2, TableChangesByCommit
  <2>2. ASSUME NEW t \in Threads, Writes(t) PROVE req[t].kind # "steering"
    BY <1>1, <2>2, WritesAreCurrent DEF Illegal, row
  <2> QED
    BY <2>1, <2>2 DEF StaysFinal
<1> QED
  BY <1>1, Invariance, PTL DEF Spec, FinishedIsFinal

-----------------------------------------------------------------------------
(* The refinement. *)

\* A commit is one batch of the ledger.
LEMMA CommitAppendsBatch ==
  ASSUME IInv, NEW t \in Threads, Commit(t), Mutates(req[t])
  PROVE  Ledger!AppendBatch
<1> DEFINE r == req[t]
           n == Len(Entries(r))
<1>1. /\ r \in Requests /\ n \in Nat /\ n > 0 /\ version' = version + 1
      /\ events' \in [1..(lastSeq + n) -> Entry]
      /\ \A i \in 1..lastSeq : events'[i] = events[i]
  BY CommitWrites
<1>2. lastSeq \in Nat /\ lastSeq + n \in Nat /\ events \in [1..lastSeq -> Entry]
  BY <1>1 DEF IInv, TypeOK
<1> HIDE DEF n
<1>3. Len(events) = lastSeq /\ Len(events') = lastSeq + n
  BY <1>1, <1>2, FunctionIsSeq
<1>4. Ledger!Extends(events, events') /\ Len(events) < Len(events')
  BY <1>1, <1>2, <1>3 DEF Ledger!Extends, n
<1>5. Ledger!FreshEntries(events, events')
  <2>1. IdsRecordedOnce'
    BY CommitKeepsIds
  <2>2. DOMAIN events' = 1..Len(events')
    BY <1>1, <1>3
  <2>3. \A i \in (Len(events) + 1)..Len(events') : i \in DOMAIN events'
    BY <1>2, <1>3, <2>2
  <2> QED
    BY <2>1, <2>2, <2>3 DEF IdsRecordedOnce, Ledger!FreshEntries
<1>6. Ledger!MayMove(status, status')
  BY StatusAfterCommit DEF MayMove, ValidTransitions, Ledger!MayMove, Ledger!ValidTransitions
<1>7. Ledger!Replays(events', status')
  BY CommitKeepsStatus DEF StatusReplays, Replays, Moves, Ledger!Replays, Ledger!Moves,
     Ledger!StateChange, StateChange, Ledger!Status, Status
<1>8. Ledger!Extends(effects, effects')
  BY CommitKeepsEffects DEF Ledger!Extends
<1> QED
  BY <1>1, <1>4, <1>5, <1>6, <1>7, <1>8 DEF Ledger!AppendBatch

\* The concurrent, non-atomic append path implements the ledger that takes one
\* whole batch at a time.
THEOREM Refinement == Spec => ImplementsLedger
<1>1. Init => Ledger!LedgerInit
  BY DEF Init, Ledger!LedgerInit
<1>2. ASSUME IInv, [Next]_vars PROVE [Ledger!AppendBatch]_(Ledger!ledgerVars)
  <2>1. UNCHANGED table => UNCHANGED Ledger!ledgerVars
    BY DEF table, Ledger!ledgerVars
  <2>2. CASE UNCHANGED vars
    BY <2>1, <2>2 DEF vars
  <2>3. ASSUME Next, NEW t \in Threads, Commit(t)
        PROVE  Ledger!AppendBatch \/ UNCHANGED Ledger!ledgerVars
    <3>1. CASE Mutates(req[t])
      BY <1>2, <2>3, <3>1, CommitAppendsBatch
    <3>2. CASE ~Mutates(req[t])
      BY <1>2, <2>1, <2>3, <3>2, CommitNothing DEF IInv
    <3> QED
      BY <3>1, <3>2
  <2> QED
    BY <1>2, <2>1, <2>2, <2>3, TableChangesByCommit
<1>3. Spec => Ledger!LedgerSpec
  BY <1>1, <1>2, Invariance, PTL DEF Spec, Ledger!LedgerSpec
<1> QED
  BY <1>3 DEF ImplementsLedger
=============================================================================
