----------------------- MODULE AssignmentSerialProofs -----------------------
(***************************************************************************)
(* What a task keeps as long as no request writes on the basis of rows     *)
(* that had changed: one recommendation that counts (two after a           *)
(* negotiation), the member of a finalized one as its owner, and no        *)
(* negotiation that waits for it in vain.  And, with or without such a     *)
(* request, the types.                                                     *)
(*                                                                         *)
(* SerialAssignment counts, and a count is not inductive: OneEach says     *)
(* instead which recommendations of a task may be active side by side, and *)
(* that a negotiation that was accepted has left one that nobody can take  *)
(* back.  NoStaleNegotiation does not speak of a finalization between its  *)
(* two commits: StaleOK says that it has read every negotiation that waits *)
(* for its tasks, and that no other can come.                              *)
(***************************************************************************)
EXTENDS AssignmentProofs, FiniteSetTheorems

-----------------------------------------------------------------------------
(* Types *)

\* What the types of a request under way rest on beside RequestOK.
RequestTyped(r) ==
    /\ r.op = "respond" => r.task \in Tasks
    /\ r.op = "settling" => r.stale \subseteq DOMAIN negotiations

\* The types IInv does not speak of.
HistoryTyped ==
    /\ memories \in SUBSET [p : DOMAIN proposals, task : Tasks]
    /\ consents \in SUBSET (Users \X Tasks)
    /\ unsettled \in SUBSET (DOMAIN proposals)
    /\ raced \in 0..MaxRaced
    /\ \A s \in Sessions : RequestTyped(session[s])

\* Rows are never deleted.
RowsStay ==
    /\ DOMAIN proposals \subseteq DOMAIN proposals'
    /\ DOMAIN negotiations \subseteq DOMAIN negotiations'

\* A request that begins writes nothing.
LEMMA BeginReads ==
    ASSUME NEW s \in Sessions, Begin(s)
    PROVE  UNCHANGED <<proposals, negotiations, owner, memories, consents, edits, unsettled, raced>>
  BY DEF Begin, ReadCreate, ReadReplan, ReadFinalize, ReadFinalizeStage, ReadRespond,
         ReadNegotiate, ReadResolve, Reads

\* No step deletes a row.
LEMMA RowsAreKept ==
    ASSUME RowTypes, Next PROVE RowsStay
  <1>1. ASSUME NEW x, proposals' = Append(proposals, x)
        PROVE  DOMAIN proposals \subseteq DOMAIN proposals'
    BY <1>1 DEF RowTypes
  <1>2. ASSUME NEW x, negotiations' = Append(negotiations, x)
        PROVE  DOMAIN negotiations \subseteq DOMAIN negotiations'
    BY <1>2 DEF RowTypes
  <1>3. ASSUME NEW ns, NEW status, negotiations' = With(ns, status)
        PROVE  DOMAIN negotiations \subseteq DOMAIN negotiations'
    BY <1>3 DEF With
  <1>4. ASSUME NEW s \in Sessions, Begin(s) PROVE RowsStay
    BY <1>4, BeginReads DEF RowsStay
  <1>5. ASSUME NEW s \in Sessions, Continue(s) PROVE RowsStay
    <2>1. CASE WriteCreate(s)
      BY <1>1, <2>1 DEF WriteCreate, RowsStay
    <2>2. CASE WriteRespond(s)
      BY <1>3, <2>2 DEF WriteRespond, ResolveStale, RowsStay
    <2>3. CASE WriteFinalize(s)
      BY <2>3 DEF WriteFinalize, RowsStay
    <2>4. CASE WriteSettle(s)
      BY <1>3, <2>4 DEF WriteSettle, ResolveStale, RowsStay
    <2>5. CASE WriteNegotiate(s)
      BY <1>2, <2>5 DEF WriteNegotiate, RowsStay
    <2>6. CASE WriteResolve(s)
      BY <1>3, <2>6 DEF WriteResolve, RowsStay
    <2>7. ASSUME NEW p, Extract(s, p) PROVE RowsStay
      BY <2>7 DEF Extract, RowsStay
    <2>8. CASE ReadSettle(s) \/ WriteReplan(s) \/ Fail(s)
      BY <2>8 DEF ReadSettle, Reads, WriteReplan, Fail, RowsStay
    <2> QED BY <1>5, <2>1, <2>2, <2>3, <2>4, <2>5, <2>6, <2>7, <2>8 DEF Continue
  <1>6. ASSUME NEW u \in Users, NEW stage \in Stages, NEW t \in Tasks,
               CreateNegotiation(u, stage, t)
        PROVE  RowsStay
    BY <1>2, <1>6 DEF CreateNegotiation, RowsStay
  <1>7. ASSUME NEW t \in Tasks, NEW u \in PatchOwners, PatchOwner(t, u) PROVE RowsStay
    BY <1>7 DEF PatchOwner, RowsStay
  <1> QED BY <1>4, <1>5, <1>6, <1>7 DEF Next

\* One request goes on, and the others keep their types.
LEMMA RequestsStayTyped ==
    ASSUME RowTypes, HistoryTyped, RowsStay, NEW s \in Sessions, NEW next,
           session' = [session EXCEPT ![s] = next], RequestTyped(next)
    PROVE  \A x \in Sessions : RequestTyped(session[x])'
  <1>1. ASSUME NEW r, RequestTyped(r) PROVE RequestTyped(r)'
    BY <1>1 DEF RequestTyped, RowsStay
  <1>2. ASSUME NEW x \in Sessions PROVE RequestTyped(session[x])'
    <2>1. PICK r : r = session'[x]
      OBVIOUS
    <2>2. r = next \/ r = session[x]
      BY <2>1 DEF RowTypes
    <2>3. RequestTyped(r)
      BY <2>2 DEF HistoryTyped
    <2> QED BY <1>1, <2>1, <2>3
  <1> QED BY <1>2

\* Of a request that writes what it had read, the count of the outdated ones is
\* within its bound.
LEMMA WroteTyped ==
    ASSUME HistoryTyped, NEW s \in Sessions, NEW next, Wrote(s, next)
    PROVE  raced' \in 0..MaxRaced
  BY AssignmentAssumption DEF HistoryTyped, Wrote, AssignmentAssumption

\* No step takes a request, a memory or the history out of its type.
LEMMA HistoryStaysTyped ==
    ASSUME IInv, HistoryTyped, Next PROVE HistoryTyped'
  <1> USE DEF IInv
  <1>1. RowsStay
    BY RowsAreKept
  <1>2. ASSUME NEW s \in Sessions, NEW next, session' = [session EXCEPT ![s] = next],
               RequestTyped(next)
        PROVE  \A x \in Sessions : RequestTyped(session[x])'
    BY <1>1, <1>2, RequestsStayTyped
  <1>3. RequestTyped(Idle)
    BY DEF RequestTyped, Idle
  <1>4. /\ \A p \in DOMAIN proposals : proposals[p].task \in Tasks /\ proposals[p].user \in Users
        /\ \A n \in DOMAIN negotiations :
             negotiations[n].task \in Tasks /\ negotiations[n].user \in Users
    <2>1. /\ \A p \in DOMAIN proposals : proposals[p] \in Proposal
          /\ \A n \in DOMAIN negotiations : negotiations[n] \in NegotiationType
      BY DEF RowTypes
    <2> QED BY <2>1 DEF Proposal, NegotiationType
  <1>5. ASSUME UNCHANGED memories PROVE memories' \in SUBSET [p : DOMAIN proposals', task : Tasks]
    BY <1>1, <1>5 DEF HistoryTyped, RowsStay
  <1>6. ASSUME UNCHANGED unsettled PROVE unsettled' \in SUBSET (DOMAIN proposals')
    BY <1>1, <1>6 DEF HistoryTyped, RowsStay
  <1>7. ASSUME UNCHANGED <<memories, consents, unsettled, raced>>,
               \A x \in Sessions : RequestTyped(session[x])'
        PROVE  HistoryTyped'
    BY <1>5, <1>6, <1>7 DEF HistoryTyped
  <1>8. ASSUME UNCHANGED <<memories, consents, unsettled, raced, session>> PROVE HistoryTyped'
    <2>1. ASSUME NEW x \in Sessions PROVE RequestTyped(session[x])'
      BY <1>1, <1>8 DEF HistoryTyped, RequestTyped, RowsStay
    <2> QED BY <1>7, <1>8, <2>1
  <1>9. ASSUME NEW s \in Sessions, NEW next, Wrote(s, next), RequestTyped(next),
               UNCHANGED <<memories, unsettled>>, consents' \in SUBSET (Users \X Tasks)
        PROVE  HistoryTyped'
    <2>1. raced' \in 0..MaxRaced
      BY <1>9, WroteTyped
    <2>2. \A x \in Sessions : RequestTyped(session[x])'
      BY <1>2, <1>9 DEF Wrote
    <2> QED BY <1>5, <1>6, <1>9, <2>1, <2>2 DEF HistoryTyped
  <1>10. consents \in SUBSET (Users \X Tasks)
    BY DEF HistoryTyped
  <1>11. ASSUME NEW s \in Sessions, Begin(s) PROVE HistoryTyped'
    <2>1. ASSUME NEW next, session' = [session EXCEPT ![s] = next], RequestTyped(next)
          PROVE  HistoryTyped'
      BY <1>2, <1>7, <1>11, <2>1, BeginReads
    <2>2. ASSUME NEW next, Reads(s, next), next.op \notin {"respond", "settling"}
          PROVE  HistoryTyped'
      BY <2>1, <2>2 DEF Reads, RequestTyped
    <2>3. ASSUME NEW p \in DOMAIN proposals, NEW u \in Users, NEW accept \in BOOLEAN,
                 ReadRespond(s, p, u, accept)
          PROVE  HistoryTyped'
      <3> DEFINE r == [op |-> "respond", p |-> p, user |-> u, task |-> proposals[p].task,
                       accept |-> accept]
      <3>1. RequestTyped(r)
        BY <1>4 DEF RequestTyped
      <3>2. session' = [session EXCEPT ![s] = r]
        BY <2>3 DEF ReadRespond, Reads
      <3> QED BY <2>1, <3>1, <3>2
    <2>4. ASSUME NEW ps, Reads(s, Finalizing(ps)) PROVE HistoryTyped'
      BY <2>2, <2>4 DEF Finalizing
    <2>5. ASSUME NEW n \in DOMAIN negotiations, ReadResolve(s, n) PROVE HistoryTyped'
      BY <2>2, <2>5 DEF ReadResolve
    <2>6. ASSUME NEW t, NEW u, ReadCreate(s, t, u) \/ ReadReplan(s, t, u) PROVE HistoryTyped'
      BY <2>2, <2>6 DEF ReadCreate, ReadReplan
    <2>7. ASSUME NEW p, NEW t, ReadNegotiate(s, p, t) PROVE HistoryTyped'
      BY <2>2, <2>7 DEF ReadNegotiate
    <2>8. ASSUME NEW p, ReadFinalize(s, p) PROVE HistoryTyped'
      BY <2>4, <2>8 DEF ReadFinalize
    <2>9. ASSUME NEW stage, ReadFinalizeStage(s, stage) PROVE HistoryTyped'
      BY <2>4, <2>9 DEF ReadFinalizeStage
    <2> QED BY <1>11, <2>3, <2>5, <2>6, <2>7, <2>8, <2>9 DEF Begin
  <1>12. ASSUME NEW s \in Sessions, Continue(s) PROVE HistoryTyped'
    <2>1. CASE WriteCreate(s) \/ WriteNegotiate(s) \/ WriteReplan(s)
      BY <1>3, <1>9, <1>10, <2>1 DEF WriteCreate, WriteNegotiate, WriteReplan
    <2>2. CASE WriteRespond(s)
      <3>1. PICK r : r = session[s]
        OBVIOUS
      <3>2. r.op = "respond"
        BY <2>2, <3>1 DEF WriteRespond
      <3>3. r.user \in Users /\ r.task \in Tasks
        BY <1>4, <3>1, <3>2 DEF RequestsInv, RequestOK, HistoryTyped, RequestTyped
      <3>4. consents' \in SUBSET (Users \X Tasks)
        BY <1>10, <2>2, <3>1, <3>3 DEF WriteRespond
      <3> QED BY <1>3, <1>9, <2>2, <3>4 DEF WriteRespond
    <2>3. CASE WriteFinalize(s)
      <3>1. PICK next : next = [op |-> "settle", ps |-> DOMAIN session[s].task]
        OBVIOUS
      <3>2. Wrote(s, next) /\ UNCHANGED <<memories, unsettled, consents>>
        BY <2>3, <3>1 DEF WriteFinalize
      <3> QED BY <1>9, <1>10, <3>1, <3>2 DEF RequestTyped
    <2>4. CASE ReadSettle(s)
      <3>1. PICK next : /\ Reads(s, next)
                        /\ \/ next.op = "extract"
                           \/ /\ next.op = "settling"
                              /\ next.stale \subseteq DOMAIN negotiations
        <4> DEFINE tasks == {proposals[p].task : p \in session[s].ps}
                   ps    == session[s].ps
        <4>1. CASE Pending(tasks) = {}
          BY <2>4, <4>1 DEF ReadSettle
        <4>2. CASE Pending(tasks) # {}
          <5>1. Reads(s, [op |-> "settling", ps |-> ps, stale |-> Pending(tasks)])
            BY <2>4, <4>2 DEF ReadSettle
          <5>2. Pending(tasks) \subseteq DOMAIN negotiations
            BY DEF Pending
          <5> HIDE DEF ps, tasks
          <5> QED BY <5>1, <5>2
        <4> QED BY <4>1, <4>2
      <3>2. RequestTyped(next)
        BY <3>1 DEF RequestTyped
      <3> QED BY <1>2, <1>7, <3>1, <3>2 DEF Reads
    <2>5. CASE WriteSettle(s)
      <3>1. PICK next : next = [op |-> "extract", ps |-> session[s].ps]
        OBVIOUS
      <3>2. Wrote(s, next) /\ UNCHANGED <<memories, unsettled, consents>>
        BY <2>5, <3>1 DEF WriteSettle
      <3> QED BY <1>9, <1>10, <3>1, <3>2 DEF RequestTyped
    <2>6. CASE WriteResolve(s)
      <3>1. PICK r : r = session[s]
        OBVIOUS
      <3>2. r.n \in DOMAIN negotiations
        BY <2>6, <3>1 DEF WriteResolve, RequestsInv, RequestOK
      <3>3. \/ UNCHANGED consents
            \/ consents' = consents \cup {<<negotiations[r.n].user, negotiations[r.n].task>>}
        BY <2>6, <3>1 DEF WriteResolve
      <3>4. consents' \in SUBSET (Users \X Tasks)
        BY <1>4, <1>10, <3>2, <3>3
      <3> QED BY <1>3, <1>9, <2>6, <3>4 DEF WriteResolve
    <2>7. CASE Fail(s)
      <3>1. session' = [session EXCEPT ![s] = Idle]
        BY <2>7 DEF Fail
      <3>2. session[s].ps \in SUBSET DOMAIN proposals
        BY <2>7 DEF Fail, RequestsInv, RequestOK, AllAgreed
      <3>3. unsettled' \in SUBSET (DOMAIN proposals')
        BY <2>7, <3>2 DEF Fail, HistoryTyped
      <3>4. \A x \in Sessions : RequestTyped(session[x])'
        BY <1>2, <1>3, <3>1
      <3> QED BY <1>5, <2>7, <3>3, <3>4 DEF Fail, HistoryTyped
    <2>8. ASSUME NEW p \in DOMAIN proposals, Extract(s, p) PROVE HistoryTyped'
      <3>1. PICK next : /\ session' = [session EXCEPT ![s] = next]
                        /\ \/ next = Idle
                           \/ next = [op |-> "extract", ps |-> session[s].ps \ {p}]
        BY <2>8 DEF Extract
      <3>2. RequestTyped(next)
        BY <3>1 DEF RequestTyped, Idle
      <3>3. memories' \in SUBSET [p : DOMAIN proposals', task : Tasks]
        BY <1>4, <2>8 DEF Extract, HistoryTyped
      <3>4. \A x \in Sessions : RequestTyped(session[x])'
        BY <1>2, <3>1, <3>2
      <3> QED BY <1>6, <2>8, <3>3, <3>4 DEF Extract, HistoryTyped
    <2> QED BY <1>12, <2>1, <2>2, <2>3, <2>4, <2>5, <2>6, <2>7, <2>8 DEF Continue
  <1>13. ASSUME NEW u \in Users, NEW stage \in Stages, NEW t \in Tasks,
                CreateNegotiation(u, stage, t)
         PROVE  HistoryTyped'
    BY <1>8, <1>13 DEF CreateNegotiation
  <1>14. ASSUME NEW t \in Tasks, NEW v \in PatchOwners, PatchOwner(t, v) PROVE HistoryTyped'
    BY <1>8, <1>14 DEF PatchOwner
  <1> QED BY <1>11, <1>12, <1>13, <1>14 DEF Next

\* The invariant of the owners with the types of everything else.
TypedInv == IInv /\ HistoryTyped

LEMMA TypedInit ==
    ASSUME Init PROVE TypedInv
  <1>1. HistoryTyped
    BY AssignmentAssumption DEF Init, HistoryTyped, RequestTyped, Idle, AssignmentAssumption
  <1> QED BY <1>1, InitInvariant DEF TypedInv

LEMMA TypedStep ==
    ASSUME TypedInv, [Next]_vars PROVE TypedInv'
  <1>1. IInv'
    BY NextKeepsInvariant, StutterKeepsInvariant, AssignmentAssumption DEF TypedInv
  <1>2. CASE Next
    BY <1>1, <1>2, HistoryStaysTyped DEF TypedInv
  <1>3. CASE UNCHANGED vars
    BY <1>1, <1>3 DEF TypedInv, HistoryTyped, RequestTyped, vars
  <1> QED BY <1>2, <1>3

\* Rows and history have their types, and what requests and memories point to
\* exists, however requests overlap, fail or write what is outdated.
THEOREM TypesHold == Spec => []TypeOK
  <1>1. Init => TypedInv
    BY TypedInit
  <1>2. TypedInv /\ [Next]_vars => TypedInv'
    BY TypedStep
  <1>3. TypedInv => TypeOK
    BY DEF TypedInv, IInv, RowTypes, HistoryTyped, RequestTyped, RequestsInv, RequestOK,
           AllAgreed, TypeOK
  <1> QED BY <1>1, <1>2, <1>3, PTL DEF Spec

-----------------------------------------------------------------------------
(* How the rows move when nothing that is written is outdated *)

\* The proposals there are stay as they are, except those of ps.
Others(ps) ==
    /\ DOMAIN proposals \subseteq DOMAIN proposals'
    /\ \A p \in DOMAIN proposals \ ps : proposals'[p] = proposals[p]

\* The proposals ps, all of them with the status `from', keep their users and
\* their tasks.
StatusMoves(ps, from) ==
    /\ DOMAIN proposals' = DOMAIN proposals
    /\ Others(ps)
    /\ \A p \in ps : /\ p \in DOMAIN proposals
                     /\ proposals[p].status = from
                     /\ proposals'[p].user = proposals[p].user
                     /\ proposals'[p].task = proposals[p].task

SwapsStay == \A t \in Tasks : Swapped(t)' = Swapped(t)

\* A recommendation of a task without an active one.
Recommended ==
    \E t \in Tasks, k \in DOMAIN proposals' :
        /\ Active(t) = {}
        /\ DOMAIN proposals' = DOMAIN proposals \cup {k}
        /\ Others({})
        /\ k \notin DOMAIN proposals
        /\ proposals'[k].task = t
        /\ proposals'[k].status = "proposed"

\* An answer to a proposal that waits for it.
Answered ==
    \E q \in DOMAIN proposals :
        /\ StatusMoves({q}, "proposed")
        /\ proposals'[q].status \in {"owner_confirmed", "owner_rejected"}

\* Proposals that were accepted are finalized.
FinalizedNow(ps) ==
    /\ StatusMoves(ps, "owner_confirmed")
    /\ \A p \in ps : proposals'[p].status = "finalized"

\* A negotiation for a task nobody has accepted moves a rejected proposal there.
SwappedNow ==
    \E t \in Tasks, q \in DOMAIN proposals, n \in DOMAIN negotiations :
        /\ Confirmed(t) = {}
        /\ DOMAIN proposals' = DOMAIN proposals
        /\ Others({q})
        /\ proposals[q].status = "owner_rejected"
        /\ proposals'[q].user = proposals[q].user
        /\ proposals'[q].task = t
        /\ proposals'[q].status = "owner_confirmed"
        /\ Swapped(t)' = Swapped(t) \cup {n}
        /\ \A u \in Tasks \ {t} : Swapped(u)' = Swapped(u)

\* The moves that finalize nothing.
QuietMove ==
    \/ SwappedNow
    \/ SwapsStay /\ (UNCHANGED proposals \/ Recommended \/ Answered)

SerialMove == QuietMove \/ (SwapsStay /\ \E ps : FinalizedNow(ps))

\* A proposal that a negotiation is about to move is for the task it was for when
\* it was read, or is accepted by now.
ReadTaskStands(r) ==
    r.op = "resolve" /\ r.p # 0 =>
        \/ proposals[r.p].status \in {"owner_confirmed", "finalized"}
        \/ r.task = proposals[r.p].task

\* What a request writes while nothing outdated has been written is not outdated.
LEMMA SerialWrite ==
    ASSUME HistoryTyped, NEW s \in Sessions, NEW next, Wrote(s, next), raced' = 0
    PROVE  raced = 0 /\ ~Outdated(session[s])
  BY AssignmentAssumption DEF HistoryTyped, Wrote, AssignmentAssumption

\* A negotiation that waits and is not accepted, and one that is new, swap nothing.
LEMMA WithSwapsNothing ==
    ASSUME RowTypes, NEW ns, NEW status, status # "accepted", negotiations' = With(ns, status),
           \A n \in ns : n \in DOMAIN negotiations => negotiations[n].status = "pending"
    PROVE  SwapsStay
  <1>1. /\ DOMAIN negotiations' = DOMAIN negotiations
        /\ \A n \in DOMAIN negotiations :
             negotiations'[n] = IF n \in ns THEN [negotiations[n] EXCEPT !.status = status]
                                            ELSE negotiations[n]
    BY DEF With
  <1>2. \A n \in DOMAIN negotiations : negotiations[n] \in NegotiationType
    BY DEF RowTypes
  <1>3. ASSUME NEW n \in DOMAIN negotiations
        PROVE  /\ negotiations'[n].task = negotiations[n].task
               /\ negotiations'[n].status = "accepted" <=> negotiations[n].status = "accepted"
    BY <1>1, <1>2 DEF NegotiationType
  <1> QED BY <1>1, <1>3 DEF SwapsStay, Swapped

LEMMA NewSwapsNothing ==
    ASSUME RowTypes, NEW n, n.status = "pending", negotiations' = Append(negotiations, n)
    PROVE  SwapsStay
  <1>1. /\ DOMAIN negotiations' = DOMAIN negotiations \cup {Len(negotiations) + 1}
        /\ Len(negotiations) + 1 \notin DOMAIN negotiations
        /\ \A i \in DOMAIN negotiations : negotiations'[i] = negotiations[i]
        /\ negotiations'[Len(negotiations) + 1] = n
    BY DEF RowTypes
  <1> QED BY <1>1 DEF SwapsStay, Swapped

LEMMA CreateMoves ==
    ASSUME TypedInv, NEW s \in Sessions, WriteCreate(s), raced' = 0
    PROVE  QuietMove
  <1> USE DEF TypedInv, IInv
  <1>1. PICK r : r = session[s]
    OBVIOUS
  <1>2. r.op = "create" /\ r.task \in Tasks /\ ~Outdated(r)
    BY <1>1, SerialWrite DEF WriteCreate, RequestsInv, RequestOK
  <1>3. Active(r.task) = {}
    BY <1>2 DEF Outdated, MayRecommend
  <1>4. PICK p : /\ proposals' = Append(proposals, p)
                 /\ p.task = r.task /\ p.status = "proposed"
    BY <1>1 DEF WriteCreate
  <1>5. PICK k : k = Len(proposals) + 1
    OBVIOUS
  <1>6. /\ DOMAIN proposals' = DOMAIN proposals \cup {k}
        /\ k \notin DOMAIN proposals
        /\ \A i \in DOMAIN proposals : proposals'[i] = proposals[i]
        /\ proposals'[k] = p
    BY <1>4, <1>5 DEF RowTypes
  <1>7. Recommended
    BY <1>2, <1>3, <1>4, <1>6 DEF Recommended, Others
  <1>8. SwapsStay
    BY DEF WriteCreate, SwapsStay, Swapped
  <1> QED BY <1>7, <1>8 DEF QuietMove

LEMMA RespondMoves ==
    ASSUME TypedInv, NEW s \in Sessions, WriteRespond(s), raced' = 0
    PROVE  QuietMove
  <1> USE DEF TypedInv, IInv
  <1>1. PICK r : r = session[s]
    OBVIOUS
  <1>2. r.op = "respond" /\ r.p \in DOMAIN proposals /\ ~Outdated(r)
    BY <1>1, SerialWrite DEF WriteRespond, RequestsInv, RequestOK
  <1>3. proposals[r.p].status = "proposed"
    BY <1>2 DEF Outdated, MayAnswer
  <1>4. PICK status \in {"owner_confirmed", "owner_rejected"} :
          proposals' = [proposals EXCEPT ![r.p].status = status]
    BY <1>1 DEF WriteRespond
  <1>5. proposals[r.p] \in Proposal
    BY <1>2 DEF RowTypes
  <1>6. /\ proposals'[r.p].status = status
        /\ proposals'[r.p].user = proposals[r.p].user
        /\ proposals'[r.p].task = proposals[r.p].task
        /\ DOMAIN proposals' = DOMAIN proposals
        /\ \A p \in DOMAIN proposals \ {r.p} : proposals'[p] = proposals[p]
    BY <1>2, <1>4, <1>5 DEF Proposal
  <1>7. Answered
    BY <1>2, <1>3, <1>6 DEF Answered, StatusMoves, Others
  <1>8. SwapsStay
    <2>1. CASE UNCHANGED negotiations
      BY <2>1 DEF SwapsStay, Swapped
    <2>2. CASE negotiations' = ResolveStale(Pending({r.task}))
      BY <2>2, WithSwapsNothing DEF ResolveStale, Pending
    <2> QED BY <1>1, <2>1, <2>2 DEF WriteRespond
  <1> QED BY <1>7, <1>8 DEF QuietMove

\* The proposals a request finalizes were accepted, for the tasks it has read,
\* and so were the owners.
LEMMA FinalizeMoves ==
    ASSUME TypedInv, NEW s \in Sessions, WriteFinalize(s), raced' = 0
    PROVE  /\ SwapsStay
           /\ FinalizedNow(DOMAIN session[s].task)
           /\ \A p \in DOMAIN session[s].task :
                /\ session[s].task[p] = proposals[p].task
                /\ session[s].seen[p] = owner[session[s].task[p]]
  <1> USE DEF TypedInv, IInv
  <1>1. PICK r : r = session[s]
    OBVIOUS
  <1>2. r.op = "finalize" /\ ~Outdated(r) /\ AllAgreed(DOMAIN r.task)
    BY <1>1, SerialWrite DEF WriteFinalize, RequestsInv, RequestOK
  <1>3. \A p \in DOMAIN r.task : /\ proposals[p].status = "owner_confirmed"
                                 /\ r.task[p] = proposals[p].task
                                 /\ r.seen[p] = owner[r.task[p]]
    BY <1>2 DEF Outdated, MayFinalize
  <1>4. PICK ps : ps = DOMAIN r.task
    OBVIOUS
  <1>5. proposals' = [p \in DOMAIN proposals |->
                        IF p \in ps THEN [proposals[p] EXCEPT !.status = "finalized"]
                                    ELSE proposals[p]]
    BY <1>1, <1>4 DEF WriteFinalize
  <1>6. \A p \in DOMAIN proposals : proposals[p] \in Proposal
    BY DEF RowTypes
  <1>7. ASSUME NEW p \in ps
        PROVE  /\ p \in DOMAIN proposals
               /\ proposals'[p].status = "finalized"
               /\ proposals'[p].user = proposals[p].user
               /\ proposals'[p].task = proposals[p].task
    BY <1>2, <1>4, <1>5, <1>6 DEF AllAgreed, Proposal
  <1>8. DOMAIN proposals' = DOMAIN proposals /\ Others(ps)
    BY <1>5 DEF Others
  <1>9. FinalizedNow(ps)
    BY <1>3, <1>4, <1>7, <1>8 DEF FinalizedNow, StatusMoves
  <1>10. SwapsStay
    BY DEF WriteFinalize, SwapsStay, Swapped
  <1> QED BY <1>1, <1>3, <1>4, <1>9, <1>10

LEMMA ResolveMoves ==
    ASSUME TypedInv, NEW s \in Sessions, WriteResolve(s), raced' = 0,
           ReadTaskStands(session[s])
    PROVE  QuietMove
  <1> USE DEF TypedInv, IInv
  <1>1. PICK r : r = session[s]
    OBVIOUS
  <1>2. /\ r.op = "resolve" /\ ~Outdated(r)
        /\ r.n \in DOMAIN negotiations
        /\ r.p # 0 => r.p \in DOMAIN proposals
    BY <1>1, SerialWrite DEF WriteResolve, RequestsInv, RequestOK
  <1>3. PICK t : t = negotiations[r.n].task
    OBVIOUS
  <1>4. /\ negotiations[r.n].status = "pending"
        /\ r.p # 0 => /\ proposals[r.p].status = "owner_rejected"
                      /\ Confirmed(t) = {}
    BY <1>2, <1>3 DEF Outdated
  <1>5. CASE r.p = 0
    <2>1. negotiations' = With({r.n}, "declined") /\ UNCHANGED proposals
      BY <1>1, <1>5 DEF WriteResolve
    <2>2. SwapsStay
      BY <1>4, <2>1, WithSwapsNothing
    <2> QED BY <2>1, <2>2 DEF QuietMove
  <1>6. CASE r.p # 0
    <2>1. /\ negotiations' = With({r.n}, "accepted")
          /\ proposals' = [proposals EXCEPT ![r.p].task = IF r.task = t THEN @ ELSE t,
                                            ![r.p].status = "owner_confirmed"]
      BY <1>1, <1>3, <1>6 DEF WriteResolve
    <2>2. r.task = t => proposals[r.p].task = t
      BY <1>1, <1>2, <1>4, <1>6 DEF ReadTaskStands
    <2>3. PICK q : q = r.p
      OBVIOUS
    <2>4. /\ DOMAIN proposals' = DOMAIN proposals
          /\ \A p \in DOMAIN proposals \ {q} : proposals'[p] = proposals[p]
      BY <2>1, <2>3
    <2>5. q \in DOMAIN proposals /\ proposals[q] \in Proposal
      BY <1>2, <1>6, <2>3 DEF RowTypes
    <2>6. PICK task : task = IF r.task = t THEN proposals[q].task ELSE t
      OBVIOUS
    <2>7. proposals'[q] = [proposals[q] EXCEPT !.task = task, !.status = "owner_confirmed"]
      BY <2>1, <2>3, <2>5, <2>6
    <2>8. /\ proposals'[q].user = proposals[q].user
          /\ proposals'[q].task = t
          /\ proposals'[q].status = "owner_confirmed"
      BY <2>2, <2>3, <2>5, <2>6, <2>7 DEF Proposal
    <2>9. t \in Tasks
      <3>1. negotiations[r.n] \in NegotiationType
        BY <1>2 DEF RowTypes
      <3> QED BY <1>3, <3>1 DEF NegotiationType
    <2>10. /\ DOMAIN negotiations' = DOMAIN negotiations
           /\ \A n \in DOMAIN negotiations : n # r.n => negotiations'[n] = negotiations[n]
           /\ negotiations'[r.n].task = t
           /\ negotiations'[r.n].status = "accepted"
      <3>1. negotiations[r.n] \in NegotiationType
        BY <1>2 DEF RowTypes
      <3> QED BY <1>2, <1>3, <2>1, <3>1 DEF With, NegotiationType
    <2>11. Swapped(t)' = Swapped(t) \cup {r.n}
      BY <1>2, <2>10 DEF Swapped
    <2>12. \A u \in Tasks \ {t} : Swapped(u)' = Swapped(u)
      BY <1>3, <2>10 DEF Swapped
    <2>13. SwappedNow
      BY <1>2, <1>4, <1>6, <2>3, <2>4, <2>5, <2>8, <2>9, <2>11, <2>12 DEF SwappedNow, Others
    <2> QED BY <2>13 DEF QuietMove
  <1> QED BY <1>5, <1>6

\* No step writes otherwise.
LEMMA SerialMoves ==
    ASSUME TypedInv, Next, raced' = 0,
           \A s \in Sessions : ReadTaskStands(session[s])
    PROVE  \/ QuietMove
           \/ \E s \in Sessions : WriteFinalize(s) /\ SwapsStay /\ FinalizedNow(DOMAIN session[s].task)
  <1> DEFINE Goal == \/ QuietMove
                     \/ \E s \in Sessions :
                          WriteFinalize(s) /\ SwapsStay /\ FinalizedNow(DOMAIN session[s].task)
  <1> USE DEF TypedInv, IInv
  <1>1. ASSUME UNCHANGED <<proposals, negotiations>> PROVE QuietMove
    BY <1>1 DEF QuietMove, SwapsStay, Swapped
  <1>2. ASSUME NEW s \in Sessions, Begin(s) PROVE QuietMove
    BY <1>1, <1>2, BeginReads
  <1>3. ASSUME NEW s \in Sessions, Continue(s) PROVE Goal
    <2>1. CASE WriteSettle(s)
      <3>1. \A n \in session[s].stale : negotiations[n].status = "pending"
        BY <2>1, SerialWrite DEF WriteSettle, Outdated
      <3>2. SwapsStay
        BY <2>1, <3>1, WithSwapsNothing DEF WriteSettle, ResolveStale
      <3> QED BY <2>1, <3>2 DEF WriteSettle, QuietMove
    <2>2. CASE WriteNegotiate(s)
      <3>1. PICK n : negotiations' = Append(negotiations, n) /\ n.status = "pending"
        BY <2>2 DEF WriteNegotiate, Negotiation
      <3> QED BY <2>2, <3>1, NewSwapsNothing DEF WriteNegotiate, QuietMove
    <2>3. ASSUME NEW p, Extract(s, p) PROVE QuietMove
      BY <1>1, <2>3 DEF Extract
    <2>4. CASE ReadSettle(s) \/ WriteReplan(s) \/ Fail(s)
      BY <1>1, <2>4 DEF ReadSettle, Reads, WriteReplan, Fail
    <2> QED BY <1>3, <2>1, <2>2, <2>3, <2>4, CreateMoves, RespondMoves, ResolveMoves,
               FinalizeMoves DEF Continue
  <1>4. ASSUME NEW u \in Users, NEW stage \in Stages, NEW t \in Tasks,
               CreateNegotiation(u, stage, t)
        PROVE  QuietMove
    <2>1. PICK n : negotiations' = Append(negotiations, n) /\ n.status = "pending"
      BY <1>4 DEF CreateNegotiation, Negotiation
    <2> QED BY <1>4, <2>1, NewSwapsNothing DEF CreateNegotiation, QuietMove
  <1>5. ASSUME NEW t \in Tasks, NEW u \in PatchOwners, PatchOwner(t, u) PROVE QuietMove
    BY <1>1, <1>5 DEF PatchOwner
  <1> QED BY <1>2, <1>3, <1>4, <1>5 DEF Next

-----------------------------------------------------------------------------
(* One recommendation that counts *)

\* Which proposals of a task are active side by side.
OneEach(t) ==
    /\ Swapped(t) # {} => Confirmed(t) # {}
    /\ \A n, m \in Swapped(t) : n = m
    /\ Swapped(t) = {} => \A p, q \in Active(t) : p = q
    /\ \A p, q, r \in Active(t) : p = q \/ q = r \/ p = r

\* What a move does to the proposals of a task.
LEMMA MoveOfTask ==
    ASSUME TypedInv, SerialMove, NEW t \in Tasks
    PROVE  \/ /\ Active(t)' \subseteq Active(t)
              /\ Confirmed(t) \subseteq Confirmed(t)'
              /\ Swapped(t)' = Swapped(t)
           \/ /\ Active(t) = {}
              /\ \A p, q \in Active(t)' : p = q
              /\ Swapped(t)' = Swapped(t)
           \/ /\ Confirmed(t) = {}
              /\ Confirmed(t)' # {}
              /\ \E q : Active(t)' \subseteq Active(t) \cup {q}
              /\ \E n : Swapped(t)' = Swapped(t) \cup {n}
  <1> DEFINE Keeps == /\ Active(t)' \subseteq Active(t)
                      /\ Confirmed(t) \subseteq Confirmed(t)'
  <1>1. CASE SwapsStay /\ UNCHANGED proposals
    BY <1>1 DEF SwapsStay, Active, Confirmed, ProposalsOn
  <1>2. CASE SwapsStay /\ Recommended
    <2>1. PICK u \in Tasks, k \in DOMAIN proposals' :
            /\ Active(u) = {}
            /\ DOMAIN proposals' = DOMAIN proposals \cup {k}
            /\ \A p \in DOMAIN proposals : proposals'[p] = proposals[p]
            /\ proposals'[k].task = u
            /\ proposals'[k].status = "proposed"
            /\ k \notin DOMAIN proposals
      BY <1>2 DEF Recommended, Others
    <2>2. CASE u = t
      <3>1. \A p \in Active(t)' : p = k
        BY <2>1, <2>2 DEF Active, ProposalsOn
      <3> QED BY <1>2, <2>1, <2>2, <3>1 DEF SwapsStay
    <2>3. CASE u # t
      <3>1. Keeps
        BY <2>1, <2>3 DEF Active, Confirmed, ProposalsOn
      <3> QED BY <1>2, <3>1 DEF SwapsStay
    <2> QED BY <2>2, <2>3
  <1>3. CASE SwapsStay /\ Answered
    <2>1. Keeps
      BY <1>3 DEF Answered, StatusMoves, Others, Active, Confirmed, ProposalsOn
    <2> QED BY <1>3, <2>1 DEF SwapsStay
  <1>4. CASE SwapsStay /\ \E ps : FinalizedNow(ps)
    <2>1. Keeps
      BY <1>4 DEF FinalizedNow, StatusMoves, Others, Active, Confirmed, ProposalsOn
    <2> QED BY <1>4, <2>1 DEF SwapsStay
  <1>5. CASE SwappedNow
    <2>1. PICK u \in Tasks, q \in DOMAIN proposals, n \in DOMAIN negotiations :
            /\ Confirmed(u) = {}
            /\ DOMAIN proposals' = DOMAIN proposals
            /\ \A p \in DOMAIN proposals \ {q} : proposals'[p] = proposals[p]
            /\ proposals[q].status = "owner_rejected"
            /\ proposals'[q].task = u
            /\ proposals'[q].status = "owner_confirmed"
            /\ Swapped(u)' = Swapped(u) \cup {n}
            /\ \A v \in Tasks \ {u} : Swapped(v)' = Swapped(v)
      BY <1>5 DEF SwappedNow, Others
    <2>2. CASE u = t
      <3>1. Active(t)' \subseteq Active(t) \cup {q}
        BY <2>1 DEF Active, ProposalsOn
      <3>2. q \in Confirmed(t)'
        BY <2>1, <2>2 DEF Confirmed, ProposalsOn
      <3> QED BY <2>1, <2>2, <3>1, <3>2
    <2>3. CASE u # t
      <3>1. Keeps
        BY <2>1, <2>3 DEF Active, Confirmed, ProposalsOn
      <3> QED BY <2>1, <2>3, <3>1
    <2> QED BY <2>2, <2>3
  <1> QED BY <1>1, <1>2, <1>3, <1>4, <1>5 DEF SerialMove, QuietMove

LEMMA MoveKeepsOneEach ==
    ASSUME TypedInv, SerialMove, NEW t \in Tasks, OneEach(t)
    PROVE  OneEach(t)'
  <1>1. CASE /\ Active(t)' \subseteq Active(t)
             /\ Confirmed(t) \subseteq Confirmed(t)'
             /\ Swapped(t)' = Swapped(t)
    BY <1>1, Zenon DEF OneEach
  <1>2. CASE /\ Active(t) = {}
             /\ \A p, q \in Active(t)' : p = q
             /\ Swapped(t)' = Swapped(t)
    <2>1. Confirmed(t) = {}
      BY <1>2 DEF Active, Confirmed, ProposalsOn
    <2> QED BY <1>2, <2>1 DEF OneEach
  <1>3. CASE /\ Confirmed(t) = {}
             /\ Confirmed(t)' # {}
             /\ \E q : Active(t)' \subseteq Active(t) \cup {q}
             /\ \E n : Swapped(t)' = Swapped(t) \cup {n}
    <2>1. Swapped(t) = {} /\ \A p, q \in Active(t) : p = q
      BY <1>3 DEF OneEach
    <2>2. \A n, m \in Swapped(t)' : n = m
      BY <1>3, <2>1
    <2>3. \A p, q, r \in Active(t)' : p = q \/ q = r \/ p = r
      BY <1>3, <2>1
    <2>4. Swapped(t)' # {}
      BY <1>3
    <2> QED BY <1>3, <2>2, <2>3, <2>4 DEF OneEach
  <1> QED BY <1>1, <1>2, <1>3, MoveOfTask

-----------------------------------------------------------------------------
(* The owner of a finalized task *)

Finalized(t) == ProposalsOn(t, {"finalized"})

\* A task with a finalized recommendation belongs to the member of one, unless
\* its owner was set by hand.
HeldByMember(t) ==
    Finalized(t) # {} => \/ t \in edits.patched
                         \/ \E p \in Finalized(t) : owner[t] = proposals[p].user

\* What was finalized stays as it is, and what was accepted stays accepted.
LEMMA MoveKeepsAccepted ==
    ASSUME TypedInv, SerialMove, NEW p \in DOMAIN proposals
    PROVE  /\ p \in DOMAIN proposals'
           /\ proposals'[p].user = proposals[p].user
           /\ proposals[p].status = "finalized" => proposals'[p] = proposals[p]
           /\ proposals[p].status \in {"owner_confirmed", "finalized"} =>
                /\ proposals'[p].status \in {"owner_confirmed", "finalized"}
                /\ proposals'[p].task = proposals[p].task
           /\ \/ proposals'[p].task = proposals[p].task
              \/ proposals'[p].status = "owner_confirmed"
  <1>1. CASE UNCHANGED proposals
    BY <1>1
  <1>2. CASE Recommended
    BY <1>2 DEF Recommended, Others
  <1>3. CASE Answered
    BY <1>3 DEF Answered, StatusMoves, Others
  <1>4. CASE \E ps : FinalizedNow(ps)
    BY <1>4 DEF FinalizedNow, StatusMoves, Others
  <1>5. CASE SwappedNow
    BY <1>5 DEF SwappedNow, Others
  <1> QED BY <1>1, <1>2, <1>3, <1>4, <1>5 DEF SerialMove, QuietMove

\* Only a finalization finalizes.
LEMMA OnlyFinalizeFinalizes ==
    ASSUME TypedInv, QuietMove, NEW t
    PROVE  Finalized(t)' = Finalized(t)
  <1>1. SerialMove
    BY DEF SerialMove
  <1>2. Finalized(t) \subseteq Finalized(t)'
    BY <1>1, MoveKeepsAccepted DEF Finalized, ProposalsOn
  <1>3. ASSUME NEW p \in DOMAIN proposals', proposals'[p].status = "finalized"
        PROVE  p \in DOMAIN proposals /\ proposals'[p] = proposals[p]
    <2>1. CASE UNCHANGED proposals
      BY <1>3, <2>1
    <2>2. CASE Recommended
      BY <1>3, <2>2 DEF Recommended, Others
    <2>3. CASE Answered
      BY <1>3, <2>3 DEF Answered, StatusMoves, Others
    <2>4. CASE SwappedNow
      BY <1>3, <2>4 DEF SwappedNow, Others
    <2> QED BY <2>1, <2>2, <2>3, <2>4 DEF QuietMove
  <1> QED BY <1>2, <1>3 DEF Finalized, ProposalsOn

\* A quiet step changes the owner of a task only by hand, or without a finalized
\* recommendation of it.
LEMMA QuietOwner ==
    ASSUME TypedInv, Next, raced' = 0, NEW t \in Tasks,
           \A s \in Sessions : ~WriteFinalize(s)
    PROVE  /\ edits.patched \subseteq edits'.patched
           /\ \/ owner'[t] = owner[t]
              \/ t \in edits'.patched
              \/ Finalized(t) = {}
  <1> USE DEF TypedInv, IInv
  <1> DEFINE Goal == /\ edits.patched \subseteq edits'.patched
                     /\ \/ owner'[t] = owner[t]
                        \/ t \in edits'.patched
                        \/ Finalized(t) = {}
  <1>1. edits \in [count : Nat, patched : SUBSET Tasks, replanned : SUBSET Tasks]
    BY DEF RowTypes
  <1>2. ASSUME UNCHANGED <<owner, edits>> PROVE Goal
    BY <1>2
  <1>3. ASSUME NEW s \in Sessions, Begin(s) PROVE Goal
    BY <1>2, <1>3, BeginReads
  <1>4. ASSUME NEW s \in Sessions, Continue(s) PROVE Goal
    <2>1. CASE WriteReplan(s)
      <3>1. PICK r : r = session[s]
        OBVIOUS
      <3>2. /\ owner' = [owner EXCEPT ![r.task] = r.user]
            /\ edits' = [edits EXCEPT !.count = @ + 1, !.replanned = @ \cup {r.task}]
            /\ r.op = "replan"
        BY <2>1, <3>1 DEF WriteReplan
      <3>3. edits'.patched = edits.patched
        BY <1>1, <3>2
      <3>4. Finalized(r.task) = {}
        BY <2>1, <3>1, <3>2, SerialWrite DEF WriteReplan, Outdated, MayReplan, Finalized
      <3>5. t # r.task => owner'[t] = owner[t]
        BY <3>2
      <3> QED BY <3>3, <3>4, <3>5
    <2>2. CASE WriteCreate(s) \/ WriteRespond(s) \/ ReadSettle(s) \/ WriteSettle(s)
      BY <1>2, <2>2 DEF WriteCreate, WriteRespond, ReadSettle, Reads, WriteSettle
    <2>3. CASE WriteNegotiate(s) \/ WriteResolve(s) \/ Fail(s)
      BY <1>2, <2>3 DEF WriteNegotiate, WriteResolve, Fail
    <2>4. ASSUME NEW p, Extract(s, p) PROVE Goal
      BY <1>2, <2>4 DEF Extract
    <2> HIDE DEF Goal
    <2> QED BY <1>4, <2>1, <2>2, <2>3, <2>4 DEF Continue
  <1>5. ASSUME NEW u \in Users, NEW stage \in Stages, NEW v \in Tasks,
               CreateNegotiation(u, stage, v)
        PROVE  Goal
    <2>1. edits' = [edits EXCEPT !.count = @ + 1] /\ UNCHANGED owner
      BY <1>5 DEF CreateNegotiation
    <2> QED BY <1>1, <2>1
  <1>6. ASSUME NEW v \in Tasks, NEW u \in PatchOwners, PatchOwner(v, u) PROVE Goal
    <2>1. /\ owner' = [owner EXCEPT ![v] = u]
          /\ edits' = [edits EXCEPT !.count = @ + 1, !.patched = @ \cup {v}]
      BY <1>6 DEF PatchOwner
    <2>2. edits'.patched = edits.patched \cup {v}
      BY <1>1, <2>1
    <2>3. t # v => owner'[t] = owner[t]
      BY <2>1
    <2> QED BY <2>2, <2>3
  <1> HIDE DEF Goal
  <1>7. Goal
    BY <1>3, <1>4, <1>5, <1>6 DEF Next
  <1> QED BY <1>7 DEF Goal

\* A finalization gives a task to the member of the proposal it writes last.
LEMMA FinalizeHolds ==
    ASSUME TypedInv, NEW s \in Sessions, WriteFinalize(s), raced' = 0,
           NEW t \in Tasks, HeldByMember(t)
    PROVE  HeldByMember(t)'
  <1> USE DEF TypedInv, IInv
  <1>1. PICK r : r = session[s]
    OBVIOUS
  <1>2. PICK ps : ps = DOMAIN r.task
    OBVIOUS
  <1>3. /\ FinalizedNow(ps)
        /\ \A p \in ps : r.task[p] = proposals[p].task /\ r.seen[p] = owner[r.task[p]]
    BY <1>1, <1>2, FinalizeMoves
  <1>4. PICK last \in [{r.task[p] : p \in ps} -> ps] :
          /\ \A v \in DOMAIN last : r.task[last[v]] = v
          /\ owner' = [v \in Tasks |->
                         IF v \in DOMAIN last THEN OwnerBy(r, last[v]) ELSE owner[v]]
    <2>1. PICK last \in {f \in [{session[s].task[p] : p \in DOMAIN session[s].task}
                                 -> DOMAIN session[s].task] :
                           \A v \in DOMAIN f : session[s].task[f[v]] = v} :
            owner' = [v \in Tasks |->
                        IF v \in DOMAIN last THEN OwnerBy(session[s], last[v]) ELSE owner[v]]
      BY Zenon DEF WriteFinalize
    <2>2. /\ last \in [{r.task[p] : p \in ps} -> ps]
          /\ \A v \in DOMAIN last : r.task[last[v]] = v
      BY <1>1, <1>2, <2>1
    <2>3. owner' = [v \in Tasks |->
                      IF v \in DOMAIN last THEN OwnerBy(r, last[v]) ELSE owner[v]]
      BY <1>1, <2>1, Zenon
    <2> QED BY <2>2, <2>3
  <1>5. CASE t \in DOMAIN last
    <2>1. PICK p \in ps : p = last[t] /\ r.task[p] = t
      BY <1>4, <1>5
    <2>2. owner'[t] = proposals[p].user
      BY <1>3, <1>4, <1>5, <2>1 DEF OwnerBy
    <2>3. p \in Finalized(t)' /\ proposals'[p].user = proposals[p].user
      BY <1>3, <2>1 DEF FinalizedNow, StatusMoves, Finalized, ProposalsOn
    <2> QED BY <2>2, <2>3 DEF HeldByMember
  <1>6. CASE t \notin DOMAIN last
    <2>1. owner'[t] = owner[t] /\ UNCHANGED edits
      BY <1>4, <1>6 DEF WriteFinalize
    <2>2. \A p \in ps : proposals[p].task # t
      BY <1>3, <1>4, <1>6
    <2>3. /\ Finalized(t)' = Finalized(t)
          /\ \A p \in Finalized(t) : proposals'[p] = proposals[p]
      BY <1>3, <2>2 DEF FinalizedNow, StatusMoves, Others, Finalized, ProposalsOn
    <2> QED BY <2>1, <2>3 DEF HeldByMember
  <1> QED BY <1>5, <1>6

-----------------------------------------------------------------------------
(* The first of the two invariants *)

SerialInv ==
    raced = 0 => /\ \A t \in Tasks : OneEach(t) /\ HeldByMember(t)
                 /\ \A s \in Sessions : ReadTaskStands(session[s])

\* The count of outdated requests never falls.
LEMMA NoneWasOutdated ==
    ASSUME HistoryTyped, Next, raced' = 0 PROVE raced = 0
  <1>1. ASSUME NEW s \in Sessions, Begin(s) PROVE raced = 0
    BY <1>1, BeginReads
  <1>2. ASSUME NEW s \in Sessions, NEW next, Wrote(s, next) PROVE raced = 0
    BY <1>2, SerialWrite
  <1>3. ASSUME NEW s \in Sessions, Continue(s) PROVE raced = 0
    BY <1>2, <1>3 DEF Continue, WriteCreate, WriteRespond, WriteFinalize, ReadSettle, Reads,
                      WriteSettle, WriteNegotiate, WriteResolve, WriteReplan, Fail, Extract
  <1> QED BY <1>1, <1>3 DEF Next, CreateNegotiation, PatchOwner

\* A request that resolves a negotiation is read by ReadResolve, and does not
\* change until it writes.
LEMMA ResolveIsRead ==
    ASSUME TypedInv, Next, NEW x \in Sessions, session'[x].op = "resolve"
    PROVE  \/ session'[x] = session[x]
           \/ session'[x].p # 0 => session'[x].task = proposals'[session'[x].p].task
  <1> USE DEF TypedInv, IInv
  <1> DEFINE Goal == \/ session'[x] = session[x]
                     \/ session'[x].p # 0 => session'[x].task = proposals'[session'[x].p].task
  <1>1. ASSUME UNCHANGED session PROVE Goal
    BY <1>1
  <1>2. ASSUME NEW s \in Sessions, NEW next, session' = [session EXCEPT ![s] = next],
               next.op # "resolve"
        PROVE  Goal
    BY <1>2 DEF RowTypes
  <1>3. ASSUME NEW s \in Sessions, NEW next, session' = [session EXCEPT ![s] = next],
               next.p # 0 => next.task = proposals'[next.p].task
        PROVE  Goal
    BY <1>3 DEF RowTypes
  <1> HIDE DEF Goal
  <1>4. ASSUME NEW s \in Sessions, NEW next, Wrote(s, next), next.op # "resolve" PROVE Goal
    BY <1>2, <1>4 DEF Wrote
  <1>5. ASSUME NEW s \in Sessions, NEW next, Reads(s, next), next.op # "resolve" PROVE Goal
    BY <1>2, <1>5 DEF Reads
  <1>6. Idle.op # "resolve"
    BY DEF Idle
  <1>7. ASSUME NEW s \in Sessions, Begin(s) PROVE Goal
    <2>1. ASSUME NEW n \in DOMAIN negotiations, ReadResolve(s, n) PROVE Goal
      <3>1. CASE Reads(s, [op |-> "resolve", n |-> n, p |-> 0, task |-> None])
        BY <1>3, <3>1 DEF Reads
      <3>2. ASSUME NEW p \in RejectedBy(n),
                   Reads(s, [op |-> "resolve", n |-> n, p |-> p, task |-> proposals[p].task])
            PROVE  Goal
        BY <1>3, <3>2 DEF Reads
      <3> QED BY <2>1, <3>1, <3>2 DEF ReadResolve
    <2>2. ASSUME NEW ps, Reads(s, Finalizing(ps)) PROVE Goal
      BY <1>5, <2>2 DEF Finalizing
    <2>3. ASSUME NEW p, ReadFinalize(s, p) PROVE Goal
      BY <2>2, <2>3 DEF ReadFinalize
    <2>4. ASSUME NEW stage, ReadFinalizeStage(s, stage) PROVE Goal
      BY <2>2, <2>4 DEF ReadFinalizeStage
    <2>5. ASSUME NEW t, NEW u, ReadCreate(s, t, u) \/ ReadReplan(s, t, u) PROVE Goal
      BY <1>5, <2>5 DEF ReadCreate, ReadReplan
    <2>6. ASSUME NEW p, NEW u, NEW accept, ReadRespond(s, p, u, accept) PROVE Goal
      BY <1>5, <2>6 DEF ReadRespond
    <2>7. ASSUME NEW p, NEW t, ReadNegotiate(s, p, t) PROVE Goal
      BY <1>5, <2>7 DEF ReadNegotiate
    <2> QED BY <1>7, <2>1, <2>3, <2>4, <2>5, <2>6, <2>7 DEF Begin
  <1>8. ASSUME NEW s \in Sessions, Continue(s) PROVE Goal
    <2>1. CASE WriteCreate(s) \/ WriteRespond(s) \/ WriteNegotiate(s) \/ WriteResolve(s) \/ WriteReplan(s)
      BY <1>4, <1>6, <2>1 DEF WriteCreate, WriteRespond, WriteNegotiate, WriteResolve, WriteReplan
    <2>2. CASE WriteFinalize(s)
      <3>1. PICK next : next = [op |-> "settle", ps |-> DOMAIN session[s].task]
        OBVIOUS
      <3>2. Wrote(s, next)
        BY <2>2, <3>1 DEF WriteFinalize
      <3> QED BY <1>4, <3>1, <3>2
    <2>3. CASE ReadSettle(s)
      BY <1>5, <2>3 DEF ReadSettle
    <2>4. CASE WriteSettle(s)
      BY <1>4, <2>4 DEF WriteSettle
    <2>5. CASE Fail(s)
      BY <1>2, <1>6, <2>5 DEF Fail
    <2>6. ASSUME NEW p, Extract(s, p) PROVE Goal
      BY <1>2, <1>6, <2>6 DEF Extract
    <2> QED BY <1>8, <2>1, <2>2, <2>3, <2>4, <2>5, <2>6 DEF Continue
  <1>9. Goal
    BY <1>1, <1>7, <1>8 DEF Next, CreateNegotiation, PatchOwner
  <1> QED BY <1>9 DEF Goal

LEMMA SerialInvStep ==
    ASSUME TypedInv, SerialInv, Next PROVE SerialInv'
  <1>1. SUFFICES ASSUME raced' = 0
                 PROVE  /\ \A t \in Tasks : OneEach(t)' /\ HeldByMember(t)'
                        /\ \A s \in Sessions : ReadTaskStands(session[s])'
    BY DEF SerialInv
  <1>2. /\ \A t \in Tasks : OneEach(t) /\ HeldByMember(t)
        /\ \A s \in Sessions : ReadTaskStands(session[s])
    BY <1>1, NoneWasOutdated DEF SerialInv, TypedInv
  <1>3. \/ QuietMove
        \/ \E s \in Sessions : WriteFinalize(s) /\ SwapsStay /\ FinalizedNow(DOMAIN session[s].task)
    BY <1>1, <1>2, SerialMoves
  <1>4. SerialMove
    BY <1>3 DEF SerialMove
  <1>5. ASSUME NEW t \in Tasks PROVE OneEach(t)'
    BY <1>2, <1>4, MoveKeepsOneEach
  <1>6. ASSUME NEW t \in Tasks PROVE HeldByMember(t)'
    <2>1. ASSUME NEW s \in Sessions, WriteFinalize(s) PROVE HeldByMember(t)'
      BY <1>1, <1>2, <2>1, FinalizeHolds
    <2>2. CASE \A s \in Sessions : ~WriteFinalize(s)
      <3>1. QuietMove
        BY <1>3, <2>2
      <3>2. Finalized(t)' = Finalized(t)
        BY <3>1, OnlyFinalizeFinalizes
      <3>3. \A p \in Finalized(t) : proposals'[p].user = proposals[p].user
        BY <1>4, MoveKeepsAccepted DEF Finalized, ProposalsOn
      <3>4. /\ edits.patched \subseteq edits'.patched
            /\ \/ owner'[t] = owner[t]
               \/ t \in edits'.patched
               \/ Finalized(t) = {}
        BY <1>1, <2>2, QuietOwner
      <3>5. HeldByMember(t)
        BY <1>2
      <3> QED BY <3>2, <3>3, <3>4, <3>5 DEF HeldByMember
    <2> QED BY <2>1, <2>2
  <1>7. ASSUME NEW x \in Sessions PROVE ReadTaskStands(session[x])'
    <2>1. SUFFICES ASSUME session'[x].op = "resolve", session'[x].p # 0,
                          session'[x].task # proposals'[session'[x].p].task
                   PROVE  proposals'[session'[x].p].status \in {"owner_confirmed", "finalized"}
      BY DEF ReadTaskStands
    <2>2. session'[x] = session[x]
      BY <2>1, ResolveIsRead
    <2>3. PICK r : r = session[x]
      OBVIOUS
    <2>4. ReadTaskStands(r)
      BY <1>2, <2>3
    <2>5. r.op = "resolve" /\ r.p # 0 /\ r.p \in DOMAIN proposals
      BY <2>1, <2>2, <2>3 DEF TypedInv, IInv, RequestsInv, RequestOK
    <2>6. \/ proposals[r.p].status \in {"owner_confirmed", "finalized"}
          \/ r.task = proposals[r.p].task
      BY <2>4, <2>5 DEF ReadTaskStands
    <2>7. proposals'[r.p].status \in {"owner_confirmed", "finalized"}
      BY <1>4, <2>1, <2>2, <2>3, <2>5, <2>6, MoveKeepsAccepted
    <2> QED BY <2>2, <2>3, <2>7
  <1> QED BY <1>5, <1>6, <1>7

\* Sets whose elements are all equal, and sets without three different ones.
LEMMA AtMostOne ==
    ASSUME NEW S, IsFiniteSet(S), \A x, y \in S : x = y
    PROVE  Cardinality(S) <= 1
  <1>1. CASE S = {}
    BY <1>1, FS_EmptySet
  <1>2. ASSUME NEW x \in S PROVE Cardinality(S) <= 1
    <2>1. S = {x}
      OBVIOUS
    <2>2. Cardinality({x}) = 1
      BY FS_Singleton
    <2> QED BY <2>1, <2>2
  <1> QED BY <1>1, <1>2

LEMMA AtMostTwo ==
    ASSUME NEW S, IsFiniteSet(S), \A x, y, z \in S : x = y \/ y = z \/ x = z
    PROVE  Cardinality(S) <= 2
  <1>1. CASE S = {}
    BY <1>1, FS_EmptySet
  <1>2. ASSUME NEW x \in S PROVE Cardinality(S) <= 2
    <2>1. IsFiniteSet(S \ {x}) /\ Cardinality(S \ {x}) = Cardinality(S) - 1
      BY FS_RemoveElement
    <2>2. \A y, z \in S \ {x} : y = z
      OBVIOUS
    <2>3. Cardinality(S \ {x}) <= 1
      BY <2>1, <2>2, AtMostOne
    <2>4. Cardinality(S) \in Nat
      BY FS_CardinalityType
    <2> QED BY <2>1, <2>3, <2>4
  <1> QED BY <1>1, <1>2

LEMMA SerialInit ==
    ASSUME Init PROVE SerialInv
  <1>1. \A t \in Tasks : OneEach(t) /\ HeldByMember(t)
    BY DEF Init, OneEach, HeldByMember, Swapped, Active, Confirmed, Finalized, ProposalsOn
  <1>2. \A s \in Sessions : ReadTaskStands(session[s])
    BY DEF Init, ReadTaskStands, Idle
  <1> QED BY <1>1, <1>2 DEF SerialInv

LEMMA SerialStep ==
    ASSUME TypedInv, SerialInv, [Next]_vars PROVE SerialInv'
  <1>1. CASE UNCHANGED vars
    BY <1>1 DEF SerialInv, OneEach, HeldByMember, Swapped, Active, Confirmed, Finalized,
                ProposalsOn, ReadTaskStands, vars
  <1> QED BY <1>1, SerialInvStep

\* As long as no request has written on the basis of rows that had changed, a
\* task has one active recommendation, or two after a negotiation that was
\* accepted beside the first, and the member of a finalized one as its owner
\* unless the owner was set by hand.
THEOREM SerialTasks == Spec => []SerialAssignment
  <1>1. Init => TypedInv /\ SerialInv
    BY TypedInit, SerialInit
  <1>2. TypedInv /\ SerialInv /\ [Next]_vars => (TypedInv /\ SerialInv)'
    BY TypedStep, SerialStep
  <1>3. TypedInv /\ SerialInv => SerialAssignment
    <2> SUFFICES ASSUME TypedInv, SerialInv, raced = 0, NEW t \in Tasks
                 PROVE  /\ Cardinality(Active(t)) <= (IF Swapped(t) = {} THEN 1 ELSE 2)
                        /\ Cardinality(Swapped(t)) <= 1
                        /\ ProposalsOn(t, {"finalized"}) # {} =>
                              \/ t \in edits.patched
                              \/ \E p \in ProposalsOn(t, {"finalized"}) : owner[t] = proposals[p].user
      BY DEF SerialAssignment
    <2>1. OneEach(t) /\ HeldByMember(t)
      BY DEF SerialInv
    <2>2. IsFiniteSet(DOMAIN proposals) /\ IsFiniteSet(DOMAIN negotiations)
      <3>1. /\ DOMAIN proposals = 1..Len(proposals) /\ Len(proposals) \in Nat
            /\ DOMAIN negotiations = 1..Len(negotiations) /\ Len(negotiations) \in Nat
        BY DEF TypedInv, IInv, RowTypes
      <3> QED BY <3>1, FS_Interval
    <2>3. IsFiniteSet(Active(t)) /\ IsFiniteSet(Swapped(t))
      <3>1. Active(t) \in SUBSET DOMAIN proposals /\ Swapped(t) \in SUBSET DOMAIN negotiations
        BY DEF Active, ProposalsOn, Swapped
      <3> QED BY <2>2, <3>1, FS_Subset
    <2>4. Cardinality(Swapped(t)) <= 1
      BY <2>1, <2>3, AtMostOne DEF OneEach
    <2>5. Swapped(t) = {} => Cardinality(Active(t)) <= 1
      BY <2>1, <2>3, AtMostOne DEF OneEach
    <2>6. Cardinality(Active(t)) <= 2
      BY <2>1, <2>3, AtMostTwo DEF OneEach
    <2> QED BY <2>1, <2>4, <2>5, <2>6 DEF HeldByMember, Finalized
  <1> QED BY <1>1, <1>2, <1>3, PTL DEF Spec

-----------------------------------------------------------------------------
(* Negotiations that wait in vain *)

\* The negotiations that wait for a task and were checked when they were created.
Waiting(t) == {n \in Pending({t}) : negotiations[n].checked}

\* The finalizations that are between their commits, or ended there.
Unsettled == unsettled \cup BeingSettled

Cleared(t) == Finalized(t) \ Unsettled # {} => Waiting(t) = {}

\* What holds of a request between its two commits: what it finalized is final,
\* and it has read every negotiation that waits for the tasks.
StaleOK(r) ==
    /\ r.op \in {"settle", "settling"} =>
          \A p \in r.ps : p \in DOMAIN proposals /\ proposals[p].status = "finalized"
    /\ r.op = "settling" => \A p \in r.ps : Waiting(proposals[p].task) \subseteq r.stale

StaleInv ==
    raced = 0 => /\ \A t \in Tasks : Cleared(t)
                 /\ \A s \in Sessions : StaleOK(session[s])

\* A negotiation that gets an answer, or is found stale, waits no longer.
LEMMA WithWaits ==
    ASSUME RowTypes, NEW ns, NEW status, status # "pending", negotiations' = With(ns, status), NEW t
    PROVE  Waiting(t)' = Waiting(t) \ ns
  <1>1. /\ DOMAIN negotiations' = DOMAIN negotiations
        /\ \A n \in DOMAIN negotiations :
             negotiations'[n] = IF n \in ns THEN [negotiations[n] EXCEPT !.status = status]
                                            ELSE negotiations[n]
    BY DEF With
  <1>2. \A n \in DOMAIN negotiations : negotiations[n] \in NegotiationType
    BY DEF RowTypes
  <1>3. ASSUME NEW n \in DOMAIN negotiations
        PROVE  /\ negotiations'[n].task = negotiations[n].task
               /\ negotiations'[n].checked = negotiations[n].checked
               /\ negotiations'[n].status = IF n \in ns THEN status ELSE negotiations[n].status
    BY <1>1, <1>2 DEF NegotiationType
  <1> QED BY <1>1, <1>3 DEF Waiting, Pending

\* No negotiation comes to wait for a task that somebody has agreed to do, except
\* through the route that checks nothing.
LEMMA NoneComesToWait ==
    ASSUME TypedInv, Next, raced' = 0, NEW t, Confirmed(t) # {}
    PROVE  Waiting(t)' \subseteq Waiting(t)
  <1> USE DEF TypedInv, IInv
  <1> DEFINE Goal == Waiting(t)' \subseteq Waiting(t)
  <1>1. ASSUME UNCHANGED negotiations PROVE Goal
    BY <1>1 DEF Waiting, Pending
  <1>2. ASSUME NEW ns, NEW status, status # "pending", negotiations' = With(ns, status)
        PROVE  Goal
    BY <1>2, WithWaits
  <1>3. ASSUME NEW n, negotiations' = Append(negotiations, n), n.task # t \/ ~n.checked
        PROVE  Goal
    <2>1. /\ DOMAIN negotiations' = DOMAIN negotiations \cup {Len(negotiations) + 1}
          /\ \A i \in DOMAIN negotiations : negotiations'[i] = negotiations[i]
          /\ negotiations'[Len(negotiations) + 1] = n
      BY <1>3 DEF RowTypes
    <2> QED BY <1>3, <2>1 DEF Waiting, Pending
  <1> HIDE DEF Goal
  <1>4. ASSUME NEW s \in Sessions, Begin(s) PROVE Goal
    BY <1>1, <1>4, BeginReads
  <1>5. ASSUME NEW s \in Sessions, Continue(s) PROVE Goal
    <2>1. CASE WriteRespond(s)
      BY <1>1, <1>2, <2>1 DEF WriteRespond, ResolveStale
    <2>2. CASE WriteSettle(s)
      BY <1>2, <2>2 DEF WriteSettle, ResolveStale
    <2>3. CASE WriteResolve(s)
      BY <1>2, <2>3 DEF WriteResolve
    <2>4. CASE WriteNegotiate(s)
      <3>1. session[s].op = "negotiate" /\ ~Outdated(session[s])
        BY <2>4, SerialWrite DEF WriteNegotiate
      <3>2. Confirmed(session[s].task) = {}
        BY <3>1 DEF Outdated, MayNegotiate
      <3>3. PICK n : /\ negotiations' = Append(negotiations, n)
                     /\ n.task = session[s].task
        BY <2>4 DEF WriteNegotiate, Negotiation
      <3>4. n.task # t
        BY <3>2, <3>3
      <3> QED BY <1>3, <3>3, <3>4
    <2>5. CASE WriteCreate(s) \/ WriteFinalize(s) \/ ReadSettle(s) \/ WriteReplan(s) \/ Fail(s)
      BY <1>1, <2>5 DEF WriteCreate, WriteFinalize, ReadSettle, Reads, WriteReplan, Fail
    <2>6. ASSUME NEW p, Extract(s, p) PROVE Goal
      BY <1>1, <2>6 DEF Extract
    <2> QED BY <1>5, <2>1, <2>2, <2>3, <2>4, <2>5, <2>6 DEF Continue
  <1>6. ASSUME NEW u \in Users, NEW stage \in Stages, NEW v \in Tasks,
               CreateNegotiation(u, stage, v)
        PROVE  Goal
    <2>1. PICK n : negotiations' = Append(negotiations, n) /\ ~n.checked
      BY <1>6 DEF CreateNegotiation, Negotiation
    <2> QED BY <1>3, <2>1
  <1>7. ASSUME NEW v \in Tasks, NEW u \in PatchOwners, PatchOwner(v, u) PROVE Goal
    BY <1>1, <1>7 DEF PatchOwner
  <1>8. Goal
    BY <1>4, <1>5, <1>6, <1>7 DEF Next
  <1> QED BY <1>8 DEF Goal

\* What a request between its commits knows stays true.
LEMMA StaleOKStays ==
    ASSUME TypedInv, Next, raced' = 0, SerialMove, NEW r, StaleOK(r)
    PROVE  StaleOK(r)'
  <1>1. ASSUME NEW p \in DOMAIN proposals, proposals[p].status = "finalized"
        PROVE  /\ p \in DOMAIN proposals' /\ proposals'[p] = proposals[p]
               /\ Waiting(proposals[p].task)' \subseteq Waiting(proposals[p].task)
    <2>1. p \in DOMAIN proposals' /\ proposals'[p] = proposals[p]
      BY <1>1, MoveKeepsAccepted
    <2>2. PICK t : t = proposals[p].task
      OBVIOUS
    <2>3. p \in Confirmed(t)
      BY <1>1, <2>2 DEF Confirmed, ProposalsOn
    <2>4. Waiting(t)' \subseteq Waiting(t)
      BY <2>3, NoneComesToWait
    <2>5. proposals'[p].task = t
      BY <2>1, <2>2
    <2> QED BY <2>1, <2>2, <2>4, <2>5
  <1> QED BY <1>1 DEF StaleOK

\* The proposals a request has finalized and not settled.
Held(r) == IF r.op \in {"settle", "settling"} THEN r.ps ELSE {}

\* Request s goes on: a proposal leaves the unsettled ones only by s.
LEMMA OneSettles ==
    ASSUME RowTypes, NEW s \in Sessions, NEW next, session' = [session EXCEPT ![s] = next]
    PROVE  /\ BeingSettled \subseteq BeingSettled' \cup Held(session[s])
           /\ Held(next) \subseteq BeingSettled'
  <1>1. \A x \in Sessions : session'[x] = IF x = s THEN next ELSE session[x]
    BY DEF RowTypes
  <1>2. ASSUME NEW p \in BeingSettled, p \notin Held(session[s]) PROVE p \in BeingSettled'
    <2>1. PICK x \in Sessions : session[x].op \in {"settle", "settling"} /\ p \in session[x].ps
      BY DEF BeingSettled
    <2>2. x # s
      BY <1>2, <2>1 DEF Held
    <2> QED BY <1>1, <2>1, <2>2 DEF BeingSettled
  <1>3. ASSUME NEW p \in Held(next) PROVE p \in BeingSettled'
    <2>1. next.op \in {"settle", "settling"} /\ p \in next.ps
      BY <1>3 DEF Held
    <2> QED BY <1>1, <2>1 DEF BeingSettled
  <1> QED BY <1>2, <1>3

\* The invariant outlives a step that leaves no proposal uncovered: neither one it
\* finalizes nor one that it settles while a negotiation waits.
LEMMA StaleInvKept ==
    ASSUME TypedInv, Next, raced' = 0, SerialMove,
           \A t \in Tasks : Cleared(t),
           \A x \in Sessions : StaleOK(session[x]),
           \A x \in Sessions : session'[x] = session[x] \/ StaleOK(session[x])',
           \A t \in Tasks : \A p \in Finalized(t)' \ Unsettled' :
               p \in Finalized(t) \ Unsettled \/ Waiting(t)' = {}
    PROVE  StaleInv'
  <1>1. ASSUME NEW x \in Sessions PROVE StaleOK(session[x])'
    <2>1. CASE session'[x] = session[x]
      <3>1. PICK r : r = session[x]
        OBVIOUS
      <3>2. StaleOK(r)'
        BY <3>1, StaleOKStays
      <3> QED BY <2>1, <3>1, <3>2
    <2> QED BY <2>1
  <1>2. ASSUME NEW t \in Tasks, NEW p \in Finalized(t)' \ Unsettled' PROVE Waiting(t)' = {}
    <2>1. CASE p \in Finalized(t) \ Unsettled
      <3>1. Waiting(t) = {}
        BY <2>1 DEF Cleared
      <3>2. Confirmed(t) # {}
        BY <2>1 DEF Confirmed, Finalized, ProposalsOn
      <3> QED BY <3>1, <3>2, NoneComesToWait
    <2> QED BY <1>2, <2>1
  <1>3. \A t \in Tasks : Cleared(t)'
    BY <1>2 DEF Cleared
  <1> QED BY <1>1, <1>3 DEF StaleInv

LEMMA StaleInvStep ==
    ASSUME TypedInv, SerialInv, StaleInv, Next, raced' = 0 PROVE StaleInv'
  <1> USE DEF TypedInv, IInv
  <1>1. /\ \A t \in Tasks : Cleared(t)
        /\ \A x \in Sessions : StaleOK(session[x]) /\ ReadTaskStands(session[x])
    BY NoneWasOutdated DEF StaleInv, SerialInv
  <1>2. \/ QuietMove
        \/ \E x \in Sessions : WriteFinalize(x) /\ SwapsStay /\ FinalizedNow(DOMAIN session[x].task)
    BY <1>1, SerialMoves
  <1>3. SerialMove
    BY <1>2 DEF SerialMove
  <1>4. ASSUME \A x \in Sessions : session[x].op = "finalize" => session'[x].op # "settle"
        PROVE  QuietMove /\ \A t : Finalized(t)' = Finalized(t)
    <2>1. ASSUME NEW x \in Sessions, WriteFinalize(x)
          PROVE  session[x].op = "finalize" /\ session'[x].op = "settle"
      BY <2>1 DEF WriteFinalize, Wrote, RowTypes
    <2>2. QuietMove
      BY <1>2, <1>4, <2>1
    <2> QED BY <2>2, OnlyFinalizeFinalizes
  <1>5. ASSUME NEW s \in Sessions, NEW next, session' = [session EXCEPT ![s] = next],
               session[s].op = "finalize" => next.op # "settle",
               StaleOK(next)', unsettled \subseteq unsettled',
               \A t \in Tasks : \A p \in Held(session[s]) \cap Finalized(t) :
                   p \in Unsettled' \/ Waiting(t)' = {}
        PROVE  StaleInv'
    <2>1. \A x \in Sessions : session'[x] = IF x = s THEN next ELSE session[x]
      BY <1>5 DEF RowTypes
    <2>2. \A x \in Sessions : session[x].op = "finalize" => session'[x].op # "settle"
      BY <1>5, <2>1
    <2>3. \A t : Finalized(t)' = Finalized(t)
      BY <1>4, <2>2
    <2>4. BeingSettled \subseteq BeingSettled' \cup Held(session[s])
      BY <1>5, OneSettles
    <2>5. ASSUME NEW t \in Tasks, NEW p \in Finalized(t)' \ Unsettled'
          PROVE  p \in Finalized(t) \ Unsettled \/ Waiting(t)' = {}
      <3>1. p \in Finalized(t)
        BY <2>3, <2>5
      <3>2. p \notin unsettled'
        BY <2>5 DEF Unsettled
      <3>3. p \notin BeingSettled'
        BY <2>5 DEF Unsettled
      <3>4. p \in Unsettled => p \in Held(session[s])
        BY <1>5, <2>4, <3>2, <3>3 DEF Unsettled
      <3> QED BY <1>5, <2>5, <3>1, <3>4
    <2>6. ASSUME NEW x \in Sessions PROVE session'[x] = session[x] \/ StaleOK(session[x])'
      BY <1>5, <2>1
    <2> QED BY <1>1, <1>3, <2>5, <2>6, StaleInvKept
  <1>6. ASSUME NEW s \in Sessions, NEW next, session' = [session EXCEPT ![s] = next],
               next.op \notin {"settle", "settling"},
               session[s].op \notin {"settle", "settling"}, UNCHANGED unsettled
        PROVE  StaleInv'
    <2>1. StaleOK(next)'
      BY <1>6 DEF StaleOK
    <2>2. Held(session[s]) = {}
      BY <1>6 DEF Held
    <2> QED BY <1>5, <1>6, <2>1, <2>2
  <1>7. ASSUME UNCHANGED <<session, unsettled>> PROVE StaleInv'
    <2>1. \A x \in Sessions : session[x].op = "finalize" => session'[x].op # "settle"
      BY <1>7
    <2>2. \A t : Finalized(t)' = Finalized(t)
      BY <1>4, <2>1
    <2>3. Unsettled' = Unsettled
      BY <1>7 DEF Unsettled, BeingSettled
    <2>4. \A t \in Tasks : \A p \in Finalized(t)' \ Unsettled' :
             p \in Finalized(t) \ Unsettled \/ Waiting(t)' = {}
      BY <2>2, <2>3
    <2>5. \A x \in Sessions : session'[x] = session[x] \/ StaleOK(session[x])'
      BY <1>7
    <2> QED BY <1>1, <1>3, <2>4, <2>5, StaleInvKept
  <1>8. ASSUME NEW s \in Sessions, NEW next, Wrote(s, next), UNCHANGED unsettled,
               next.op \notin {"settle", "settling"},
               session[s].op \notin {"settle", "settling"}
        PROVE  StaleInv'
    BY <1>6, <1>8 DEF Wrote
  <1>9. Idle.op \notin {"settle", "settling"}
    BY DEF Idle
  <1>10. ASSUME NEW s \in Sessions, Begin(s) PROVE StaleInv'
    <2>1. session[s] = Idle /\ UNCHANGED unsettled
      BY <1>10, BeginReads DEF Begin, ReadCreate, ReadReplan, ReadFinalize, ReadFinalizeStage,
                               ReadRespond, ReadNegotiate, ReadResolve
    <2>2. ASSUME NEW next, Reads(s, next), next.op \notin {"settle", "settling"} PROVE StaleInv'
      BY <1>6, <1>9, <2>1, <2>2 DEF Reads
    <2>3. ASSUME NEW ps, Reads(s, Finalizing(ps)) PROVE StaleInv'
      BY <2>2, <2>3 DEF Finalizing
    <2>4. ASSUME NEW n, ReadResolve(s, n) PROVE StaleInv'
      BY <2>2, <2>4 DEF ReadResolve
    <2>5. ASSUME NEW p, ReadFinalize(s, p) PROVE StaleInv'
      BY <2>3, <2>5 DEF ReadFinalize
    <2>6. ASSUME NEW stage, ReadFinalizeStage(s, stage) PROVE StaleInv'
      BY <2>3, <2>6 DEF ReadFinalizeStage
    <2>7. ASSUME NEW t, NEW u, ReadCreate(s, t, u) \/ ReadReplan(s, t, u) PROVE StaleInv'
      BY <2>2, <2>7 DEF ReadCreate, ReadReplan
    <2>8. ASSUME NEW p, NEW u, NEW accept, ReadRespond(s, p, u, accept) PROVE StaleInv'
      BY <2>2, <2>8 DEF ReadRespond
    <2>9. ASSUME NEW p, NEW t, ReadNegotiate(s, p, t) PROVE StaleInv'
      BY <2>2, <2>9 DEF ReadNegotiate
    <2> QED BY <1>10, <2>4, <2>5, <2>6, <2>7, <2>8, <2>9 DEF Begin
  <1>11. ASSUME NEW s \in Sessions, WriteFinalize(s) PROVE StaleInv'
    <2>1. PICK ps : ps = DOMAIN session[s].task
      OBVIOUS
    <2>2. FinalizedNow(ps)
      BY <1>11, <2>1, FinalizeMoves
    <2>3. PICK next : next = [op |-> "settle", ps |-> ps]
      OBVIOUS
    <2>4. session' = [session EXCEPT ![s] = next] /\ session[s].op = "finalize" /\ UNCHANGED unsettled
      BY <1>11, <2>1, <2>3 DEF WriteFinalize, Wrote
    <2>5. StaleOK(next)'
      BY <2>2, <2>3 DEF StaleOK, FinalizedNow, StatusMoves
    <2>6. ps \subseteq BeingSettled' /\ BeingSettled \subseteq BeingSettled'
      <3>1. Held(next) = ps /\ Held(session[s]) = {}
        BY <2>3, <2>4 DEF Held
      <3> QED BY <2>4, <3>1, OneSettles
    <2>7. ASSUME NEW t \in Tasks, NEW p \in Finalized(t)' \ Unsettled'
          PROVE  p \in Finalized(t) \ Unsettled
      <3>1. p \notin ps /\ p \notin Unsettled
        BY <2>4, <2>6, <2>7 DEF Unsettled
      <3>2. p \in Finalized(t)
        BY <2>2, <2>7, <3>1 DEF FinalizedNow, StatusMoves, Others, Finalized, ProposalsOn
      <3> QED BY <3>1, <3>2
    <2>8. ASSUME NEW x \in Sessions PROVE session'[x] = session[x] \/ StaleOK(session[x])'
      BY <2>4, <2>5 DEF RowTypes
    <2> QED BY <1>1, <1>3, <2>7, <2>8, StaleInvKept
  <1>12. ASSUME NEW s \in Sessions, ReadSettle(s) PROVE StaleInv'
    <2>1. PICK ps : ps = session[s].ps
      OBVIOUS
    <2>2. PICK stale : stale = Pending({proposals[p].task : p \in ps})
      OBVIOUS
    <2>3. /\ session[s].op = "settle"
          /\ Reads(s, IF stale = {} THEN [op |-> "extract", ps |-> ps]
                                    ELSE [op |-> "settling", ps |-> ps, stale |-> stale])
      BY <1>12, <2>1, <2>2 DEF ReadSettle
    <2>4. \A p \in ps : p \in DOMAIN proposals /\ proposals[p].status = "finalized"
      BY <1>1, <2>1, <2>3 DEF StaleOK
    <2>5. \A p \in ps : Waiting(proposals[p].task) \subseteq stale
      BY <2>2 DEF Waiting, Pending
    <2>6. UNCHANGED <<proposals, negotiations, unsettled>>
      BY <2>3 DEF Reads
    <2>7. CASE stale = {}
      <3>1. PICK next : next = [op |-> "extract", ps |-> ps]
        OBVIOUS
      <3>2. session' = [session EXCEPT ![s] = next]
        BY <2>3, <2>7, <3>1 DEF Reads
      <3>3. StaleOK(next)'
        BY <3>1 DEF StaleOK
      <3>4. ASSUME NEW t \in Tasks, NEW p \in Held(session[s]) \cap Finalized(t)
            PROVE  Waiting(t)' = {}
        <4>1. p \in ps /\ proposals[p].task = t
          BY <2>1, <2>3, <3>4 DEF Held, Finalized, ProposalsOn
        <4>2. Waiting(t) = {}
          BY <2>5, <2>7, <4>1
        <4> QED BY <2>6, <4>2 DEF Waiting, Pending
      <3> QED BY <1>5, <2>3, <2>6, <3>2, <3>3, <3>4
    <2>8. CASE stale # {}
      <3>1. PICK next : next = [op |-> "settling", ps |-> ps, stale |-> stale]
        OBVIOUS
      <3>2. session' = [session EXCEPT ![s] = next]
        BY <2>3, <2>8, <3>1 DEF Reads
      <3>3. StaleOK(next)
        BY <2>4, <2>5, <3>1 DEF StaleOK
      <3>4. StaleOK(next)'
        BY <1>3, <3>3, StaleOKStays
      <3>5. Held(session[s]) = ps /\ Held(next) = ps
        BY <2>1, <2>3, <3>1 DEF Held
      <3>6. ps \subseteq BeingSettled'
        BY <3>2, <3>5, OneSettles
      <3>7. ps \subseteq Unsettled'
        BY <3>6 DEF Unsettled
      <3> QED BY <1>5, <2>3, <2>6, <3>2, <3>4, <3>5, <3>7
    <2> QED BY <2>7, <2>8
  <1>13. ASSUME NEW s \in Sessions, WriteSettle(s) PROVE StaleInv'
    <2>1. PICK r : r = session[s]
      OBVIOUS
    <2>2. PICK next : next = [op |-> "extract", ps |-> r.ps]
      OBVIOUS
    <2>3. /\ r.op = "settling"
          /\ session' = [session EXCEPT ![s] = next]
          /\ negotiations' = With(r.stale, "resolved")
          /\ UNCHANGED unsettled
      BY <1>13, <2>1, <2>2 DEF WriteSettle, Wrote, ResolveStale
    <2>4. StaleOK(next)'
      BY <2>2 DEF StaleOK
    <2>5. ASSUME NEW t \in Tasks, NEW p \in Held(r) \cap Finalized(t) PROVE Waiting(t)' = {}
      <3>1. p \in r.ps /\ proposals[p].task = t
        BY <2>3, <2>5 DEF Held, Finalized, ProposalsOn
      <3>2. StaleOK(r)
        BY <1>1, <2>1
      <3>3. Waiting(t) \subseteq r.stale
        BY <2>3, <3>1, <3>2 DEF StaleOK
      <3>4. Waiting(t)' = Waiting(t) \ r.stale
        BY <2>3, WithWaits
      <3> QED BY <3>3, <3>4
    <2> QED BY <1>5, <2>1, <2>3, <2>4, <2>5
  <1>14. ASSUME NEW s \in Sessions, Fail(s) PROVE StaleInv'
    <2>1. /\ session' = [session EXCEPT ![s] = Idle]
          /\ session[s].op \in {"settle", "settling", "extract"}
          /\ unsettled' = IF session[s].op = "extract" THEN unsettled
                                                       ELSE unsettled \cup session[s].ps
      BY <1>14 DEF Fail
    <2>2. StaleOK(Idle)'
      BY DEF StaleOK, Idle
    <2>3. Held(session[s]) \subseteq Unsettled'
      BY <2>1 DEF Held, Unsettled
    <2>4. unsettled \subseteq unsettled' /\ session[s].op # "finalize"
      BY <2>1
    <2> QED BY <1>5, <2>1, <2>2, <2>3, <2>4
  <1>15. ASSUME NEW s \in Sessions, NEW p, Extract(s, p) PROVE StaleInv'
    <2>1. PICK next : /\ session' = [session EXCEPT ![s] = next]
                      /\ next = Idle \/ next = [op |-> "extract", ps |-> session[s].ps \ {p}]
      BY <1>15 DEF Extract
    <2>2. session[s].op = "extract" /\ UNCHANGED unsettled
      BY <1>15 DEF Extract
    <2> QED BY <1>6, <1>9, <2>1, <2>2
  <1>16. ASSUME NEW s \in Sessions, Continue(s) PROVE StaleInv'
    <2>1. CASE WriteCreate(s) \/ WriteRespond(s) \/ WriteNegotiate(s)
      BY <1>8, <1>9, <2>1 DEF WriteCreate, WriteRespond, WriteNegotiate
    <2>2. CASE WriteResolve(s) \/ WriteReplan(s)
      BY <1>8, <1>9, <2>2 DEF WriteResolve, WriteReplan
    <2> QED BY <1>11, <1>12, <1>13, <1>14, <1>15, <1>16, <2>1, <2>2 DEF Continue
  <1> QED BY <1>7, <1>10, <1>16 DEF Next, CreateNegotiation, PatchOwner

\* As long as no request has written on the basis of rows that had changed, no
\* negotiation that was checked waits for a task with a finalized and settled
\* recommendation, however finalizations, negotiations and failures overlap.
THEOREM NoneWaitsInVain == Spec => []NoStaleNegotiation
  <1> DEFINE Inv == TypedInv /\ SerialInv /\ StaleInv
  <1>1. Init => Inv
    <2> SUFFICES ASSUME Init PROVE SerialInv /\ StaleInv
      BY TypedInit
    <2>1. SerialInv
      BY SerialInit
    <2>2. \A t \in Tasks : Cleared(t)
      BY DEF Init, Cleared, Finalized, ProposalsOn
    <2>3. \A s \in Sessions : StaleOK(session[s])
      BY DEF Init, StaleOK, Idle
    <2> QED BY <2>1, <2>2, <2>3 DEF StaleInv
  <1>2. Inv /\ [Next]_vars => Inv'
    <2>1. ASSUME Inv, UNCHANGED vars PROVE StaleInv'
      BY <2>1 DEF StaleInv, Cleared, StaleOK, Waiting, Unsettled, BeingSettled, Finalized,
                  ProposalsOn, Pending, vars
    <2>2. ASSUME Inv, Next PROVE StaleInv'
      <3>1. CASE raced' = 0
        BY <2>2, <3>1, StaleInvStep
      <3>2. CASE raced' # 0
        BY <3>2 DEF StaleInv
      <3> QED BY <3>1, <3>2
    <2>3. ASSUME TypedInv, SerialInv, [Next]_vars PROVE TypedInv' /\ SerialInv'
      BY <2>3, TypedStep, SerialStep
    <2> QED BY <2>1, <2>2, <2>3
  <1>3. Inv => NoStaleNegotiation
    BY DEF StaleInv, Cleared, Waiting, Unsettled, Finalized, NoStaleNegotiation
  <1> HIDE DEF Inv
  <1> QED BY <1>1, <1>2, <1>3, PTL DEF Spec
=============================================================================
