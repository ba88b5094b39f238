-------------------------- MODULE AssignmentProofs --------------------------
(***************************************************************************)
(* Owners have agreed to their tasks, for any members, tasks and requests. *)
(*                                                                         *)
(* OwnersConsented is not inductive: when a finalization writes, the       *)
(* proposals it has read may have been answered anew or moved to another   *)
(* task.  The invariant says what stays true of a request all the same:    *)
(* rows only move in ways that carry a consent with them (Moves), and what *)
(* a request has read is either still there or covered by a consent        *)
(* (RequestOK).                                                            *)
(***************************************************************************)
EXTENDS Assignment, TLAPS

\* The recommended owner of proposal p has agreed to its task.
Agreed(p) == <<proposals[p].user, proposals[p].task>> \in consents

\* The rows have their types.
RowTypes ==
    /\ proposals \in Seq(Proposal)
    /\ negotiations \in Seq(NegotiationType)
    /\ owner \in [Tasks -> Users \cup {None}]
    /\ edits \in [count : Nat, patched : SUBSET Tasks, replanned : SUBSET Tasks]
    /\ session = [s \in Sessions |-> session[s]]

\* A proposal that was accepted or finalized is agreed to.
AcceptedInv ==
    \A p \in DOMAIN proposals :
        proposals[p].status \in {"owner_confirmed", "finalized"} => Agreed(p)

OwnersInv ==
    \A t \in Tasks : \/ owner[t] = None
                     \/ t \in edits.patched \cup edits.replanned
                     \/ <<owner[t], t>> \in consents

MemoriesInv ==
    \A m \in memories : /\ m.p \in DOMAIN proposals
                        /\ <<proposals[m.p].user, m.task>> \in consents

AllAgreed(ps) == \A p \in ps : p \in DOMAIN proposals /\ Agreed(p)

\* What holds of a request under way.
RequestOK(r) ==
    /\ r.op \in {"create", "replan"} => r.task \in Tasks /\ r.user \in Users
    /\ r.op = "respond" =>
         /\ r.p \in DOMAIN proposals
         /\ r.user = proposals[r.p].user
         /\ r.task = proposals[r.p].task \/ Agreed(r.p)
    /\ r.op = "finalize" =>
         /\ AllAgreed(DOMAIN r.task)
         /\ \A p \in DOMAIN r.task : <<proposals[p].user, r.task[p]>> \in consents
    /\ r.op \in {"settle", "settling", "extract"} => AllAgreed(r.ps)
    /\ r.op = "negotiate" => r.p \in DOMAIN proposals /\ r.task \in Tasks
    /\ r.op = "resolve" =>
         /\ r.n \in DOMAIN negotiations
         /\ r.p # 0 => /\ r.p \in DOMAIN proposals
                       /\ negotiations[r.n].user = proposals[r.p].user
                       /\ r.task = proposals[r.p].task \/ Agreed(r.p)

RequestsInv == \A s \in Sessions : RequestOK(session[s])

IInv == RowTypes /\ AcceptedInv /\ OwnersInv /\ MemoriesInv /\ RequestsInv

\* How rows may move: none goes, users stay, and a proposal that is about
\* another task than before is agreed to.
Moves ==
    /\ consents \subseteq consents'
    /\ DOMAIN proposals \subseteq DOMAIN proposals'
    /\ \A p \in DOMAIN proposals :
         /\ proposals'[p].user = proposals[p].user
         /\ \/ proposals'[p].task = proposals[p].task
            \/ <<proposals[p].user, proposals'[p].task>> \in consents'
    /\ DOMAIN negotiations \subseteq DOMAIN negotiations'
    /\ \A n \in DOMAIN negotiations : negotiations'[n].user = negotiations[n].user

-----------------------------------------------------------------------------
(* Moves keep what is agreed. *)

\* An agreement outlives every move.
LEMMA AgreedStays ==
    ASSUME Moves, NEW p \in DOMAIN proposals, Agreed(p)
    PROVE  p \in DOMAIN proposals' /\ Agreed(p)'
  BY DEF Moves, Agreed

\* What holds of a request holds after moves of other requests.
LEMMA RequestStays ==
    ASSUME Moves, NEW r, RequestOK(r)
    PROVE  RequestOK(r)'
  <1>1. ASSUME NEW ps, AllAgreed(ps) PROVE AllAgreed(ps)'
    BY <1>1, AgreedStays DEF AllAgreed
  <1>2. ASSUME NEW p \in DOMAIN proposals,
               r.task = proposals[p].task \/ Agreed(p)
        PROVE  r.task = proposals'[p].task \/ Agreed(p)'
    BY <1>2, AgreedStays DEF Moves, Agreed
  <1>3. ASSUME r.op = "finalize"
        PROVE  /\ AllAgreed(DOMAIN r.task)'
               /\ \A p \in DOMAIN r.task : <<proposals'[p].user, r.task[p]>> \in consents'
    <2>1. /\ AllAgreed(DOMAIN r.task)
          /\ \A p \in DOMAIN r.task : <<proposals[p].user, r.task[p]>> \in consents
      BY <1>3 DEF RequestOK
    <2>2. AllAgreed(DOMAIN r.task)'
      BY <1>1, <2>1
    <2>3. ASSUME NEW p \in DOMAIN r.task
          PROVE  <<proposals'[p].user, r.task[p]>> \in consents'
      <3>1. p \in DOMAIN proposals
        BY <2>1 DEF AllAgreed
      <3>2. proposals'[p].user = proposals[p].user
        BY <3>1 DEF Moves
      <3> QED BY <2>1, <3>2 DEF Moves
    <2> QED BY <2>2, <2>3
  <1>4. ASSUME r.op = "respond"
        PROVE  /\ r.p \in DOMAIN proposals'
               /\ r.user = proposals'[r.p].user
               /\ r.task = proposals'[r.p].task \/ Agreed(r.p)'
    <2>1. r.p \in DOMAIN proposals /\ r.user = proposals[r.p].user
      BY <1>4 DEF RequestOK
    <2>2. r.task = proposals'[r.p].task \/ Agreed(r.p)'
      BY <1>2, <1>4, <2>1 DEF RequestOK
    <2> QED BY <2>1, <2>2 DEF Moves
  <1>5. ASSUME r.op = "resolve", r.p # 0
        PROVE  /\ r.p \in DOMAIN proposals'
               /\ negotiations'[r.n].user = proposals'[r.p].user
               /\ r.task = proposals'[r.p].task \/ Agreed(r.p)'
    <2>1. /\ r.n \in DOMAIN negotiations
          /\ r.p \in DOMAIN proposals
          /\ negotiations[r.n].user = proposals[r.p].user
      BY <1>5 DEF RequestOK
    <2>2. r.task = proposals'[r.p].task \/ Agreed(r.p)'
      BY <1>2, <1>5, <2>1 DEF RequestOK
    <2> QED BY <2>1, <2>2 DEF Moves
  <1>6. r.op = "resolve" => r.n \in DOMAIN negotiations'
    BY DEF RequestOK, Moves
  <1>7. r.op = "negotiate" => r.p \in DOMAIN proposals' /\ r.task \in Tasks
    BY DEF RequestOK, Moves
  <1>8. r.op \in {"settle", "settling", "extract"} => AllAgreed(r.ps)'
    BY <1>1 DEF RequestOK
  <1>9. r.op \in {"create", "replan"} => r.task \in Tasks /\ r.user \in Users
    BY DEF RequestOK
  <1> QED BY <1>3, <1>4, <1>5, <1>6, <1>7, <1>8, <1>9 DEF RequestOK

\* One request goes on, the others stay.
LEMMA OthersStay ==
    ASSUME RowTypes, RequestsInv, Moves, NEW s \in Sessions, NEW next,
           session' = [session EXCEPT ![s] = next], RequestOK(next)'
    PROVE  RequestsInv' /\ session' = [x \in Sessions |-> session'[x]]
  <1>1. ASSUME NEW x \in Sessions PROVE RequestOK(session[x])'
    <2>1. CASE x = s
      BY <2>1 DEF RowTypes
    <2>2. CASE x # s
      <3>1. PICK r : r = session[x]
        OBVIOUS
      <3>2. RequestOK(r)
        BY <3>1 DEF RequestsInv
      <3>3. RequestOK(r)'
        BY <3>2, RequestStays
      <3>4. session'[x] = r
        BY <2>2, <3>1 DEF RowTypes
      <3> QED BY <3>3, <3>4
    <2> QED BY <2>1, <2>2
  <1>2. session' = [x \in Sessions |-> session'[x]]
    BY DEF RowTypes
  <1> QED BY <1>1, <1>2 DEF RequestsInv

\* No request goes on.
LEMMA AllStay ==
    ASSUME RowTypes, RequestsInv, Moves, UNCHANGED session
    PROVE  RequestsInv' /\ session' = [x \in Sessions |-> session'[x]]
  <1>1. ASSUME NEW x \in Sessions PROVE RequestOK(session[x])'
    <2>1. PICK r : r = session[x]
      OBVIOUS
    <2>2. RequestOK(r)'
      BY <2>1, RequestStays DEF RequestsInv
    <2> QED BY <2>1, <2>2
  <1> QED BY <1>1 DEF RequestsInv, RowTypes

\* A request that only reads keeps everything but itself.
LEMMA ReadsKeeps ==
    ASSUME IInv, NEW s \in Sessions, NEW r, Reads(s, r), RequestOK(r)
    PROVE  IInv'
  <1>1. Moves
    BY DEF Reads, Moves
  <1>2. RequestOK(r)'
    BY <1>1, RequestStays
  <1>3. RequestsInv' /\ session' = [x \in Sessions |-> session'[x]]
    BY <1>1, <1>2, OthersStay DEF IInv, Reads
  <1>4. RowTypes'
    BY <1>3 DEF IInv, RowTypes, Reads
  <1>5. AcceptedInv' /\ OwnersInv' /\ MemoriesInv'
    BY DEF IInv, AcceptedInv, OwnersInv, MemoriesInv, Agreed, Reads
  <1> QED BY <1>3, <1>4, <1>5 DEF IInv

\* Memories and owners that a step leaves alone stay agreed to.
LEMMA MemoriesStay ==
    ASSUME Moves, MemoriesInv, UNCHANGED memories PROVE MemoriesInv'
  BY DEF Moves, MemoriesInv

LEMMA OwnersStay ==
    ASSUME Moves, OwnersInv, UNCHANGED <<owner, edits>> PROVE OwnersInv'
  BY DEF Moves, OwnersInv

-----------------------------------------------------------------------------
(* Steps that only read. *)

LEMMA BeginKeeps ==
    ASSUME IInv, NEW s \in Sessions, Begin(s)
    PROVE  IInv'
  <1>1. ASSUME NEW t \in Tasks, NEW u \in Users, ReadCreate(s, t, u) PROVE IInv'
    <2> DEFINE r == [op |-> "create", task |-> t, user |-> u]
    <2>1. Reads(s, r)
      BY <1>1 DEF ReadCreate
    <2>2. RequestOK(r)
      BY DEF RequestOK
    <2> QED BY <2>1, <2>2, ReadsKeeps
  <1>2. ASSUME NEW t \in Tasks, NEW u \in Users, ReadReplan(s, t, u) PROVE IInv'
    <2> DEFINE r == [op |-> "replan", task |-> t, user |-> u]
    <2>1. Reads(s, r)
      BY <1>2 DEF ReadReplan
    <2>2. RequestOK(r)
      BY DEF RequestOK
    <2> QED BY <2>1, <2>2, ReadsKeeps
  <1>3. ASSUME NEW ps \in SUBSET DOMAIN proposals, Reads(s, Finalizing(ps)),
               \A p \in ps : MayFinalize(p)
        PROVE  IInv'
    <2>1. PICK r : r = Finalizing(ps)
      OBVIOUS
    <2>2. /\ r.op = "finalize" /\ DOMAIN r.task = ps
          /\ \A p \in ps : r.task[p] = proposals[p].task
      BY <2>1 DEF Finalizing
    <2>3. \A p \in ps : Agreed(p)
      BY <1>3 DEF IInv, AcceptedInv, MayFinalize
    <2>4. RequestOK(r)
      BY <2>2, <2>3 DEF RequestOK, AllAgreed, Agreed
    <2> QED BY <1>3, <2>1, <2>4, ReadsKeeps
  <1>4. ASSUME NEW p \in DOMAIN proposals, ReadFinalize(s, p) PROVE IInv'
    BY <1>3, <1>4 DEF ReadFinalize
  <1>5. ASSUME NEW stage \in Stages, ReadFinalizeStage(s, stage) PROVE IInv'
    BY <1>3, <1>5 DEF ReadFinalizeStage
  <1>6. ASSUME NEW p \in DOMAIN proposals, NEW u \in Users, NEW accept \in BOOLEAN,
               ReadRespond(s, p, u, accept)
        PROVE  IInv'
    <2>1. PICK r : r = [op |-> "respond", p |-> p, user |-> u, task |-> proposals[p].task,
                        accept |-> accept]
      OBVIOUS
    <2>2. Reads(s, r) /\ u = proposals[p].user
      BY <1>6, <2>1 DEF ReadRespond, MayAnswer
    <2>3. RequestOK(r)
      BY <2>1, <2>2 DEF RequestOK
    <2> QED BY <2>2, <2>3, ReadsKeeps
  <1>7. ASSUME NEW p \in DOMAIN proposals, NEW t \in Tasks, ReadNegotiate(s, p, t) PROVE IInv'
    <2> DEFINE r == [op |-> "negotiate", p |-> p, task |-> t]
    <2>1. Reads(s, r)
      BY <1>7 DEF ReadNegotiate
    <2>2. RequestOK(r)
      BY DEF RequestOK
    <2> QED BY <2>1, <2>2, ReadsKeeps
  <1>8. ASSUME NEW n \in DOMAIN negotiations, ReadResolve(s, n) PROVE IInv'
    <2>1. CASE Reads(s, [op |-> "resolve", n |-> n, p |-> 0, task |-> None])
      <3> DEFINE r == [op |-> "resolve", n |-> n, p |-> 0, task |-> None]
      <3>1. RequestOK(r)
        BY DEF RequestOK
      <3> QED BY <2>1, <3>1, ReadsKeeps
    <2>2. ASSUME NEW p \in RejectedBy(n),
                 Reads(s, [op |-> "resolve", n |-> n, p |-> p, task |-> proposals[p].task])
          PROVE  IInv'
      <3>1. PICK r : r = [op |-> "resolve", n |-> n, p |-> p, task |-> proposals[p].task]
        OBVIOUS
      <3>2. RequestOK(r)
        BY <3>1 DEF RequestOK, RejectedBy
      <3> QED BY <2>2, <3>1, <3>2, ReadsKeeps
    <2> QED BY <1>8, <2>1, <2>2 DEF ReadResolve
  <1> QED BY <1>1, <1>2, <1>4, <1>5, <1>6, <1>7, <1>8 DEF Begin

LEMMA ReadSettleKeeps ==
    ASSUME IInv, NEW s \in Sessions, ReadSettle(s)
    PROVE  IInv'
  <1>1. PICK r : r = session[s]
    OBVIOUS
  <1>2. r.op = "settle" /\ AllAgreed(r.ps)
    BY <1>1 DEF ReadSettle, IInv, RequestsInv, RequestOK
  <1>3. PICK next : /\ Reads(s, next)
                    /\ next.op \in {"settling", "extract"}
                    /\ next.ps = r.ps
    BY <1>1, <1>2 DEF ReadSettle
  <1>4. RequestOK(next)
    BY <1>2, <1>3 DEF RequestOK
  <1> QED BY <1>3, <1>4, ReadsKeeps

-----------------------------------------------------------------------------
(* Steps that write. *)

\* A negotiation that gets a status, and all others, keep what they ask for.
LEMMA WithKeeps ==
    ASSUME RowTypes, NEW ns, NEW status \in NegotiationStatus, negotiations' = With(ns, status)
    PROVE  /\ negotiations' \in Seq(NegotiationType)
           /\ DOMAIN negotiations' = DOMAIN negotiations
           /\ \A n \in DOMAIN negotiations : negotiations'[n].user = negotiations[n].user
  <1>1. /\ DOMAIN negotiations = 1..Len(negotiations) /\ Len(negotiations) \in Nat
        /\ \A n \in DOMAIN negotiations : negotiations[n] \in NegotiationType
    BY DEF RowTypes
  <1>2. /\ DOMAIN negotiations' = DOMAIN negotiations
        /\ \A n \in DOMAIN negotiations :
             negotiations'[n] = IF n \in ns THEN [negotiations[n] EXCEPT !.status = status]
                                            ELSE negotiations[n]
    BY DEF With
  <1>3. ASSUME NEW n \in DOMAIN negotiations
        PROVE  negotiations'[n] \in NegotiationType /\ negotiations'[n].user = negotiations[n].user
    BY <1>1, <1>2 DEF NegotiationType
  <1>4. negotiations' = [n \in 1..Len(negotiations) |-> negotiations'[n]]
    BY <1>1, <1>2 DEF With
  <1>5. negotiations' \in [1..Len(negotiations) -> NegotiationType]
    BY <1>1, <1>3, <1>4
  <1> QED BY <1>1, <1>2, <1>3, <1>5

\* A negotiation is added.
LEMMA NegotiationAdded ==
    ASSUME RowTypes, NEW n \in NegotiationType, negotiations' = Append(negotiations, n)
    PROVE  /\ negotiations' \in Seq(NegotiationType)
           /\ DOMAIN negotiations \subseteq DOMAIN negotiations'
           /\ \A i \in DOMAIN negotiations : negotiations'[i] = negotiations[i]
  BY DEF RowTypes

LEMMA WriteCreateKeeps ==
    ASSUME AssignmentAssumption, IInv, NEW s \in Sessions, WriteCreate(s)
    PROVE  IInv'
  <1>1. PICK p : p = [task |-> session[s].task, stage |-> StageOf[session[s].task],
                      user |-> session[s].user, status |-> "proposed"]
    OBVIOUS
  <1>2. proposals' = Append(proposals, p)
    BY <1>1 DEF WriteCreate
  <1>3. session[s].task \in Tasks /\ session[s].user \in Users
    BY DEF WriteCreate, IInv, RequestsInv, RequestOK
  <1>4. p \in Proposal /\ p.status = "proposed"
    BY <1>1, <1>3 DEF Proposal, ProposalStatus, Stages
  <1>5. /\ proposals' \in Seq(Proposal)
        /\ DOMAIN proposals' = DOMAIN proposals \cup {Len(proposals) + 1}
        /\ \A i \in DOMAIN proposals : proposals'[i] = proposals[i]
        /\ proposals'[Len(proposals) + 1] = p
    BY <1>2, <1>4 DEF IInv, RowTypes
  <1>6. Moves
    BY <1>5 DEF Moves, WriteCreate
  <1>7. RequestOK(Idle)'
    BY DEF RequestOK, Idle
  <1>8. RequestsInv' /\ session' = [x \in Sessions |-> session'[x]]
    BY <1>6, <1>7, OthersStay DEF IInv, WriteCreate, Wrote, Idle
  <1>9. RowTypes'
    BY <1>5, <1>8 DEF IInv, RowTypes, WriteCreate
  <1>10. AcceptedInv'
    BY <1>4, <1>5 DEF IInv, AcceptedInv, Agreed, WriteCreate
  <1>11. OwnersInv' /\ MemoriesInv'
    BY <1>6, OwnersStay, MemoriesStay DEF IInv, WriteCreate
  <1> QED BY <1>8, <1>9, <1>10, <1>11 DEF IInv

LEMMA WriteRespondKeeps ==
    ASSUME IInv, NEW s \in Sessions, WriteRespond(s)
    PROVE  IInv'
  <1>1. PICK r : r = session[s]
    OBVIOUS
  <1>2. PICK status \in {"owner_confirmed", "owner_rejected"} :
          /\ proposals' = [proposals EXCEPT ![r.p].status = status]
          /\ status = "owner_confirmed" => consents' = consents \cup {<<r.user, r.task>>}
          /\ consents \subseteq consents'
    BY <1>1 DEF WriteRespond
  <1>3. /\ r.p \in DOMAIN proposals /\ r.user = proposals[r.p].user
        /\ r.task = proposals[r.p].task \/ Agreed(r.p)
    BY <1>1 DEF WriteRespond, IInv, RequestsInv, RequestOK
  <1>4. /\ DOMAIN proposals = 1..Len(proposals) /\ Len(proposals) \in Nat
        /\ \A p \in DOMAIN proposals : proposals[p] \in Proposal
    BY DEF IInv, RowTypes
  <1>5. /\ DOMAIN proposals' = DOMAIN proposals
        /\ \A p \in DOMAIN proposals :
             proposals'[p] = IF p = r.p THEN [proposals[p] EXCEPT !.status = status]
                                        ELSE proposals[p]
    BY <1>2
  <1>6. ASSUME NEW p \in DOMAIN proposals
        PROVE  /\ proposals'[p] \in Proposal
               /\ proposals'[p].user = proposals[p].user
               /\ proposals'[p].task = proposals[p].task
               /\ proposals'[p].status = IF p = r.p THEN status ELSE proposals[p].status
    BY <1>4, <1>5 DEF Proposal, ProposalStatus
  <1>7. proposals' \in Seq(Proposal)
    <2>1. proposals' = [p \in 1..Len(proposals) |-> proposals'[p]]
      BY <1>2, <1>4, <1>5
    <2>2. proposals' \in [1..Len(proposals) -> Proposal]
      BY <1>4, <1>6, <2>1
    <2> QED BY <1>4, <2>2
  <1>8. /\ negotiations' \in Seq(NegotiationType)
        /\ DOMAIN negotiations' = DOMAIN negotiations
        /\ \A n \in DOMAIN negotiations : negotiations'[n].user = negotiations[n].user
    <2>1. CASE negotiations' = negotiations
      BY <2>1 DEF IInv, RowTypes
    <2>2. ASSUME NEW ns, negotiations' = With(ns, "resolved")
          PROVE  /\ negotiations' \in Seq(NegotiationType)
                 /\ DOMAIN negotiations' = DOMAIN negotiations
                 /\ \A n \in DOMAIN negotiations : negotiations'[n].user = negotiations[n].user
      BY <2>2, WithKeeps DEF IInv, NegotiationStatus
    <2> QED BY <2>1, <2>2 DEF WriteRespond, ResolveStale
  <1>9. Moves
    BY <1>2, <1>5, <1>6, <1>8 DEF Moves
  <1>10. RequestOK(Idle)'
    BY DEF RequestOK, Idle
  <1>11. RequestsInv' /\ session' = [x \in Sessions |-> session'[x]]
    BY <1>9, <1>10, OthersStay DEF IInv, WriteRespond, Wrote, Idle
  <1>12. RowTypes'
    BY <1>7, <1>8, <1>11 DEF IInv, RowTypes, WriteRespond
  <1>13. AcceptedInv'
    <2>1. SUFFICES ASSUME NEW p \in DOMAIN proposals,
                          proposals'[p].status \in {"owner_confirmed", "finalized"}
                   PROVE  <<proposals'[p].user, proposals'[p].task>> \in consents'
      BY <1>5 DEF AcceptedInv, Agreed
    <2>2. CASE p = r.p
      <3>1. status = "owner_confirmed"
        BY <1>6, <2>1, <2>2
      <3> QED BY <1>2, <1>3, <1>6, <2>2, <3>1 DEF Agreed
    <2>3. CASE p # r.p
      <3>1. proposals[p].status \in {"owner_confirmed", "finalized"}
        BY <1>6, <2>1, <2>3
      <3> QED BY <1>2, <1>6, <3>1 DEF IInv, AcceptedInv, Agreed
    <2> QED BY <2>2, <2>3
  <1>14. OwnersInv' /\ MemoriesInv'
    BY <1>9, OwnersStay, MemoriesStay DEF IInv, WriteRespond
  <1> QED BY <1>11, <1>12, <1>13, <1>14 DEF IInv

LEMMA WriteFinalizeKeeps ==
    ASSUME IInv, NEW s \in Sessions, WriteFinalize(s)
    PROVE  IInv'
  <1>1. PICK r : r = session[s]
    OBVIOUS
  <1>2. PICK ps : ps = DOMAIN r.task
    OBVIOUS
  <1>3. /\ AllAgreed(ps)
        /\ \A p \in ps : <<proposals[p].user, r.task[p]>> \in consents
    BY <1>1, <1>2 DEF WriteFinalize, IInv, RequestsInv, RequestOK
  <1>4. /\ DOMAIN proposals = 1..Len(proposals) /\ Len(proposals) \in Nat
        /\ \A p \in DOMAIN proposals : proposals[p] \in Proposal
    BY DEF IInv, RowTypes
  <1>5. /\ proposals' = [p \in DOMAIN proposals |->
                           IF p \in ps THEN [proposals[p] EXCEPT !.status = "finalized"]
                                       ELSE proposals[p]]
        /\ DOMAIN proposals' = DOMAIN proposals
    BY <1>1, <1>2 DEF WriteFinalize
  <1>6. ASSUME NEW p \in DOMAIN proposals
        PROVE  /\ proposals'[p] \in Proposal
               /\ proposals'[p].user = proposals[p].user
               /\ proposals'[p].task = proposals[p].task
               /\ p \notin ps => proposals'[p].status = proposals[p].status
    BY <1>4, <1>5 DEF Proposal, ProposalStatus
  <1>7. proposals' \in Seq(Proposal)
    <2>1. proposals' = [p \in 1..Len(proposals) |-> proposals'[p]]
      <3>1. PICK f : f = proposals'
        OBVIOUS
      <3>2. f = [p \in 1..Len(proposals) |-> f[p]]
        BY <1>4, <1>5, <3>1
      <3> QED BY <3>1, <3>2
    <2>2. proposals' \in [1..Len(proposals) -> Proposal]
      BY <1>4, <1>6, <2>1
    <2> QED BY <1>4, <2>2
  <1>8. PICK last \in [{r.task[p] : p \in ps} -> ps] :
          /\ \A t \in DOMAIN last : r.task[last[t]] = t
          /\ owner' = [t \in Tasks |->
                         IF t \in DOMAIN last THEN OwnerBy(r, last[t]) ELSE owner[t]]
    <2>1. PICK last \in {f \in [{session[s].task[p] : p \in DOMAIN session[s].task}
                                 -> DOMAIN session[s].task] :
                           \A t \in DOMAIN f : session[s].task[f[t]] = t} :
            owner' = [t \in Tasks |->
                        IF t \in DOMAIN last THEN OwnerBy(session[s], last[t]) ELSE owner[t]]
      BY Zenon DEF WriteFinalize
    <2>2. /\ last \in [{r.task[p] : p \in ps} -> ps]
          /\ \A t \in DOMAIN last : r.task[last[t]] = t
      BY <1>1, <1>2, <2>1
    <2>3. owner' = [t \in Tasks |->
                      IF t \in DOMAIN last THEN OwnerBy(r, last[t]) ELSE owner[t]]
      BY <1>1, <2>1, Zenon
    <2> QED BY <2>2, <2>3
  <1>9. Moves
    BY <1>5, <1>6 DEF Moves, WriteFinalize
  <1>10. PICK next : next = [op |-> "settle", ps |-> ps]
    OBVIOUS
  <1>11. RequestOK(next)'
    <2>1. AllAgreed(ps)'
      BY <1>3, <1>9, AgreedStays DEF AllAgreed
    <2> QED BY <1>10, <2>1 DEF RequestOK
  <1>12. session' = [session EXCEPT ![s] = next]
    BY <1>1, <1>2, <1>10 DEF WriteFinalize, Wrote
  <1>13. RequestsInv' /\ session' = [x \in Sessions |-> session'[x]]
    BY <1>9, <1>11, <1>12, OthersStay DEF IInv
  <1>14. ASSUME NEW t \in Tasks
         PROVE  /\ owner'[t] \in Users \cup {None}
                /\ owner'[t] = owner[t] \/ <<owner'[t], t>> \in consents
    <2>1. CASE t \in DOMAIN last
      <3>1. PICK p \in ps : p = last[t] /\ r.task[p] = t
        BY <1>8, <2>1
      <3>2. owner'[t] = owner[t] \/ owner'[t] = proposals[p].user
        BY <1>8, <2>1, <3>1 DEF OwnerBy
      <3>3. proposals[p].user \in Users
        BY <1>3, <1>4 DEF AllAgreed, Proposal
      <3> QED BY <1>3, <3>1, <3>2, <3>3 DEF IInv, RowTypes
    <2>2. CASE t \notin DOMAIN last
      BY <1>8, <2>2 DEF IInv, RowTypes
    <2> QED BY <2>1, <2>2
  <1>15. owner' \in [Tasks -> Users \cup {None}]
    BY <1>8, <1>14
  <1>16. RowTypes'
    BY <1>7, <1>13, <1>15 DEF IInv, RowTypes, WriteFinalize
  <1>17. AcceptedInv'
    <2>1. SUFFICES ASSUME NEW p \in DOMAIN proposals,
                          proposals'[p].status \in {"owner_confirmed", "finalized"}
                   PROVE  <<proposals'[p].user, proposals'[p].task>> \in consents
      BY <1>5 DEF AcceptedInv, Agreed, WriteFinalize
    <2>2. Agreed(p)
      BY <1>3, <1>6, <2>1 DEF IInv, AcceptedInv, AllAgreed
    <2> QED BY <1>6, <2>2 DEF Agreed
  <1>18. OwnersInv'
    BY <1>14 DEF IInv, OwnersInv, WriteFinalize
  <1>19. MemoriesInv'
    BY <1>9, MemoriesStay DEF IInv, WriteFinalize
  <1> QED BY <1>13, <1>16, <1>17, <1>18, <1>19 DEF IInv

LEMMA WriteSettleKeeps ==
    ASSUME IInv, NEW s \in Sessions, WriteSettle(s)
    PROVE  IInv'
  <1>1. PICK r : r = session[s]
    OBVIOUS
  <1>2. AllAgreed(r.ps)
    BY <1>1 DEF WriteSettle, IInv, RequestsInv, RequestOK
  <1>3. negotiations' = With(r.stale, "resolved")
    BY <1>1 DEF WriteSettle, ResolveStale
  <1>4. /\ negotiations' \in Seq(NegotiationType)
        /\ DOMAIN negotiations' = DOMAIN negotiations
        /\ \A n \in DOMAIN negotiations : negotiations'[n].user = negotiations[n].user
    BY <1>3, WithKeeps DEF IInv, NegotiationStatus
  <1>5. Moves
    BY <1>4 DEF Moves, WriteSettle
  <1>6. PICK next : next = [op |-> "extract", ps |-> r.ps]
    OBVIOUS
  <1>7. RequestOK(next)
    BY <1>2, <1>6 DEF RequestOK
  <1>8. session' = [session EXCEPT ![s] = next]
    BY <1>1, <1>6 DEF WriteSettle, Wrote
  <1>9. RequestsInv' /\ session' = [x \in Sessions |-> session'[x]]
    BY <1>5, <1>7, <1>8, OthersStay, RequestStays DEF IInv
  <1>10. RowTypes'
    BY <1>4, <1>9 DEF IInv, RowTypes, WriteSettle
  <1>11. AcceptedInv'
    BY DEF IInv, AcceptedInv, Agreed, WriteSettle
  <1>12. OwnersInv' /\ MemoriesInv'
    BY <1>5, OwnersStay, MemoriesStay DEF IInv, WriteSettle
  <1> QED BY <1>9, <1>10, <1>11, <1>12 DEF IInv

LEMMA ExtractKeeps ==
    ASSUME IInv, NEW s \in Sessions, NEW p, Extract(s, p)
    PROVE  IInv'
  <1>1. PICK r : r = session[s]
    OBVIOUS
  <1>2. AllAgreed(r.ps) /\ p \in r.ps
    BY <1>1 DEF Extract, IInv, RequestsInv, RequestOK
  <1>3. Moves
    BY DEF Moves, Extract
  <1>4. PICK next : /\ session' = [session EXCEPT ![s] = next]
                    /\ next = Idle \/ next = [op |-> "extract", ps |-> r.ps \ {p}]
    BY <1>1 DEF Extract
  <1>5. RequestOK(next)
    BY <1>2, <1>4 DEF RequestOK, AllAgreed, Idle
  <1>6. RequestsInv' /\ session' = [x \in Sessions |-> session'[x]]
    BY <1>3, <1>4, <1>5, OthersStay, RequestStays DEF IInv
  <1>7. RowTypes'
    BY <1>6 DEF IInv, RowTypes, Extract
  <1>8. AcceptedInv'
    BY DEF IInv, AcceptedInv, Agreed, Extract
  <1>9. OwnersInv'
    BY <1>3, OwnersStay DEF IInv, Extract
  <1>10. MemoriesInv'
    <2>1. memories' = memories \cup {[p |-> p, task |-> proposals[p].task]}
      BY DEF Extract
    <2>2. p \in DOMAIN proposals /\ Agreed(p)
      BY <1>2 DEF AllAgreed
    <2> QED BY <2>1, <2>2 DEF IInv, MemoriesInv, Agreed, Extract
  <1> QED BY <1>6, <1>7, <1>8, <1>9, <1>10 DEF IInv

LEMMA WriteNegotiateKeeps ==
    ASSUME IInv, NEW s \in Sessions, WriteNegotiate(s)
    PROVE  IInv'
  <1>1. session[s].p \in DOMAIN proposals /\ session[s].task \in Tasks
    BY DEF WriteNegotiate, IInv, RequestsInv, RequestOK
  <1>2. PICK p : p = proposals[session[s].p]
    OBVIOUS
  <1>3. p \in Proposal
    BY <1>1, <1>2 DEF IInv, RowTypes
  <1>4. PICK n : n = Negotiation(p.user, p.stage, session[s].task, TRUE)
    OBVIOUS
  <1>5. n \in NegotiationType
    BY <1>1, <1>3, <1>4 DEF Negotiation, NegotiationType, NegotiationStatus, Proposal
  <1>6. negotiations' = Append(negotiations, n)
    BY <1>2, <1>4 DEF WriteNegotiate
  <1>7. /\ negotiations' \in Seq(NegotiationType)
        /\ DOMAIN negotiations \subseteq DOMAIN negotiations'
        /\ \A i \in DOMAIN negotiations : negotiations'[i] = negotiations[i]
    BY <1>5, <1>6, NegotiationAdded DEF IInv
  <1>8. Moves
    BY <1>7 DEF Moves, WriteNegotiate
  <1>9. RequestOK(Idle)'
    BY DEF RequestOK, Idle
  <1>10. RequestsInv' /\ session' = [x \in Sessions |-> session'[x]]
    BY <1>8, <1>9, OthersStay DEF IInv, WriteNegotiate, Wrote, Idle
  <1>11. RowTypes'
    BY <1>7, <1>10 DEF IInv, RowTypes, WriteNegotiate
  <1>12. AcceptedInv'
    BY DEF IInv, AcceptedInv, Agreed, WriteNegotiate
  <1>13. OwnersInv' /\ MemoriesInv'
    BY <1>8, OwnersStay, MemoriesStay DEF IInv, WriteNegotiate
  <1> QED BY <1>10, <1>11, <1>12, <1>13 DEF IInv

LEMMA CreateNegotiationKeeps ==
    ASSUME IInv, NEW u \in Users, NEW stage \in Stages, NEW t \in Tasks,
           CreateNegotiation(u, stage, t)
    PROVE  IInv'
  <1>1. PICK n : n = Negotiation(u, stage, t, FALSE)
    OBVIOUS
  <1>2. n \in NegotiationType
    BY <1>1 DEF Negotiation, NegotiationType, NegotiationStatus
  <1>3. /\ negotiations' \in Seq(NegotiationType)
        /\ DOMAIN negotiations \subseteq DOMAIN negotiations'
        /\ \A i \in DOMAIN negotiations : negotiations'[i] = negotiations[i]
    BY <1>1, <1>2, NegotiationAdded DEF IInv, CreateNegotiation
  <1>4. Moves
    BY <1>3 DEF Moves, CreateNegotiation
  <1>5. RequestsInv' /\ session' = [x \in Sessions |-> session'[x]]
    BY <1>4, AllStay DEF IInv, CreateNegotiation
  <1>6. /\ edits' \in [count : Nat, patched : SUBSET Tasks, replanned : SUBSET Tasks]
        /\ edits'.patched = edits.patched /\ edits'.replanned = edits.replanned
    <2>1. edits \in [count : Nat, patched : SUBSET Tasks, replanned : SUBSET Tasks]
      BY DEF IInv, RowTypes
    <2>2. edits' = [edits EXCEPT !.count = @ + 1]
      BY DEF CreateNegotiation
    <2> QED BY <2>1, <2>2
  <1>7. RowTypes'
    BY <1>3, <1>5, <1>6 DEF IInv, RowTypes, CreateNegotiation
  <1>8. AcceptedInv'
    BY DEF IInv, AcceptedInv, Agreed, CreateNegotiation
  <1>9. OwnersInv'
    BY <1>6 DEF IInv, OwnersInv, CreateNegotiation
  <1>10. MemoriesInv'
    BY <1>4, MemoriesStay DEF IInv, CreateNegotiation
  <1> QED BY <1>5, <1>7, <1>8, <1>9, <1>10 DEF IInv

LEMMA WriteResolveKeeps ==
    ASSUME IInv, NEW s \in Sessions, WriteResolve(s)
    PROVE  IInv'
  <1>1. PICK r : r = session[s]
    OBVIOUS
  <1>2. /\ r.n \in DOMAIN negotiations
        /\ r.p # 0 => /\ r.p \in DOMAIN proposals
                      /\ negotiations[r.n].user = proposals[r.p].user
                      /\ r.task = proposals[r.p].task \/ Agreed(r.p)
    BY <1>1 DEF WriteResolve, IInv, RequestsInv, RequestOK
  <1>3. /\ negotiations' \in Seq(NegotiationType)
        /\ DOMAIN negotiations' = DOMAIN negotiations
        /\ \A n \in DOMAIN negotiations : negotiations'[n].user = negotiations[n].user
    <2>1. PICK status \in NegotiationStatus : negotiations' = With({r.n}, status)
      BY <1>1 DEF WriteResolve, NegotiationStatus
    <2> QED BY <2>1, WithKeeps DEF IInv
  <1>4. /\ proposals' \in Seq(Proposal)
        /\ DOMAIN proposals' = DOMAIN proposals
        /\ consents \subseteq consents'
        /\ \A p \in DOMAIN proposals :
             \/ proposals'[p] = proposals[p]
             \/ /\ proposals'[p].user = proposals[p].user
                /\ <<proposals'[p].user, proposals'[p].task>> \in consents'
    <2>1. CASE r.p = 0
      BY <1>1, <2>1 DEF WriteResolve, IInv, RowTypes
    <2>2. CASE r.p # 0
      <3>1. PICK t : t = negotiations[r.n].task
        OBVIOUS
      <3>2. PICK u : u = negotiations[r.n].user
        OBVIOUS
      <3>3. t \in Tasks /\ u = proposals[r.p].user
        <4>1. \A n \in DOMAIN negotiations : negotiations[n] \in NegotiationType
          BY DEF IInv, RowTypes
        <4> QED BY <1>2, <2>2, <3>1, <3>2, <4>1 DEF NegotiationType
      <3>4. /\ proposals' = [proposals EXCEPT ![r.p].task = IF r.task = t THEN @ ELSE t,
                                              ![r.p].status = "owner_confirmed"]
            /\ consents' = consents \cup {<<u, t>>}
        BY <1>1, <2>2, <3>1, <3>2 DEF WriteResolve
      <3>5. /\ DOMAIN proposals = 1..Len(proposals) /\ Len(proposals) \in Nat
            /\ \A p \in DOMAIN proposals : proposals[p] \in Proposal
        BY DEF IInv, RowTypes
      <3>6. PICK task : task = IF r.task = t THEN proposals[r.p].task ELSE t
        OBVIOUS
      <3>7. task \in Tasks
        BY <1>2, <2>2, <3>3, <3>5, <3>6 DEF Proposal
      <3>8. /\ DOMAIN proposals' = DOMAIN proposals
            /\ \A p \in DOMAIN proposals :
                 proposals'[p] = IF p = r.p THEN [proposals[p] EXCEPT !.task = task,
                                                                    !.status = "owner_confirmed"]
                                            ELSE proposals[p]
        BY <1>2, <2>2, <3>4, <3>6
      <3>9. ASSUME NEW p \in DOMAIN proposals PROVE proposals'[p] \in Proposal
        BY <3>5, <3>7, <3>8 DEF Proposal, ProposalStatus
      <3>10. PICK f : f = proposals'
        OBVIOUS
      <3>11. f = [p \in DOMAIN proposals |-> f[p]]
        BY <3>4, <3>10
      <3>12. proposals' \in [1..Len(proposals) -> Proposal]
        BY <3>5, <3>9, <3>10, <3>11
      <3>13. /\ proposals'[r.p].user = proposals[r.p].user
             /\ proposals'[r.p].task = task
        BY <1>2, <2>2, <3>5, <3>8 DEF Proposal
      <3>14. <<u, task>> \in consents'
        BY <1>2, <2>2, <3>3, <3>4, <3>6 DEF Agreed
      <3>15. consents \subseteq consents'
        BY <3>4
      <3>16. ASSUME NEW p \in DOMAIN proposals
             PROVE  \/ proposals'[p] = proposals[p]
                    \/ /\ proposals'[p].user = proposals[p].user
                       /\ <<proposals'[p].user, proposals'[p].task>> \in consents'
        <4>1. CASE p = r.p
          BY <3>3, <3>13, <3>14, <4>1
        <4>2. CASE p # r.p
          BY <3>8, <4>2
        <4> QED BY <4>1, <4>2
      <3>17. proposals' \in Seq(Proposal)
        BY <3>5, <3>12
      <3> QED BY <3>8, <3>15, <3>16, <3>17
    <2> QED BY <2>1, <2>2
  <1>5. Moves
    BY <1>3, <1>4 DEF Moves
  <1>6. RequestOK(Idle)'
    BY DEF RequestOK, Idle
  <1>7. RequestsInv' /\ session' = [x \in Sessions |-> session'[x]]
    BY <1>5, <1>6, OthersStay DEF IInv, WriteResolve, Wrote, Idle
  <1>8. RowTypes'
    BY <1>3, <1>4, <1>7 DEF IInv, RowTypes, WriteResolve
  <1>9. AcceptedInv'
    BY <1>4 DEF IInv, AcceptedInv, Agreed
  <1>10. OwnersInv' /\ MemoriesInv'
    BY <1>5, OwnersStay, MemoriesStay DEF IInv, WriteResolve
  <1> QED BY <1>7, <1>8, <1>9, <1>10 DEF IInv

LEMMA PatchOwnerKeeps ==
    ASSUME AssignmentAssumption, IInv, NEW t \in Tasks, NEW u \in PatchOwners, PatchOwner(t, u)
    PROVE  IInv'
  <1>1. Moves
    BY DEF Moves, PatchOwner
  <1>2. RequestsInv' /\ session' = [x \in Sessions |-> session'[x]]
    BY <1>1, AllStay DEF IInv, PatchOwner
  <1>3. owner' \in [Tasks -> Users \cup {None}]
    BY DEF IInv, RowTypes, PatchOwner, AssignmentAssumption
  <1>4. /\ edits' \in [count : Nat, patched : SUBSET Tasks, replanned : SUBSET Tasks]
        /\ edits'.patched = edits.patched \cup {t} /\ edits'.replanned = edits.replanned
    <2>1. edits \in [count : Nat, patched : SUBSET Tasks, replanned : SUBSET Tasks]
      BY DEF IInv, RowTypes
    <2>2. edits' = [edits EXCEPT !.count = @ + 1, !.patched = @ \cup {t}]
      BY DEF PatchOwner
    <2>3. edits.patched \cup {t} \in SUBSET Tasks
      BY <2>1
    <2>4. edits' = [count |-> edits.count + 1, patched |-> edits.patched \cup {t},
                    replanned |-> edits.replanned]
      BY <2>1, <2>2
    <2> QED BY <2>1, <2>3, <2>4
  <1>5. RowTypes'
    BY <1>2, <1>3, <1>4 DEF IInv, RowTypes, PatchOwner
  <1>6. AcceptedInv'
    BY DEF IInv, AcceptedInv, Agreed, PatchOwner
  <1>7. OwnersInv'
    BY <1>4 DEF IInv, RowTypes, OwnersInv, PatchOwner
  <1>8. MemoriesInv'
    BY <1>1, MemoriesStay DEF IInv, PatchOwner
  <1> QED BY <1>2, <1>5, <1>6, <1>7, <1>8 DEF IInv

LEMMA WriteReplanKeeps ==
    ASSUME IInv, NEW s \in Sessions, WriteReplan(s)
    PROVE  IInv'
  <1>1. PICK r : r = session[s]
    OBVIOUS
  <1>2. r.task \in Tasks /\ r.user \in Users
    BY <1>1 DEF WriteReplan, IInv, RequestsInv, RequestOK
  <1>3. /\ owner' = [owner EXCEPT ![r.task] = r.user]
        /\ edits' = [edits EXCEPT !.count = @ + 1, !.replanned = @ \cup {r.task}]
    BY <1>1 DEF WriteReplan
  <1>4. Moves
    BY DEF Moves, WriteReplan
  <1>5. RequestOK(Idle)'
    BY DEF RequestOK, Idle
  <1>6. RequestsInv' /\ session' = [x \in Sessions |-> session'[x]]
    BY <1>4, <1>5, OthersStay DEF IInv, WriteReplan, Wrote, Idle
  <1>7. owner' \in [Tasks -> Users \cup {None}]
    BY <1>2, <1>3 DEF IInv, RowTypes
  <1>8. /\ edits' \in [count : Nat, patched : SUBSET Tasks, replanned : SUBSET Tasks]
        /\ edits'.patched = edits.patched
        /\ edits'.replanned = edits.replanned \cup {r.task}
    <2>1. edits \in [count : Nat, patched : SUBSET Tasks, replanned : SUBSET Tasks]
      BY DEF IInv, RowTypes
    <2>2. edits.replanned \cup {r.task} \in SUBSET Tasks
      BY <1>2, <2>1
    <2>3. edits' = [count |-> edits.count + 1, patched |-> edits.patched,
                    replanned |-> edits.replanned \cup {r.task}]
      BY <1>3, <2>1
    <2> QED BY <2>1, <2>2, <2>3
  <1>9. RowTypes'
    BY <1>6, <1>7, <1>8 DEF IInv, RowTypes, WriteReplan
  <1>10. AcceptedInv'
    BY DEF IInv, AcceptedInv, Agreed, WriteReplan
  <1>11. OwnersInv'
    BY <1>2, <1>3, <1>8 DEF IInv, RowTypes, OwnersInv, WriteReplan
  <1>12. MemoriesInv'
    BY <1>4, MemoriesStay DEF IInv, WriteReplan
  <1> QED BY <1>6, <1>9, <1>10, <1>11, <1>12 DEF IInv

LEMMA FailKeeps ==
    ASSUME IInv, NEW s \in Sessions, Fail(s)
    PROVE  IInv'
  <1>1. Moves
    BY DEF Moves, Fail
  <1>2. RequestOK(Idle)'
    BY DEF RequestOK, Idle
  <1>3. RequestsInv' /\ session' = [x \in Sessions |-> session'[x]]
    BY <1>1, <1>2, OthersStay DEF IInv, Fail, Idle
  <1>4. RowTypes'
    BY <1>3 DEF IInv, RowTypes, Fail
  <1>5. AcceptedInv'
    BY DEF IInv, AcceptedInv, Agreed, Fail
  <1>6. OwnersInv' /\ MemoriesInv'
    BY <1>1, OwnersStay, MemoriesStay DEF IInv, Fail
  <1> QED BY <1>3, <1>4, <1>5, <1>6 DEF IInv

-----------------------------------------------------------------------------
(* The invariant and the theorem. *)

LEMMA InitInvariant ==
    ASSUME Init PROVE IInv
  <1>1. RowTypes
    BY DEF Init, RowTypes
  <1>2. AcceptedInv /\ OwnersInv /\ MemoriesInv
    BY DEF Init, AcceptedInv, OwnersInv, MemoriesInv
  <1>3. RequestsInv
    BY DEF Init, RequestsInv, RequestOK, Idle
  <1> QED BY <1>1, <1>2, <1>3 DEF IInv

LEMMA NextKeepsInvariant ==
    ASSUME AssignmentAssumption, IInv, Next PROVE IInv'
  <1>1. ASSUME NEW s \in Sessions, Begin(s) PROVE IInv'
    BY <1>1, BeginKeeps
  <1>2. ASSUME NEW s \in Sessions, Continue(s) PROVE IInv'
    <2>1. ASSUME NEW p \in DOMAIN proposals, Extract(s, p) PROVE IInv'
      BY <2>1, ExtractKeeps
    <2> QED BY <1>2, <2>1, WriteCreateKeeps, WriteRespondKeeps, WriteFinalizeKeeps,
               ReadSettleKeeps, WriteSettleKeeps, WriteNegotiateKeeps, WriteResolveKeeps,
               WriteReplanKeeps, FailKeeps DEF Continue
  <1>3. ASSUME NEW u \in Users, NEW stage \in Stages, NEW t \in Tasks,
               CreateNegotiation(u, stage, t)
        PROVE  IInv'
    BY <1>3, CreateNegotiationKeeps
  <1>4. ASSUME NEW t \in Tasks, NEW u \in PatchOwners, PatchOwner(t, u) PROVE IInv'
    BY <1>4, PatchOwnerKeeps
  <1> QED BY <1>1, <1>2, <1>3, <1>4 DEF Next

LEMMA StutterKeepsInvariant ==
    ASSUME IInv, UNCHANGED vars PROVE IInv'
  BY DEF IInv, RowTypes, AcceptedInv, OwnersInv, MemoriesInv, RequestsInv, RequestOK, AllAgreed,
         Agreed, vars

\* Whoever a task or the project memory names as its owner has agreed to it,
\* unless set by hand or by a replan: for any members and tasks, and however
\* answers, negotiations, finalizations and their failures overlap.
THEOREM OwnersHaveConsented == Spec => []OwnersConsented
  <1>1. Init => IInv
    BY InitInvariant
  <1>2. IInv /\ [Next]_vars => IInv'
    BY NextKeepsInvariant, StutterKeepsInvariant, AssignmentAssumption
  <1>3. IInv => OwnersConsented
    BY DEF IInv, OwnersInv, MemoriesInv, OwnersConsented
  <1> QED BY <1>1, <1>2, <1>3, PTL DEF Spec

-----------------------------------------------------------------------------
(* What is final. *)

\* The step that FinalizedIsFinal allows.
KeepsFinal ==
    \A p \in DOMAIN proposals :
        proposals[p].status = "finalized" =>
            \/ /\ proposals'[p].status = "finalized"
               /\ proposals'[p].task = proposals[p].task
            \/ \E s \in Sessions : WritesLate(s, p)

LEMMA StepKeepsFinal ==
    ASSUME RowTypes, RequestsInv, [Next]_vars
    PROVE  KeepsFinal
  <1> USE DEF KeepsFinal
  <1>1. ASSUME UNCHANGED proposals PROVE KeepsFinal
    BY <1>1
  <1>2. /\ DOMAIN proposals = 1..Len(proposals) /\ Len(proposals) \in Nat
        /\ \A p \in DOMAIN proposals : proposals[p] \in Proposal
    BY DEF RowTypes
  <1>3. ASSUME NEW s \in Sessions, WriteCreate(s) PROVE KeepsFinal
    <2>1. PICK p : proposals' = Append(proposals, p)
      BY <1>3 DEF WriteCreate
    <2>2. \A i \in DOMAIN proposals : proposals'[i] = proposals[i]
      BY <1>2, <2>1 DEF RowTypes
    <2> QED BY <2>2
  <1>4. ASSUME NEW s \in Sessions, WriteRespond(s) PROVE KeepsFinal
    <2>1. PICK r : r = session[s]
      OBVIOUS
    <2>2. r.op = "respond" /\ r.p \in DOMAIN proposals
      BY <1>4, <2>1 DEF WriteRespond, RequestsInv, RequestOK
    <2>3. PICK status : proposals' = [proposals EXCEPT ![r.p].status = status]
      BY <1>4, <2>1 DEF WriteRespond
    <2>4. \A p \in DOMAIN proposals : p # r.p => proposals'[p] = proposals[p]
      BY <2>3
    <2>5. proposals[r.p].status = "finalized" => Outdated(r)
      BY <2>2 DEF Outdated, MayAnswer
    <2>6. proposals[r.p].status = "finalized" => WritesLate(s, r.p)
      <3>1. session'[s] = Idle
        BY <1>4 DEF WriteRespond, Wrote, RowTypes
      <3> QED BY <2>1, <2>2, <2>5, <3>1 DEF WritesLate
    <2> QED BY <2>4, <2>6
  <1>5. ASSUME NEW s \in Sessions, WriteFinalize(s) PROVE KeepsFinal
    <2>1. PICK ps : proposals' = [p \in DOMAIN proposals |->
                                   IF p \in ps THEN [proposals[p] EXCEPT !.status = "finalized"]
                                               ELSE proposals[p]]
      BY <1>5 DEF WriteFinalize
    <2>2. ASSUME NEW p \in DOMAIN proposals, proposals[p].status = "finalized"
          PROVE  proposals'[p].status = "finalized" /\ proposals'[p].task = proposals[p].task
      BY <1>2, <2>1, <2>2 DEF Proposal
    <2> QED BY <2>2
  <1>6. ASSUME NEW s \in Sessions, WriteResolve(s) PROVE KeepsFinal
    <2>1. PICK r : r = session[s]
      OBVIOUS
    <2>2. r.op = "resolve" /\ (r.p # 0 => r.p \in DOMAIN proposals)
      BY <1>6, <2>1 DEF WriteResolve, RequestsInv, RequestOK
    <2>3. CASE r.p = 0
      BY <1>1, <1>6, <2>1, <2>3 DEF WriteResolve
    <2>4. CASE r.p # 0
      <3>1. \A p \in DOMAIN proposals : p # r.p => proposals'[p] = proposals[p]
        BY <1>6, <2>1, <2>4 DEF WriteResolve
      <3>2. proposals[r.p].status = "finalized" => Outdated(r)
        BY <2>2, <2>4 DEF Outdated
      <3>3. session'[s] = Idle
        BY <1>6 DEF WriteResolve, Wrote, RowTypes
      <3>4. proposals[r.p].status = "finalized" => WritesLate(s, r.p)
        BY <2>1, <2>2, <3>2, <3>3 DEF WritesLate
      <3> QED BY <3>1, <3>4
    <2> QED BY <2>3, <2>4
  <1>7. ASSUME NEW s \in Sessions, Begin(s) PROVE UNCHANGED proposals
    BY <1>7 DEF Begin, ReadCreate, ReadReplan, ReadFinalize, ReadFinalizeStage, ReadRespond,
                ReadNegotiate, ReadResolve, Reads
  <1>8. ASSUME NEW s \in Sessions, Continue(s) PROVE KeepsFinal
    <2>1. ASSUME NEW p, Extract(s, p) PROVE UNCHANGED proposals
      BY <2>1 DEF Extract
    <2>2. ASSUME \/ ReadSettle(s) \/ WriteSettle(s) \/ WriteNegotiate(s)
                 \/ WriteReplan(s) \/ Fail(s)
          PROVE  UNCHANGED proposals
      BY <2>2 DEF ReadSettle, Reads, WriteSettle, WriteNegotiate, WriteReplan, Fail
    <2> QED BY <1>1, <1>3, <1>4, <1>5, <1>6, <1>8, <2>1, <2>2 DEF Continue
  <1> QED BY <1>1, <1>7, <1>8 DEF Next, CreateNegotiation, PatchOwner, vars

\* Whatever requests overlap, a finalized recommendation stays finalized and for
\* its task but for the write of an answer or of a negotiation about it that was
\* read before it was finalized.
THEOREM FinalizedStays == Spec => FinalizedIsFinal
  <1>1. Init => IInv
    BY InitInvariant
  <1>2. IInv /\ [Next]_vars => IInv'
    BY NextKeepsInvariant, StutterKeepsInvariant, AssignmentAssumption
  <1>3. IInv /\ [Next]_vars => [KeepsFinal]_vars
    BY StepKeepsFinal DEF IInv
  <1> QED BY <1>1, <1>2, <1>3, PTL DEF Spec, FinalizedIsFinal, KeepsFinal
=============================================================================
