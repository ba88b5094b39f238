--------------------------- MODULE ProposalsProofs ---------------------------
(***************************************************************************)
(* Proofs about Proposals, for any number of sessions, keys, proposals,    *)
(* stages and tasks: what is recorded of a decision agrees, the project    *)
(* memory keeps to the decisions, requests repeat each other no more often *)
(* than they overlap, the plan keeps its form, its current stage is live,  *)
(* and each disorder comes from one kind of overlap.                       *)
(*                                                                         *)
(* Repetitions: once a proposal is decided no request begins to decide     *)
(* it, so each further decision uses up a request that was under way       *)
(* (DecideInv); the same holds of the drafts of one tool call and of       *)
(* pending replans (DraftInv, ReplanInv).                                  *)
(*                                                                         *)
(* The memory: MemoryOf says of each proposal what its extractions under   *)
(* way may write; while there is one decision there is one extraction or   *)
(* one memory (OneMemory), and a row is superseded only by another of the  *)
(* same decision (ExtractionOf).                                           *)
(*                                                                         *)
(* The plan: there is a lemma for each operator of ProjectPlan, and every  *)
(* step does to the plan what PlanMoves allows.  The repair runs as often  *)
(* as there are stages; that its result is reached by passes is shown by   *)
(* induction, in the form that a set of numbers has a least element.       *)
(***************************************************************************)
EXTENDS Proposals, FiniteSetTheorems, SequenceTheorems, WellFoundedInduction, TLAPS

Deciding(p) == {s \in Sessions : session[s].op \in {"confirm", "reject"} /\ session[s].p = p}
Drafting(k) == {s \in Sessions : session[s].op = "create" /\ session[s].key = k}
DraftingReplans == {s \in Sessions : session[s].op = "create" /\ KindOf[session[s].key] = "replan"}

Decided(p) == trail[p].confirmed + trail[p].rejected
Limit == Cardinality(Sessions)

DecideInv == \A p \in DOMAIN proposals :
                Decided(p) > 0 => Decided(p) + Cardinality(Deciding(p)) <= Limit
DraftInv  == \A k \in Keys :
                WithKey(k) # {} => Cardinality(WithKey(k)) + Cardinality(Drafting(k)) <= Limit
ReplanInv == PendingReplans # {} =>
                Cardinality(PendingReplans) + Cardinality(DraftingReplans) <= Limit

IInv == DecisionTypeOK /\ DecisionRecorded /\ DecideInv /\ DraftInv /\ ReplanInv

-----------------------------------------------------------------------------
(* Cardinalities of sets of requests and of proposals *)

LEMMA RequestSets ==
    ASSUME NEW S \in SUBSET Sessions
    PROVE  IsFiniteSet(S) /\ Cardinality(S) \in Nat /\ Cardinality(S) <= Limit /\ Limit \in Nat
<1>1. IsFiniteSet(Sessions)
  BY ProposalsAssumption
<1> QED
  BY <1>1, FS_Subset, FS_CardinalityType DEF Limit

\* One request less.
LEMMA OneLess ==
    ASSUME NEW S \in SUBSET Sessions, NEW s \in S
    PROVE  Cardinality(S \ {s}) = Cardinality(S) - 1 /\ Cardinality(S) >= 1
<1>1. IsFiniteSet(S)
  BY RequestSets
<1>2. Cardinality(S \ {s}) = Cardinality(S) - 1
  BY <1>1, FS_RemoveElement
<1>3. Cardinality(S \ {s}) \in Nat /\ Cardinality(S) \in Nat
  BY RequestSets
<1> QED
  BY <1>2, <1>3

LEMMA RequestsShrink ==
    ASSUME NEW S \in SUBSET Sessions, NEW T \in SUBSET S
    PROVE  Cardinality(T) <= Cardinality(S) /\ Cardinality(T) \in Nat /\ Cardinality(S) \in Nat
<1>1. IsFiniteSet(S) /\ T \in SUBSET Sessions
  BY RequestSets
<1> QED
  BY <1>1, FS_Subset, RequestSets

LEMMA ProposalSets ==
    ASSUME DecisionTypeOK, NEW P \in SUBSET (DOMAIN proposals)
    PROVE  IsFiniteSet(P) /\ Cardinality(P) \in Nat
<1>1. DOMAIN proposals = 1..Len(proposals) /\ Len(proposals) \in Nat
  BY DEF DecisionTypeOK
<1>2. IsFiniteSet(1..Len(proposals))
  BY <1>1, FS_Interval
<1> QED
  BY <1>1, <1>2, FS_Subset, FS_CardinalityType

\* What the types say of one proposal.
LEMMA OfProposal ==
    ASSUME DecisionTypeOK, NEW p \in DOMAIN proposals
    PROVE  /\ p \in 1..Len(proposals) /\ p \in Nat
           /\ p \in DOMAIN trail
           /\ proposals[p] \in Proposal
           /\ trail[p] \in Trail
           /\ trail[p].confirmed \in Nat /\ trail[p].rejected \in Nat
           /\ trail[p].run \in SUBSET RunEvents
           /\ trail[p].memory \subseteq Memories /\ trail[p].active \subseteq Memories
           /\ trail[p].reasons \subseteq Reasons \cup {None} /\ trail[p].lost \subseteq Sources
           /\ proposals[p].reason \in Reasons \cup {None} /\ proposals[p].kind \in Kinds
           /\ Decided(p) \in Nat
<1>1. p \in 1..Len(proposals) /\ p \in Nat /\ p \in DOMAIN trail /\ p \in 1..Len(trail)
  BY DEF DecisionTypeOK
<1>2. proposals[p] \in Proposal /\ trail[p] \in Trail
  BY <1>1, ElementOfSeq DEF DecisionTypeOK
<1>3. /\ trail[p].confirmed \in Nat /\ trail[p].rejected \in Nat
      /\ trail[p].run \in SUBSET RunEvents
      /\ trail[p].memory \subseteq Memories /\ trail[p].active \subseteq Memories
      /\ trail[p].reasons \subseteq Reasons \cup {None} /\ trail[p].lost \subseteq Sources
      /\ proposals[p].reason \in Reasons \cup {None} /\ proposals[p].kind \in Kinds
  BY <1>2 DEF Trail, Proposal
<1>4. Decided(p) \in Nat
  BY <1>3 DEF Decided
<1> QED
  BY <1>1, <1>2, <1>3, <1>4

-----------------------------------------------------------------------------
(* Requests that read or end, and steps that touch the plan only *)

\* No proposal changes and no request begins.
LEMMA NothingBegins ==
    ASSUME IInv, UNCHANGED proposals,
           \A p \in DOMAIN proposals : Decided(p)' = Decided(p),
           session' = [s \in Sessions |-> session'[s]],
           \A s \in Sessions : session'[s] = session[s]
                              \/ session'[s].op \in {"idle", "repair"} \cup Extraction
    PROVE  DecideInv' /\ DraftInv' /\ ReplanInv'
<1>1. /\ \A p : Deciding(p)' \subseteq Deciding(p)
      /\ \A k : Drafting(k)' \subseteq Drafting(k)
      /\ DraftingReplans' \subseteq DraftingReplans
  BY DEF Deciding, Drafting, DraftingReplans, Extraction
<1>2. /\ \A p : Deciding(p) \in SUBSET Sessions
      /\ \A k : Drafting(k) \in SUBSET Sessions
      /\ DraftingReplans \in SUBSET Sessions
  BY DEF Deciding, Drafting, DraftingReplans
<1>3. DecideInv'
  <2> SUFFICES ASSUME NEW p \in DOMAIN proposals, Decided(p)' > 0
               PROVE  Decided(p)' + Cardinality(Deciding(p)') <= Limit
    BY DEF DecideInv, Limit
  <2>1. Decided(p)' = Decided(p) /\ Decided(p) \in Nat
    BY OfProposal DEF IInv
  <2>2. Decided(p) + Cardinality(Deciding(p)) <= Limit
    BY <2>1 DEF IInv, DecideInv
  <2>3. Cardinality(Deciding(p)') <= Cardinality(Deciding(p)) /\ Cardinality(Deciding(p)) \in Nat
        /\ Cardinality(Deciding(p)') \in Nat
    BY <1>1, <1>2, RequestsShrink
  <2>4. Limit \in Nat
    BY <1>2, RequestSets
  <2> QED
    BY <2>1, <2>2, <2>3, <2>4
<1>4. DraftInv'
  <2> SUFFICES ASSUME NEW k \in Keys, WithKey(k)' # {}
               PROVE  Cardinality(WithKey(k)') + Cardinality(Drafting(k)') <= Limit
    BY DEF DraftInv, Limit
  <2>1. WithKey(k)' = WithKey(k) /\ WithKey(k) \in SUBSET (DOMAIN proposals)
    BY DEF WithKey
  <2>2. Cardinality(WithKey(k)) + Cardinality(Drafting(k)) <= Limit
    BY <2>1 DEF IInv, DraftInv
  <2>3. Cardinality(Drafting(k)') <= Cardinality(Drafting(k)) /\ Cardinality(Drafting(k)) \in Nat
        /\ Cardinality(Drafting(k)') \in Nat
    BY <1>1, <1>2, RequestsShrink
  <2>4. Limit \in Nat /\ Cardinality(WithKey(k)) \in Nat
    BY <1>2, RequestSets, <2>1, ProposalSets DEF IInv
  <2> QED
    BY <2>1, <2>2, <2>3, <2>4
<1>5. ReplanInv'
  <2> SUFFICES ASSUME PendingReplans' # {}
               PROVE  Cardinality(PendingReplans') + Cardinality(DraftingReplans') <= Limit
    BY DEF ReplanInv, Limit
  <2>1. PendingReplans' = PendingReplans /\ PendingReplans \in SUBSET (DOMAIN proposals)
    BY DEF PendingReplans
  <2>2. Cardinality(PendingReplans) + Cardinality(DraftingReplans) <= Limit
    BY <2>1 DEF IInv, ReplanInv
  <2>3. Cardinality(DraftingReplans') <= Cardinality(DraftingReplans)
        /\ Cardinality(DraftingReplans) \in Nat /\ Cardinality(DraftingReplans') \in Nat
    BY <1>1, <1>2, RequestsShrink
  <2>4. Limit \in Nat /\ Cardinality(PendingReplans) \in Nat
    BY <1>2, RequestSets, <2>1, ProposalSets DEF IInv
  <2> QED
    BY <2>1, <2>2, <2>3, <2>4
<1> QED
  BY <1>3, <1>4, <1>5

\* The direction card stays, or is changed by hand.
KeepsCard == \/ card' = card /\ (edits.card => edits'.card)
             \/ card' = None /\ edits'.card

\* Steps that decide nothing and begin no decision or draft: on the plan, by hand,
\* repairs, extractions, and requests that end.
Quiet(t) ==
    /\ UNCHANGED proposals
    /\ trail' = t /\ t \in Seq(Trail) /\ Len(t) = Len(trail)
    /\ \A p \in DOMAIN proposals : /\ t[p].confirmed = trail[p].confirmed
                                   /\ t[p].rejected = trail[p].rejected
                                   /\ t[p].run = trail[p].run
    /\ session' = [s \in Sessions |-> session'[s]]
    /\ \A s \in Sessions :
         \/ session'[s] = session[s]
         \/ session'[s].op \in {"idle", "repair"}
         \/ /\ session'[s].op \in {"remember", "insert"}
            /\ session'[s].p \in DOMAIN proposals /\ session'[s].memory \in Memories
    /\ KeepsCard

LEMMA QuietSteps ==
    ASSUME IInv, NEW t, Quiet(t)
    PROVE  IInv'
<1> USE DEF Quiet, KeepsCard
<1>1. DecisionTypeOK'
  <2>1. /\ proposals' \in Seq(Proposal) /\ trail' \in Seq(Trail) /\ Len(trail') = Len(proposals')
        /\ card' \in Nat \cup {None} /\ session' = [s \in Sessions |-> session'[s]]
    BY DEF IInv, DecisionTypeOK
  <2>2. ASSUME NEW s \in Sessions
        PROVE  /\ session'[s].op \in Ops
               /\ session'[s].op = "create" => session'[s] \in [op : {"create"}, key : Keys,
                                                               target : Targets]
               /\ session'[s].op \in {"confirm", "reject"} \cup Extraction =>
                      session'[s].p \in DOMAIN proposals
               /\ session'[s].op = "extract" => session'[s].source \in Sources
               /\ session'[s].op \in {"remember", "insert"} => session'[s].memory \in Memories
    BY DEF IInv, DecisionTypeOK, Ops, Extraction
  <2> QED
    BY <2>1, <2>2 DEF DecisionTypeOK
<1>2. \A p \in DOMAIN proposals : Decided(p)' = Decided(p)
  BY DEF Decided
<1>3. DecideInv' /\ DraftInv' /\ ReplanInv'
  <2>1. \A s \in Sessions : session'[s] = session[s]
                            \/ session'[s].op \in {"idle", "repair"} \cup Extraction
    BY DEF Extraction
  <2>2. UNCHANGED proposals /\ session' = [s \in Sessions |-> session'[s]]
    OBVIOUS
  <2> HIDE DEF Quiet
  <2> QED
    BY <1>2, <2>1, <2>2, NothingBegins
<1>4. DecisionRecorded'
  <2>1. \A p \in DOMAIN proposals : /\ trail'[p].confirmed = trail[p].confirmed
                                    /\ trail'[p].rejected = trail[p].rejected
                                    /\ trail'[p].run = trail[p].run
    OBVIOUS
  <2>2. UNCHANGED proposals /\ KeepsCard
    OBVIOUS
  <2> HIDE DEF Quiet
  <2> QED
    BY <2>1, <2>2 DEF IInv, DecisionRecorded
<1> QED
  BY <1>1, <1>3, <1>4 DEF IInv

\* The record of decisions stays, and a request changes its state or none does.
LEMMA QuietRequests ==
    ASSUME IInv, UNCHANGED <<proposals, trail>>,
           KeepsCard,
           \/ session' = session
           \/ \E s \in Sessions : \E r :
                /\ session' = [session EXCEPT ![s] = r]
                /\ \/ r.op \in {"idle", "repair"}
                   \/ /\ r.op \in {"remember", "insert"}
                      /\ r.p \in DOMAIN proposals /\ r.memory \in Memories
    PROVE  IInv'
<1>1. /\ trail \in Seq(Trail) /\ session = [s \in Sessions |-> session[s]]
  BY DEF IInv, DecisionTypeOK
<1>2. Quiet(trail)
  <2>1. CASE session' = session
    BY <1>1, <2>1 DEF Quiet
  <2>2. ASSUME NEW s \in Sessions, NEW r, session' = [session EXCEPT ![s] = r],
               \/ r.op \in {"idle", "repair"}
               \/ /\ r.op \in {"remember", "insert"}
                  /\ r.p \in DOMAIN proposals /\ r.memory \in Memories
        PROVE  Quiet(trail)
    <3>1. /\ session' = [x \in Sessions |-> session'[x]] /\ session'[s] = r
          /\ \A x \in Sessions : x # s => session'[x] = session[x]
      BY <1>1, <2>2
    <3> QED
      BY <1>1, <2>2, <3>1 DEF Quiet
  <2> QED
    BY <2>1, <2>2
<1> QED
  BY <1>2, QuietSteps

-----------------------------------------------------------------------------
(* Requests that begin *)

LEMMA BeginDecision ==
    ASSUME IInv, NEW s \in Sessions, NEW p \in DOMAIN proposals, NEW r,
           session[s] = Idle, MayDecide(p),
           r.op \in {"confirm", "reject"}, r.p = p,
           session' = [session EXCEPT ![s] = r],
           UNCHANGED <<proposals, trail, card, edits>>
    PROVE  IInv'
<1>1. session' = [t \in Sessions |-> session'[t]]
  BY DEF IInv, DecisionTypeOK
<1>2. session'[s] = r /\ \A t \in Sessions : t # s => session'[t] = session[t]
  BY DEF IInv, DecisionTypeOK
<1>3. session[s].op = "idle"
  BY DEF Idle
<1>4. DecisionTypeOK'
  BY <1>1, <1>2 DEF IInv, DecisionTypeOK, Ops, Extraction
<1>6. DecideInv'
  <2> SUFFICES ASSUME NEW q \in DOMAIN proposals, Decided(q)' > 0
               PROVE  Decided(q)' + Cardinality(Deciding(q)') <= Limit
    BY DEF DecideInv, Limit
  <2>1. Decided(q)' = Decided(q)
    BY DEF Decided
  <2>2. proposals[q].status # "pending"
    BY <2>1 DEF IInv, DecisionRecorded, Decided
  <2>3. q # p
    BY <2>2 DEF MayDecide
  <2>4. Deciding(q)' = Deciding(q)
    BY <1>2, <1>3, <2>3 DEF Deciding
  <2> QED
    BY <2>1, <2>4 DEF IInv, DecideInv
<1>7. \A k : Drafting(k)' = Drafting(k)
  BY <1>2, <1>3 DEF Drafting
<1>8. DraftingReplans' = DraftingReplans
  BY <1>2, <1>3 DEF DraftingReplans
<1>9. (\A k : WithKey(k)' = WithKey(k)) /\ PendingReplans' = PendingReplans
  BY DEF WithKey, PendingReplans
<1>10. DraftInv' /\ ReplanInv'
  BY <1>7, <1>8, <1>9 DEF IInv, DraftInv, ReplanInv, Limit
<1>11. DecisionRecorded'
  BY DEF IInv, DecisionRecorded
<1> QED
  BY <1>4, <1>6, <1>10, <1>11 DEF IInv

LEMMA PayloadType ==
    ASSUME NEW k \in Keys, NEW t \in Payloads(k)
    PROVE  t \in Targets
<1>1. CASE KindOf[k] = "breakdown"
  BY <1>1 DEF Payloads, Targets
<1>2. CASE KindOf[k] = "replan"
  BY <1>2 DEF Payloads, Targets
<1>3. CASE KindOf[k] \notin {"breakdown", "replan"}
  <2>1. t = NoTarget
    BY <1>3 DEF Payloads
  <2> QED
    BY <2>1 DEF Targets, NoTarget
<1> QED
  BY <1>1, <1>2, <1>3

LEMMA ReadDraftStep ==
    ASSUME IInv, NEW s \in Sessions, NEW k \in Keys, ReadDraft(s, k)
    PROVE  IInv'
<1> PICK t \in Payloads(k) :
        session' = [session EXCEPT ![s] = [op |-> "create", key |-> k, target |-> t]]
  BY DEF ReadDraft
<1>1. session' = [x \in Sessions |-> session'[x]]
  BY DEF IInv, DecisionTypeOK
<1>2. /\ session'[s] = [op |-> "create", key |-> k, target |-> t]
      /\ \A x \in Sessions : x # s => session'[x] = session[x]
  BY DEF IInv, DecisionTypeOK
<1>3. session[s].op = "idle"
  BY DEF ReadDraft, Idle
<1>4. UNCHANGED <<proposals, trail, card, edits>>
  BY DEF ReadDraft
<1>5. session'[s] \in [op : {"create"}, key : Keys, target : Targets] /\ session'[s].op = "create"
  BY <1>2, PayloadType
<1>6. DecisionTypeOK'
  BY <1>1, <1>2, <1>4, <1>5 DEF IInv, DecisionTypeOK, Ops, Extraction
<1>7. DecisionRecorded'
  BY <1>4 DEF IInv, DecisionRecorded
<1>8. DecideInv'
  <2>1. \A q : Deciding(q)' = Deciding(q)
    BY <1>2, <1>3, <1>5 DEF Deciding
  <2>2. \A q : Decided(q)' = Decided(q)
    BY <1>4 DEF Decided
  <2> QED
    BY <2>1, <2>2, <1>4 DEF IInv, DecideInv, Limit
<1>9. (\A j : WithKey(j)' = WithKey(j)) /\ PendingReplans' = PendingReplans
  BY <1>4 DEF WithKey, PendingReplans
<1>10. DraftInv'
  <2>1. \A j \in Keys : j # k => Drafting(j)' = Drafting(j)
    BY <1>2, <1>3 DEF Drafting
  <2>2. WithKey(k) = {}
    BY DEF ReadDraft, MayDraft
  <2> QED
    BY <2>1, <2>2, <1>9 DEF IInv, DraftInv, Limit
<1>11. ReplanInv'
  <2>1. CASE KindOf[k] = "replan"
    BY <2>1, <1>9 DEF ReadDraft, MayDraft, ReplanInv
  <2>2. CASE KindOf[k] # "replan"
    <3>1. DraftingReplans' = DraftingReplans
      BY <2>2, <1>2, <1>3 DEF DraftingReplans
    <3> QED
      BY <3>1, <1>9 DEF IInv, ReplanInv, Limit
  <2> QED
    BY <2>1, <2>2
<1> QED
  BY <1>6, <1>7, <1>8, <1>10, <1>11 DEF IInv

-----------------------------------------------------------------------------
(* A draft is written *)

LEMMA WriteDraftStep ==
    ASSUME IInv, NEW s \in Sessions, WriteDraft(s)
    PROVE  IInv'
<1> DEFINE k == session[s].key
           n == Len(proposals) + 1
           new == [kind |-> KindOf[k], key |-> k,
                   target |-> session[s].target, status |-> "pending", reason |-> None]
<1>1. session[s] \in [op : {"create"}, key : Keys, target : Targets] /\ session[s].op = "create"
  BY DEF WriteDraft, IInv, DecisionTypeOK
<1>2. k \in Keys /\ KindOf[k] \in Kinds
  BY <1>1, ProposalsAssumption
<1>3. new \in Proposal
  BY <1>1, <1>2 DEF Proposal
<1>4. NoTrail \in Trail
  BY DEF NoTrail, Trail, RunEvents
<1>5. /\ proposals' = Append(proposals, new)
      /\ trail' = Append(trail, NoTrail)
      /\ card' = card /\ edits' = edits
      /\ session' = [session EXCEPT ![s] = Idle]
  BY DEF WriteDraft, Wrote
<1> HIDE DEF new
<1>6. /\ proposals \in Seq(Proposal) /\ trail \in Seq(Trail) /\ Len(trail) = Len(proposals)
      /\ n \in Nat
  BY DEF IInv, DecisionTypeOK
<1>7. /\ proposals' \in Seq(Proposal) /\ trail' \in Seq(Trail)
      /\ Len(proposals') = n /\ Len(trail') = n
      /\ DOMAIN proposals = 1..(n - 1) /\ DOMAIN proposals' = 1..n
      /\ proposals'[n] = new /\ trail'[n] = NoTrail
      /\ \A p \in 1..(n - 1) : proposals'[p] = proposals[p] /\ trail'[p] = trail[p]
  BY <1>3, <1>4, <1>5, <1>6, AppendProperties
<1>8. /\ session' = [x \in Sessions |-> session'[x]]
      /\ session'[s] = Idle /\ session'[s].op = "idle"
      /\ \A x \in Sessions : x # s => session'[x] = session[x]
  BY <1>5 DEF IInv, DecisionTypeOK, Idle
<1>9. /\ n \notin DOMAIN proposals
      /\ \A p : p \in DOMAIN proposals' <=> p \in DOMAIN proposals \/ p = n
      /\ \A p \in DOMAIN proposals : proposals'[p] = proposals[p] /\ trail'[p] = trail[p]
  BY <1>6, <1>7
<1>10. DecisionTypeOK'
  BY <1>5, <1>7, <1>8, <1>9 DEF IInv, DecisionTypeOK, Ops, Extraction
<1>12. DecisionRecorded'
  <2>2. /\ new.status = "pending"
        /\ NoTrail.confirmed = 0 /\ NoTrail.rejected = 0 /\ NoTrail.run = {}
    BY DEF new, NoTrail
  <2> QED
    BY <2>2, <1>5, <1>7, <1>9 DEF IInv, DecisionRecorded
<1>14. DecideInv'
  <2> SUFFICES ASSUME NEW p \in DOMAIN proposals', Decided(p)' > 0
               PROVE  Decided(p)' + Cardinality(Deciding(p)') <= Limit
    BY DEF DecideInv, Limit
  <2>1. trail'[n].confirmed + trail'[n].rejected = 0
    BY <1>7 DEF NoTrail
  <2>2. p \in DOMAIN proposals
    BY <2>1, <1>9 DEF Decided
  <2>3. Decided(p)' = Decided(p)
    BY <2>2, <1>9 DEF Decided
  <2>4. Deciding(p)' = Deciding(p)
    BY <1>1, <1>8 DEF Deciding
  <2> QED
    BY <2>2, <2>3, <2>4 DEF IInv, DecideInv
<1>15. DraftInv'
  <2> SUFFICES ASSUME NEW j \in Keys, WithKey(j)' # {}
               PROVE  Cardinality(WithKey(j)') + Cardinality(Drafting(j)') <= Limit
    BY DEF DraftInv, Limit
  <2>1. new.key = k /\ new.kind = KindOf[k]
    BY DEF new
  <2>2. WithKey(j) \in SUBSET (DOMAIN proposals) /\ Drafting(j) \in SUBSET Sessions
    BY DEF WithKey, Drafting
  <2>3. /\ IsFiniteSet(WithKey(j)) /\ Cardinality(WithKey(j)) \in Nat
        /\ Cardinality(Drafting(j)) \in Nat /\ Limit \in Nat /\ Cardinality(Drafting(j)) <= Limit
    BY <2>2, ProposalSets, RequestSets DEF IInv
  <2>4. CASE j = k
    <3>1. WithKey(j)' = WithKey(j) \cup {n}
      BY <2>1, <2>4, <1>7, <1>9 DEF WithKey
    <3>2. n \notin WithKey(j)
      BY <1>9 DEF WithKey
    <3>3. Cardinality(WithKey(j)') = Cardinality(WithKey(j)) + 1
      BY <3>1, <3>2, <2>3, FS_AddElement
    <3>4. s \in Drafting(j) /\ Drafting(j)' = Drafting(j) \ {s}
      BY <2>4, <1>1, <1>8 DEF Drafting
    <3>5. Cardinality(Drafting(j)') = Cardinality(Drafting(j)) - 1
      BY <3>4, <2>2, OneLess
    <3>6. WithKey(j) = {} => Cardinality(WithKey(j)) = 0
      BY FS_EmptySet
    <3>7. WithKey(j) # {} => Cardinality(WithKey(j)) + Cardinality(Drafting(j)) <= Limit
      BY DEF IInv, DraftInv
    <3> QED
      BY <2>3, <3>3, <3>5, <3>6, <3>7
  <2>5. CASE j # k
    <3>1. WithKey(j)' = WithKey(j)
      BY <2>1, <2>5, <1>7, <1>9 DEF WithKey
    <3>2. Drafting(j)' = Drafting(j)
      BY <2>5, <1>1, <1>8 DEF Drafting
    <3> QED
      BY <3>1, <3>2 DEF IInv, DraftInv
  <2> QED
    BY <2>4, <2>5
<1>16. ReplanInv'
  <2> SUFFICES ASSUME PendingReplans' # {}
               PROVE  Cardinality(PendingReplans') + Cardinality(DraftingReplans') <= Limit
    BY DEF ReplanInv, Limit
  <2>1. new.status = "pending" /\ new.kind = KindOf[k]
    BY DEF new
  <2>2. PendingReplans \in SUBSET (DOMAIN proposals) /\ DraftingReplans \in SUBSET Sessions
    BY DEF PendingReplans, DraftingReplans
  <2>3. /\ IsFiniteSet(PendingReplans) /\ Cardinality(PendingReplans) \in Nat
        /\ Cardinality(DraftingReplans) \in Nat /\ Limit \in Nat
        /\ Cardinality(DraftingReplans) <= Limit
    BY <2>2, ProposalSets, RequestSets DEF IInv
  <2>4. CASE KindOf[k] = "replan"
    <3>1. PendingReplans' = PendingReplans \cup {n}
      BY <2>1, <2>4, <1>7, <1>9 DEF PendingReplans
    <3>2. n \notin PendingReplans
      BY <1>7, <1>9 DEF PendingReplans
    <3>3. Cardinality(PendingReplans') = Cardinality(PendingReplans) + 1
      BY <3>1, <3>2, <2>3, FS_AddElement
    <3>4. s \in DraftingReplans /\ DraftingReplans' = DraftingReplans \ {s}
      BY <2>4, <1>1, <1>8 DEF DraftingReplans
    <3>5. Cardinality(DraftingReplans') = Cardinality(DraftingReplans) - 1
      BY <3>4, <2>2, OneLess
    <3>6. PendingReplans = {} => Cardinality(PendingReplans) = 0
      BY FS_EmptySet
    <3>7. PendingReplans # {} =>
             Cardinality(PendingReplans) + Cardinality(DraftingReplans) <= Limit
      BY DEF IInv, ReplanInv
    <3> QED
      BY <2>3, <3>3, <3>5, <3>6, <3>7
  <2>5. CASE KindOf[k] # "replan"
    <3>1. PendingReplans' = PendingReplans
      BY <2>1, <2>5, <1>7, <1>9 DEF PendingReplans
    <3>2. DraftingReplans' = DraftingReplans
      BY <2>5, <1>1, <1>8 DEF DraftingReplans
    <3> QED
      BY <3>1, <3>2 DEF IInv, ReplanInv
  <2> QED
    BY <2>4, <2>5
<1> QED
  BY <1>10, <1>12, <1>14, <1>15, <1>16 DEF IInv
-----------------------------------------------------------------------------
(* A decision is written *)

\* Request s gives proposal p the status st, the reason why and the record t, and
\* continues as r, with an extraction or with nothing.
Decides(s, p, st, why, t, r) ==
    /\ session[s].op \in {"confirm", "reject"} /\ session[s].p = p
    /\ st \in {"confirmed", "rejected"} /\ why \in Reasons \cup {None}
    /\ t \in Trail
    /\ t.confirmed + t.rejected = Decided(p) + 1
    /\ \/ r.op = "idle"
       \/ r.op = "extract" /\ r.p = p /\ r.source \in Sources
    /\ proposals' = [proposals EXCEPT ![p].status = st, ![p].reason = why]
    /\ trail' = [trail EXCEPT ![p] = t]
    /\ session' = [session EXCEPT ![s] = r]

\* One more decision, one request less that decides.
LEMMA DecideStep ==
    ASSUME IInv, NEW s \in Sessions, NEW p \in DOMAIN proposals, NEW st, NEW why, NEW t,
           NEW r, Decides(s, p, st, why, t, r)
    PROVE  DecideInv' /\ DraftInv' /\ ReplanInv'
<1> USE DEF Decides
<1>1. /\ session' = [x \in Sessions |-> session'[x]]
      /\ session'[s].op \notin {"create", "confirm", "reject"}
      /\ session[s].op # "create"
      /\ \A x \in Sessions : x # s => session'[x] = session[x]
  BY DEF IInv, DecisionTypeOK
<1>2. p \in DOMAIN trail /\ Decided(p) \in Nat
  BY OfProposal DEF IInv
<1>3. /\ DOMAIN proposals' = DOMAIN proposals
      /\ \A q \in DOMAIN proposals : q # p => proposals'[q] = proposals[q]
      /\ proposals'[p] = [proposals[p] EXCEPT !.status = st, !.reason = why]
      /\ trail'[p] = t
      /\ \A q \in DOMAIN proposals : q # p => trail'[q] = trail[q]
  <2>1. \A q \in DOMAIN proposals : q \in DOMAIN trail
    BY OfProposal DEF IInv
  <2> QED
    BY <1>2, <2>1
<1>4. /\ proposals'[p].kind = proposals[p].kind /\ proposals'[p].key = proposals[p].key
      /\ proposals'[p].status = st
  <2>1. proposals[p] \in Proposal
    BY OfProposal DEF IInv
  <2> QED
    BY <2>1, <1>3 DEF Proposal
<1>5. DecideInv'
  <2> SUFFICES ASSUME NEW q \in DOMAIN proposals, Decided(q)' > 0
               PROVE  Decided(q)' + Cardinality(Deciding(q)') <= Limit
    BY <1>3 DEF DecideInv, Limit
  <2>1. Deciding(q) \in SUBSET Sessions
    BY DEF Deciding
  <2>2. /\ Cardinality(Deciding(q)) \in Nat /\ Limit \in Nat
        /\ Cardinality(Deciding(q)) <= Limit
    BY <2>1, RequestSets
  <2>3. CASE q = p
    <3>1. s \in Deciding(q) /\ Deciding(q)' = Deciding(q) \ {s}
      BY <2>3, <1>1 DEF Deciding
    <3>2. Cardinality(Deciding(q)') = Cardinality(Deciding(q)) - 1
      BY <3>1, <2>1, OneLess
    <3>3. Decided(q)' = Decided(q) + 1 /\ Decided(q) \in Nat
      BY <2>3, <1>2, <1>3 DEF Decided
    <3>4. Decided(q) > 0 => Decided(q) + Cardinality(Deciding(q)) <= Limit
      BY DEF IInv, DecideInv
    <3> QED
      BY <2>2, <3>2, <3>3, <3>4
  <2>4. CASE q # p
    <3>1. Decided(q)' = Decided(q)
      BY <2>4, <1>3 DEF Decided
    <3>2. Deciding(q)' = Deciding(q)
      BY <2>4, <1>1 DEF Deciding
    <3> QED
      BY <3>1, <3>2 DEF IInv, DecideInv
  <2> QED
    BY <2>3, <2>4
<1>6. /\ \A k : Drafting(k)' = Drafting(k)
      /\ DraftingReplans' = DraftingReplans
  BY <1>1 DEF Drafting, DraftingReplans
<1>7. DraftInv'
  <2>1. \A k : WithKey(k)' = WithKey(k)
    BY <1>3, <1>4 DEF WithKey
  <2> QED
    BY <1>6, <2>1 DEF IInv, DraftInv, Limit
<1>8. ReplanInv'
  <2> SUFFICES ASSUME PendingReplans' # {}
               PROVE  Cardinality(PendingReplans') + Cardinality(DraftingReplans') <= Limit
    BY DEF ReplanInv, Limit
  <2>1. PendingReplans' \subseteq PendingReplans /\ PendingReplans \in SUBSET (DOMAIN proposals)
    BY <1>3, <1>4 DEF PendingReplans
  <2>2. IsFiniteSet(PendingReplans)
    BY <2>1, ProposalSets DEF IInv
  <2>3. /\ Cardinality(PendingReplans') <= Cardinality(PendingReplans)
        /\ Cardinality(PendingReplans) \in Nat /\ Cardinality(PendingReplans') \in Nat
    BY <2>1, <2>2, FS_Subset, FS_CardinalityType
  <2>4. DraftingReplans \in SUBSET Sessions
    BY DEF DraftingReplans
  <2>5. Cardinality(DraftingReplans) \in Nat /\ Limit \in Nat
    BY <2>4, RequestSets
  <2>6. Cardinality(PendingReplans) + Cardinality(DraftingReplans) <= Limit
    BY <2>1 DEF IInv, ReplanInv
  <2> QED
    BY <1>6, <2>3, <2>5, <2>6
<1> QED
  BY <1>5, <1>7, <1>8

\* What a decision writes on the proposal keeps the types.
LEMMA DecideTypes ==
    ASSUME IInv, NEW s \in Sessions, NEW p \in DOMAIN proposals, NEW st, NEW why, NEW t,
           NEW r, Decides(s, p, st, why, t, r), card' \in Nat \cup {None}
    PROVE  DecisionTypeOK'
<1> USE DEF Decides
<1>1. /\ session' = [x \in Sessions |-> session'[x]]
      /\ session'[s] = r
      /\ \A x \in Sessions : x # s => session'[x] = session[x]
  BY DEF IInv, DecisionTypeOK
<1>2. /\ p \in 1..Len(proposals) /\ p \in 1..Len(trail) /\ proposals[p] \in Proposal
  BY OfProposal DEF IInv, DecisionTypeOK
<1>3. [proposals[p] EXCEPT !.status = st, !.reason = why] \in Proposal
  BY <1>2 DEF Proposal
<1>4. /\ proposals' \in Seq(Proposal) /\ Len(proposals') = Len(proposals)
      /\ DOMAIN proposals' = DOMAIN proposals
  <2>1. proposals \in Seq(Proposal)
    BY DEF IInv, DecisionTypeOK
  <2>2. PICK row : row = [proposals[p] EXCEPT !.status = st, !.reason = why]
    OBVIOUS
  <2>3. proposals' = [proposals EXCEPT ![p] = row] /\ row \in Proposal
    BY <1>3, <2>2
  <2>4. DOMAIN proposals' = DOMAIN proposals
    BY <2>3
  <2> HIDE DEF Decides
  <2> QED
    BY <1>2, <2>1, <2>3, <2>4, ExceptSeq
<1>5. trail' \in Seq(Trail) /\ Len(trail') = Len(trail)
  <2>1. trail \in Seq(Trail) /\ DOMAIN proposals = DOMAIN trail
    BY DEF IInv, DecisionTypeOK
  <2> QED
    BY <1>2, <2>1, ExceptSeq
<1> QED
  BY <1>1, <1>4, <1>5 DEF IInv, DecisionTypeOK, Ops, Extraction

\* What a confirmation writes.
LEMMA ConfirmWrites ==
    ASSUME IInv, NEW s \in Sessions, WriteConfirm(s),
           NEW p, p = session[s].p
    PROVE  /\ session[s].op = "confirm" /\ p \in DOMAIN proposals
           /\ \E t : /\ Decides(s, p, "confirmed", proposals[p].reason, t, AfterConfirm(p))
                     /\ t.confirmed = trail[p].confirmed + 1 /\ t.rejected = trail[p].rejected
                     /\ t.run = WithRunEvents(trail[p].run, "confirmed", {"committed"})
                     /\ t.memory = trail[p].memory /\ t.active = trail[p].active
                     /\ t.reasons = trail[p].reasons /\ t.lost = trail[p].lost
           /\ card' = IF proposals[p].kind = "clarify" THEN p ELSE card
           /\ edits' = edits
<1>1. session[s].op = "confirm" /\ p \in DOMAIN proposals
  BY DEF WriteConfirm, IInv, DecisionTypeOK
<1> PICK t : t = [trail[p] EXCEPT !.confirmed = @ + 1,
                                  !.run = WithRunEvents(@, "confirmed", {"committed"})]
  OBVIOUS
<1> PICK r : r = AfterConfirm(p)
  OBVIOUS
<1>2. /\ proposals' = [proposals EXCEPT ![p].status = "confirmed"]
      /\ trail' = [trail EXCEPT ![p] = t]
      /\ card' = IF proposals[p].kind = "clarify" THEN p ELSE card
      /\ session' = [session EXCEPT ![s] = r]
      /\ edits' = edits
  BY <1>1 DEF WriteConfirm, Wrote
<1>3. /\ p \in Nat /\ trail[p] \in Trail /\ proposals[p] \in Proposal
      /\ trail[p].confirmed \in Nat /\ trail[p].rejected \in Nat
      /\ trail[p].run \in SUBSET RunEvents
      /\ Decided(p) = trail[p].confirmed + trail[p].rejected
  BY <1>1, OfProposal DEF IInv, Decided
<1>4. WithRunEvents(trail[p].run, "confirmed", {"committed"}) \in SUBSET RunEvents
  BY <1>3 DEF WithRunEvents, RunEvents
<1>5. /\ t \in Trail
      /\ t.confirmed = trail[p].confirmed + 1 /\ t.rejected = trail[p].rejected
      /\ t.run = WithRunEvents(trail[p].run, "confirmed", {"committed"})
      /\ t.memory = trail[p].memory /\ t.active = trail[p].active
      /\ t.reasons = trail[p].reasons /\ t.lost = trail[p].lost
  <2>1. trail[p].confirmed + 1 \in Nat
    BY <1>3
  <2> QED
    BY <1>3, <1>4, <2>1 DEF Trail
<1>6. \/ r.op = "idle"
      \/ r.op = "extract" /\ r.p = p /\ r.source \in Sources
  BY DEF AfterConfirm, Idle, Sources
<1>7. t.confirmed + t.rejected = Decided(p) + 1
  BY <1>3, <1>5
<1>8. proposals' = [proposals EXCEPT ![p].status = "confirmed", ![p].reason = proposals[p].reason]
  <2>1. [proposals[p] EXCEPT !.status = "confirmed"]
          = [proposals[p] EXCEPT !.status = "confirmed", !.reason = proposals[p].reason]
    BY <1>3 DEF Proposal
  <2> QED
    BY <1>2, <2>1
<1>9. proposals[p].reason \in Reasons \cup {None}
  BY <1>3 DEF Proposal
<1>10. Decides(s, p, "confirmed", proposals[p].reason, t, r)
  BY <1>1, <1>2, <1>5, <1>6, <1>7, <1>8, <1>9 DEF Decides
<1> QED
  BY <1>1, <1>2, <1>5, <1>10

\* What a rejection writes.
LEMMA RejectWrites ==
    ASSUME IInv, NEW s \in Sessions, WriteReject(s),
           NEW p, p = session[s].p
    PROVE  /\ session[s].op = "reject" /\ p \in DOMAIN proposals
           /\ \E given \in Reasons \cup {None} : \E why \in ReasonWritten(p, given) : \E t :
                /\ Decides(s, p, "rejected", why, t, AfterReject(p, given))
                /\ t.confirmed = trail[p].confirmed /\ t.rejected = trail[p].rejected + 1
                /\ t.run = WithRunEvents(trail[p].run, "rejected", {})
                /\ t.memory = trail[p].memory /\ t.active = trail[p].active
                /\ t.reasons = trail[p].reasons \cup {given} /\ t.lost = trail[p].lost
           /\ card' = card /\ edits' = edits
<1>1. session[s].op = "reject" /\ p \in DOMAIN proposals
  BY DEF WriteReject, IInv, DecisionTypeOK
<1>2. /\ p \in Nat /\ trail[p] \in Trail /\ proposals[p] \in Proposal
      /\ trail[p].confirmed \in Nat /\ trail[p].rejected \in Nat
      /\ trail[p].run \in SUBSET RunEvents
      /\ Decided(p) = trail[p].confirmed + trail[p].rejected
  BY <1>1, OfProposal DEF IInv, Decided
<1>3. proposals[p].key \in Keys /\ proposals[p].reason \in Reasons \cup {None}
  BY <1>2 DEF Proposal
<1> DEFINE Writes(x, given) ==
         /\ \E reason \in ReasonWritten(x, given) :
              proposals' = [proposals EXCEPT ![x].status = "rejected", ![x].reason = reason]
         /\ trail' = [trail EXCEPT
                        ![x].rejected = @ + 1,
                        ![x].run = WithRunEvents(@, "rejected", {}),
                        ![x].reasons = @ \cup {given}]
         /\ Wrote(s, AfterReject(x, given))
<1>4. \E given \in ReasonsFor[proposals[session[s].p].key] \cup {None} : Writes(session[s].p, given)
  BY Zenon DEF WriteReject
<1> HIDE DEF Writes
<1>5. PICK given \in ReasonsFor[proposals[p].key] \cup {None} : Writes(p, given)
  BY <1>4
<1>6. /\ \E reason \in ReasonWritten(p, given) :
           proposals' = [proposals EXCEPT ![p].status = "rejected", ![p].reason = reason]
      /\ trail' = [trail EXCEPT
                     ![p].rejected = @ + 1,
                     ![p].run = WithRunEvents(@, "rejected", {}),
                     ![p].reasons = @ \cup {given}]
      /\ Wrote(s, AfterReject(p, given))
  BY <1>5, Zenon DEF Writes
<1>7. given \in Reasons \cup {None}
  BY <1>3, <1>5, ProposalsAssumption
<1>8. PICK why \in ReasonWritten(p, given) :
         proposals' = [proposals EXCEPT ![p].status = "rejected", ![p].reason = why]
  BY <1>6
<1>9. why \in Reasons \cup {None}
  BY <1>3, <1>7, <1>8 DEF ReasonWritten
<1> PICK t : t = [trail[p] EXCEPT !.rejected = @ + 1,
                                  !.run = WithRunEvents(@, "rejected", {}),
                                  !.reasons = @ \cup {given}]
  OBVIOUS
<1> PICK r : r = AfterReject(p, given)
  OBVIOUS
<1>10. /\ trail' = [trail EXCEPT ![p] = t]
      /\ session' = [session EXCEPT ![s] = r]
      /\ card' = card /\ edits' = edits
  <2>1. card' = card /\ edits' = edits /\ session' = [session EXCEPT ![s] = r]
    <3>1. card' = card /\ edits' = edits
      BY DEF WriteReject
    <3>2. session' = [session EXCEPT ![s] = AfterReject(p, given)]
      BY <1>6 DEF Wrote
    <3> QED
      BY <3>1, <3>2
  <2>2. p \in DOMAIN trail
    BY <1>1, OfProposal DEF IInv
  <2>3. trail' = [trail EXCEPT ![p] = t]
    BY <1>6, <2>2
  <2> QED
    BY <2>1, <2>3
<1>11. WithRunEvents(trail[p].run, "rejected", {}) \in SUBSET RunEvents
  BY <1>2 DEF WithRunEvents, RunEvents
<1>12. /\ t \in Trail
       /\ t.confirmed = trail[p].confirmed /\ t.rejected = trail[p].rejected + 1
       /\ t.run = WithRunEvents(trail[p].run, "rejected", {})
       /\ t.memory = trail[p].memory /\ t.active = trail[p].active
       /\ t.reasons = trail[p].reasons \cup {given} /\ t.lost = trail[p].lost
  <2>1. /\ trail[p].rejected + 1 \in Nat
        /\ trail[p].reasons \cup {given} \in SUBSET (Reasons \cup {None})
    BY <1>2, <1>7 DEF Trail
  <2> QED
    BY <1>2, <1>11, <2>1 DEF Trail
<1>13. \/ r.op = "idle"
       \/ r.op = "extract" /\ r.p = p /\ r.source \in Sources
  BY DEF AfterReject, Idle, Sources
<1>14. t.confirmed + t.rejected = Decided(p) + 1
  BY <1>2, <1>12
<1>15. Decides(s, p, "rejected", why, t, r)
  BY <1>1, <1>8, <1>9, <1>10, <1>12, <1>13, <1>14 DEF Decides
<1> QED
  BY <1>1, <1>7, <1>8, <1>10, <1>12, <1>15

\* What a decision leaves of the proposals and the records.
LEMMA DecisionEffect ==
    ASSUME IInv, NEW s \in Sessions, NEW p \in DOMAIN proposals, NEW st, NEW why, NEW t,
           NEW r, Decides(s, p, st, why, t, r)
    PROVE  /\ DOMAIN proposals' = DOMAIN proposals
           /\ proposals'[p].status = st /\ proposals'[p].reason = why
           /\ proposals'[p].kind = proposals[p].kind /\ proposals'[p].key = proposals[p].key
           /\ proposals'[p].target = proposals[p].target
           /\ trail'[p] = t
           /\ \A q \in DOMAIN proposals : q # p => /\ proposals'[q] = proposals[q]
                                                   /\ trail'[q] = trail[q]
           /\ session'[s] = r /\ \A x \in Sessions : x # s => session'[x] = session[x]
<1>1. \A q \in DOMAIN proposals : q \in DOMAIN trail /\ proposals[q] \in Proposal
  BY OfProposal DEF IInv
<1>2. session = [x \in Sessions |-> session[x]]
  BY DEF IInv, DecisionTypeOK
<1>3. proposals'[p] = [proposals[p] EXCEPT !.status = st, !.reason = why]
  BY DEF Decides
<1>4. /\ proposals'[p].status = st /\ proposals'[p].reason = why
      /\ proposals'[p].kind = proposals[p].kind /\ proposals'[p].key = proposals[p].key
      /\ proposals'[p].target = proposals[p].target
  BY <1>1, <1>3 DEF Proposal
<1> QED
  BY <1>1, <1>2, <1>4 DEF Decides

LEMMA WriteConfirmStep ==
    ASSUME IInv, NEW s \in Sessions, WriteConfirm(s)
    PROVE  IInv'
<1> PICK p : p = session[s].p
  OBVIOUS
<1>1. /\ session[s].op = "confirm" /\ p \in DOMAIN proposals
      /\ card' = IF proposals[p].kind = "clarify" THEN p ELSE card
      /\ edits' = edits
  BY ConfirmWrites
<1>2. PICK t : /\ Decides(s, p, "confirmed", proposals[p].reason, t, AfterConfirm(p))
               /\ t.confirmed = trail[p].confirmed + 1 /\ t.rejected = trail[p].rejected
               /\ t.run = WithRunEvents(trail[p].run, "confirmed", {"committed"})
  BY ConfirmWrites
<1>3. p \in Nat /\ trail[p].confirmed \in Nat /\ trail[p].rejected \in Nat
  BY <1>1, OfProposal DEF IInv
<1>4. /\ DOMAIN proposals' = DOMAIN proposals
      /\ proposals'[p].status = "confirmed" /\ proposals'[p].kind = proposals[p].kind
      /\ trail'[p] = t
      /\ \A q \in DOMAIN proposals : q # p => /\ proposals'[q] = proposals[q]
                                              /\ trail'[q] = trail[q]
  BY <1>1, <1>2, DecisionEffect
<1>5. card' \in Nat \cup {None} /\ card \in Nat \cup {None}
  BY <1>1, <1>3 DEF IInv, DecisionTypeOK
<1>6. DecideInv' /\ DraftInv' /\ ReplanInv' /\ DecisionTypeOK'
  BY <1>1, <1>2, <1>5, DecideStep, DecideTypes
<1>7. DecisionRecorded'
  <2>1. /\ "confirmed" \in t.run /\ "committed" \in t.run
        /\ "rejected" \in t.run <=> "rejected" \in trail[p].run
    <3>1. "confirmed" \in trail[p].run => "committed" \in trail[p].run
      BY <1>1 DEF IInv, DecisionRecorded
    <3> QED
      BY <1>2, <3>1 DEF WithRunEvents
  <2>2. \A q \in DOMAIN proposals' :
           /\ proposals'[q].status = "pending" <=> trail'[q].confirmed + trail'[q].rejected = 0
           /\ proposals'[q].status = "confirmed" => trail'[q].confirmed > 0
           /\ proposals'[q].status = "rejected" => trail'[q].rejected > 0
           /\ "confirmed" \in trail'[q].run <=> trail'[q].confirmed > 0
           /\ "committed" \in trail'[q].run <=> trail'[q].confirmed > 0
           /\ "rejected" \in trail'[q].run <=> trail'[q].rejected > 0
    <3> TAKE q \in DOMAIN proposals'
    <3>1. CASE q = p
      <4>1. "rejected" \in trail[p].run <=> trail[p].rejected > 0
        BY <1>1 DEF IInv, DecisionRecorded
      <4>2. t.confirmed + t.rejected # 0 /\ t.confirmed > 0
        BY <1>2, <1>3
      <4> QED
        BY <3>1, <4>1, <4>2, <1>2, <1>4, <2>1
    <3>2. CASE q # p
      BY <3>2, <1>4 DEF IInv, DecisionRecorded
    <3> QED
      BY <3>1, <3>2
  <2>3. ASSUME NEW q \in DOMAIN proposals', proposals'[q].kind = "clarify",
               trail'[q].confirmed > 0, ~edits'.card
        PROVE  card' # None
    <3>1. CASE proposals[p].kind = "clarify"
      BY <1>1, <1>3, <3>1, NoneAssumption
    <3>2. CASE proposals[p].kind # "clarify"
      <4>1. q # p /\ card' = card
        BY <1>1, <1>4, <2>3, <3>2
      <4> QED
        BY <4>1, <1>1, <1>4, <2>3 DEF IInv, DecisionRecorded
    <3> QED
      BY <3>1, <3>2
  <2>4. card' # None => /\ card' \in DOMAIN proposals'
                        /\ proposals'[card'].kind = "clarify"
                        /\ trail'[card'].confirmed > 0
    <3>1. t.confirmed > 0
      BY <1>2, <1>3
    <3>2. CASE proposals[p].kind = "clarify"
      BY <3>1, <3>2, <1>1, <1>4
    <3>3. CASE proposals[p].kind # "clarify"
      <4>1. card' = card
        BY <3>3, <1>1
      <4>2. card # None => /\ card \in DOMAIN proposals
                           /\ proposals[card].kind = "clarify"
                           /\ trail[card].confirmed > 0
        BY DEF IInv, DecisionRecorded
      <4> QED
        BY <3>1, <4>1, <4>2, <1>4
    <3> QED
      BY <3>2, <3>3
  <2> QED
    BY <2>2, <2>3, <2>4 DEF DecisionRecorded
<1> QED
  BY <1>6, <1>7 DEF IInv

LEMMA WriteRejectStep ==
    ASSUME IInv, NEW s \in Sessions, WriteReject(s)
    PROVE  IInv'
<1> PICK p : p = session[s].p
  OBVIOUS
<1>1. session[s].op = "reject" /\ p \in DOMAIN proposals /\ card' = card /\ edits' = edits
  BY RejectWrites
<1>2. PICK given, why, t :
         /\ Decides(s, p, "rejected", why, t, AfterReject(p, given))
         /\ t.confirmed = trail[p].confirmed /\ t.rejected = trail[p].rejected + 1
         /\ t.run = WithRunEvents(trail[p].run, "rejected", {})
  BY RejectWrites
<1>3. trail[p].confirmed \in Nat /\ trail[p].rejected \in Nat
  BY <1>1, OfProposal DEF IInv
<1>4. /\ DOMAIN proposals' = DOMAIN proposals
      /\ proposals'[p].status = "rejected" /\ proposals'[p].kind = proposals[p].kind
      /\ trail'[p] = t
      /\ \A q \in DOMAIN proposals : q # p => /\ proposals'[q] = proposals[q]
                                              /\ trail'[q] = trail[q]
  BY <1>1, <1>2, DecisionEffect
<1>5. card' \in Nat \cup {None}
  BY <1>1 DEF IInv, DecisionTypeOK
<1>6. DecideInv' /\ DraftInv' /\ ReplanInv' /\ DecisionTypeOK'
  BY <1>1, <1>2, <1>5, DecideStep, DecideTypes
<1>7. DecisionRecorded'
  <2>1. /\ "rejected" \in t.run
        /\ "confirmed" \in t.run <=> "confirmed" \in trail[p].run
        /\ "committed" \in t.run <=> "committed" \in trail[p].run
    BY <1>2 DEF WithRunEvents
  <2>2. \A q \in DOMAIN proposals' :
           /\ proposals'[q].status = "pending" <=> trail'[q].confirmed + trail'[q].rejected = 0
           /\ proposals'[q].status = "confirmed" => trail'[q].confirmed > 0
           /\ proposals'[q].status = "rejected" => trail'[q].rejected > 0
           /\ "confirmed" \in trail'[q].run <=> trail'[q].confirmed > 0
           /\ "committed" \in trail'[q].run <=> trail'[q].confirmed > 0
           /\ "rejected" \in trail'[q].run <=> trail'[q].rejected > 0
           /\ proposals'[q].kind = "clarify" /\ trail'[q].confirmed > 0 /\ ~edits'.card =>
                 card' # None
    <3> TAKE q \in DOMAIN proposals'
    <3>1. CASE q = p
      <4>1. /\ "confirmed" \in trail[p].run <=> trail[p].confirmed > 0
            /\ "committed" \in trail[p].run <=> trail[p].confirmed > 0
            /\ proposals[p].kind = "clarify" /\ trail[p].confirmed > 0 /\ ~edits.card => card # None
        BY <1>1 DEF IInv, DecisionRecorded
      <4>2. t.confirmed + t.rejected # 0 /\ t.rejected > 0
        BY <1>2, <1>3
      <4> QED
        BY <3>1, <4>1, <4>2, <1>1, <1>2, <1>4, <2>1
    <3>2. CASE q # p
      BY <3>2, <1>1, <1>4 DEF IInv, DecisionRecorded
    <3> QED
      BY <3>1, <3>2
  <2>3. card' # None => /\ card' \in DOMAIN proposals'
                        /\ proposals'[card'].kind = "clarify"
                        /\ trail'[card'].confirmed > 0
    <3>1. card # None => /\ card \in DOMAIN proposals
                         /\ proposals[card].kind = "clarify"
                         /\ trail[card].confirmed > 0
      BY DEF IInv, DecisionRecorded
    <3> QED
      BY <3>1, <1>1, <1>2, <1>4
  <2> QED
    BY <2>2, <2>3 DEF DecisionRecorded
<1> QED
  BY <1>6, <1>7 DEF IInv

-----------------------------------------------------------------------------
(* Extraction and failure *)

\* The record of a proposal with other losses.
LEMMA LostByType ==
    ASSUME IInv, NEW S \in SUBSET Sessions, NEW p \in DOMAIN proposals
    PROVE  /\ LostBy(S, p) \in Trail
           /\ LostBy(S, p).confirmed = trail[p].confirmed
           /\ LostBy(S, p).rejected = trail[p].rejected
           /\ LostBy(S, p).run = trail[p].run
           /\ LostBy(S, p).memory = trail[p].memory /\ LostBy(S, p).active = trail[p].active
           /\ LostBy(S, p).reasons = trail[p].reasons
           /\ LostBy(S, p).lost = trail[p].lost \cup
                {IF session[s].op = "extract" THEN session[s].source ELSE session[s].memory.source :
                   s \in {r \in S : session[r].op \in Extraction /\ session[r].p = p}}
<1> DEFINE X == {IF session[s].op = "extract" THEN session[s].source ELSE session[s].memory.source :
                   s \in {r \in S : session[r].op \in Extraction /\ session[r].p = p}}
<1>1. trail[p] \in Trail
  BY OfProposal DEF IInv
<1>2. ASSUME NEW s \in S, session[s].op \in Extraction
      PROVE  (IF session[s].op = "extract" THEN session[s].source
              ELSE session[s].memory.source) \in Sources
  BY <1>2 DEF IInv, DecisionTypeOK, Extraction, Memories
<1>3. X \subseteq Sources
  BY <1>2
<1>4. LostBy(S, p) = [trail[p] EXCEPT !.lost = @ \cup X]
  BY DEF LostBy
<1> HIDE DEF X
<1>5. trail[p].lost \cup X \in SUBSET Sources
  BY <1>1, <1>3 DEF Trail
<1>6. /\ LostBy(S, p) \in Trail
      /\ LostBy(S, p).confirmed = trail[p].confirmed
      /\ LostBy(S, p).rejected = trail[p].rejected
      /\ LostBy(S, p).run = trail[p].run
      /\ LostBy(S, p).memory = trail[p].memory /\ LostBy(S, p).active = trail[p].active
      /\ LostBy(S, p).reasons = trail[p].reasons
      /\ LostBy(S, p).lost = trail[p].lost \cup X
  BY <1>1, <1>4, <1>5 DEF Trail
<1> QED
  BY <1>6 DEF X

\* Requests that end in failure.
LEMMA LossStep ==
    ASSUME IInv, NEW S \in SUBSET Sessions,
           trail' = [p \in DOMAIN trail |-> LostBy(S, p)],
           session' = [x \in Sessions |-> IF x \in S THEN Idle ELSE session[x]],
           UNCHANGED <<proposals, card, edits>>
    PROVE  IInv'
<1>1. /\ trail \in Seq(Trail) /\ DOMAIN trail = DOMAIN proposals /\ Len(trail) \in Nat
      /\ DOMAIN trail = 1..Len(trail)
  BY DEF IInv, DecisionTypeOK
<1>2. trail' \in Seq(Trail) /\ Len(trail') = Len(trail)
  <2>1. trail' \in [1..Len(trail) -> Trail]
    BY <1>1, LostByType
  <2> QED
    BY <1>1, <2>1, SeqDef
<1>3. \A p \in DOMAIN proposals : /\ trail'[p].confirmed = trail[p].confirmed
                                  /\ trail'[p].rejected = trail[p].rejected
                                  /\ trail'[p].run = trail[p].run
  BY <1>1, LostByType
<1>4. \A x \in Sessions : session'[x] = session[x] \/ session'[x].op = "idle"
  BY DEF Idle
<1>5. Quiet(trail')
  BY <1>2, <1>3, <1>4 DEF Quiet, KeepsCard
<1> QED
  BY <1>5, QuietSteps

\* A failure ends the request it hits, a crash all of them.
LEMMA Losses ==
    ASSUME IInv, Crash \/ \E s \in Sessions : Fail(s)
    PROVE  \E S \in SUBSET Sessions :
             /\ trail' = [p \in DOMAIN trail |-> LostBy(S, p)]
             /\ session' = [x \in Sessions |-> IF x \in S THEN Idle ELSE session[x]]
             /\ UNCHANGED <<proposals, plan, card, edits, raced>>
<1>1. session = [x \in Sessions |-> session[x]]
  BY DEF IInv, DecisionTypeOK
<1>2. CASE Crash
  <2>1. /\ trail' = [p \in DOMAIN trail |-> LostBy(Sessions, p)]
        /\ session' = [x \in Sessions |-> IF x \in Sessions THEN Idle ELSE session[x]]
        /\ UNCHANGED <<proposals, plan, card, edits, raced>>
    BY <1>2 DEF Crash
  <2> QED
    BY <2>1
<1>3. ASSUME NEW s \in Sessions, Fail(s)
      PROVE  \E S \in SUBSET Sessions :
               /\ trail' = [p \in DOMAIN trail |-> LostBy(S, p)]
               /\ session' = [x \in Sessions |-> IF x \in S THEN Idle ELSE session[x]]
               /\ UNCHANGED <<proposals, plan, card, edits, raced>>
  <2>1. /\ trail' = [p \in DOMAIN trail |-> LostBy({s}, p)]
        /\ session' = [session EXCEPT ![s] = Idle]
        /\ UNCHANGED <<proposals, plan, card, edits, raced>>
    BY <1>3 DEF Fail
  <2>2. session' = [x \in Sessions |-> IF x \in {s} THEN Idle ELSE session[x]]
    BY <1>1, <2>1
  <2>3. {s} \in SUBSET Sessions
    OBVIOUS
  <2> QED
    BY <2>1, <2>2, <2>3
<1> QED
  BY <1>2, <1>3

\* What the extractors make of a proposal that has been decided is a memory.
LEMMA CandidateType ==
    ASSUME IInv, NEW p \in DOMAIN proposals, NEW source \in Sources
    PROVE  Candidate(p, source) \in Memories
<1>1. proposals[p].reason \in Reasons \cup {None}
  BY OfProposal DEF IInv
<1> QED
  BY <1>1 DEF Candidate, Memories

\* The records with a row of memory m in place of the rows `old'.
Inserted(p, m, old) ==
    [trail EXCEPT ![p].memory = @ \cup {m}, ![p].active = (@ \ old) \cup {m}]

\* What an extraction does to its request and to the record of its proposal.
LEMMA ExtractWrites ==
    ASSUME IInv, NEW s \in Sessions, Extract(s), NEW p, p = session[s].p
    PROVE  /\ session[s].op \in Extraction /\ p \in DOMAIN proposals
           /\ UNCHANGED <<proposals, plan, card, edits, raced>>
           /\ \E r :
                /\ session' = [session EXCEPT ![s] = r]
                /\ \/ r.op = "idle"
                   \/ /\ r.op \in {"remember", "insert"} /\ r.p = p /\ r.memory \in Memories
           /\ \/ trail' = trail
              \/ /\ session[s].op = "insert"
                 /\ trail' = Inserted(p, session[s].memory, session[s].old)
<1>1. session[s].op \in Extraction
  BY DEF Extract, ReadCandidate, LookUp, Insert, Extraction
<1>2. /\ p \in DOMAIN proposals
      /\ session[s].op = "extract" => session[s].source \in Sources
      /\ session[s].op \in {"remember", "insert"} => session[s].memory \in Memories
  BY <1>1 DEF IInv, DecisionTypeOK
<1>3. CASE ReadCandidate(s)
  <2>1. PICK m : m = Candidate(p, session[s].source)
    OBVIOUS
  <2>2. m \in Memories
    BY <1>2, <1>3, <2>1, CandidateType DEF ReadCandidate
  <2>3. PICK r : r = IF m = [source |-> "rejected", reason |-> None] THEN Idle
                     ELSE [op |-> "remember", p |-> p, memory |-> m]
    OBVIOUS
  <2>4. /\ session' = [session EXCEPT ![s] = r]
        /\ UNCHANGED <<proposals, trail, plan, card, edits, raced>>
    BY <1>3, <2>1, <2>3 DEF ReadCandidate, Asks
  <2>5. \/ r.op = "idle"
        \/ r.op \in {"remember", "insert"} /\ r.p = p /\ r.memory \in Memories
    BY <2>2, <2>3 DEF Idle
  <2> QED
    BY <1>1, <1>2, <2>4, <2>5
<1>4. CASE LookUp(s)
  <2>1. \/ Asks(s, Idle)
        \/ \E old : Asks(s, [op |-> "insert", p |-> p, memory |-> session[s].memory, old |-> old])
    BY <1>4 DEF LookUp
  <2>2. PICK r : /\ Asks(s, r)
                 /\ \/ r.op = "idle"
                    \/ r.op \in {"remember", "insert"} /\ r.p = p /\ r.memory = session[s].memory
    <3>1. CASE Asks(s, Idle)
      BY <3>1 DEF Idle
    <3>2. ASSUME NEW old,
                 Asks(s, [op |-> "insert", p |-> p, memory |-> session[s].memory, old |-> old])
          PROVE  \E r : /\ Asks(s, r)
                        /\ \/ r.op = "idle"
                           \/ r.op \in {"remember", "insert"} /\ r.p = p
                              /\ r.memory = session[s].memory
      <4>1. PICK r : r = [op |-> "insert", p |-> p, memory |-> session[s].memory, old |-> old]
        OBVIOUS
      <4>2. Asks(s, r) /\ r.op = "insert" /\ r.p = p /\ r.memory = session[s].memory
        BY <3>2, <4>1
      <4> QED
        BY <4>2
    <3> QED
      BY <2>1, <3>1, <3>2
  <2> QED
    BY <1>1, <1>2, <1>4, <2>2 DEF LookUp, Asks
<1>5. CASE Insert(s)
  <2>1. /\ session[s].op = "insert" /\ session' = [session EXCEPT ![s] = Idle]
        /\ UNCHANGED <<proposals, plan, card, edits, raced>>
        /\ trail' = IF session[s].memory \in trail[p].memory THEN trail
                    ELSE Inserted(p, session[s].memory, session[s].old)
    BY <1>5 DEF Insert, Inserted
  <2>2. Idle.op = "idle"
    BY DEF Idle
  <2> QED
    BY <1>1, <1>2, <2>1, <2>2
<1> QED
  BY <1>3, <1>4, <1>5 DEF Extract

\* The record with one more memory.
LEMMA InsertEffect ==
    ASSUME IInv, NEW p \in DOMAIN proposals, NEW m \in Memories, NEW old,
           trail' = Inserted(p, m, old)
    PROVE  /\ trail' \in Seq(Trail) /\ Len(trail') = Len(trail)
           /\ trail'[p].confirmed = trail[p].confirmed /\ trail'[p].rejected = trail[p].rejected
           /\ trail'[p].run = trail[p].run
           /\ trail'[p].reasons = trail[p].reasons /\ trail'[p].lost = trail[p].lost
           /\ trail'[p].memory = trail[p].memory \cup {m}
           /\ trail'[p].active = (trail[p].active \ old) \cup {m}
           /\ \A q \in DOMAIN proposals : q # p => trail'[q] = trail[q]
<1>1. /\ trail \in Seq(Trail) /\ DOMAIN trail = DOMAIN proposals
      /\ p \in 1..Len(trail) /\ trail[p] \in Trail
  BY OfProposal DEF IInv, DecisionTypeOK
<1> PICK t : t = [trail[p] EXCEPT !.memory = @ \cup {m}, !.active = (@ \ old) \cup {m}]
  OBVIOUS
<1>2. trail' = [trail EXCEPT ![p] = t]
  BY <1>1 DEF Inserted
<1>3. /\ t \in Trail
      /\ t.confirmed = trail[p].confirmed /\ t.rejected = trail[p].rejected
      /\ t.run = trail[p].run /\ t.reasons = trail[p].reasons /\ t.lost = trail[p].lost
      /\ t.memory = trail[p].memory \cup {m}
      /\ t.active = (trail[p].active \ old) \cup {m}
  <2>1. /\ trail[p].memory \cup {m} \in SUBSET Memories
        /\ (trail[p].active \ old) \cup {m} \in SUBSET Memories
    BY <1>1 DEF Trail
  <2> QED
    BY <1>1, <2>1 DEF Trail
<1>4. /\ trail' \in Seq(Trail) /\ Len(trail') = Len(trail)
      /\ \A q \in 1..Len(trail) : trail'[q] = IF q = p THEN t ELSE trail[q]
  <2>1. t \in Trail
    BY <1>3
  <2> QED
    BY <1>1, <1>2, <2>1, ExceptSeq
<1>5. DOMAIN proposals = 1..Len(trail)
  BY <1>1
<1> QED
  BY <1>1, <1>3, <1>4, <1>5

LEMMA ExtractStep ==
    ASSUME IInv, NEW s \in Sessions, Extract(s)
    PROVE  IInv'
<1> PICK p : p = session[s].p
  OBVIOUS
<1>1. /\ session[s].op \in Extraction /\ p \in DOMAIN proposals
      /\ UNCHANGED <<proposals, card, edits>>
  BY ExtractWrites
<1>2. PICK r : /\ session' = [session EXCEPT ![s] = r]
               /\ \/ r.op = "idle"
                  \/ r.op \in {"remember", "insert"} /\ r.p = p /\ r.memory \in Memories
  BY ExtractWrites
<1>3. CASE trail' = trail
  BY <1>1, <1>2, <1>3, QuietRequests DEF KeepsCard
<1>4. CASE /\ session[s].op = "insert"
           /\ trail' = Inserted(p, session[s].memory, session[s].old)
  <2>1. session[s].memory \in Memories
    BY <1>4 DEF IInv, DecisionTypeOK
  <2>2. /\ trail' \in Seq(Trail) /\ Len(trail') = Len(trail)
        /\ \A q \in DOMAIN proposals : /\ trail'[q].confirmed = trail[q].confirmed
                                       /\ trail'[q].rejected = trail[q].rejected
                                       /\ trail'[q].run = trail[q].run
    BY <1>1, <1>4, <2>1, InsertEffect
  <2>3. /\ session' = [x \in Sessions |-> session'[x]] /\ session'[s] = r
        /\ \A x \in Sessions : x # s => session'[x] = session[x]
    BY <1>2 DEF IInv, DecisionTypeOK
  <2>4. Quiet(trail')
    BY <1>1, <1>2, <2>2, <2>3 DEF Quiet, KeepsCard
  <2> QED
    BY <2>4, QuietSteps
<1> QED
  BY <1>3, <1>4, ExtractWrites

-----------------------------------------------------------------------------
(* Steps by hand *)

\* A step by hand leaves proposals, records and requests alone, and the direction
\* card unless it is counted.
LEMMA HandSteps ==
    ASSUME ByHand
    PROVE  UNCHANGED <<proposals, trail, session, raced>> /\ KeepsCard
<1>1. ASSUME NEW kind, NEW stages, NEW statuses, ByHandOf(kind, stages, statuses, FALSE),
             UNCHANGED card
      PROVE  UNCHANGED <<proposals, trail, session, raced>> /\ KeepsCard
  BY <1>1 DEF ByHandOf, KeepsCard
<1>2. CASE EditCard
  BY <1>2 DEF EditCard, ByHandOf, KeepsCard
<1>3. ASSUME NEW i, AddTask(i)
      PROVE  UNCHANGED <<proposals, trail, session, raced>> /\ KeepsCard
  BY <1>3 DEF AddTask, KeepsCard
<1>4. CASE AddStage
  BY <1>1, <1>4 DEF AddStage
<1>5. ASSUME NEW i, NEW status, EditStage(i, status)
      PROVE  UNCHANGED <<proposals, trail, session, raced>> /\ KeepsCard
  BY <1>1, <1>5 DEF EditStage
<1>6. ASSUME NEW t, NEW done, EditTask(t, done)
      PROVE  UNCHANGED <<proposals, trail, session, raced>> /\ KeepsCard
  BY <1>1, <1>6 DEF EditTask
<1>7. ASSUME NEW status, EditStatus(status)
      PROVE  UNCHANGED <<proposals, trail, session, raced>> /\ KeepsCard
  BY <1>1, <1>7 DEF EditStatus
<1> QED
  BY <1>2, <1>3, <1>4, <1>5, <1>6, <1>7 DEF ByHand

-----------------------------------------------------------------------------
(* The invariant *)

LEMMA InitIInv == Init => IInv
<1> SUFFICES ASSUME Init PROVE IInv
  OBVIOUS
<1>1. /\ proposals = <<>> /\ trail = <<>> /\ DOMAIN proposals = {} /\ card = None
      /\ session = [s \in Sessions |-> Idle]
  BY DEF Init
<1>2. \A s \in Sessions : session[s].op = "idle"
  BY <1>1 DEF Idle
<1>3. DecisionTypeOK
  BY <1>1, <1>2 DEF DecisionTypeOK, Ops, Extraction
<1>4. DecisionRecorded /\ DecideInv
  BY <1>1, <1>2 DEF DecisionRecorded, DecideInv
<1>5. DraftInv /\ ReplanInv
  BY <1>1 DEF DraftInv, ReplanInv, WithKey, PendingReplans
<1> QED
  BY <1>3, <1>4, <1>5 DEF IInv

LEMMA NextIInv == IInv /\ [Next]_vars => IInv'
<1> SUFFICES ASSUME IInv, [Next]_vars PROVE IInv'
  OBVIOUS
<1>0. Idle.op = "idle"
  BY DEF Idle
<1>1. CASE Draft
  BY <1>1, ReadDraftStep, WriteDraftStep DEF Draft
<1>2. CASE Decide
  <2> PICK s \in Sessions :
          \/ WriteConfirm(s) \/ WriteReject(s) \/ Extract(s)
          \/ \E p \in DOMAIN proposals : ReadConfirm(s, p) \/ ReadReject(s, p)
    BY <1>2 DEF Decide
  <2>1. CASE WriteConfirm(s) \/ WriteReject(s) \/ Extract(s)
    BY <2>1, WriteConfirmStep, WriteRejectStep, ExtractStep
  <2>2. ASSUME NEW p \in DOMAIN proposals, ReadConfirm(s, p) PROVE IInv'
    <3> DEFINE r == [op |-> "confirm", p |-> p, seen |-> Loaded(p)]
    <3>1. /\ session[s] = Idle /\ MayDecide(p)
          /\ session' = [session EXCEPT ![s] = r]
          /\ UNCHANGED <<proposals, trail, card, edits>>
      BY <2>2 DEF ReadConfirm
    <3>2. r.op \in {"confirm", "reject"} /\ r.p = p
      OBVIOUS
    <3> HIDE DEF r
    <3> QED
      BY <3>1, <3>2, BeginDecision
  <2>3. ASSUME NEW p \in DOMAIN proposals, ReadReject(s, p) PROVE IInv'
    <3> DEFINE r == [op |-> "reject", p |-> p]
    <3>1. /\ session[s] = Idle /\ MayDecide(p)
          /\ session' = [session EXCEPT ![s] = r]
          /\ UNCHANGED <<proposals, trail, card, edits>>
      BY <2>3 DEF ReadReject
    <3>2. r.op \in {"confirm", "reject"} /\ r.p = p
      OBVIOUS
    <3> HIDE DEF r
    <3> QED
      BY <3>1, <3>2, BeginDecision
  <2> QED
    BY <2>1, <2>2, <2>3
<1>3. CASE Progress
  <2>1. ASSUME NEW t, NEW done, UpdateTaskStatus(t, done) PROVE IInv'
    BY <2>1, QuietRequests DEF UpdateTaskStatus, KeepsCard
  <2>2. ASSUME NEW s \in Sessions, ReadRepair(s) PROVE IInv'
    <3> PICK r : r = [op |-> "repair", seen |-> plan]
      OBVIOUS
    <3>1. /\ session' = [session EXCEPT ![s] = r] /\ r.op = "repair"
          /\ UNCHANGED <<proposals, trail, card, edits>>
      BY <2>2 DEF ReadRepair
    <3> QED
      BY <3>1, QuietRequests DEF KeepsCard
  <2>3. ASSUME NEW s \in Sessions, WriteRepair(s) PROVE IInv'
    <3>1. /\ session' = [session EXCEPT ![s] = Idle]
          /\ UNCHANGED <<proposals, trail, card, edits>>
      BY <2>3 DEF WriteRepair, Wrote
    <3> QED
      BY <1>0, <3>1, QuietRequests DEF KeepsCard
  <2> QED
    BY <1>3, <2>1, <2>2, <2>3 DEF Progress
<1>4. CASE ByHand
  <2>1. UNCHANGED <<proposals, trail, session, raced>> /\ KeepsCard
    BY <1>4, HandSteps
  <2> QED
    BY <2>1, QuietRequests
<1>5. CASE Crash \/ \E s \in Sessions : Fail(s)
  BY <1>5, Losses, LossStep
<1>6. CASE UNCHANGED vars
  BY <1>6, QuietRequests DEF vars, KeepsCard
<1> QED
  BY <1>1, <1>2, <1>3, <1>4, <1>5, <1>6 DEF Next

\* Every reachable state satisfies the strengthened invariant.
LEMMA SpecInv == Spec => []IInv
<1> QED
  BY InitIInv, NextIInv, PTL DEF Spec
-----------------------------------------------------------------------------
(* Project memory *)

\* The requests that extract memory of proposal p, and the decision they do it of.
Extracting(p) == {s \in Sessions : session[s].op \in Extraction /\ session[s].p = p}
SourceOf(r)   == IF r.op = "extract" THEN r.source ELSE r.memory.source

\* There was a decision to make memory m of.
Justified(p, m) ==
    /\ m.source = "confirmed" => Memorable(p, "confirmed")
    /\ m.source = "rejected" => m.reason \in trail[p].reasons \ {None}

\* What request r is to extract was decided, and it supersedes rows of the same
\* decision only.
ExtractionOf(p, r) ==
    /\ r.op = "extract" /\ r.source = "confirmed" => Memorable(p, "confirmed")
    /\ r.op = "extract" /\ r.source = "rejected" => trail[p].rejected > 0
    /\ r.op # "extract" => Justified(p, r.memory)
    /\ r.op = "insert" => \A m \in r.old : m.source = r.memory.source

\* A proposal decided once has at most one memory or one request that is to write
\* it, and it is that of the decision.
OneMemory(p) ==
    Decided(p) = 1 =>
      /\ trail[p].memory \subseteq trail[p].active \cap {Candidate(p, proposals[p].status)}
      /\ \A s \in Extracting(p) :
           /\ Extracting(p) = {s} /\ trail[p].memory = {}
           /\ session[s].op = "extract" => session[s].source = proposals[p].status
           /\ session[s].op # "extract" => session[s].memory = Candidate(p, proposals[p].status)

MemoryOf(p) ==
    LET t == trail[p]
    IN  /\ proposals[p].status = "pending" =>
             /\ proposals[p].reason = None /\ t.reasons = {}
             /\ t.memory = {} /\ t.active = {} /\ Extracting(p) = {}
        /\ proposals[p].reason \in t.reasons \cup {None}
        /\ t.reasons # {} <=> t.rejected > 0
        /\ Memorable(p, "rejected") => proposals[p].reason # None
        /\ \A m \in t.memory : Justified(p, m) /\ \E n \in t.active : n.source = m.source
        /\ t.active \subseteq t.memory
        /\ OneMemory(p)
        /\ \A s \in Extracting(p) : ExtractionOf(p, session[s])
        /\ \A source \in Sources : Memorable(p, source) =>
              \/ \E m \in t.memory : m.source = source
              \/ \E s \in Extracting(p) : SourceOf(session[s]) = source
              \/ source \in t.lost

MemoryInv == \A p \in DOMAIN proposals : MemoryOf(p)

\* A proposal that a step does not touch.
LEMMA MemoryFrame ==
    ASSUME NEW p, MemoryOf(p), proposals'[p] = proposals[p], trail'[p] = trail[p],
           Extracting(p)' = Extracting(p), \A s \in Extracting(p) : session'[s] = session[s]
    PROVE  MemoryOf(p)'
BY DEF MemoryOf, OneMemory, ExtractionOf, Justified, Memorable, Candidate, Decided, SourceOf

\* Only request s changes its state, and proposals other than q are not touched.
LEMMA OtherMemory ==
    ASSUME MemoryInv, NEW s \in Sessions, NEW q,
           DOMAIN proposals' = DOMAIN proposals,
           \A p \in DOMAIN proposals : p # q => proposals'[p] = proposals[p] /\ trail'[p] = trail[p],
           \A x \in Sessions : x # s => session'[x] = session[x],
           session[s].op \notin Extraction \/ session[s].p = q,
           session'[s].op \notin Extraction \/ session'[s].p = q,
           q \in DOMAIN proposals => MemoryOf(q)'
    PROVE  MemoryInv'
<1> SUFFICES ASSUME NEW p \in DOMAIN proposals, p # q PROVE MemoryOf(p)'
  BY DEF MemoryInv
<1>1. Extracting(p)' = Extracting(p) /\ \A x \in Extracting(p) : session'[x] = session[x]
  BY DEF Extracting
<1>2. MemoryOf(p) /\ proposals'[p] = proposals[p] /\ trail'[p] = trail[p]
  BY DEF MemoryInv
<1> QED
  BY <1>1, <1>2, MemoryFrame

\* No proposal is touched, and no request extracts or ceases to.
LEMMA MemoryStays ==
    ASSUME MemoryInv, UNCHANGED <<proposals, trail>>,
           \A x \in Sessions : \/ session'[x] = session[x]
                               \/ session[x].op \notin Extraction /\ session'[x].op \notin Extraction
    PROVE  MemoryInv'
<1> SUFFICES ASSUME NEW p \in DOMAIN proposals PROVE MemoryOf(p)'
  BY DEF MemoryInv
<1>1. Extracting(p)' = Extracting(p) /\ \A x \in Extracting(p) : session'[x] = session[x]
  BY DEF Extracting
<1>2. MemoryOf(p)
  BY DEF MemoryInv
<1> QED
  BY <1>1, <1>2, MemoryFrame

LEMMA DraftMemory ==
    ASSUME IInv, MemoryInv, NEW s \in Sessions, WriteDraft(s)
    PROVE  MemoryInv'
<1> PICK n : n = Len(proposals) + 1
  OBVIOUS
<1> PICK new : new = [kind |-> KindOf[session[s].key], key |-> session[s].key,
                      target |-> session[s].target, status |-> "pending", reason |-> None]
  OBVIOUS
<1>1. /\ proposals' = Append(proposals, new) /\ trail' = Append(trail, NoTrail)
      /\ session' = [session EXCEPT ![s] = Idle] /\ session[s].op = "create"
  BY DEF WriteDraft, Wrote
<1>2. /\ proposals \in Seq(Proposal) /\ trail \in Seq(Trail) /\ Len(trail) = Len(proposals)
      /\ session = [x \in Sessions |-> session[x]]
  BY DEF IInv, DecisionTypeOK
<1>3. /\ Len(proposals) \in Nat /\ DOMAIN proposals = 1..Len(proposals)
      /\ DOMAIN proposals' = 1..n /\ proposals'[n] = new /\ trail'[n] = NoTrail
      /\ \A p \in 1..Len(proposals) : proposals'[p] = proposals[p] /\ trail'[p] = trail[p]
  BY <1>1, <1>2
<1>4. \A x \in Sessions : \/ session'[x] = session[x]
                          \/ session[x].op \notin Extraction /\ session'[x].op \notin Extraction
  BY <1>1, <1>2 DEF Idle, Extraction
<1>5. \A p : Extracting(p)' = Extracting(p) /\ \A x \in Extracting(p) : session'[x] = session[x]
  BY <1>4 DEF Extracting
<1>6. ASSUME NEW p \in DOMAIN proposals PROVE MemoryOf(p)'
  <2>1. MemoryOf(p) /\ proposals'[p] = proposals[p] /\ trail'[p] = trail[p]
    BY <1>3 DEF MemoryInv
  <2> QED
    BY <1>5, <2>1, MemoryFrame
<1>7. MemoryOf(n)'
  <2>1. n \notin DOMAIN proposals
    BY <1>3
  <2>2. Extracting(n) = {}
    BY <2>1 DEF Extracting, IInv, DecisionTypeOK
  <2>3. Extracting(n)' = {}
    BY <1>5, <2>2
  <2>4. /\ proposals'[n].status = "pending" /\ proposals'[n].reason = None
        /\ trail'[n].confirmed = 0 /\ trail'[n].rejected = 0 /\ trail'[n].memory = {}
        /\ trail'[n].active = {} /\ trail'[n].reasons = {}
    BY <1>3 DEF NoTrail
  <2>5. \A source \in Sources : ~Memorable(n, source)'
    BY <2>4 DEF Memorable
  <2>6. OneMemory(n)'
    BY <2>4 DEF OneMemory, Decided
  <2> QED
    BY <2>3, <2>4, <2>5, <2>6 DEF MemoryOf, Sources
<1>8. \A p \in DOMAIN proposals' : p \in DOMAIN proposals \/ p = n
  BY <1>3
<1> QED
  BY <1>6, <1>7, <1>8 DEF MemoryInv

\* The first decision of a proposal, and the others.
LEMMA DecidedOnce ==
    ASSUME IInv, MemoryInv, NEW p \in DOMAIN proposals
    PROVE  /\ trail[p].confirmed \in Nat /\ trail[p].rejected \in Nat
           /\ Decided(p) = 0 => /\ proposals[p].reason = None /\ trail[p].reasons = {}
                                /\ trail[p].memory = {} /\ trail[p].active = {}
                                /\ Extracting(p) = {}
           /\ Extracting(p) # {} => Decided(p) > 0
<1>1. trail[p].confirmed \in Nat /\ trail[p].rejected \in Nat /\ Decided(p) \in Nat
  BY OfProposal DEF IInv
<1>2. Decided(p) = 0 => proposals[p].status = "pending"
  BY DEF IInv, DecisionRecorded, Decided
<1>3. MemoryOf(p)
  BY DEF MemoryInv
<1> QED
  BY <1>1, <1>2, <1>3 DEF MemoryOf

LEMMA ConfirmMemory ==
    ASSUME IInv, MemoryInv, NEW s \in Sessions, WriteConfirm(s)
    PROVE  MemoryInv'
<1> PICK p : p = session[s].p
  OBVIOUS
<1> PICK r : r = AfterConfirm(p)
  OBVIOUS
<1>1. session[s].op = "confirm" /\ p \in DOMAIN proposals
  BY ConfirmWrites
<1>2. PICK t : /\ Decides(s, p, "confirmed", proposals[p].reason, t, r)
               /\ t.confirmed = trail[p].confirmed + 1 /\ t.rejected = trail[p].rejected
               /\ t.memory = trail[p].memory /\ t.active = trail[p].active
               /\ t.reasons = trail[p].reasons /\ t.lost = trail[p].lost
  BY ConfirmWrites
<1>3. /\ DOMAIN proposals' = DOMAIN proposals
      /\ proposals'[p].status = "confirmed" /\ proposals'[p].reason = proposals[p].reason
      /\ proposals'[p].kind = proposals[p].kind
      /\ trail'[p] = t
      /\ \A q \in DOMAIN proposals : q # p => proposals'[q] = proposals[q] /\ trail'[q] = trail[q]
      /\ session'[s] = r /\ \A x \in Sessions : x # s => session'[x] = session[x]
  BY <1>1, <1>2, DecisionEffect
<1>4. /\ trail[p].confirmed \in Nat /\ trail[p].rejected \in Nat
      /\ Decided(p) = 0 => /\ trail[p].memory = {} /\ Extracting(p) = {}
  BY <1>1, DecidedOnce
<1>5. \/ r.op = "idle" /\ proposals[p].kind \notin {"clarify", "replan"}
      \/ /\ r.op = "extract" /\ r.p = p /\ r.source = "confirmed"
         /\ proposals[p].kind \in {"clarify", "replan"}
  BY DEF AfterConfirm, Idle
<1>6. session[s].op \notin Extraction
  BY <1>1 DEF Extraction
<1>7. /\ Extracting(p)' = IF r.op = "extract" THEN Extracting(p) \cup {s} ELSE Extracting(p)
      /\ s \notin Extracting(p) /\ \A x \in Extracting(p) : session'[x] = session[x]
  BY <1>3, <1>5, <1>6 DEF Extracting, Extraction
<1>8. MemoryOf(p)
  BY <1>1 DEF MemoryInv
<1>9. /\ Memorable(p, "confirmed") => Memorable(p, "confirmed")'
      /\ r.op = "extract" => Memorable(p, "confirmed")'
      /\ r.op # "extract" => ~Memorable(p, "confirmed")'
      /\ Memorable(p, "rejected")' <=> Memorable(p, "rejected")
      /\ trail'[p].rejected = trail[p].rejected /\ trail'[p].reasons = trail[p].reasons
  BY <1>2, <1>3, <1>4, <1>5 DEF Memorable
<1>10. \A m : Justified(p, m) => Justified(p, m)'
  BY <1>9 DEF Justified
<1>11. \A x \in Extracting(p)' : ExtractionOf(p, session[x])'
  <2> TAKE x \in Extracting(p)'
  <2>1. CASE x = s
    BY <2>1, <1>3, <1>5, <1>7, <1>9 DEF ExtractionOf
  <2>2. CASE x # s
    <3>1. x \in Extracting(p) /\ session'[x] = session[x] /\ ExtractionOf(p, session[x])
      BY <2>2, <1>7, <1>8 DEF MemoryOf
    <3> QED
      BY <3>1, <1>9, <1>10 DEF ExtractionOf
  <2> QED
    BY <2>1, <2>2
<1>12. OneMemory(p)'
  <2> SUFFICES ASSUME Decided(p)' = 1 PROVE OneMemory(p)'
    BY DEF OneMemory
  <2>1. Decided(p) = 0
    BY <1>2, <1>3, <1>4 DEF Decided
  <2>2. trail'[p].memory = {} /\ Extracting(p)' \subseteq {s}
    BY <2>1, <1>2, <1>3, <1>4, <1>7
  <2>3. s \in Extracting(p)' => r.op = "extract" /\ r.source = "confirmed"
    BY <1>5, <1>7
  <2> QED
    BY <2>2, <2>3, <1>3 DEF OneMemory
<1>13. \A source \in Sources : Memorable(p, source)' =>
          \/ \E m \in trail'[p].memory : m.source = source
          \/ \E x \in Extracting(p)' : SourceOf(session'[x]) = source
          \/ source \in trail'[p].lost
  <2>1. Memorable(p, "confirmed")' => s \in Extracting(p)' /\ SourceOf(session'[s]) = "confirmed"
    BY <1>3, <1>5, <1>7, <1>9 DEF SourceOf
  <2>2. ASSUME Memorable(p, "rejected")'
        PROVE  \/ \E m \in trail'[p].memory : m.source = "rejected"
               \/ \E x \in Extracting(p)' : SourceOf(session'[x]) = "rejected"
               \/ "rejected" \in trail'[p].lost
    <3>1. \/ \E m \in trail[p].memory : m.source = "rejected"
          \/ \E x \in Extracting(p) : SourceOf(session[x]) = "rejected"
          \/ "rejected" \in trail[p].lost
      BY <2>2, <1>8, <1>9 DEF MemoryOf, Sources
    <3>2. \A x \in Extracting(p) : x \in Extracting(p)' /\ session'[x] = session[x]
      BY <1>7
    <3> QED
      BY <3>1, <3>2, <1>2, <1>3
  <2> QED
    BY <2>1, <2>2 DEF Sources
<1>14. MemoryOf(p)'
  <2>1. \A m \in trail'[p].memory : Justified(p, m)' /\ \E n \in trail'[p].active : n.source = m.source
    BY <1>2, <1>3, <1>8, <1>10 DEF MemoryOf
  <2>2. /\ proposals'[p].reason \in trail'[p].reasons \cup {None}
        /\ trail'[p].reasons # {} <=> trail'[p].rejected > 0
        /\ Memorable(p, "rejected")' => proposals'[p].reason # None
        /\ trail'[p].active \subseteq trail'[p].memory
    BY <1>2, <1>3, <1>8, <1>9 DEF MemoryOf
  <2> QED
    BY <2>1, <2>2, <1>3, <1>11, <1>12, <1>13 DEF MemoryOf
<1> QED
  BY <1>1, <1>3, <1>5, <1>6, <1>14, OtherMemory DEF Extraction

LEMMA RejectMemory ==
    ASSUME IInv, MemoryInv, NEW s \in Sessions, WriteReject(s)
    PROVE  MemoryInv'
<1> PICK p : p = session[s].p
  OBVIOUS
<1>1. session[s].op = "reject" /\ p \in DOMAIN proposals
  BY RejectWrites
<1>2. PICK given \in Reasons \cup {None} : \E why \in ReasonWritten(p, given) : \E t :
         /\ Decides(s, p, "rejected", why, t, AfterReject(p, given))
         /\ t.confirmed = trail[p].confirmed /\ t.rejected = trail[p].rejected + 1
         /\ t.memory = trail[p].memory /\ t.active = trail[p].active
         /\ t.reasons = trail[p].reasons \cup {given} /\ t.lost = trail[p].lost
  BY RejectWrites
<1> PICK r : r = AfterReject(p, given)
  OBVIOUS
<1>3. PICK why, t :
         /\ why \in ReasonWritten(p, given)
         /\ Decides(s, p, "rejected", why, t, r)
         /\ t.confirmed = trail[p].confirmed /\ t.rejected = trail[p].rejected + 1
         /\ t.memory = trail[p].memory /\ t.active = trail[p].active
         /\ t.reasons = trail[p].reasons \cup {given} /\ t.lost = trail[p].lost
  BY <1>2
<1>4. /\ DOMAIN proposals' = DOMAIN proposals
      /\ proposals'[p].status = "rejected" /\ proposals'[p].reason = why
      /\ proposals'[p].kind = proposals[p].kind
      /\ trail'[p] = t
      /\ \A q \in DOMAIN proposals : q # p => proposals'[q] = proposals[q] /\ trail'[q] = trail[q]
      /\ session'[s] = r /\ \A x \in Sessions : x # s => session'[x] = session[x]
  BY <1>1, <1>3, DecisionEffect
<1>5. /\ trail[p].confirmed \in Nat /\ trail[p].rejected \in Nat
      /\ Decided(p) = 0 => /\ trail[p].memory = {} /\ Extracting(p) = {}
  BY <1>1, DecidedOnce
<1>6. \/ r.op = "idle" /\ given = None
      \/ r.op = "extract" /\ r.p = p /\ r.source = "rejected" /\ given # None
  BY DEF AfterReject, Idle
<1>7. session[s].op \notin Extraction
  BY <1>1 DEF Extraction
<1>8. /\ Extracting(p)' = IF r.op = "extract" THEN Extracting(p) \cup {s} ELSE Extracting(p)
      /\ s \notin Extracting(p) /\ \A x \in Extracting(p) : session'[x] = session[x]
  BY <1>4, <1>6, <1>7 DEF Extracting, Extraction
<1>9. MemoryOf(p)
  BY <1>1 DEF MemoryInv
<1>10. /\ Memorable(p, "confirmed")' <=> Memorable(p, "confirmed")
       /\ Memorable(p, "rejected")' => given # None /\ r.op = "extract"
       /\ trail'[p].rejected > 0
       /\ trail'[p].reasons = trail[p].reasons \cup {given}
  BY <1>3, <1>4, <1>5, <1>6 DEF Memorable
<1>11. \A m : Justified(p, m) => Justified(p, m)'
  BY <1>10 DEF Justified
<1>12. \A x \in Extracting(p)' : ExtractionOf(p, session[x])'
  <2> TAKE x \in Extracting(p)'
  <2>1. CASE x = s
    BY <2>1, <1>4, <1>6, <1>8, <1>10 DEF ExtractionOf
  <2>2. CASE x # s
    <3>1. x \in Extracting(p) /\ session'[x] = session[x] /\ ExtractionOf(p, session[x])
      BY <2>2, <1>8, <1>9 DEF MemoryOf
    <3> QED
      BY <3>1, <1>10, <1>11 DEF ExtractionOf
  <2> QED
    BY <2>1, <2>2
<1>13. OneMemory(p)'
  <2> SUFFICES ASSUME Decided(p)' = 1 PROVE OneMemory(p)'
    BY DEF OneMemory
  <2>1. Decided(p) = 0
    BY <1>3, <1>4, <1>5 DEF Decided
  <2>2. trail'[p].memory = {} /\ Extracting(p)' \subseteq {s}
    BY <2>1, <1>3, <1>4, <1>5, <1>8
  <2>3. s \in Extracting(p)' => r.op = "extract" /\ r.source = "rejected"
    BY <1>6, <1>8
  <2> QED
    BY <2>2, <2>3, <1>4 DEF OneMemory
<1>14. \A source \in Sources : Memorable(p, source)' =>
          \/ \E m \in trail'[p].memory : m.source = source
          \/ \E x \in Extracting(p)' : SourceOf(session'[x]) = source
          \/ source \in trail'[p].lost
  <2>1. Memorable(p, "rejected")' => s \in Extracting(p)' /\ SourceOf(session'[s]) = "rejected"
    BY <1>4, <1>6, <1>8, <1>10 DEF SourceOf
  <2>2. ASSUME Memorable(p, "confirmed")'
        PROVE  \/ \E m \in trail'[p].memory : m.source = "confirmed"
               \/ \E x \in Extracting(p)' : SourceOf(session'[x]) = "confirmed"
               \/ "confirmed" \in trail'[p].lost
    <3>1. \/ \E m \in trail[p].memory : m.source = "confirmed"
          \/ \E x \in Extracting(p) : SourceOf(session[x]) = "confirmed"
          \/ "confirmed" \in trail[p].lost
      BY <2>2, <1>9, <1>10 DEF MemoryOf, Sources
    <3>2. \A x \in Extracting(p) : x \in Extracting(p)' /\ session'[x] = session[x]
      BY <1>8
    <3> QED
      BY <3>1, <3>2, <1>3, <1>4
  <2> QED
    BY <2>1, <2>2 DEF Sources
<1>15. MemoryOf(p)'
  <2>1. \A m \in trail'[p].memory : Justified(p, m)' /\ \E n \in trail'[p].active : n.source = m.source
    BY <1>3, <1>4, <1>9, <1>11 DEF MemoryOf
  <2>2. why \in trail[p].reasons \cup {given, None} /\ (given # None => why = given)
    BY <1>3, <1>9 DEF ReasonWritten, MemoryOf
  <2>3. /\ proposals'[p].reason \in trail'[p].reasons \cup {None}
        /\ trail'[p].reasons # {} <=> trail'[p].rejected > 0
        /\ Memorable(p, "rejected")' => proposals'[p].reason # None
        /\ trail'[p].active \subseteq trail'[p].memory
    BY <2>2, <1>3, <1>4, <1>9, <1>10 DEF MemoryOf
  <2> QED
    BY <2>1, <2>3, <1>4, <1>12, <1>13, <1>14 DEF MemoryOf
<1> QED
  BY <1>1, <1>4, <1>6, <1>7, <1>15, OtherMemory DEF Extraction

\* An extraction of proposal p goes on or ends, and writes nothing.
LEMMA RequestMemory ==
    ASSUME IInv, MemoryInv, NEW s \in Sessions, NEW p \in DOMAIN proposals, NEW r,
           session[s].op \in Extraction, session[s].p = p,
           session' = [session EXCEPT ![s] = r], UNCHANGED <<proposals, trail>>,
           \/ /\ r.op = "idle"
              /\ Memorable(p, SourceOf(session[s])) =>
                    \E m \in trail[p].memory : m.source = SourceOf(session[s])
           \/ /\ r.op \in {"remember", "insert"} /\ r.p = p
              /\ SourceOf(r) = SourceOf(session[s])
              /\ ExtractionOf(p, r)
              /\ Decided(p) = 1 => r.memory = Candidate(p, proposals[p].status)
    PROVE  MemoryInv'
<1>1. session'[s] = r /\ \A x \in Sessions : x # s => session'[x] = session[x]
  BY DEF IInv, DecisionTypeOK
<1>2. MemoryOf(p)
  BY DEF MemoryInv
<1>3. /\ s \in Extracting(p)
      /\ Extracting(p)' = IF r.op = "idle" THEN Extracting(p) \ {s} ELSE Extracting(p)
      /\ \A x \in Extracting(p) : x # s => session'[x] = session[x]
  BY <1>1 DEF Extracting, Extraction
<1>4. /\ \A source : Memorable(p, source)' <=> Memorable(p, source)
      /\ \A m : Justified(p, m)' <=> Justified(p, m)
  BY DEF Justified, Memorable
<1>5. \A x \in Extracting(p)' : ExtractionOf(p, session[x])'
  <2> TAKE x \in Extracting(p)'
  <2>1. CASE x = s
    <3>1. ExtractionOf(p, r)
      BY <2>1, <1>3
    <3> QED
      BY <2>1, <3>1, <1>1, <1>4 DEF ExtractionOf
  <2>2. CASE x # s
    <3>1. x \in Extracting(p) /\ session'[x] = session[x] /\ ExtractionOf(p, session[x])
      BY <2>2, <1>2, <1>3 DEF MemoryOf
    <3> QED
      BY <3>1, <1>4 DEF ExtractionOf
  <2> QED
    BY <2>1, <2>2
<1>6. OneMemory(p)'
  <2> SUFFICES ASSUME Decided(p) = 1 PROVE OneMemory(p)'
    BY DEF OneMemory, Decided
  <2>1. OneMemory(p)
    BY <1>2 DEF MemoryOf
  <2>2. Extracting(p) = {s} /\ trail[p].memory = {}
    BY <2>1, <1>3 DEF OneMemory
  <2>3. Candidate(p, proposals[p].status)' = Candidate(p, proposals[p].status)
    BY DEF Candidate
  <2> QED
    BY <2>1, <2>2, <2>3, <1>1, <1>3 DEF OneMemory
<1>7. \A source \in Sources : Memorable(p, source)' =>
          \/ \E m \in trail'[p].memory : m.source = source
          \/ \E x \in Extracting(p)' : SourceOf(session'[x]) = source
          \/ source \in trail'[p].lost
  <2> SUFFICES ASSUME NEW source \in Sources, Memorable(p, source),
                      ~ \E m \in trail[p].memory : m.source = source, source \notin trail[p].lost
               PROVE  \E x \in Extracting(p)' : SourceOf(session'[x]) = source
    BY <1>4
  <2>1. PICK x \in Extracting(p) : SourceOf(session[x]) = source
    BY <1>2 DEF MemoryOf
  <2>2. CASE x = s
    BY <2>1, <2>2, <1>1, <1>3
  <2>3. CASE x # s
    <3>1. x \in Extracting(p)'
      BY <2>1, <2>3, <1>3
    <3> QED
      BY <2>1, <2>3, <3>1, <1>3
  <2> QED
    BY <2>2, <2>3
<1>8. MemoryOf(p)'
  <2>1. \A m \in trail'[p].memory : Justified(p, m)' /\ \E n \in trail'[p].active : n.source = m.source
    BY <1>2, <1>4 DEF MemoryOf
  <2>2. /\ proposals'[p].reason \in trail'[p].reasons \cup {None}
        /\ trail'[p].reasons # {} <=> trail'[p].rejected > 0
        /\ Memorable(p, "rejected")' => proposals'[p].reason # None
        /\ trail'[p].active \subseteq trail'[p].memory
        /\ proposals'[p].status # "pending"
    BY <1>2, <1>3, <1>4 DEF MemoryOf
  <2> QED
    BY <2>1, <2>2, <1>5, <1>6, <1>7 DEF MemoryOf
<1>9. session'[s].op \notin Extraction \/ session'[s].p = p
  BY <1>1 DEF Extraction
<1> QED
  BY <1>1, <1>8, <1>9, OtherMemory

\* A row is inserted, and supersedes one of the same decision.
LEMMA InsertMemory ==
    ASSUME IInv, MemoryInv, NEW s \in Sessions, NEW p \in DOMAIN proposals,
           NEW m, m = session[s].memory,
           session[s].op = "insert", session[s].p = p,
           session' = [session EXCEPT ![s] = Idle], UNCHANGED proposals,
           trail' = Inserted(p, m, session[s].old)
    PROVE  MemoryInv'
<1> PICK old : old = session[s].old
  OBVIOUS
<1>1. session'[s].op = "idle" /\ \A x \in Sessions : x # s => session'[x] = session[x]
  BY DEF IInv, DecisionTypeOK, Idle
<1>2. MemoryOf(p) /\ m \in Memories
  BY DEF MemoryInv, IInv, DecisionTypeOK
<1>3. /\ s \in Extracting(p) /\ Extracting(p)' = Extracting(p) \ {s}
      /\ \A x \in Extracting(p) : x # s => session'[x] = session[x]
  BY <1>1 DEF Extracting, Extraction
<1>4. /\ trail'[p].confirmed = trail[p].confirmed /\ trail'[p].rejected = trail[p].rejected
      /\ trail'[p].reasons = trail[p].reasons /\ trail'[p].lost = trail[p].lost
      /\ trail'[p].memory = trail[p].memory \cup {m}
      /\ trail'[p].active = (trail[p].active \ old) \cup {m}
      /\ \A q \in DOMAIN proposals : q # p => trail'[q] = trail[q]
  BY <1>2, InsertEffect
<1>5. /\ \A source : Memorable(p, source)' <=> Memorable(p, source)
      /\ \A x : Justified(p, x)' <=> Justified(p, x)
      /\ Candidate(p, proposals[p].status)' = Candidate(p, proposals[p].status)
      /\ Decided(p)' = Decided(p)
  BY <1>4 DEF Justified, Memorable, Candidate, Decided
<1>6. Justified(p, m) /\ \A x \in old : x.source = m.source
  BY <1>2, <1>3 DEF MemoryOf, ExtractionOf
<1>7. \A x \in Extracting(p)' : ExtractionOf(p, session[x])'
  <2> TAKE x \in Extracting(p)'
  <2>1. x \in Extracting(p) /\ session'[x] = session[x] /\ ExtractionOf(p, session[x])
    BY <1>2, <1>3 DEF MemoryOf
  <2> QED
    BY <2>1, <1>4, <1>5 DEF ExtractionOf
<1>8. OneMemory(p)'
  <2> SUFFICES ASSUME Decided(p) = 1 PROVE OneMemory(p)'
    BY <1>5 DEF OneMemory
  <2>1. OneMemory(p)
    BY <1>2 DEF MemoryOf
  <2>2. /\ Extracting(p) = {s} /\ trail[p].memory = {}
        /\ m = Candidate(p, proposals[p].status)
    BY <2>1, <1>3 DEF OneMemory
  <2>3. Extracting(p)' = {} /\ trail'[p].memory = {m} /\ m \in trail'[p].active
    BY <2>2, <1>3, <1>4
  <2> QED
    BY <2>2, <2>3, <1>5 DEF OneMemory
<1>9. \A source \in Sources : Memorable(p, source)' =>
          \/ \E x \in trail'[p].memory : x.source = source
          \/ \E x \in Extracting(p)' : SourceOf(session'[x]) = source
          \/ source \in trail'[p].lost
  <2> SUFFICES ASSUME NEW source \in Sources, Memorable(p, source),
                      ~ \E x \in trail'[p].memory : x.source = source, source \notin trail'[p].lost
               PROVE  \E x \in Extracting(p)' : SourceOf(session'[x]) = source
    BY <1>5
  <2>1. ~ (\E x \in trail[p].memory : x.source = source) /\ m.source # source
        /\ source \notin trail[p].lost
    BY <1>4
  <2>2. PICK x \in Extracting(p) : SourceOf(session[x]) = source
    BY <2>1, <1>2 DEF MemoryOf
  <2>3. x # s
    BY <2>1, <2>2 DEF SourceOf
  <2>4. x \in Extracting(p)'
    BY <2>3, <1>3
  <2> QED
    BY <2>2, <2>3, <2>4, <1>3
<1>10. MemoryOf(p)'
  <2>1. ASSUME NEW x \in trail'[p].memory
        PROVE  Justified(p, x)' /\ \E n \in trail'[p].active : n.source = x.source
    <3>1. CASE x.source = m.source
      BY <3>1, <1>2, <1>4, <1>5, <1>6 DEF MemoryOf
    <3>2. CASE x.source # m.source
      <4>1. x \in trail[p].memory
        BY <3>2, <1>4
      <4>2. Justified(p, x)
        BY <4>1, <1>2 DEF MemoryOf
      <4>3. PICK n \in trail[p].active : n.source = x.source
        BY <4>1, <1>2 DEF MemoryOf
      <4>4. n \in trail'[p].active
        BY <4>3, <3>2, <1>4, <1>6
      <4> QED
        BY <4>2, <4>3, <4>4, <1>5
    <3> QED
      BY <3>1, <3>2
  <2>2. /\ proposals'[p].reason \in trail'[p].reasons \cup {None}
        /\ trail'[p].reasons # {} <=> trail'[p].rejected > 0
        /\ Memorable(p, "rejected")' => proposals'[p].reason # None
        /\ trail'[p].active \subseteq trail'[p].memory
        /\ proposals'[p].status # "pending"
    BY <1>2, <1>3, <1>4, <1>5 DEF MemoryOf
  <2> QED
    BY <2>1, <2>2, <1>7, <1>8, <1>9 DEF MemoryOf
<1>11. session'[s].op \notin Extraction
  BY <1>1 DEF Extraction
<1> QED
  BY <1>1, <1>4, <1>10, <1>11, OtherMemory

LEMMA ExtractMemory ==
    ASSUME IInv, MemoryInv, NEW s \in Sessions, Extract(s)
    PROVE  MemoryInv'
<1> PICK p : p = session[s].p
  OBVIOUS
<1>1. session[s].op \in Extraction /\ p \in DOMAIN proposals /\ UNCHANGED proposals
  BY ExtractWrites
<1>2. MemoryOf(p) /\ s \in Extracting(p)
  BY <1>1 DEF MemoryInv, Extracting
<1>3. ExtractionOf(p, session[s]) /\ OneMemory(p) /\ Idle.op = "idle"
  BY <1>2 DEF MemoryOf, Idle
<1>4. CASE ReadCandidate(s)
  <2> PICK source : source = session[s].source
    OBVIOUS
  <2> PICK m : m = Candidate(p, source)
    OBVIOUS
  <2>1. /\ session[s].op = "extract" /\ source \in Sources /\ SourceOf(session[s]) = source
        /\ UNCHANGED <<proposals, trail>>
        /\ session' = [session EXCEPT ![s] = IF m = [source |-> "rejected", reason |-> None]
                          THEN Idle ELSE [op |-> "remember", p |-> p, memory |-> m]]
    BY <1>4 DEF ReadCandidate, Asks, IInv, DecisionTypeOK, SourceOf
  <2>2. /\ m.source = source
        /\ m.reason = IF source = "rejected" THEN proposals[p].reason ELSE None
        /\ m = [source |-> source, reason |-> m.reason]
    BY DEF Candidate
  <2>3. CASE m = [source |-> "rejected", reason |-> None]
    <3>1. source = "rejected" /\ proposals[p].reason = None
      BY <2>2, <2>3
    <3>2. ~Memorable(p, source)
      BY <3>1, <1>2 DEF MemoryOf
    <3> QED
      BY <2>1, <2>3, <3>2, <1>1, <1>3, RequestMemory
  <2>4. CASE m # [source |-> "rejected", reason |-> None]
    <3>1. PICK r : r = [op |-> "remember", p |-> p, memory |-> m]
      OBVIOUS
    <3>2. r.op = "remember" /\ r.p = p /\ r.memory = m /\ SourceOf(r) = source
      BY <2>2, <3>1 DEF SourceOf
    <3>3. Justified(p, m)
      <4>1. source = "confirmed" => Memorable(p, "confirmed")
        BY <2>1, <1>3 DEF ExtractionOf
      <4>2. source = "rejected" => m.reason \in trail[p].reasons \ {None}
        <5>1. source = "rejected" => m.reason = proposals[p].reason /\ m.reason # None
          BY <2>2, <2>4
        <5> QED
          BY <5>1, <1>2 DEF MemoryOf
      <4> QED
        BY <2>2, <4>1, <4>2 DEF Justified
    <3>4. ExtractionOf(p, r)
      BY <3>2, <3>3 DEF ExtractionOf
    <3>5. Decided(p) = 1 => source = proposals[p].status
      BY <1>2, <1>3, <2>1 DEF OneMemory
    <3>6. session' = [session EXCEPT ![s] = r]
      BY <2>1, <2>4, <3>1
    <3>7. SourceOf(r) = SourceOf(session[s])
      BY <2>1, <3>2
    <3>8. Decided(p) = 1 => r.memory = Candidate(p, proposals[p].status)
      BY <3>2, <3>5
    <3>9. /\ r.op \in {"remember", "insert"} /\ r.p = p /\ SourceOf(r) = SourceOf(session[s])
          /\ ExtractionOf(p, r) /\ (Decided(p) = 1 => r.memory = Candidate(p, proposals[p].status))
      BY <3>2, <3>4, <3>7, <3>8
    <3>10. UNCHANGED <<proposals, trail>>
      BY <2>1
    <3> QED
      BY <3>6, <3>9, <3>10, <1>1, RequestMemory
  <2> QED
    BY <2>3, <2>4
<1>5. CASE LookUp(s)
  <2> PICK m : m = session[s].memory
    OBVIOUS
  <2>1. /\ session[s].op = "remember" /\ SourceOf(session[s]) = m.source
        /\ Justified(p, m)
        /\ Decided(p) = 1 => m = Candidate(p, proposals[p].status)
    BY <1>2, <1>3, <1>5 DEF LookUp, SourceOf, ExtractionOf, OneMemory
  <2>2. CASE m \in trail[p].memory /\ Asks(s, Idle)
    BY <2>1, <2>2, <1>1, <1>3, RequestMemory DEF Asks
  <2>3. ASSUME NEW old, \A x \in old : x.source = m.source,
               Asks(s, [op |-> "insert", p |-> p, memory |-> m, old |-> old])
        PROVE  MemoryInv'
    <3>1. PICK r : r = [op |-> "insert", p |-> p, memory |-> m, old |-> old]
      OBVIOUS
    <3>2. /\ r.op = "insert" /\ r.p = p /\ r.memory = m /\ r.old = old /\ SourceOf(r) = m.source
      BY <3>1 DEF SourceOf
    <3>3. ExtractionOf(p, r)
      BY <2>1, <2>3, <3>2 DEF ExtractionOf
    <3>4. session' = [session EXCEPT ![s] = r] /\ UNCHANGED <<proposals, trail>>
      BY <2>3, <3>1 DEF Asks
    <3> QED
      BY <2>1, <3>2, <3>3, <3>4, <1>1, RequestMemory
  <2>4. \/ m \in trail[p].memory /\ Asks(s, Idle)
        \/ \E old \in IF SameSource(p, m) = {} THEN {{}} ELSE {{x} : x \in SameSource(p, m)} :
             Asks(s, [op |-> "insert", p |-> p, memory |-> m, old |-> old])
    BY <1>5 DEF LookUp
  <2>5. ASSUME NEW old \in IF SameSource(p, m) = {} THEN {{}} ELSE {{x} : x \in SameSource(p, m)}
        PROVE  \A x \in old : x.source = m.source
    BY DEF SameSource
  <2> QED
    BY <2>2, <2>3, <2>4, <2>5
<1>6. CASE Insert(s)
  <2> PICK m : m = session[s].memory
    OBVIOUS
  <2>1. /\ session[s].op = "insert" /\ SourceOf(session[s]) = m.source
        /\ session' = [session EXCEPT ![s] = Idle]
        /\ trail' = IF m \in trail[p].memory THEN trail ELSE Inserted(p, m, session[s].old)
    BY <1>6 DEF Insert, Inserted, SourceOf
  <2>2. CASE m \in trail[p].memory
    BY <2>1, <2>2, <1>1, <1>3, RequestMemory
  <2>3. CASE m \notin trail[p].memory
    BY <2>1, <2>3, <1>1, InsertMemory
  <2> QED
    BY <2>2, <2>3
<1> QED
  BY <1>4, <1>5, <1>6 DEF Extract

\* What requests that end in failure were to write is recorded as lost.
LEMMA LossMemory ==
    ASSUME IInv, MemoryInv, NEW S \in SUBSET Sessions,
           trail' = [p \in DOMAIN trail |-> LostBy(S, p)],
           session' = [x \in Sessions |-> IF x \in S THEN Idle ELSE session[x]],
           UNCHANGED proposals
    PROVE  MemoryInv'
<1> SUFFICES ASSUME NEW p \in DOMAIN proposals PROVE MemoryOf(p)'
  BY DEF MemoryInv
<1>1. MemoryOf(p) /\ p \in DOMAIN trail
  BY OfProposal DEF MemoryInv, IInv
<1>2. /\ trail'[p].confirmed = trail[p].confirmed /\ trail'[p].rejected = trail[p].rejected
      /\ trail'[p].memory = trail[p].memory /\ trail'[p].active = trail[p].active
      /\ trail'[p].reasons = trail[p].reasons
      /\ trail'[p].lost = trail[p].lost \cup
           {IF session[s].op = "extract" THEN session[s].source ELSE session[s].memory.source :
              s \in {r \in S : session[r].op \in Extraction /\ session[r].p = p}}
  BY <1>1, LostByType
<1>3. /\ Extracting(p)' = Extracting(p) \ S
      /\ \A x \in Extracting(p)' : x \in Extracting(p) /\ session'[x] = session[x]
  BY DEF Extracting, Idle, Extraction
<1>4. \A x \in Extracting(p) \cap S : SourceOf(session[x]) \in trail'[p].lost
  BY <1>2 DEF Extracting, SourceOf
<1>5. /\ \A source : Memorable(p, source)' <=> Memorable(p, source)
      /\ \A m : Justified(p, m)' <=> Justified(p, m)
      /\ Candidate(p, proposals[p].status)' = Candidate(p, proposals[p].status)
      /\ Decided(p)' = Decided(p)
  BY <1>2 DEF Justified, Memorable, Candidate, Decided
<1>6. \A x \in Extracting(p)' : ExtractionOf(p, session[x])'
  <2> TAKE x \in Extracting(p)'
  <2>1. session'[x] = session[x] /\ ExtractionOf(p, session[x])
    BY <1>1, <1>3 DEF MemoryOf
  <2> QED
    BY <2>1, <1>2, <1>5 DEF ExtractionOf
<1>7. OneMemory(p)'
  <2>1. OneMemory(p)
    BY <1>1 DEF MemoryOf
  <2>2. ASSUME Decided(p) = 1, NEW x \in Extracting(p)'
        PROVE  Extracting(p)' = {x}
    BY <2>1, <2>2, <1>3 DEF OneMemory
  <2> QED
    BY <2>1, <2>2, <1>2, <1>3, <1>5 DEF OneMemory
<1>8. \A source \in Sources : Memorable(p, source)' =>
          \/ \E m \in trail'[p].memory : m.source = source
          \/ \E x \in Extracting(p)' : SourceOf(session'[x]) = source
          \/ source \in trail'[p].lost
  <2> SUFFICES ASSUME NEW source \in Sources, Memorable(p, source),
                      ~ \E m \in trail[p].memory : m.source = source, source \notin trail'[p].lost
               PROVE  \E x \in Extracting(p)' : SourceOf(session'[x]) = source
    BY <1>2, <1>5
  <2>1. PICK x \in Extracting(p) : SourceOf(session[x]) = source
    BY <1>1, <1>2 DEF MemoryOf
  <2>2. x \notin S
    BY <2>1, <1>4
  <2>3. x \in Extracting(p)'
    BY <2>2, <1>3
  <2> QED
    BY <2>1, <2>3, <1>3
<1>9. \A m \in trail'[p].memory : Justified(p, m)' /\ \E n \in trail'[p].active : n.source = m.source
  BY <1>1, <1>2, <1>5 DEF MemoryOf
<1>10. /\ proposals'[p].reason \in trail'[p].reasons \cup {None}
       /\ trail'[p].reasons # {} <=> trail'[p].rejected > 0
       /\ Memorable(p, "rejected")' => proposals'[p].reason # None
       /\ trail'[p].active \subseteq trail'[p].memory
       /\ proposals'[p].status = "pending" =>
             /\ proposals'[p].reason = None /\ trail'[p].reasons = {}
             /\ trail'[p].memory = {} /\ trail'[p].active = {} /\ Extracting(p)' = {}
  BY <1>1, <1>2, <1>3, <1>5 DEF MemoryOf
<1> QED
  BY <1>6, <1>7, <1>8, <1>9, <1>10 DEF MemoryOf

LEMMA NextMemory == IInv /\ MemoryInv /\ [Next]_vars => MemoryInv'
<1> SUFFICES ASSUME IInv, MemoryInv, [Next]_vars PROVE MemoryInv'
  OBVIOUS
<1>0. Idle.op \notin Extraction
  BY DEF Idle, Extraction
<1>1. ASSUME NEW s \in Sessions, NEW r, session' = [session EXCEPT ![s] = r],
             r.op \notin Extraction, session[s].op \notin Extraction, UNCHANGED <<proposals, trail>>
      PROVE  MemoryInv'
  <2>1. \A x \in Sessions : session'[x] = IF x = s THEN r ELSE session[x]
    BY <1>1 DEF IInv, DecisionTypeOK
  <2> QED
    BY <1>1, <2>1, MemoryStays
<1>2. CASE Draft
  <2>1. ASSUME NEW s \in Sessions, NEW k \in Keys, ReadDraft(s, k) PROVE MemoryInv'
    <3>1. PICK target \in Payloads(k) :
             session' = [session EXCEPT ![s] = [op |-> "create", key |-> k, target |-> target]]
      BY <2>1 DEF ReadDraft
    <3>2. PICK r : r = [op |-> "create", key |-> k, target |-> target]
      OBVIOUS
    <3>3. /\ session' = [session EXCEPT ![s] = r] /\ r.op \notin Extraction
          /\ session[s].op \notin Extraction /\ UNCHANGED <<proposals, trail>>
      BY <1>0, <2>1, <3>1, <3>2 DEF ReadDraft, Extraction
    <3> QED
      BY <1>1, <3>3
  <2> QED
    BY <1>2, <2>1, DraftMemory DEF Draft
<1>3. CASE Decide
  <2>1. ASSUME NEW s \in Sessions, NEW p \in DOMAIN proposals, ReadConfirm(s, p) PROVE MemoryInv'
    <3>1. PICK r : r = [op |-> "confirm", p |-> p, seen |-> Loaded(p)]
      OBVIOUS
    <3>2. /\ session' = [session EXCEPT ![s] = r] /\ r.op \notin Extraction
          /\ session[s].op \notin Extraction /\ UNCHANGED <<proposals, trail>>
      BY <1>0, <2>1, <3>1 DEF ReadConfirm, Extraction
    <3> QED
      BY <1>1, <3>2
  <2>2. ASSUME NEW s \in Sessions, NEW p \in DOMAIN proposals, ReadReject(s, p) PROVE MemoryInv'
    <3>1. PICK r : r = [op |-> "reject", p |-> p]
      OBVIOUS
    <3>2. /\ session' = [session EXCEPT ![s] = r] /\ r.op \notin Extraction
          /\ session[s].op \notin Extraction /\ UNCHANGED <<proposals, trail>>
      BY <1>0, <2>2, <3>1 DEF ReadReject, Extraction
    <3> QED
      BY <1>1, <3>2
  <2> QED
    BY <1>3, <2>1, <2>2, ConfirmMemory, RejectMemory, ExtractMemory DEF Decide
<1>4. CASE Progress
  <2>1. ASSUME NEW t, NEW done, UpdateTaskStatus(t, done) PROVE MemoryInv'
    BY <2>1, MemoryStays DEF UpdateTaskStatus
  <2>2. ASSUME NEW s \in Sessions, ReadRepair(s) PROVE MemoryInv'
    <3>1. PICK r : r = [op |-> "repair", seen |-> plan]
      OBVIOUS
    <3>2. /\ session' = [session EXCEPT ![s] = r] /\ r.op \notin Extraction
          /\ session[s].op \notin Extraction /\ UNCHANGED <<proposals, trail>>
      BY <1>0, <2>2, <3>1 DEF ReadRepair, Extraction
    <3> QED
      BY <1>1, <3>2
  <2>3. ASSUME NEW s \in Sessions, WriteRepair(s) PROVE MemoryInv'
    <3>1. /\ session' = [session EXCEPT ![s] = Idle] /\ session[s].op \notin Extraction
          /\ UNCHANGED <<proposals, trail>>
      BY <2>3 DEF WriteRepair, Wrote, Extraction
    <3> QED
      BY <1>0, <1>1, <3>1
  <2> QED
    BY <1>4, <2>1, <2>2, <2>3 DEF Progress
<1>5. CASE ByHand
  BY <1>5, HandSteps, MemoryStays
<1>6. CASE Crash \/ \E s \in Sessions : Fail(s)
  BY <1>6, Losses, LossMemory
<1>7. CASE UNCHANGED vars
  BY <1>7, MemoryStays DEF vars
<1> QED
  BY <1>2, <1>3, <1>4, <1>5, <1>6, <1>7 DEF Next

LEMMA SpecMemory == Spec => []MemoryInv
<1>1. Init => MemoryInv
  BY DEF Init, MemoryInv
<1> QED
  BY <1>1, NextMemory, SpecInv, PTL DEF Spec

\* The memory of a proposal is as MemoryIsTrue says.
LEMMA MemoryTrue ==
    ASSUME MemoryInv
    PROVE  MemoryIsTrue
<1> SUFFICES ASSUME NEW p \in DOMAIN proposals
             PROVE  LET t == trail[p]
                    IN  /\ \A m \in t.memory :
                              /\ m.source = "confirmed" => Memorable(p, "confirmed")
                              /\ m.source = "rejected" => m.reason \in t.reasons \ {None}
                              /\ \E n \in t.active : n.source = m.source
                        /\ t.active \subseteq t.memory
                        /\ t.confirmed + t.rejected = 1 =>
                              t.memory \subseteq t.active \cap {Candidate(p, proposals[p].status)}
                        /\ \A source \in Sources : Memorable(p, source) =>
                              \/ \E m \in t.memory : m.source = source
                              \/ BeingRemembered(p, source)
                              \/ source \in t.lost
  BY DEF MemoryIsTrue
<1>1. MemoryOf(p)
  BY DEF MemoryInv
<1>2. \A source : (\E s \in Extracting(p) : SourceOf(session[s]) = source) => BeingRemembered(p, source)
  BY DEF Extracting, SourceOf, BeingRemembered
<1> QED
  BY <1>1, <1>2 DEF MemoryOf, Justified, OneMemory, Decided

-----------------------------------------------------------------------------
(* Theorems *)

\* The proposal row, the timeline, the run and the direction card never
\* disagree about a decision: payload, status and events are one commit.
THEOREM DecisionsRecorded == Spec => []DecisionRecorded
<1>1. IInv => DecisionRecorded
  BY DEF IInv
<1> QED
  BY <1>1, SpecInv, PTL

\* Whatever requests overlap and wherever they fail, the project memory keeps to
\* the decisions: no confirmation that was not made and no reason that was not
\* given, of a proposal decided once nothing but that decision, an active row for
\* each superseded one, and every decision that is to be remembered, unless a
\* failure has lost it.  (A proposal decided twice, by requests that overlap, can
\* leave a memory of each decision.)
THEOREM MemoryCorrect == Spec => []MemoryIsTrue
<1>1. MemoryInv => MemoryIsTrue
  BY MemoryTrue
<1> QED
  BY <1>1, SpecMemory, PTL

\* The look-ups before the lock let decisions, drafts of one call and pending
\* replans multiply at most to the number of requests that overlap.
THEOREM RepeatsBounded == Spec => []RepeatedOnlyByOverlap
<1>1. IInv => RepeatedOnlyByOverlap
  <2> SUFFICES ASSUME IInv PROVE RepeatedOnlyByOverlap
    OBVIOUS
  <2>1. Limit \in Nat
    BY RequestSets
  <2>2. ASSUME NEW p \in DOMAIN proposals PROVE Decided(p) <= Limit
    <3>1. Deciding(p) \in SUBSET Sessions
      BY DEF Deciding
    <3>2. Cardinality(Deciding(p)) \in Nat /\ Decided(p) \in Nat
      BY <3>1, RequestSets, OfProposal DEF IInv
    <3> QED
      BY <2>1, <3>2 DEF IInv, DecideInv
  <2>3. ASSUME NEW k \in Keys PROVE Cardinality(WithKey(k)) <= Limit
    <3>1. Drafting(k) \in SUBSET Sessions /\ WithKey(k) \in SUBSET (DOMAIN proposals)
      BY DEF Drafting, WithKey
    <3>2. Cardinality(Drafting(k)) \in Nat /\ Cardinality(WithKey(k)) \in Nat
      BY <3>1, RequestSets, ProposalSets DEF IInv
    <3>3. WithKey(k) = {} => Cardinality(WithKey(k)) = 0
      BY FS_EmptySet
    <3> QED
      BY <2>1, <3>2, <3>3 DEF IInv, DraftInv
  <2>4. Cardinality(PendingReplans) <= Limit
    <3>1. DraftingReplans \in SUBSET Sessions /\ PendingReplans \in SUBSET (DOMAIN proposals)
      BY DEF DraftingReplans, PendingReplans
    <3>2. Cardinality(DraftingReplans) \in Nat /\ Cardinality(PendingReplans) \in Nat
      BY <3>1, RequestSets, ProposalSets DEF IInv
    <3>3. PendingReplans = {} => Cardinality(PendingReplans) = 0
      BY FS_EmptySet
    <3> QED
      BY <2>1, <3>2, <3>3 DEF IInv, ReplanInv
  <2> QED
    BY <2>2, <2>3, <2>4 DEF RepeatedOnlyByOverlap, Decided, Limit
<1> QED
  BY <1>1, SpecInv, PTL

-----------------------------------------------------------------------------
(* The operators on plans *)

\* A set of numbers has a least one: the form in which these proofs use
\* induction.
LEMMA LeastNumber ==
    ASSUME NEW S \in SUBSET Nat, S # {}
    PROVE  \E m \in S : \A k \in S : m <= k
<1> DEFINE R == StrictSubsetOrdering(Nat)
           T == {0..n : n \in S}
<1>1. T \subseteq FiniteSubsetsOf(Nat)
  <2>1. ASSUME NEW n \in S PROVE 0..n \in FiniteSubsetsOf(Nat)
    <3>1. IsFiniteSet(0..n)
      BY FS_Interval
    <3>2. 0..n \in SUBSET Nat
      OBVIOUS
    <3> QED
      BY <3>1, <3>2 DEF FiniteSubsetsOf
  <2> QED
    BY <2>1
<1>2. PICK x \in T : \A y \in T : <<y, x>> \notin R
  <2>1. IsWellFoundedOn(R, FiniteSubsetsOf(Nat))
    BY FS_StrictSubsetOrderingWellFounded
  <2>2. T # {}
    OBVIOUS
  <2> HIDE DEF R, T
  <2> QED
    BY <1>1, <2>1, <2>2, WFMin
<1>3. PICK m \in S : x = 0..m
  BY <1>2
<1>4. ASSUME NEW k \in S, k < m PROVE FALSE
  <2>1. 0..k \in T
    OBVIOUS
  <2>2. m \in 0..m /\ m \notin 0..k /\ 0..k \subseteq 0..m
    BY <1>4
  <2>3. <<0..k, 0..m>> \in R
    BY <2>2 DEF StrictSubsetOrdering
  <2> QED
    BY <1>2, <1>3, <2>1, <2>3
<1> QED
  BY <1>4

\* A plan whose current stage and whose tasks' stages exist.
WellFormed(p) ==
    /\ p \in Plans
    /\ p.current \in DOMAIN p.stages \cup {None}
    /\ \A t \in DOMAIN p.tasks : p.tasks[t].stage \in DOMAIN p.stages

\* What the type of a plan says of its parts.
LEMMA OfPlan ==
    ASSUME NEW p \in Plans
    PROVE  /\ p = [stages |-> p.stages, tasks |-> p.tasks, current |-> p.current,
                   status |-> p.status]
           /\ p.stages \in Seq(Stages) /\ Len(p.stages) \in Nat
           /\ DOMAIN p.stages = 1..Len(p.stages)
           /\ p.tasks \in Seq(Tasks) /\ Len(p.tasks) \in Nat
           /\ DOMAIN p.tasks = 1..Len(p.tasks)
           /\ p.current \in Nat \cup {None} /\ p.status \in ProjectStatus
           /\ \A i \in DOMAIN p.stages : p.stages[i] \in Stages
           /\ \A t \in DOMAIN p.tasks : p.tasks[t] \in Tasks
<1>1. /\ p = [stages |-> p.stages, tasks |-> p.tasks, current |-> p.current,
              status |-> p.status]
      /\ p.stages \in Seq(Stages) /\ p.tasks \in Seq(Tasks)
      /\ p.current \in Nat \cup {None} /\ p.status \in ProjectStatus
  BY DEF Plans
<1> QED
  BY <1>1, ElementOfSeq

\* The next pending stage is a pending stage, or there is none.
LEMMA NextPendingExists ==
    ASSUME NEW p, p.stages \in Seq(Stages)
    PROVE  \/ /\ NextPending(p) = None
              /\ \A i \in DOMAIN p.stages : p.stages[i].status # "pending"
           \/ /\ NextPending(p) \in DOMAIN p.stages
              /\ p.stages[NextPending(p)].status = "pending"
<1> DEFINE pending == {i \in DOMAIN p.stages : p.stages[i].status = "pending"}
           before(i, j) == \/ p.stages[i].order < p.stages[j].order
                           \/ p.stages[i].order = p.stages[j].order /\ i <= j
<1>1. NextPending(p) = IF pending = {} THEN None
                       ELSE CHOOSE i \in pending : \A j \in pending : before(i, j)
  BY DEF NextPending
<1>2. CASE pending = {}
  BY <1>1, <1>2
<1>3. ASSUME pending # {}
      PROVE  \E i \in pending : \A j \in pending : before(i, j)
  <2>1. \A i \in DOMAIN p.stages : i \in Nat /\ p.stages[i].order \in Nat
    <3>1. ASSUME NEW i \in DOMAIN p.stages PROVE i \in Nat /\ p.stages[i] \in Stages
      BY ElementOfSeq
    <3> QED
      BY <3>1 DEF Stages
  <2> DEFINE orders == {p.stages[i].order : i \in pending}
  <2>2. orders \in SUBSET Nat /\ orders # {}
    BY <1>3, <2>1
  <2> HIDE DEF orders
  <2>3. PICK m \in orders : \A k \in orders : m <= k
    BY <2>2, LeastNumber
  <2> DEFINE first == {i \in pending : p.stages[i].order = m}
  <2>4. first \in SUBSET Nat /\ first # {}
    BY <2>1, <2>3 DEF orders
  <2> HIDE DEF first
  <2>5. PICK i \in first : \A j \in first : i <= j
    BY <2>4, LeastNumber
  <2>6. i \in pending /\ p.stages[i].order = m
    BY <2>5 DEF first
  <2>7. ASSUME NEW j \in pending PROVE before(i, j)
    <3>1. p.stages[j].order \in orders
      BY DEF orders
    <3>2. m <= p.stages[j].order /\ m \in Nat /\ p.stages[j].order \in Nat
      BY <3>1, <2>3, <2>1, <2>2
    <3>3. m = p.stages[j].order => i <= j
      BY <2>5 DEF first
    <3> QED
      BY <3>2, <3>3, <2>6
  <2> QED
    BY <2>6, <2>7
<1>4. CASE pending # {}
  <2> HIDE DEF before
  <2>1. NextPending(p) \in pending
    BY <1>1, <1>3, <1>4
  <2> QED
    BY <2>1
<1> QED
  BY <1>2, <1>4

\* The first of a set of stages is one of them.
LEMMA FirstOf ==
    ASSUME NEW S \in SUBSET Nat, S # {}
    PROVE  (CHOOSE j \in S : \A k \in S : j <= k) \in S
BY LeastNumber

\* Giving a stage a status leaves the other stages as they are.
LEMMA SetStatus ==
    ASSUME NEW p \in Plans, NEW i, NEW st \in StageStatus,
           NEW c, c = UpdateStage(p, i, st)
    PROVE  /\ c.stages \in Seq(Stages) /\ Len(c.stages) = Len(p.stages)
           /\ DOMAIN c.stages = DOMAIN p.stages
           /\ c = [stages |-> c.stages, tasks |-> p.tasks, current |-> p.current,
                   status |-> p.status]
           /\ \A j \in DOMAIN p.stages :
                c.stages[j].status = IF j = i THEN st ELSE p.stages[j].status
<1> DEFINE new == [p.stages EXCEPT ![i].status = st]
<1>1. /\ p = [stages |-> p.stages, tasks |-> p.tasks, current |-> p.current,
              status |-> p.status]
      /\ p.stages \in Seq(Stages) /\ DOMAIN p.stages = 1..Len(p.stages)
      /\ \A j \in DOMAIN p.stages : p.stages[j] \in Stages
  BY OfPlan
<1>2. c = [stages |-> new, tasks |-> p.tasks, current |-> p.current, status |-> p.status]
  <2>1. c = [p EXCEPT !.stages = new]
    BY <1>1 DEF UpdateStage
  <2> HIDE DEF new
  <2> QED
    BY <1>1, <2>1
<1>3. ASSUME NEW j \in DOMAIN p.stages
      PROVE  /\ new[j] = IF j = i THEN [p.stages[j] EXCEPT !.status = st] ELSE p.stages[j]
             /\ new[j] \in Stages
             /\ new[j].status = IF j = i THEN st ELSE p.stages[j].status
  <2>1. p.stages[j] \in Stages
    BY <1>1
  <2>2. new[j] = IF j = i THEN [p.stages[j] EXCEPT !.status = st] ELSE p.stages[j]
    OBVIOUS
  <2> QED
    BY <2>1, <2>2 DEF Stages
<1>4. new = [j \in 1..Len(p.stages) |-> new[j]] /\ DOMAIN new = 1..Len(p.stages)
  BY <1>1
<1>5. new \in Seq(Stages) /\ Len(new) = Len(p.stages)
  <2>1. new \in [1..Len(p.stages) -> Stages]
    BY <1>1, <1>3, <1>4
  <2>2. Len(p.stages) \in Nat
    BY OfPlan
  <2> HIDE DEF new
  <2> QED
    BY <2>1, <2>2, SeqDef
<1> HIDE DEF new
<1>6. c.stages = new
  BY <1>2
<1> QED
  BY <1>1, <1>2, <1>3, <1>4, <1>5, <1>6

\* The status of stage j when stage i has been completed.
Marked(p, i, j) == IF j = i THEN "completed" ELSE p.stages[j].status

\* What try_advance_stage leaves of a plan: the stage is completed, and if the
\* session takes it for the current one, the first pending stage is active and
\* current, or the project has no current stage.
LEMMA CompleteForm ==
    ASSUME NEW p \in Plans, NEW q, NEW i, NEW c, c = CompleteStage(p, q, i)
    PROVE  /\ c \in [stages : Seq(Stages), tasks : {p.tasks},
                     current : DOMAIN p.stages \cup {None, p.current},
                     status : ProjectStatus]
           /\ Len(c.stages) = Len(p.stages) /\ DOMAIN c.stages = DOMAIN p.stages
           /\ \/ /\ q.current # i /\ c.current = p.current /\ c.status = p.status
                 /\ \A j \in DOMAIN p.stages : c.stages[j].status = Marked(p, i, j)
              \/ /\ q.current = i /\ c.current \in DOMAIN p.stages \ {i}
                 /\ c.status = p.status
                 /\ \A j \in DOMAIN p.stages : c.stages[j].status =
                        IF j = c.current THEN "active" ELSE Marked(p, i, j)
              \/ /\ q.current = i /\ c.current = None
                 /\ \A j \in DOMAIN p.stages : c.stages[j].status = Marked(p, i, j)
<1>0. PICK d : d = UpdateStage(p, i, "completed")
  OBVIOUS
<1> DEFINE n == NextPending(d)
<1>1. /\ d = [stages |-> d.stages, tasks |-> p.tasks, current |-> p.current,
              status |-> p.status]
      /\ d.stages \in Seq(Stages) /\ Len(d.stages) = Len(p.stages)
      /\ DOMAIN d.stages = DOMAIN p.stages
      /\ \A j \in DOMAIN p.stages : d.stages[j].status = Marked(p, i, j)
  <2>1. "completed" \in StageStatus
    BY DEF StageStatus
  <2>2. /\ d.stages \in Seq(Stages) /\ Len(d.stages) = Len(p.stages)
        /\ DOMAIN d.stages = DOMAIN p.stages
        /\ d = [stages |-> d.stages, tasks |-> p.tasks, current |-> p.current,
                status |-> p.status]
        /\ \A j \in DOMAIN p.stages :
             d.stages[j].status = IF j = i THEN "completed" ELSE p.stages[j].status
    BY <1>0, <2>1, SetStatus
  <2> QED
    BY <2>2 DEF Marked
<1>2. \/ n = None
      \/ n \in DOMAIN d.stages /\ d.stages[n].status = "pending"
  <2> QED
    BY <1>1, NextPendingExists
<1>3. c = CASE q.current # i -> d
            [] q.current = i /\ n # None ->
                  [d EXCEPT !.stages[n].status = "active", !.current = n]
            [] q.current = i /\ n = None ->
                  [d EXCEPT !.current = None,
                            !.status = IF q.status = "completed" THEN @ ELSE "completed"]
  BY <1>0 DEF CompleteStage, UpdateStage
<1>4. /\ d \in Plans /\ p.current \in Nat \cup {None} /\ p.status \in ProjectStatus
      /\ "completed" \in ProjectStatus /\ "active" \in StageStatus
  <2>1. /\ p.tasks \in Seq(Tasks) /\ p.current \in Nat \cup {None} /\ p.status \in ProjectStatus
    BY OfPlan
  <2> QED
    BY <1>1, <2>1 DEF Plans, ProjectStatus, StageStatus
<1> HIDE DEF n
<1>5. CASE q.current # i
  <2>1. c = d
    BY <1>3, <1>5
  <2> QED
    BY <2>1, <1>1, <1>4, <1>5
<1>6. CASE q.current = i /\ n # None
  <2>0. PICK a : a = UpdateStage(d, n, "active")
    OBVIOUS
  <2>1. c = [a EXCEPT !.current = n]
    <3>1. c = [d EXCEPT !.stages[n].status = "active", !.current = n]
      BY <1>3, <1>6
    <3> QED
      BY <3>1, <1>1, <2>0 DEF UpdateStage
  <2>2. /\ a.stages \in Seq(Stages) /\ Len(a.stages) = Len(d.stages)
        /\ DOMAIN a.stages = DOMAIN d.stages
        /\ a = [stages |-> a.stages, tasks |-> d.tasks, current |-> d.current,
                status |-> d.status]
        /\ \A j \in DOMAIN d.stages :
             a.stages[j].status = IF j = n THEN "active" ELSE d.stages[j].status
    BY <2>0, <1>4, SetStatus
  <2>3. /\ c = [stages |-> a.stages, tasks |-> p.tasks, current |-> n, status |-> p.status]
    BY <2>1, <2>2, <1>1
  <2>4. n \in DOMAIN p.stages /\ n # i
    BY <1>1, <1>2, <1>6 DEF Marked
  <2>5. c.current = n
    BY <2>3
  <2>6. \A j \in DOMAIN p.stages : c.stages[j].status = IF j = n THEN "active" ELSE Marked(p, i, j)
    BY <1>1, <2>2, <2>3
  <2> QED
    BY <2>3, <2>2, <1>1, <2>4, <2>5, <2>6, <1>4, <1>6
<1>7. CASE q.current = i /\ n = None
  <2>1. c = [d EXCEPT !.current = None,
                      !.status = IF q.status = "completed" THEN @ ELSE "completed"]
    BY <1>3, <1>7
  <2>2. PICK st \in ProjectStatus :
           st = IF q.status = "completed" THEN d.status ELSE "completed"
    BY <1>1, <1>4
  <2>3. c = [stages |-> d.stages, tasks |-> p.tasks, current |-> None, status |-> st]
    <3>1. c = [d EXCEPT !.current = None, !.status = st]
      BY <2>1, <2>2
    <3>2. PICK a, b, x, y : d = [stages |-> a, tasks |-> b, current |-> x, status |-> y]
      BY <1>1
    <3>3. c = [stages |-> a, tasks |-> b, current |-> None, status |-> st]
      BY <3>1, <3>2
    <3>4. a = d.stages /\ b = p.tasks
      BY <3>2, <1>1
    <3> QED
      BY <3>3, <3>4
  <2> QED
    BY <2>3, <1>1, <1>7
<1> QED
  BY <1>5, <1>6, <1>7

\* Only stages that were given a status by hand, those of E, are at risk, or are
\* the current one and have not begun.
OnlyByHand(p, E) ==
    \A i \in DOMAIN p.stages :
        \/ p.stages[i].status = "at_risk"
        \/ p.stages[i].status = "pending" /\ p.current = i
        => i \in E

\* The current stage is live, or it was given its status by hand.
CurrentStands(p, E) ==
    p.current # None => IsLive(p.stages[p.current]) \/ p.current \in E

\* Apart from the stages of E the current stage is the only live one, and its
\* project is active or has a status of S.
InOrder(p, E, S) ==
    /\ \A i \in DOMAIN p.stages \ E : IsLive(p.stages[i]) <=> p.current = i
    /\ p.current # None => p.status \in {"active"} \cup S

\* Completing a stage keeps a plan well formed and puts none at risk.
LEMMA CompleteTyped ==
    ASSUME NEW p, WellFormed(p), NEW q, NEW i, NEW c, c = CompleteStage(p, q, i), NEW E
    PROVE  /\ WellFormed(c) /\ Len(c.stages) = Len(p.stages) /\ c.tasks = p.tasks
           /\ c.current \in DOMAIN p.stages \cup {None}
           /\ OnlyByHand(p, E) => OnlyByHand(c, E)
<1>1. p \in Plans /\ p.current \in DOMAIN p.stages \cup {None}
  BY DEF WellFormed
<1>2. DOMAIN p.stages \subseteq Nat /\ p.tasks \in Seq(Tasks)
  BY <1>1, OfPlan
<1>3. /\ c \in [stages : Seq(Stages), tasks : {p.tasks},
                current : DOMAIN p.stages \cup {None, p.current}, status : ProjectStatus]
      /\ Len(c.stages) = Len(p.stages) /\ DOMAIN c.stages = DOMAIN p.stages
  BY <1>1, CompleteForm
<1>4. c \in Plans /\ c.tasks = p.tasks /\ c.current \in DOMAIN p.stages \cup {None}
  BY <1>1, <1>2, <1>3 DEF Plans
<1>5. WellFormed(c)
  BY <1>3, <1>4 DEF WellFormed
<1>6. \A j \in DOMAIN p.stages :
         c.stages[j].status \in {"active", "completed", p.stages[j].status}
  BY <1>1, CompleteForm DEF Marked
<1>7. \A j \in DOMAIN p.stages : c.stages[j].status = "pending" /\ c.current = j =>
         p.stages[j].status = "pending" /\ p.current = j
  <2>1. None \notin DOMAIN p.stages
    BY <1>2, NoneAssumption
  <2>2. CASE /\ q.current # i /\ c.current = p.current /\ c.status = p.status
             /\ \A j \in DOMAIN p.stages : c.stages[j].status = Marked(p, i, j)
    BY <2>2 DEF Marked
  <2>3. CASE /\ q.current = i /\ c.current \in DOMAIN p.stages \ {i} /\ c.status = p.status
             /\ \A j \in DOMAIN p.stages : c.stages[j].status =
                    IF j = c.current THEN "active" ELSE Marked(p, i, j)
    BY <2>3
  <2>4. CASE c.current = None
    BY <2>1, <2>4
  <2> QED
    BY <1>1, <2>2, <2>3, <2>4, CompleteForm
<1>8. OnlyByHand(p, E) => OnlyByHand(c, E)
  BY <1>3, <1>6, <1>7 DEF OnlyByHand
<1> QED
  BY <1>3, <1>4, <1>5, <1>8

\* A session that knows the current stage goes on from it when it completes it,
\* and leaves it alone when it completes another one.
LEMMA CompleteCurrent ==
    ASSUME NEW p, WellFormed(p), NEW q, q.current = p.current, NEW i,
           NEW c, c = CompleteStage(p, q, i), NEW E, CurrentStands(p, E)
    PROVE  CurrentStands(c, E)
<1>1. p \in Plans /\ p.current \in DOMAIN p.stages \cup {None}
  BY DEF WellFormed
<1>2. CASE /\ q.current # i /\ c.current = p.current /\ c.status = p.status
           /\ \A j \in DOMAIN p.stages : c.stages[j].status = Marked(p, i, j)
  BY <1>1, <1>2 DEF CurrentStands, IsLive, Marked
<1>3. CASE /\ q.current = i /\ c.current \in DOMAIN p.stages \ {i}
           /\ c.status = p.status
           /\ \A j \in DOMAIN p.stages : c.stages[j].status =
                  IF j = c.current THEN "active" ELSE Marked(p, i, j)
  BY <1>3 DEF CurrentStands, IsLive
<1>4. CASE c.current = None
  BY <1>4 DEF CurrentStands
<1> QED
  BY <1>1, <1>2, <1>3, <1>4, CompleteForm

\* Completing a live stage keeps a plan in order: it is the current one, and the
\* next becomes current and live, or it was given its status by hand.
LEMMA CompleteInOrder ==
    ASSUME NEW p, WellFormed(p), NEW q, q.current = p.current, NEW i, i \in LiveStages(p),
           NEW c, c = CompleteStage(p, q, i), NEW E, NEW S, InOrder(p, E, S)
    PROVE  InOrder(c, E, S)
<1>1. p \in Plans /\ p.current \in DOMAIN p.stages \cup {None} /\ DOMAIN c.stages = DOMAIN p.stages
  BY CompleteForm DEF WellFormed
<1>2. /\ i \in DOMAIN p.stages /\ IsLive(p.stages[i]) /\ i # None
      /\ \A j \in DOMAIN p.stages \ E : IsLive(p.stages[j]) <=> p.current = j
      /\ p.current # None => p.status \in {"active"} \cup S
  <2>1. DOMAIN p.stages \subseteq Nat
    BY <1>1, OfPlan
  <2> QED
    BY <2>1, NoneAssumption DEF InOrder, LiveStages
<1>3. CASE /\ q.current # i /\ c.current = p.current /\ c.status = p.status
           /\ \A j \in DOMAIN p.stages : c.stages[j].status = Marked(p, i, j)
  <2>1. i \in E
    BY <1>2, <1>3
  <2>2. \A j \in DOMAIN p.stages \ E : IsLive(c.stages[j]) <=> c.current = j
    BY <1>2, <1>3, <2>1 DEF IsLive, Marked
  <2> QED
    BY <1>1, <1>2, <1>3, <2>2 DEF InOrder
<1>4. CASE /\ q.current = i /\ c.current \in DOMAIN p.stages \ {i} /\ c.status = p.status
           /\ \A j \in DOMAIN p.stages : c.stages[j].status =
                  IF j = c.current THEN "active" ELSE Marked(p, i, j)
  <2>1. \A j \in DOMAIN p.stages \ E : IsLive(c.stages[j]) <=> c.current = j
    BY <1>2, <1>4 DEF IsLive, Marked
  <2> QED
    BY <1>1, <1>2, <1>4, <2>1 DEF InOrder
<1>5. CASE /\ q.current = i /\ c.current = None
           /\ \A j \in DOMAIN p.stages : c.stages[j].status = Marked(p, i, j)
  <2>1. None \notin DOMAIN p.stages
    <3>1. DOMAIN p.stages \subseteq Nat
      BY <1>1, OfPlan
    <3> QED
      BY <3>1, NoneAssumption
  <2>2. \A j \in DOMAIN p.stages \ E : ~IsLive(c.stages[j])
    BY <1>2, <1>5 DEF IsLive, Marked
  <2> QED
    BY <1>1, <1>5, <2>1, <2>2 DEF InOrder
<1> QED
  BY <1>1, <1>3, <1>4, <1>5, CompleteForm

\* Giving a task its status leaves the stages as they are.
LEMMA SetTask ==
    ASSUME NEW p, WellFormed(p), NEW t, NEW done \in BOOLEAN, NEW c, c = UpdateTask(p, t, done)
    PROVE  /\ WellFormed(c) /\ c.stages = p.stages /\ c.current = p.current
           /\ c.status = p.status
<1> DEFINE new == [p.tasks EXCEPT ![t].done = done]
<1>1. /\ p \in Plans /\ p.tasks \in Seq(Tasks) /\ Len(p.tasks) \in Nat
      /\ DOMAIN p.tasks = 1..Len(p.tasks)
      /\ \A u \in DOMAIN p.tasks : p.tasks[u] \in Tasks
      /\ p = [stages |-> p.stages, tasks |-> p.tasks, current |-> p.current,
              status |-> p.status]
  BY OfPlan DEF WellFormed
<1>2. ASSUME NEW u \in DOMAIN p.tasks
      PROVE  new[u] \in Tasks /\ new[u].stage = p.tasks[u].stage
  <2>1. p.tasks[u] \in Tasks
    BY <1>1
  <2>2. new[u] = IF u = t THEN [p.tasks[u] EXCEPT !.done = done] ELSE p.tasks[u]
    OBVIOUS
  <2> QED
    BY <2>1, <2>2 DEF Tasks
<1>3. DOMAIN new = 1..Len(p.tasks) /\ new \in Seq(Tasks)
  <2>1. new = [u \in 1..Len(p.tasks) |-> new[u]]
    BY <1>1
  <2>2. new \in [1..Len(p.tasks) -> Tasks]
    BY <1>1, <1>2, <2>1
  <2> HIDE DEF new
  <2> QED
    BY <1>1, <2>1, <2>2, SeqDef
<1>4. c = [stages |-> p.stages, tasks |-> new, current |-> p.current, status |-> p.status]
  <2>1. c = [p EXCEPT !.tasks = new]
    BY DEF UpdateTask
  <2> HIDE DEF new
  <2> QED
    BY <1>1, <2>1
<1> HIDE DEF new
<1>5. /\ c.stages = p.stages /\ c.tasks = new /\ c.current = p.current /\ c.status = p.status
  BY <1>4
<1>6. c \in Plans
  <2>1. p.stages \in Seq(Stages) /\ p.current \in Nat \cup {None} /\ p.status \in ProjectStatus
    BY <1>1, OfPlan
  <2> QED
    BY <1>3, <1>4, <2>1 DEF Plans
<1> QED
  BY <1>1, <1>2, <1>3, <1>5, <1>6 DEF WellFormed

\* A status update keeps a plan well formed and what holds of its stages.
LEMMA StatusUpdateKeeps ==
    ASSUME NEW p, WellFormed(p), NEW t, NEW done \in BOOLEAN,
           NEW c, c = StatusUpdate(p, t, done), NEW E, NEW S
    PROVE  /\ WellFormed(c) /\ Len(c.stages) = Len(p.stages)
           /\ OnlyByHand(p, E) => OnlyByHand(c, E)
           /\ CurrentStands(p, E) => CurrentStands(c, E)
           /\ InOrder(p, E, S) => InOrder(c, E, S)
<1>1. PICK u : u = UpdateTask(p, t, done)
  OBVIOUS
<1>2. WellFormed(u) /\ u.stages = p.stages /\ u.current = p.current /\ u.status = p.status
  BY <1>1, SetTask
<1>3. PICK i : i = p.tasks[t].stage
  OBVIOUS
<1>4. c = IF done /\ i \in Stalled(u.stages, u.tasks) THEN CompleteStage(u, u, i) ELSE u
  BY <1>1, <1>3 DEF StatusUpdate, UpdateTask
<1>5. CASE c = u
  BY <1>2, <1>5 DEF OnlyByHand, CurrentStands, InOrder
<1>6. CASE i \in Stalled(u.stages, u.tasks) /\ c = CompleteStage(u, u, i)
  <2>1. i \in LiveStages(u)
    BY <1>6 DEF Stalled, LiveStages
  <2>2. /\ OnlyByHand(p, E) => OnlyByHand(u, E)
        /\ CurrentStands(p, E) => CurrentStands(u, E)
        /\ InOrder(p, E, S) => InOrder(u, E, S)
    BY <1>2 DEF OnlyByHand, CurrentStands, InOrder
  <2>3. /\ WellFormed(c) /\ Len(c.stages) = Len(p.stages)
        /\ OnlyByHand(p, E) => OnlyByHand(c, E)
    BY <1>2, <1>6, <2>2, CompleteTyped
  <2>4. CurrentStands(p, E) => CurrentStands(c, E)
    BY <1>2, <1>6, <2>2, CompleteCurrent
  <2>5. InOrder(p, E, S) => InOrder(c, E, S)
    BY <1>2, <1>6, <2>1, <2>2, CompleteInOrder
  <2> QED
    BY <2>3, <2>4, <2>5
<1> QED
  BY <1>4, <1>5, <1>6

\* What a repair leaves is in every set of pairs (plan in the database, plan the
\* session knows) that holds the first pair and is closed under the passes.
LEMMA RepairIsIn ==
    ASSUME NEW p, p.stages \in Seq(Stages), NEW q, NEW G,
           [plan |-> p, seen |-> q] \in G,
           RepairPass([plan |-> p, seen |-> q], Stalled(q.stages, q.tasks)) \in G,
           \A b \in G : RepairPass(b, Stalled(b.plan.stages, Reread(p.tasks, q))) \in G
    PROVE  \E b \in G : Repair(p, q) = b.plan
<1> DEFINE first == [plan |-> p, seen |-> q]
           step(b, n) == RepairPass(b, IF n = 1 THEN Stalled(q.stages, q.tasks)
                                       ELSE Stalled(b.plan.stages, Reread(p.tasks, q)))
           recursion(m, g) == g = [n \in 0..m |-> IF n = 0 THEN first ELSE step(g[n - 1], n)]
<1>1. Len(p.stages) \in Nat
  OBVIOUS
<1>2. \A m \in Nat : \E g : recursion(m, g)
  <2> DEFINE bad == {m \in Nat : ~ \E g : recursion(m, g)}
  <2> SUFFICES ASSUME bad # {} PROVE FALSE
    OBVIOUS
  <2>1. PICK m \in bad : \A k \in bad : m <= k
    <3>1. bad \in SUBSET Nat
      OBVIOUS
    <3> HIDE DEF bad
    <3> QED
      BY <3>1, LeastNumber
  <2> HIDE DEF step, first
  <2>2. m # 0
    <3>1. recursion(0, [n \in 0..0 |-> first])
      OBVIOUS
    <3> QED
      BY <3>1
  <2>3. m - 1 \in Nat /\ m - 1 \notin bad
    <3>1. bad \subseteq Nat
      OBVIOUS
    <3> HIDE DEF bad
    <3> QED
      BY <2>1, <2>2, <3>1
  <2>4. PICK g : recursion(m - 1, g)
    BY <2>3
  <2> DEFINE h == [n \in 0..m |-> IF n = m THEN step(g[m - 1], m) ELSE g[n]]
  <2>5. ASSUME NEW n \in 0..m
        PROVE  h[n] = IF n = 0 THEN first ELSE step(h[n - 1], n)
    <3>1. CASE n = m
      <4>1. m - 1 \in 0..m /\ m - 1 # m
        BY <2>2
      <4> QED
        BY <2>2, <3>1, <4>1
    <3>2. CASE n # m
      <4>1. n \in 0..(m - 1) /\ (n # 0 => n - 1 \in 0..m /\ n - 1 # m)
        BY <3>2, <2>2
      <4>2. g[n] = IF n = 0 THEN first ELSE step(g[n - 1], n)
        BY <2>4, <4>1
      <4> QED
        BY <3>2, <4>1, <4>2
    <3> QED
      BY <3>1, <3>2
  <2>6. recursion(m, h)
    <3>1. h = [n \in 0..m |-> h[n]]
      OBVIOUS
    <3> HIDE DEF h
    <3> QED
      BY <3>1, <2>5
  <2> QED
    BY <2>6
<1>3. PICK pass : /\ recursion(Len(p.stages), pass)
                  /\ Repair(p, q) = pass[Len(p.stages)].plan
  <2> DEFINE chosen == CHOOSE g : recursion(Len(p.stages), g)
  <2>1. recursion(Len(p.stages), chosen)
    <3>1. \E g : recursion(Len(p.stages), g)
      BY <1>1, <1>2
    <3> HIDE DEF recursion
    <3> QED
      BY <3>1
  <2>2. Repair(p, q) = chosen[Len(p.stages)].plan
    BY DEF Repair
  <2> QED
    BY <2>1, <2>2
<1> HIDE DEF step, first
<1>4. \A n \in 0..Len(p.stages) : pass[n] = IF n = 0 THEN first ELSE step(pass[n - 1], n)
  BY <1>3
<1>5. \A n \in 0..Len(p.stages) : pass[n] \in G
  <2> DEFINE bad == {n \in 0..Len(p.stages) : pass[n] \notin G}
  <2> SUFFICES ASSUME bad # {} PROVE FALSE
    OBVIOUS
  <2>1. PICK m \in bad : \A k \in bad : m <= k
    <3>1. bad \in SUBSET Nat
      OBVIOUS
    <3> HIDE DEF bad
    <3> QED
      BY <3>1, LeastNumber
  <2>2. CASE m = 0
    BY <1>1, <1>4, <2>1, <2>2 DEF first
  <2>3. CASE m = 1
    <3>1. pass[1] = step(pass[0], 1) /\ pass[0] = first
      BY <1>1, <1>4, <2>1, <2>3
    <3> QED
      BY <3>1, <2>1, <2>3 DEF step, first
  <2>4. CASE m > 1
    <3>1. /\ m - 1 \in 0..Len(p.stages) /\ m - 1 \notin bad /\ m # 1 /\ m # 0
          /\ m \in 0..Len(p.stages)
      BY <1>1, <2>1, <2>4
    <3>2. pass[m] = step(pass[m - 1], m) /\ pass[m - 1] \in G
      BY <3>1, <1>4
    <3>3. pass[m] \in G
      BY <3>1, <3>2 DEF step
    <3> QED
      BY <2>1, <3>3
  <2> QED
    BY <1>1, <2>1, <2>2, <2>3, <2>4
<1>6. pass[Len(p.stages)] \in G
  BY <1>1, <1>5
<1> HIDE DEF recursion
<1> QED
  BY <1>3, <1>6

\* A pass of the repair completes one of the stages that it finds stalled, if
\* there are any, and the session keeps up with the current stage it moves.
LEMMA PassForm ==
    ASSUME NEW b \in [plan : Plans, seen : Plans], WellFormed(b.plan), NEW S \in SUBSET Nat,
           NEW c, c = RepairPass(b, S)
    PROVE  \/ c = b
           \/ /\ c \in [plan : Plans, seen : Plans]
              /\ \E i \in S : c.plan = CompleteStage(b.plan, b.seen, i)
              /\ b.seen.current = b.plan.current => c.seen.current = c.plan.current
<1>1. PICK i : i = CHOOSE j \in S : \A k \in S : j <= k
  OBVIOUS
<1>2. PICK after : after = CompleteStage(b.plan, b.seen, i)
  OBVIOUS
<1> DEFINE moved == b.seen.current = i
<1>3. c = IF S = {} THEN b
          ELSE [plan |-> after,
                seen |-> [b.seen EXCEPT
                            !.current = IF moved THEN after.current ELSE @,
                            !.status  = IF moved /\ after.current = None
                                        THEN "completed" ELSE @]]
  BY <1>1, <1>2 DEF RepairPass
<1>4. CASE S # {}
  <2>1. i \in S
    BY <1>1, <1>4, FirstOf
  <2>2. WellFormed(after) /\ after \in Plans
    <3>1. WellFormed(after)
      BY <1>2, CompleteTyped
    <3> QED
      BY <3>1 DEF WellFormed
  <2>3. /\ b.seen \in Plans /\ b.seen.current \in Nat \cup {None}
        /\ b.seen.status \in ProjectStatus
        /\ after.current \in Nat \cup {None} /\ "completed" \in ProjectStatus
    BY <2>2, OfPlan DEF ProjectStatus
  <2>4. PICK x \in Nat \cup {None}, y \in ProjectStatus :
           /\ x = IF moved THEN after.current ELSE b.seen.current
           /\ y = IF moved /\ after.current = None THEN "completed" ELSE b.seen.status
    BY <2>3
  <2>5. PICK r : r = [b.seen EXCEPT !.current = x, !.status = y]
    OBVIOUS
  <2>6. c = [plan |-> after, seen |-> r]
    BY <1>3, <1>4, <2>4, <2>5
  <2>7. r \in Plans /\ r.current = x
    BY <2>3, <2>5 DEF Plans
  <2>8. c \in [plan : Plans, seen : Plans] /\ c.plan = after /\ c.seen.current = x
    BY <2>2, <2>6, <2>7
  <2>9. b.seen.current = b.plan.current => x = after.current
    <3>1. b.plan \in Plans
      OBVIOUS
    <3>2. b.seen.current # i => after.current = b.plan.current
      BY <3>1, <1>2, CompleteForm
    <3> QED
      BY <3>2, <2>4
  <2> QED
    BY <2>1, <2>8, <2>9, <1>2
<1> QED
  BY <1>3, <1>4

\* A repair keeps a plan well formed, puts no stage at risk and makes none current
\* that has not begun.  On the basis of the plan as it is, it leaves the current
\* stage live and the plan in order.
LEMMA RepairKeeps ==
    ASSUME NEW p, WellFormed(p), NEW q \in Plans, NEW c, c = Repair(p, q), NEW E, NEW S
    PROVE  /\ WellFormed(c) /\ Len(c.stages) = Len(p.stages)
           /\ OnlyByHand(p, E) => OnlyByHand(c, E)
           /\ q = p => /\ CurrentStands(p, E) => CurrentStands(c, E)
                       /\ InOrder(p, E, S) => InOrder(c, E, S)
<1> DEFINE Kept(d) == /\ WellFormed(d) /\ Len(d.stages) = Len(p.stages)
                      /\ OnlyByHand(p, E) => OnlyByHand(d, E)
                      /\ q = p => /\ CurrentStands(p, E) => CurrentStands(d, E)
                                  /\ InOrder(p, E, S) => InOrder(d, E, S)
           G == {b \in [plan : Plans, seen : Plans] :
                   Kept(b.plan) /\ (q = p => b.seen.current = b.plan.current)}
<1>1. ASSUME NEW b \in G, NEW R \in SUBSET Nat, q = p => R \subseteq LiveStages(b.plan)
      PROVE  RepairPass(b, R) \in G
  <2>1. PICK d : d = RepairPass(b, R)
    OBVIOUS
  <2>2. /\ b \in [plan : Plans, seen : Plans] /\ Kept(b.plan)
        /\ q = p => b.seen.current = b.plan.current
    OBVIOUS
  <2>3. CASE d = b
    BY <2>1, <2>3
  <2>4. CASE /\ d \in [plan : Plans, seen : Plans]
             /\ \E i \in R : d.plan = CompleteStage(b.plan, b.seen, i)
             /\ b.seen.current = b.plan.current => d.seen.current = d.plan.current
    <3>1. PICK i \in R : d.plan = CompleteStage(b.plan, b.seen, i)
      BY <2>4
    <3>2. /\ WellFormed(d.plan) /\ Len(d.plan.stages) = Len(p.stages)
          /\ OnlyByHand(p, E) => OnlyByHand(d.plan, E)
      BY <2>2, <3>1, CompleteTyped
    <3>3. ASSUME q = p, CurrentStands(p, E) PROVE CurrentStands(d.plan, E)
      BY <2>2, <3>1, <3>3, CompleteCurrent
    <3>4. ASSUME q = p, InOrder(p, E, S) PROVE InOrder(d.plan, E, S)
      <4>1. i \in LiveStages(b.plan) /\ InOrder(b.plan, E, S) /\ b.seen.current = b.plan.current
        BY <1>1, <2>2, <3>4
      <4> QED
        BY <2>2, <3>1, <4>1, CompleteInOrder
    <3>5. d \in G
      BY <2>2, <2>4, <3>2, <3>3, <3>4
    <3> QED
      BY <2>1, <3>5
  <2> QED
    <3>1. WellFormed(b.plan)
      BY <2>2
    <3> QED
      BY <2>1, <2>2, <3>1, <2>3, <2>4, PassForm
<1>2. p \in Plans
  BY DEF WellFormed
<1>3. PICK first : first = [plan |-> p, seen |-> q]
  OBVIOUS
<1>4. first \in G /\ first.plan = p /\ first.seen = q
  BY <1>2, <1>3
<1>5. RepairPass(first, Stalled(q.stages, q.tasks)) \in G
  <2>1. Stalled(q.stages, q.tasks) \subseteq LiveStages(q)
    BY DEF Stalled, LiveStages
  <2>2. LiveStages(q) \subseteq Nat
    <3>1. DOMAIN q.stages \subseteq Nat
      BY OfPlan
    <3> QED
      BY <3>1 DEF LiveStages
  <2> HIDE DEF G
  <2> QED
    BY <1>1, <1>4, <2>1, <2>2
<1>6. ASSUME NEW b \in G
      PROVE  RepairPass(b, Stalled(b.plan.stages, Reread(p.tasks, q))) \in G
  <2>1. Stalled(b.plan.stages, Reread(p.tasks, q)) \subseteq LiveStages(b.plan)
    BY DEF Stalled, LiveStages
  <2>2. LiveStages(b.plan) \subseteq Nat
    <3>1. b.plan \in Plans
      OBVIOUS
    <3>2. DOMAIN b.plan.stages \subseteq Nat
      BY <3>1, OfPlan
    <3> QED
      BY <3>2 DEF LiveStages
  <2> HIDE DEF G
  <2> QED
    BY <1>1, <2>1, <2>2
<1>7. \E b \in G : c = b.plan
  <2>1. p.stages \in Seq(Stages)
    BY <1>2, OfPlan
  <2> HIDE DEF G
  <2> QED
    BY <1>3, <1>4, <1>5, <1>6, <2>1, RepairIsIn
<1> QED
  BY <1>7

\* A new plan's first stage is its current and live one.  It supersedes what the
\* session has read: on the basis of the stages and the project as they are, it
\* puts a plan in order.
LEMMA StagePlanKeeps ==
    ASSUME NEW p, WellFormed(p), NEW q, NEW c, c = PersistStagePlan(p, q), NEW E, NEW S
    PROVE  /\ WellFormed(c) /\ Len(c.stages) >= Len(p.stages)
           /\ OnlyByHand(p, E) => OnlyByHand(c, E)
           /\ CurrentStands(c, E)
           /\ q.stages = p.stages /\ q.status = p.status /\ OnlyByHand(p, E) => InOrder(c, E, S)
<1> DEFINE n == Len(p.stages)
           old == [i \in DOMAIN p.stages |->
                     IF i \in Superseded(q) THEN [p.stages[i] EXCEPT !.status = "completed"]
                                            ELSE p.stages[i]]
<1>1. /\ p \in Plans /\ n \in Nat /\ DOMAIN p.stages = 1..n
      /\ \A i \in DOMAIN p.stages : p.stages[i] \in Stages
      /\ p.tasks \in Seq(Tasks) /\ p.status \in ProjectStatus
      /\ \A t \in DOMAIN p.tasks : p.tasks[t].stage \in DOMAIN p.stages
  BY OfPlan DEF WellFormed
<1>2. /\ old \in Seq(Stages) /\ Len(old) = n
      /\ \A i \in 1..n : old[i].status = IF i \in Superseded(q) THEN "completed"
                                                                ELSE p.stages[i].status
  <2>1. ASSUME NEW i \in 1..n
        PROVE  /\ old[i] \in Stages
               /\ old[i].status = IF i \in Superseded(q) THEN "completed"
                                                         ELSE p.stages[i].status
    <3>1. p.stages[i] \in Stages
      BY <1>1
    <3> QED
      BY <1>1, <3>1 DEF Stages, StageStatus
  <2>2. old \in [1..n -> Stages]
    BY <1>1, <2>1
  <2> HIDE DEF old
  <2> QED
    BY <1>1, <2>1, <2>2, SeqDef
<1>3. /\ NewStages \in Seq(Stages) /\ Len(NewStages) = PlanSize /\ PlanSize \in Nat
      /\ PlanSize >= 1
      /\ \A i \in 1..PlanSize : NewStages[i].status = IF i = 1 THEN "active" ELSE "pending"
  <2>1. PlanSize \in Nat /\ PlanSize >= 1
    BY PlanSizeAssumption
  <2>2. NewStages \in [1..PlanSize -> Stages]
    BY <2>1 DEF NewStages, Stages, StageStatus
  <2> QED
    BY <2>1, <2>2, SeqDef DEF NewStages
<1>4. PICK x : x = old \o NewStages
  OBVIOUS
<1>5. /\ x \in Seq(Stages) /\ Len(x) = n + PlanSize /\ DOMAIN x = 1..(n + PlanSize)
      /\ \A i \in 1..(n + PlanSize) : x[i] = IF i <= n THEN old[i] ELSE NewStages[i - n]
  <2>1. old \in Seq(Stages) /\ Len(old) = n /\ NewStages \in Seq(Stages)
        /\ Len(NewStages) = PlanSize
    BY <1>2, <1>3
  <2> HIDE DEF old
  <2>2. /\ x \in Seq(Stages) /\ Len(x) = Len(old) + Len(NewStages)
        /\ \A i \in 1..(Len(old) + Len(NewStages)) : x[i] = IF i <= Len(old) THEN old[i]
                                                      ELSE NewStages[i - Len(old)]
    BY <2>1, <1>4, ConcatProperties
  <2>3. DOMAIN x = 1..Len(x)
    BY <2>2
  <2> HIDE DEF n
  <2> QED
    BY <2>1, <2>2, <2>3
<1>6. PICK st \in ProjectStatus : st = IF q.status = "active" THEN p.status ELSE "active"
  BY <1>1 DEF ProjectStatus
<1>7. c = [stages |-> x, tasks |-> p.tasks, current |-> n + 1, status |-> st]
  <2>1. c = [p EXCEPT !.stages = x, !.current = n + 1, !.status = st]
    BY <1>4, <1>6 DEF PersistStagePlan, FirstNew
  <2>2. PICK a, b, e, f : p = [stages |-> a, tasks |-> b, current |-> e, status |-> f]
    BY <1>1, OfPlan
  <2>3. c = [stages |-> x, tasks |-> b, current |-> n + 1, status |-> st]
    BY <2>1, <2>2
  <2>4. b = p.tasks
    BY <2>2
  <2> QED
    BY <2>3, <2>4
<1>8. c.stages = x /\ c.tasks = p.tasks /\ c.current = n + 1 /\ c.status = st
  BY <1>7
<1>9. WellFormed(c)
  <2>1. n + 1 \in Nat
    BY <1>1
  <2>2. c \in Plans
    BY <1>1, <1>5, <1>6, <1>7, <2>1 DEF Plans
  <2>3. 1..n \subseteq 1..(n + PlanSize) /\ n + 1 \in 1..(n + PlanSize)
    BY <1>1, <1>3
  <2> QED
    BY <1>1, <1>5, <1>8, <2>2, <2>3 DEF WellFormed
<1>10. ASSUME NEW i \in 1..(n + PlanSize)
       PROVE  x[i].status = IF i = n + 1 THEN "active"
                            ELSE IF i > n THEN "pending"
                            ELSE IF i \in Superseded(q) THEN "completed" ELSE p.stages[i].status
  <2>1. CASE i <= n
    <3>1. i \in 1..n /\ i # n + 1
      BY <1>1, <2>1
    <3>2. x[i] = old[i]
      BY <1>5, <2>1
    <3>3. old[i].status = IF i \in Superseded(q) THEN "completed" ELSE p.stages[i].status
      BY <1>2, <3>1
    <3>4. ~(i > n)
      BY <1>1, <2>1
    <3> HIDE DEF old
    <3> QED
      BY <3>1, <3>2, <3>3, <3>4
  <2>2. CASE i > n
    <3>1. i - n \in 1..PlanSize /\ ~(i <= n) /\ (i - n = 1 <=> i = n + 1)
      BY <1>1, <1>3, <2>2
    <3>2. x[i] = NewStages[i - n]
      BY <1>5, <3>1
    <3> QED
      BY <1>3, <2>2, <3>1, <3>2
  <2> QED
    BY <1>1, <2>1, <2>2
<1> HIDE DEF old
<1>11. OnlyByHand(p, E) => OnlyByHand(c, E)
  <2> SUFFICES ASSUME OnlyByHand(p, E), NEW i \in 1..(n + PlanSize),
                      x[i].status = "at_risk" \/ (x[i].status = "pending" /\ n + 1 = i)
               PROVE  i \in E
    BY <1>5, <1>8 DEF OnlyByHand
  <2>1. i \in 1..n /\ p.stages[i].status = "at_risk"
    <3>1. i # n + 1
      BY <1>10
    <3> QED
      BY <1>1, <1>10, <3>1
  <2> QED
    BY <1>1, <2>1 DEF OnlyByHand
<1>12. CurrentStands(c, E)
  <2>1. n + 1 \in 1..(n + PlanSize)
    BY <1>1, <1>3
  <2> QED
    BY <1>8, <1>10, <2>1 DEF CurrentStands, IsLive
<1>13. ASSUME q.stages = p.stages, q.status = p.status, OnlyByHand(p, E)
       PROVE  InOrder(c, E, S)
  <2>1. ASSUME NEW i \in 1..n, i \notin E
        PROVE  i \in Superseded(q) \/ p.stages[i].status = "completed"
    <3>1. p.stages[i] \in Stages
      BY <1>1
    <3>2. p.stages[i].status \in StageStatus /\ p.stages[i].status # "at_risk"
      BY <1>1, <1>13, <2>1, <3>1 DEF Stages, OnlyByHand
    <3> QED
      BY <1>1, <1>13, <3>2 DEF StageStatus, Superseded
  <2>2. ASSUME NEW i \in 1..(n + PlanSize), i \notin E
        PROVE  IsLive(x[i]) <=> n + 1 = i
    <3>1. CASE i > n
      BY <1>1, <1>10, <3>1 DEF IsLive
    <3>2. CASE i <= n
      <4>1. i \in 1..n /\ i # n + 1
        BY <1>1, <3>2
      <4>2. x[i].status = "completed"
        BY <1>1, <1>10, <2>1, <2>2, <4>1
      <4> QED
        BY <4>1, <4>2 DEF IsLive
    <3> QED
      BY <1>1, <3>1, <3>2
  <2>3. st = "active"
    BY <1>6, <1>13
  <2> QED
    BY <1>5, <1>8, <2>2, <2>3 DEF InOrder
<1> QED
  BY <1>1, <1>3, <1>5, <1>8, <1>9, <1>11, <1>12, <1>13

\* A task more leaves the stages as they are.
LEMMA BreakdownKeeps ==
    ASSUME NEW p, WellFormed(p), NEW i \in DOMAIN p.stages,
           NEW c, c = PersistTaskBreakdown(p, i)
    PROVE  /\ WellFormed(c) /\ c.stages = p.stages /\ c.current = p.current
           /\ c.status = p.status
<1> DEFINE new == [stage |-> i, done |-> FALSE]
<1>1. /\ p \in Plans /\ p.tasks \in Seq(Tasks) /\ DOMAIN p.stages \subseteq Nat
      /\ p.stages \in Seq(Stages) /\ p.current \in Nat \cup {None} /\ p.status \in ProjectStatus
      /\ p = [stages |-> p.stages, tasks |-> p.tasks, current |-> p.current,
              status |-> p.status]
  BY OfPlan DEF WellFormed
<1>2. new \in Tasks /\ new.stage = i
  BY <1>1 DEF Tasks
<1>3. PICK x : x = Append(p.tasks, new)
  OBVIOUS
<1> HIDE DEF new
<1>4. /\ x \in Seq(Tasks) /\ DOMAIN x = 1..(Len(p.tasks) + 1)
      /\ x[Len(p.tasks) + 1] = new /\ \A t \in 1..Len(p.tasks) : x[t] = p.tasks[t]
      /\ Len(p.tasks) \in Nat /\ DOMAIN p.tasks = 1..Len(p.tasks)
  BY <1>1, <1>2, <1>3, AppendProperties
<1>5. c = [stages |-> p.stages, tasks |-> x, current |-> p.current, status |-> p.status]
  <2>1. c = [p EXCEPT !.tasks = x]
    BY <1>3 DEF PersistTaskBreakdown, new
  <2> QED
    BY <1>1, <2>1
<1>6. c.stages = p.stages /\ c.tasks = x /\ c.current = p.current /\ c.status = p.status
  BY <1>5
<1>7. c \in Plans
  BY <1>1, <1>4, <1>5 DEF Plans
<1>8. \A t \in DOMAIN x : x[t].stage \in DOMAIN p.stages
  <2> SUFFICES ASSUME NEW t \in 1..(Len(p.tasks) + 1)
               PROVE  x[t].stage \in DOMAIN p.stages
    BY <1>4
  <2>1. CASE t = Len(p.tasks) + 1
    BY <1>2, <1>4, <2>1
  <2>2. CASE t \in 1..Len(p.tasks)
    BY <1>4, <2>2 DEF WellFormed
  <2> QED
    BY <1>4, <2>1, <2>2
<1> QED
  BY <1>6, <1>7, <1>8 DEF WellFormed

\* A confirmed replan gives a task a status.
LEMMA ReplanKeeps ==
    ASSUME NEW p, WellFormed(p), NEW q, NEW change, change.done \in BOOLEAN,
           NEW c, c = ConfirmReplan(p, q, change)
    PROVE  /\ WellFormed(c) /\ c.stages = p.stages /\ c.current = p.current
           /\ c.status = p.status
<1> DEFINE t == change.row
<1>1. /\ p.tasks \in Seq(Tasks) /\ \A u \in DOMAIN p.tasks : p.tasks[u].done \in BOOLEAN
  <2>1. p.tasks \in Seq(Tasks) /\ \A u \in DOMAIN p.tasks : p.tasks[u] \in Tasks
    BY OfPlan DEF WellFormed
  <2> QED
    BY <2>1 DEF Tasks
<1>2. PICK done \in BOOLEAN :
         t \in DOMAIN p.tasks => done = IF q.tasks[t].done = change.done THEN p.tasks[t].done
                                                                         ELSE change.done
  <2>1. CASE t \in DOMAIN p.tasks /\ q.tasks[t].done = change.done
    BY <1>1, <2>1
  <2>2. CASE ~(t \in DOMAIN p.tasks /\ q.tasks[t].done = change.done)
    BY <2>2
  <2> QED
    BY <2>1, <2>2
<1>3. c = UpdateTask(p, t, done)
  <2>1. PICK x : x = [p.tasks EXCEPT ![t].done =
                        IF q.tasks[t].done = change.done THEN @ ELSE change.done]
    OBVIOUS
  <2>2. PICK y : y = [p.tasks EXCEPT ![t].done = done]
    OBVIOUS
  <2>3. x = y
    <3>1. CASE t \in DOMAIN p.tasks
      BY <1>2, <2>1, <2>2, <3>1
    <3>2. CASE t \notin DOMAIN p.tasks
      BY <2>1, <2>2, <3>2
    <3> QED
      BY <3>1, <3>2
  <2>4. c = [p EXCEPT !.tasks = x]
    BY <2>1 DEF ConfirmReplan
  <2>5. UpdateTask(p, t, done) = [p EXCEPT !.tasks = y]
    BY <2>2 DEF UpdateTask
  <2> QED
    BY <2>3, <2>4, <2>5
<1> QED
  BY <1>3, SetTask

\* A stage created by hand is pending: what holds of the others is not touched.
LEMMA CreateStageKeeps ==
    ASSUME NEW p, WellFormed(p), NEW c, c = CreateStage(p), NEW E, NEW S
    PROVE  /\ WellFormed(c) /\ Len(c.stages) >= Len(p.stages)
           /\ OnlyByHand(p, E) => OnlyByHand(c, E)
           /\ CurrentStands(p, E) => CurrentStands(c, E)
           /\ InOrder(p, E, S) => InOrder(c, E, S)
<1> DEFINE new == [order |-> 0, status |-> "pending"]
           n == Len(p.stages)
<1>1. /\ p \in Plans /\ p.stages \in Seq(Stages) /\ n \in Nat /\ DOMAIN p.stages = 1..n
      /\ p.tasks \in Seq(Tasks) /\ p.current \in Nat \cup {None} /\ p.status \in ProjectStatus
      /\ p = [stages |-> p.stages, tasks |-> p.tasks, current |-> p.current,
              status |-> p.status]
  BY OfPlan DEF WellFormed
<1>2. new \in Stages /\ new.status = "pending"
  BY DEF Stages, StageStatus
<1>3. PICK x : x = Append(p.stages, new)
  OBVIOUS
<1> HIDE DEF new
<1>4. /\ x \in Seq(Stages) /\ Len(x) = n + 1 /\ DOMAIN x = 1..(n + 1)
      /\ x[n + 1] = new /\ \A i \in 1..n : x[i] = p.stages[i]
  BY <1>1, <1>2, <1>3, AppendProperties
<1>5. c = [stages |-> x, tasks |-> p.tasks, current |-> p.current, status |-> p.status]
  <2>1. c = [p EXCEPT !.stages = x]
    BY <1>3 DEF CreateStage, new
  <2> QED
    BY <1>1, <2>1
<1>6. c.stages = x /\ c.tasks = p.tasks /\ c.current = p.current /\ c.status = p.status
  BY <1>5
<1>7. WellFormed(c)
  <2>1. c \in Plans
    BY <1>1, <1>4, <1>5 DEF Plans
  <2>2. 1..n \subseteq 1..(n + 1)
    BY <1>1
  <2> QED
    BY <1>1, <1>4, <1>6, <2>1, <2>2 DEF WellFormed
<1>8. \A i \in 1..(n + 1) : (i \in 1..n /\ x[i] = p.stages[i]) \/ x[i].status = "pending"
  <2> SUFFICES ASSUME NEW i \in 1..(n + 1)
               PROVE  (i \in 1..n /\ x[i] = p.stages[i]) \/ x[i].status = "pending"
    OBVIOUS
  <2>1. i \in 1..n \/ i = n + 1
    BY <1>1
  <2> QED
    BY <1>2, <1>4, <2>1
<1>9. p.current \in 1..n \cup {None} /\ n + 1 # p.current
  BY <1>1, NoneAssumption DEF WellFormed
<1>10. OnlyByHand(p, E) => OnlyByHand(c, E)
  <2>1. \A i \in 1..(n + 1) : i \in 1..n \/ i = n + 1
    BY <1>1
  <2> QED
    BY <1>1, <1>2, <1>4, <1>6, <1>9, <2>1 DEF OnlyByHand
<1>11. CurrentStands(p, E) => CurrentStands(c, E)
  BY <1>1, <1>4, <1>6 DEF CurrentStands, WellFormed
<1>12. InOrder(p, E, S) => InOrder(c, E, S)
  <2>1. \A i \in 1..(n + 1) : i \in 1..n \/ i = n + 1
    BY <1>1
  <2>2. ~IsLive(x[n + 1])
    BY <1>2, <1>4 DEF IsLive
  <2> QED
    BY <1>1, <1>4, <1>6, <1>9, <2>1, <2>2 DEF InOrder
<1> QED
  BY <1>1, <1>4, <1>6, <1>7, <1>10, <1>11, <1>12

\* A stage given a status by hand joins the stages that were.
LEMMA UpdateStageKeeps ==
    ASSUME NEW p, WellFormed(p), NEW i, NEW st \in StageStatus,
           NEW c, c = UpdateStage(p, i, st), NEW E, NEW S,
           NEW F, F = E \cup {i}
    PROVE  /\ WellFormed(c) /\ Len(c.stages) = Len(p.stages)
           /\ OnlyByHand(p, E) => OnlyByHand(c, F)
           /\ CurrentStands(p, E) => CurrentStands(c, F)
           /\ InOrder(p, E, S) => InOrder(c, F, S)
<1>1. p \in Plans /\ p.tasks \in Seq(Tasks) /\ p.current \in Nat \cup {None}
      /\ p.status \in ProjectStatus
  BY OfPlan DEF WellFormed
<1>2. /\ c.stages \in Seq(Stages) /\ Len(c.stages) = Len(p.stages)
      /\ DOMAIN c.stages = DOMAIN p.stages
      /\ c = [stages |-> c.stages, tasks |-> p.tasks, current |-> p.current,
              status |-> p.status]
      /\ \A j \in DOMAIN p.stages :
           c.stages[j].status = IF j = i THEN st ELSE p.stages[j].status
  BY <1>1, SetStatus
<1>3. c.tasks = p.tasks /\ c.current = p.current /\ c.status = p.status
  BY <1>2
<1>4. c \in Plans
  BY <1>1, <1>2 DEF Plans
<1>5. WellFormed(c)
  BY <1>2, <1>3, <1>4 DEF WellFormed
<1>6. OnlyByHand(p, E) => OnlyByHand(c, F)
  BY <1>2, <1>3 DEF OnlyByHand
<1>7. CurrentStands(p, E) => CurrentStands(c, F)
  BY <1>2, <1>3 DEF CurrentStands, WellFormed, IsLive
<1>8. InOrder(p, E, S) => InOrder(c, F, S)
  BY <1>2, <1>3 DEF InOrder, IsLive
<1> QED
  BY <1>2, <1>5, <1>6, <1>7, <1>8

\* A status of the project given by hand joins those that were.
LEMMA UpdateProjectKeeps ==
    ASSUME NEW p, WellFormed(p), NEW st \in ProjectStatus, NEW c, c = UpdateProject(p, st),
           NEW E, NEW S, NEW T, T = S \cup {st}
    PROVE  /\ WellFormed(c) /\ Len(c.stages) = Len(p.stages)
           /\ OnlyByHand(p, E) => OnlyByHand(c, E)
           /\ CurrentStands(p, E) => CurrentStands(c, E)
           /\ InOrder(p, E, S) => InOrder(c, E, T)
<1>1. p \in Plans
  BY DEF WellFormed
<1>2. c \in Plans /\ c.stages = p.stages /\ c.tasks = p.tasks /\ c.current = p.current
      /\ c.status = st
  BY <1>1 DEF UpdateProject, Plans
<1> QED
  BY <1>2 DEF WellFormed, OnlyByHand, CurrentStands, InOrder

LEMMA EmptyIsWellFormed ==
    ASSUME NEW E, NEW S
    PROVE  WellFormed(EmptyPlan) /\ OnlyByHand(EmptyPlan, E) /\ InOrder(EmptyPlan, E, S)
<1>1. EmptyPlan \in Plans
  BY DEF EmptyPlan, Plans, ProjectStatus
<1>2. EmptyPlan.stages = <<>> /\ EmptyPlan.tasks = <<>> /\ EmptyPlan.current = None
  BY DEF EmptyPlan
<1> QED
  BY <1>1, <1>2 DEF WellFormed, OnlyByHand, InOrder

-----------------------------------------------------------------------------
(* What the steps do to the plan *)

\* A breakdown, as it is drafted and as it is proposed, is of a stage that exists.
TargetInv ==
    /\ \A p \in DOMAIN proposals :
         proposals[p].kind = "breakdown" => proposals[p].target.row \in DOMAIN plan.stages
    /\ \A s \in Sessions :
         session[s].op = "create" /\ KindOf[session[s].key] = "breakdown" =>
             session[s].target.row \in DOMAIN plan.stages

PlanInv == PlanTypeOK /\ TargetInv

\* The plan stays well formed and none of its stages goes away; only a status by
\* hand puts a stage at risk or makes one current that has not begun; the current
\* stage stands unless a repair has written on the basis of rows that had changed;
\* and the order stays unless a confirmation or a repair has.
PlanMoves ==
    /\ WellFormed(plan') /\ Len(plan'.stages) >= Len(plan.stages)
    /\ OnlyByHand(plan, edits.stages) => OnlyByHand(plan', edits'.stages)
    /\ "repair" \notin raced' /\ CurrentStands(plan, edits.stages) =>
           CurrentStands(plan', edits'.stages)
    /\ /\ "confirm" \notin raced' /\ "repair" \notin raced'
       /\ OnlyByHand(plan, edits.stages) /\ InOrder(plan, edits.stages, edits.statuses)
       => InOrder(plan', edits'.stages, edits'.statuses)

LEMMA PlanTyped ==
    ASSUME PlanTypeOK
    PROVE  WellFormed(plan) /\ Len(plan.stages) \in Nat /\ DOMAIN plan.stages = 1..Len(plan.stages)
<1>1. WellFormed(plan)
  BY DEF PlanTypeOK, WellFormed
<1> QED
  BY <1>1, OfPlan DEF WellFormed

LEMMA PlanStays ==
    ASSUME PlanInv, plan'.stages = plan.stages, plan'.current = plan.current,
           plan'.status = plan.status, WellFormed(plan'), UNCHANGED edits
    PROVE  PlanMoves
<1>1. Len(plan.stages) \in Nat
  BY PlanTyped DEF PlanInv
<1> QED
  BY <1>1 DEF PlanMoves, OnlyByHand, CurrentStands, InOrder

LEMMA ConfirmMovesPlan ==
    ASSUME IInv, PlanInv, NEW s \in Sessions, WriteConfirm(s)
    PROVE  PlanMoves
<1> DEFINE p == session[s].p
           seen == session[s].seen
<1>1. /\ session[s].op = "confirm" /\ plan' = Persisted(p, seen) /\ UNCHANGED edits
      /\ raced' = IF Outdated(s) THEN raced \cup {session[s].op} ELSE raced
  BY DEF WriteConfirm, Wrote
<1>2. p \in DOMAIN proposals /\ WellFormed(plan) /\ Len(plan.stages) \in Nat
  BY <1>1, PlanTyped DEF IInv, DecisionTypeOK, PlanInv
<1>3. proposals[p].kind \in Kinds /\ proposals[p].target.done \in BOOLEAN
  <2>1. proposals[p] \in Proposal
    BY <1>2, OfProposal DEF IInv
  <2> QED
    BY <2>1 DEF Proposal, Targets
<1>4. CASE proposals[p].kind = "clarify"
  <2>1. plan' = plan
    BY <1>1, <1>4 DEF Persisted
  <2> QED
    BY <1>1, <1>2, <2>1, PlanStays
<1>5. CASE proposals[p].kind = "plan"
  <2>1. plan' = PersistStagePlan(plan, seen)
    BY <1>1, <1>5 DEF Persisted
  <2>2. "confirm" \notin raced' => seen.stages = plan.stages /\ seen.status = plan.status
    <3>1. Loaded(p) = [plan EXCEPT !.tasks = <<>>]
      BY <1>5 DEF Loaded
    <3>2. "confirm" \notin raced' => Loaded(p) = seen
      BY <1>1 DEF Outdated
    <3>3. plan = [stages |-> plan.stages, tasks |-> plan.tasks, current |-> plan.current,
                  status |-> plan.status]
      BY <1>2, OfPlan DEF WellFormed
    <3> QED
      BY <3>1, <3>2, <3>3
  <2> HIDE DEF seen
  <2>3. \A E, S : /\ WellFormed(plan') /\ Len(plan'.stages) >= Len(plan.stages)
                  /\ OnlyByHand(plan, E) => OnlyByHand(plan', E)
                  /\ CurrentStands(plan', E)
                  /\ seen.stages = plan.stages /\ seen.status = plan.status
                     /\ OnlyByHand(plan, E) => InOrder(plan', E, S)
    BY <1>2, <2>1, StagePlanKeeps
  <2> QED
    BY <1>1, <2>2, <2>3 DEF PlanMoves
<1>6. CASE proposals[p].kind = "breakdown"
  <2>1. plan' = PersistTaskBreakdown(plan, proposals[p].target.row)
    BY <1>1, <1>6 DEF Persisted
  <2>2. proposals[p].target.row \in DOMAIN plan.stages
    BY <1>2, <1>6 DEF PlanInv, TargetInv
  <2> QED
    BY <1>1, <1>2, <2>1, <2>2, BreakdownKeeps, PlanStays
<1>7. CASE proposals[p].kind = "replan"
  <2>1. plan' = ConfirmReplan(plan, seen, proposals[p].target)
    BY <1>1, <1>7 DEF Persisted
  <2> QED
    BY <1>1, <1>2, <1>3, <2>1, ReplanKeeps, PlanStays
<1> QED
  BY <1>3, <1>4, <1>5, <1>6, <1>7 DEF Kinds

LEMMA ProgressMovesPlan ==
    ASSUME PlanInv, Progress
    PROVE  PlanMoves
<1>1. WellFormed(plan) /\ Len(plan.stages) \in Nat
  BY PlanTyped DEF PlanInv
<1>2. ASSUME NEW t, NEW done \in BOOLEAN, UpdateTaskStatus(t, done)
      PROVE  PlanMoves
  <2>1. plan' = StatusUpdate(plan, t, done) /\ edits' = edits
    BY <1>2 DEF UpdateTaskStatus
  <2>2. \A E, S : /\ WellFormed(plan') /\ Len(plan'.stages) = Len(plan.stages)
                  /\ OnlyByHand(plan, E) => OnlyByHand(plan', E)
                  /\ CurrentStands(plan, E) => CurrentStands(plan', E)
                  /\ InOrder(plan, E, S) => InOrder(plan', E, S)
    BY <1>1, <2>1, StatusUpdateKeeps
  <2> QED
    BY <1>1, <2>1, <2>2 DEF PlanMoves
<1>3. ASSUME NEW s \in Sessions, ReadRepair(s)
      PROVE  PlanMoves
  BY <1>1, <1>3, PlanStays DEF ReadRepair
<1>4. ASSUME NEW s \in Sessions, WriteRepair(s)
      PROVE  PlanMoves
  <2>1. /\ plan' = Repair(plan, session[s].seen) /\ edits' = edits /\ session[s].op = "repair"
        /\ raced' = IF Outdated(s) THEN raced \cup {session[s].op} ELSE raced
    BY <1>4 DEF WriteRepair, Wrote
  <2>2. session[s].seen \in Plans
    BY <2>1 DEF PlanInv, PlanTypeOK
  <2>3. "repair" \notin raced' => session[s].seen = plan
    BY <2>1 DEF Outdated
  <2>4. \A E, S : /\ WellFormed(plan') /\ Len(plan'.stages) = Len(plan.stages)
                  /\ OnlyByHand(plan, E) => OnlyByHand(plan', E)
                  /\ session[s].seen = plan =>
                        /\ CurrentStands(plan, E) => CurrentStands(plan', E)
                        /\ InOrder(plan, E, S) => InOrder(plan', E, S)
    BY <1>1, <2>1, <2>2, RepairKeeps
  <2> QED
    BY <1>1, <2>1, <2>3, <2>4 DEF PlanMoves
<1> QED
  BY <1>2, <1>3, <1>4 DEF Progress

LEMMA HandMovesPlan ==
    ASSUME PlanInv, ByHand
    PROVE  PlanMoves
<1>1. WellFormed(plan) /\ Len(plan.stages) \in Nat
  BY PlanTyped DEF PlanInv
<1>2. \A kind, stages, statuses, new : ByHandOf(kind, stages, statuses, new) =>
         /\ edits'.stages = edits.stages \cup stages
         /\ edits'.statuses = edits.statuses \cup statuses
  BY DEF ByHandOf
<1>3. CASE AddStage
  <2>1. /\ plan' = CreateStage(plan)
        /\ edits'.stages = edits.stages /\ edits'.statuses = edits.statuses
    <3>1. edits'.stages = edits.stages \cup {} /\ edits'.statuses = edits.statuses \cup {}
      BY <1>2, <1>3 DEF AddStage
    <3> QED
      BY <1>3, <3>1 DEF AddStage
  <2>2. \A E, S : /\ WellFormed(plan') /\ Len(plan'.stages) >= Len(plan.stages)
                  /\ OnlyByHand(plan, E) => OnlyByHand(plan', E)
                  /\ CurrentStands(plan, E) => CurrentStands(plan', E)
                  /\ InOrder(plan, E, S) => InOrder(plan', E, S)
    BY <1>1, <2>1, CreateStageKeeps
  <2> QED
    BY <2>1, <2>2 DEF PlanMoves
<1>4. ASSUME NEW i \in DOMAIN plan.stages, AddTask(i)
      PROVE  PlanMoves
  <2>1. plan' = PersistTaskBreakdown(plan, i) /\ edits' = edits
    BY <1>4 DEF AddTask, CreateTask
  <2> QED
    BY <1>1, <2>1, BreakdownKeeps, PlanStays
<1>5. ASSUME NEW i \in DOMAIN plan.stages, NEW st \in StageStatus, EditStage(i, st)
      PROVE  PlanMoves
  <2>1. /\ plan' = UpdateStage(plan, i, st)
        /\ edits'.stages = edits.stages \cup {i} /\ edits'.statuses = edits.statuses
    <3>1. edits'.stages = edits.stages \cup {i} /\ edits'.statuses = edits.statuses \cup {}
      BY <1>2, <1>5 DEF EditStage
    <3> QED
      BY <1>5, <3>1 DEF EditStage
  <2>2. \A E, S, F : F = E \cup {i} =>
           /\ WellFormed(plan') /\ Len(plan'.stages) = Len(plan.stages)
           /\ OnlyByHand(plan, E) => OnlyByHand(plan', F)
           /\ CurrentStands(plan, E) => CurrentStands(plan', F)
           /\ InOrder(plan, E, S) => InOrder(plan', F, S)
    BY <1>1, <2>1, UpdateStageKeeps
  <2>3. /\ WellFormed(plan') /\ Len(plan'.stages) = Len(plan.stages)
        /\ OnlyByHand(plan, edits.stages) => OnlyByHand(plan', edits'.stages)
        /\ CurrentStands(plan, edits.stages) => CurrentStands(plan', edits'.stages)
        /\ InOrder(plan, edits.stages, edits.statuses) =>
              InOrder(plan', edits'.stages, edits'.statuses)
    BY <2>1, <2>2
  <2> QED
    BY <1>1, <2>3 DEF PlanMoves
<1>6. ASSUME NEW t, NEW done \in BOOLEAN, EditTask(t, done)
      PROVE  PlanMoves
  <2>1. /\ plan' = UpdateTask(plan, t, done)
        /\ edits'.stages = edits.stages /\ edits'.statuses = edits.statuses
    <3>1. edits'.stages = edits.stages \cup {} /\ edits'.statuses = edits.statuses \cup {}
      BY <1>2, <1>6 DEF EditTask
    <3> QED
      BY <1>6, <3>1 DEF EditTask
  <2>2. /\ WellFormed(plan') /\ plan'.stages = plan.stages /\ plan'.current = plan.current
        /\ plan'.status = plan.status
    BY <1>1, <2>1, SetTask
  <2> QED
    BY <1>1, <2>1, <2>2 DEF PlanMoves, OnlyByHand, CurrentStands, InOrder
<1>7. ASSUME NEW st \in ProjectStatus, EditStatus(st)
      PROVE  PlanMoves
  <2>1. /\ plan' = UpdateProject(plan, st)
        /\ edits'.stages = edits.stages /\ edits'.statuses = edits.statuses \cup {st}
    <3>1. edits'.stages = edits.stages \cup {} /\ edits'.statuses = edits.statuses \cup {st}
      BY <1>2, <1>7 DEF EditStatus
    <3> QED
      BY <1>7, <3>1 DEF EditStatus
  <2>2. \A E, S, T : T = S \cup {st} =>
           /\ WellFormed(plan') /\ Len(plan'.stages) = Len(plan.stages)
           /\ OnlyByHand(plan, E) => OnlyByHand(plan', E)
           /\ CurrentStands(plan, E) => CurrentStands(plan', E)
           /\ InOrder(plan, E, S) => InOrder(plan', E, T)
    BY <1>1, <2>1, UpdateProjectKeeps
  <2>3. /\ WellFormed(plan') /\ Len(plan'.stages) = Len(plan.stages)
        /\ OnlyByHand(plan, edits.stages) => OnlyByHand(plan', edits'.stages)
        /\ CurrentStands(plan, edits.stages) => CurrentStands(plan', edits'.stages)
        /\ InOrder(plan, edits.stages, edits.statuses) =>
              InOrder(plan', edits'.stages, edits'.statuses)
    BY <2>1, <2>2
  <2> QED
    BY <1>1, <2>3 DEF PlanMoves
<1>8. CASE EditCard
  <2>1. /\ plan' = plan
        /\ edits'.stages = edits.stages /\ edits'.statuses = edits.statuses
    <3>1. edits'.stages = edits.stages \cup {} /\ edits'.statuses = edits.statuses \cup {}
      BY <1>2, <1>8 DEF EditCard
    <3> QED
      BY <1>8, <3>1 DEF EditCard
  <2> QED
    BY <1>1, <2>1 DEF PlanMoves
<1> QED
  BY <1>3, <1>4, <1>5, <1>6, <1>7, <1>8 DEF ByHand

LEMMA NextMovesPlan ==
    ASSUME IInv, PlanInv, [Next]_vars
    PROVE  PlanMoves
<1>1. WellFormed(plan)
  BY PlanTyped DEF PlanInv
<1>2. CASE UNCHANGED <<plan, edits>>
  BY <1>1, <1>2, PlanStays
<1>3. CASE Draft
  <2>1. UNCHANGED <<plan, edits>>
    BY <1>3 DEF Draft, ReadDraft, WriteDraft
  <2> QED
    BY <1>2, <2>1
<1>4. CASE Decide
  <2>1. ASSUME NEW s \in Sessions, Extract(s) PROVE UNCHANGED <<plan, edits>>
    BY <2>1, ExtractWrites
  <2>2. ASSUME NEW s \in Sessions, WriteReject(s) PROVE UNCHANGED <<plan, edits>>
    BY <2>2 DEF WriteReject
  <2>3. UNCHANGED <<plan, edits>> \/ \E s \in Sessions : WriteConfirm(s)
    BY <1>4, <2>1, <2>2 DEF Decide, ReadConfirm, ReadReject
  <2> QED
    BY <1>2, <2>3, ConfirmMovesPlan
<1>5. CASE Progress
  BY <1>5, ProgressMovesPlan
<1>6. CASE ByHand
  BY <1>6, HandMovesPlan
<1>7. CASE Crash \/ (\E s \in Sessions : Fail(s)) \/ UNCHANGED vars
  <2>1. UNCHANGED <<plan, edits>>
    BY <1>7, Losses DEF vars
  <2> QED
    BY <1>2, <2>1
<1> QED
  BY <1>3, <1>4, <1>5, <1>6, <1>7 DEF Next

-----------------------------------------------------------------------------
(* Types *)

LEMMA LoadedType ==
    ASSUME PlanTypeOK, NEW p
    PROVE  Loaded(p) \in Plans
<1>1. plan \in Plans /\ EmptyPlan \in Plans
  BY EmptyIsWellFormed DEF PlanTypeOK, WellFormed
<1>2. <<>> \in Seq(Tasks)
  OBVIOUS
<1>3. [plan EXCEPT !.tasks = <<>>] \in Plans /\ [EmptyPlan EXCEPT !.tasks = plan.tasks] \in Plans
  BY <1>1, <1>2 DEF Plans
<1> QED
  BY <1>1, <1>3 DEF Loaded

\* The requests under way after a step: they were under way, they draft what the
\* plan has a place for, or they have read the plan.
LEMMA RequestsFollow ==
    ASSUME IInv, [Next]_vars, NEW x \in Sessions
    PROVE  \/ session'[x] = session[x]
           \/ session'[x].op \in {"idle", "reject"} \cup Extraction
           \/ /\ session'[x].op = "create" /\ session'[x].target \in Payloads(session'[x].key)
           \/ session'[x].op = "confirm" /\ \E p : session'[x].seen = Loaded(p)
           \/ session'[x].op = "repair" /\ session'[x].seen = plan
<1> DEFINE Follows(r) ==
             \/ r.op \in {"idle", "reject"} \cup Extraction
             \/ r.op = "create" /\ r.target \in Payloads(r.key)
             \/ r.op = "confirm" /\ \E p : r.seen = Loaded(p)
             \/ r.op = "repair" /\ r.seen = plan
<1>1. session = [s \in Sessions |-> session[s]]
  BY DEF IInv, DecisionTypeOK
<1>2. Follows(Idle) /\ (\A r : r.op \in Extraction => Follows(r))
  BY DEF Idle
<1>3. ASSUME NEW s \in Sessions, NEW r, Follows(r), session' = [session EXCEPT ![s] = r]
      PROVE  session'[x] = session[x] \/ Follows(session'[x])
  <2> HIDE DEF Follows
  <2> QED
    BY <1>1, <1>3
<1>4. CASE Draft
  <2>1. ASSUME NEW s \in Sessions, WriteDraft(s)
        PROVE  session'[x] = session[x] \/ Follows(session'[x])
    <3> HIDE DEF Follows
    <3> QED
      BY <1>2, <1>3, <2>1 DEF WriteDraft, Wrote
  <2>2. ASSUME NEW s \in Sessions, NEW k \in Keys, ReadDraft(s, k)
        PROVE  session'[x] = session[x] \/ Follows(session'[x])
    <3>1. PICK target \in Payloads(k) :
             session' = [session EXCEPT ![s] = [op |-> "create", key |-> k, target |-> target]]
      BY <2>2 DEF ReadDraft
    <3>2. Follows([op |-> "create", key |-> k, target |-> target])
      OBVIOUS
    <3> HIDE DEF Follows
    <3> QED
      BY <1>3, <3>1, <3>2
  <2> QED
    BY <1>4, <2>1, <2>2 DEF Draft
<1>5. CASE Decide
  <2>0. \A s, p, st, why, t, r : Decides(s, p, st, why, t, r) =>
           Follows(r) /\ session' = [session EXCEPT ![s] = r]
    BY DEF Decides, Extraction
  <2>1. ASSUME NEW s \in Sessions, WriteConfirm(s)
        PROVE  session'[x] = session[x] \/ Follows(session'[x])
    <3>1. PICK p, t : Decides(s, p, "confirmed", proposals[p].reason, t, AfterConfirm(p))
      BY <2>1, ConfirmWrites
    <3> HIDE DEF Follows
    <3> QED
      BY <1>3, <2>0, <3>1
  <2>2. ASSUME NEW s \in Sessions, WriteReject(s)
        PROVE  session'[x] = session[x] \/ Follows(session'[x])
    <3>1. \E p, why, given, t : Decides(s, p, "rejected", why, t, AfterReject(p, given))
      BY <2>2, RejectWrites
    <3> HIDE DEF Follows
    <3> QED
      BY <1>3, <2>0, <3>1
  <2>3. ASSUME NEW s \in Sessions, Extract(s)
        PROVE  session'[x] = session[x] \/ Follows(session'[x])
    <3>1. PICK r : /\ session' = [session EXCEPT ![s] = r]
                   /\ r.op = "idle" \/ r.op \in {"remember", "insert"}
      BY <2>3, ExtractWrites
    <3>2. Follows(r)
      BY <3>1 DEF Extraction
    <3> HIDE DEF Follows
    <3> QED
      BY <1>3, <3>1, <3>2
  <2>4. ASSUME NEW s \in Sessions, NEW p \in DOMAIN proposals, ReadConfirm(s, p)
        PROVE  session'[x] = session[x] \/ Follows(session'[x])
    <3>1. Follows([op |-> "confirm", p |-> p, seen |-> Loaded(p)])
      OBVIOUS
    <3> HIDE DEF Follows
    <3> QED
      BY <1>3, <2>4, <3>1 DEF ReadConfirm
  <2>5. ASSUME NEW s \in Sessions, NEW p \in DOMAIN proposals, ReadReject(s, p)
        PROVE  session'[x] = session[x] \/ Follows(session'[x])
    <3>1. Follows([op |-> "reject", p |-> p])
      OBVIOUS
    <3> HIDE DEF Follows
    <3> QED
      BY <1>3, <2>5, <3>1 DEF ReadReject
  <2> QED
    BY <1>5, <2>1, <2>2, <2>3, <2>4, <2>5 DEF Decide
<1>6. CASE Progress
  <2>1. ASSUME NEW t, NEW done, UpdateTaskStatus(t, done)
        PROVE  session'[x] = session[x]
    BY <2>1 DEF UpdateTaskStatus
  <2>2. ASSUME NEW s \in Sessions, ReadRepair(s)
        PROVE  session'[x] = session[x] \/ Follows(session'[x])
    <3>1. Follows([op |-> "repair", seen |-> plan])
      OBVIOUS
    <3> HIDE DEF Follows
    <3> QED
      BY <1>3, <2>2, <3>1 DEF ReadRepair
  <2>3. ASSUME NEW s \in Sessions, WriteRepair(s)
        PROVE  session'[x] = session[x] \/ Follows(session'[x])
    <3> HIDE DEF Follows
    <3> QED
      BY <1>2, <1>3, <2>3 DEF WriteRepair, Wrote
  <2> QED
    BY <1>6, <2>1, <2>2, <2>3 DEF Progress
<1>7. CASE ByHand \/ UNCHANGED vars
  BY <1>7, HandSteps DEF vars
<1>8. CASE Crash \/ \E s \in Sessions : Fail(s)
  <2>1. session'[x].op = "idle" \/ session'[x] = session[x]
    BY <1>8, Losses DEF Idle
  <2> QED
    BY <2>1
<1> QED
  BY <1>4, <1>5, <1>6, <1>7, <1>8 DEF Next

\* Proposals are written by drafts and decisions, and the records of them by these,
\* extractions and failures.
LEMMA DecidedByWrites ==
    ASSUME IInv, [Next]_vars
    PROVE  \/ UNCHANGED <<proposals, trail>>
           \/ \E s \in Sessions : WriteDraft(s)
           \/ \E s \in Sessions : WriteConfirm(s) \/ WriteReject(s)
           \/ /\ UNCHANGED proposals
              /\ \/ \E s \in Sessions : Extract(s)
                 \/ Crash \/ \E s \in Sessions : Fail(s)
<1>1. CASE Draft
  BY <1>1 DEF Draft, ReadDraft
<1>2. CASE Decide
  <2>1. ASSUME NEW s \in Sessions, Extract(s) PROVE UNCHANGED proposals
    BY <2>1, ExtractWrites
  <2> QED
    BY <1>2, <2>1 DEF Decide, ReadConfirm, ReadReject
<1>3. CASE Progress
  BY <1>3 DEF Progress, UpdateTaskStatus, ReadRepair, WriteRepair
<1>4. CASE ByHand \/ UNCHANGED vars
  BY <1>4, HandSteps DEF vars
<1>5. CASE Crash \/ \E s \in Sessions : Fail(s)
  BY <1>5, Losses
<1> QED
  BY <1>1, <1>2, <1>3, <1>4, <1>5 DEF Next

\* The proposals after a step: those of before, with their kinds and targets, and
\* the one that a request has drafted.
LEMMA ProposalsFollow ==
    ASSUME IInv, [Next]_vars, NEW p \in DOMAIN proposals'
    PROVE  \/ /\ p \in DOMAIN proposals /\ proposals'[p].kind = proposals[p].kind
              /\ proposals'[p].target = proposals[p].target
           \/ \E s \in Sessions :
                 /\ session[s].op = "create" /\ proposals'[p].kind = KindOf[session[s].key]
                 /\ proposals'[p].target = session[s].target
<1>1. proposals \in Seq(Proposal) /\ \A q \in DOMAIN proposals : proposals[q] \in Proposal
  BY OfProposal DEF IInv, DecisionTypeOK
<1>2. CASE UNCHANGED proposals
  BY <1>2
<1>3. ASSUME NEW s \in Sessions, WriteDraft(s)
      PROVE  \/ p \in DOMAIN proposals /\ proposals'[p] = proposals[p]
             \/ /\ session[s].op = "create" /\ proposals'[p].kind = KindOf[session[s].key]
                /\ proposals'[p].target = session[s].target
  <2> DEFINE n == Len(proposals) + 1
  <2>1. PICK new : new = [kind |-> KindOf[session[s].key], key |-> session[s].key,
                          target |-> session[s].target, status |-> "pending",
                          reason |-> None]
    OBVIOUS
  <2>2. proposals' = Append(proposals, new) /\ session[s].op = "create"
    BY <1>3, <2>1 DEF WriteDraft
  <2>3. /\ DOMAIN proposals' = 1..n /\ proposals'[n] = new /\ Len(proposals) \in Nat
        /\ DOMAIN proposals = 1..Len(proposals)
        /\ \A q \in 1..Len(proposals) : proposals'[q] = proposals[q]
    BY <1>1, <2>2
  <2>4. p = n \/ p \in 1..Len(proposals)
    BY <2>3
  <2> QED
    BY <2>1, <2>2, <2>3, <2>4
<1>4. \A s, d, st, why, u, r : s \in Sessions /\ d \in DOMAIN proposals /\ Decides(s, d, st, why, u, r)
         => /\ p \in DOMAIN proposals /\ proposals'[p].kind = proposals[p].kind
            /\ proposals'[p].target = proposals[p].target
  <2> SUFFICES ASSUME NEW s \in Sessions, NEW d \in DOMAIN proposals, NEW st, NEW why, NEW u,
                      NEW r, Decides(s, d, st, why, u, r)
               PROVE  /\ p \in DOMAIN proposals /\ proposals'[p].kind = proposals[p].kind
                      /\ proposals'[p].target = proposals[p].target
    OBVIOUS
  <2>1. /\ DOMAIN proposals' = DOMAIN proposals
        /\ proposals'[d].kind = proposals[d].kind /\ proposals'[d].target = proposals[d].target
        /\ \A q \in DOMAIN proposals : q # d => proposals'[q] = proposals[q]
    BY DecisionEffect
  <2> QED
    BY <2>1
<1>5. ASSUME NEW s \in Sessions, WriteConfirm(s) \/ WriteReject(s)
      PROVE  /\ p \in DOMAIN proposals /\ proposals'[p].kind = proposals[p].kind
             /\ proposals'[p].target = proposals[p].target
  <2>1. \E d \in DOMAIN proposals : \E st, why, u, r : Decides(s, d, st, why, u, r)
    <3>1. CASE WriteConfirm(s)
      BY <3>1, ConfirmWrites
    <3>2. CASE WriteReject(s)
      BY <3>2, RejectWrites
    <3> QED
      BY <1>5, <3>1, <3>2
  <2> QED
    BY <1>4, <2>1
<1>6. \/ UNCHANGED proposals
      \/ \E s \in Sessions : WriteDraft(s)
      \/ \E s \in Sessions : WriteConfirm(s) \/ WriteReject(s)
  BY DecidedByWrites
<1> QED
  BY <1>2, <1>3, <1>5, <1>6

\* The histories only grow, and keep their types.
HistoryGrows ==
    /\ raced \subseteq raced' /\ edits.stages \subseteq edits'.stages
    /\ raced' \subseteq {"create", "confirm", "reject", "repair"}
    /\ edits' \in [count : Nat, stages : SUBSET (DOMAIN plan.stages),
                   statuses : SUBSET ProjectStatus, card : BOOLEAN]

LEMMA HistoriesGrow ==
    ASSUME IInv, PlanInv, [Next]_vars
    PROVE  HistoryGrows
<1>1. /\ raced \subseteq {"create", "confirm", "reject", "repair"}
      /\ edits \in [count : Nat, stages : SUBSET (DOMAIN plan.stages),
                    statuses : SUBSET ProjectStatus, card : BOOLEAN]
  BY DEF PlanInv, PlanTypeOK
<1>2. CASE UNCHANGED <<raced, edits>>
  BY <1>1, <1>2 DEF HistoryGrows
<1>3. ASSUME NEW s \in Sessions, NEW next, Wrote(s, next), UNCHANGED edits,
             session[s].op \in {"create", "confirm", "reject", "repair"}
      PROVE  HistoryGrows
  BY <1>1, <1>3 DEF Wrote, HistoryGrows
<1>4. ASSUME NEW kind, NEW S \in SUBSET (DOMAIN plan.stages), NEW X \in SUBSET ProjectStatus,
             NEW new \in BOOLEAN, ByHandOf(kind, S, X, new)
      PROVE  HistoryGrows
  <2>1. edits' = [count |-> edits.count + 1, stages |-> edits.stages \cup S,
                  statuses |-> edits.statuses \cup X, card |-> edits.card \/ new]
    BY <1>4 DEF ByHandOf
  <2>2. /\ edits.count + 1 \in Nat /\ edits.stages \cup S \subseteq DOMAIN plan.stages
        /\ edits.statuses \cup X \subseteq ProjectStatus /\ (edits.card \/ new) \in BOOLEAN
    BY <1>1
  <2> QED
    BY <1>1, <1>4, <2>1, <2>2 DEF ByHandOf, HistoryGrows
<1>5. CASE Draft
  <2>1. \/ UNCHANGED <<raced, edits>>
        \/ \E s \in Sessions : Wrote(s, Idle) /\ UNCHANGED edits /\ session[s].op = "create"
    BY <1>5 DEF Draft, ReadDraft, WriteDraft
  <2> QED
    BY <1>2, <1>3, <2>1
<1>6. CASE Decide
  <2>1. \/ UNCHANGED <<raced, edits>>
        \/ \E s \in Sessions : WriteConfirm(s) \/ WriteReject(s)
    <3>1. ASSUME NEW s \in Sessions, Extract(s) PROVE UNCHANGED <<raced, edits>>
      BY <3>1, ExtractWrites
    <3> QED
      BY <1>6, <3>1 DEF Decide, ReadConfirm, ReadReject
  <2>2. ASSUME NEW s \in Sessions, WriteConfirm(s)
        PROVE  Wrote(s, AfterConfirm(session[s].p)) /\ UNCHANGED edits /\ session[s].op = "confirm"
    BY <2>2 DEF WriteConfirm
  <2>3. ASSUME NEW s \in Sessions, WriteReject(s)
        PROVE  /\ \E given : Wrote(s, AfterReject(session[s].p, given))
               /\ UNCHANGED edits /\ session[s].op = "reject"
    BY <2>3 DEF WriteReject
  <2> QED
    BY <1>2, <1>3, <2>1, <2>2, <2>3
<1>7. CASE Progress
  <2>1. \/ UNCHANGED <<raced, edits>>
        \/ \E s \in Sessions : Wrote(s, Idle) /\ UNCHANGED edits /\ session[s].op = "repair"
    BY <1>7 DEF Progress, UpdateTaskStatus, ReadRepair, WriteRepair
  <2> QED
    BY <1>2, <1>3, <2>1
<1>8. CASE ByHand
  <2>1. \/ UNCHANGED <<raced, edits>>
        \/ \E kind : ByHandOf(kind, {}, {}, FALSE) \/ ByHandOf(kind, {}, {}, TRUE)
        \/ \E kind : \E i \in DOMAIN plan.stages : ByHandOf(kind, {i}, {}, FALSE)
        \/ \E kind : \E st \in ProjectStatus : ByHandOf(kind, {}, {st}, FALSE)
    BY <1>8 DEF ByHand, AddStage, EditStage, AddTask, EditTask, EditStatus, EditCard
  <2> QED
    BY <1>2, <1>4, <2>1
<1>9. CASE Crash \/ (\E s \in Sessions : Fail(s)) \/ UNCHANGED vars
  <2>1. UNCHANGED <<raced, edits>>
    BY <1>9, Losses DEF vars
  <2> QED
    BY <1>2, <2>1
<1> QED
  BY <1>5, <1>6, <1>7, <1>8, <1>9 DEF Next

LEMMA InitPlanInv == Init => PlanInv
<1> SUFFICES ASSUME Init PROVE PlanInv
  OBVIOUS
<1>1. /\ plan = EmptyPlan /\ proposals = <<>> /\ DOMAIN proposals = {} /\ raced = {}
      /\ edits = [count |-> 0, stages |-> {}, statuses |-> {}, card |-> FALSE]
      /\ \A s \in Sessions : session[s].op = "idle"
  BY DEF Init, Idle
<1>2. WellFormed(plan)
  BY <1>1, EmptyIsWellFormed
<1>3. PlanTypeOK
  BY <1>1, <1>2 DEF PlanTypeOK, WellFormed
<1>4. TargetInv
  BY <1>1 DEF TargetInv
<1> QED
  BY <1>3, <1>4 DEF PlanInv

LEMMA NextPlanInv == IInv /\ PlanInv /\ [Next]_vars => PlanInv'
<1> SUFFICES ASSUME IInv, PlanInv, [Next]_vars PROVE PlanInv'
  OBVIOUS
<1>1. WellFormed(plan') /\ DOMAIN plan.stages \subseteq DOMAIN plan'.stages
  <2>1. WellFormed(plan') /\ Len(plan'.stages) >= Len(plan.stages)
    BY NextMovesPlan DEF PlanMoves
  <2>2. Len(plan.stages) \in Nat /\ DOMAIN plan.stages = 1..Len(plan.stages)
    BY PlanTyped DEF PlanInv
  <2>3. Len(plan'.stages) \in Nat /\ DOMAIN plan'.stages = 1..Len(plan'.stages)
    BY <2>1, OfPlan DEF WellFormed
  <2> QED
    BY <2>1, <2>2, <2>3
<1>2. ASSUME NEW s \in Sessions, session'[s].op \in {"confirm", "repair"}
      PROVE  session'[s].seen \in Plans
  <2>1. \A p : Loaded(p) \in Plans
    BY LoadedType DEF PlanInv
  <2>2. plan \in Plans
    BY DEF PlanInv, PlanTypeOK
  <2>3. session'[s] = session[s] \/ session'[s].seen = plan \/ \E p : session'[s].seen = Loaded(p)
    BY <1>2, RequestsFollow DEF Extraction
  <2> QED
    BY <1>2, <2>1, <2>2, <2>3 DEF PlanInv, PlanTypeOK
<1>3. PlanTypeOK'
  <2>1. /\ raced' \subseteq {"create", "confirm", "reject", "repair"}
        /\ edits' \in [count : Nat, stages : SUBSET (DOMAIN plan'.stages),
                       statuses : SUBSET ProjectStatus, card : BOOLEAN]
    BY <1>1, HistoriesGrow DEF HistoryGrows
  <2> QED
    BY <1>1, <1>2, <2>1 DEF PlanTypeOK, WellFormed
<1>4. ASSUME NEW s \in Sessions, session'[s].op = "create",
             KindOf[session'[s].key] = "breakdown"
      PROVE  session'[s].target.row \in DOMAIN plan'.stages
  <2>1. CASE session'[s] = session[s]
    BY <1>1, <1>4, <2>1 DEF PlanInv, TargetInv
  <2>2. CASE session'[s].target \in Payloads(session'[s].key)
    BY <1>1, <1>4, <2>2 DEF Payloads
  <2> QED
    BY <1>4, <2>1, <2>2, RequestsFollow DEF Extraction
<1>5. ASSUME NEW p \in DOMAIN proposals', proposals'[p].kind = "breakdown"
      PROVE  proposals'[p].target.row \in DOMAIN plan'.stages
  BY <1>1, <1>5, ProposalsFollow DEF PlanInv, TargetInv
<1> QED
  BY <1>3, <1>4, <1>5 DEF PlanInv, TargetInv

LEMMA SpecPlanInv == Spec => [](IInv /\ PlanInv)
<1> QED
  BY InitIInv, NextIInv, InitPlanInv, NextPlanInv, PTL DEF Spec

-----------------------------------------------------------------------------
(* Theorems about the plan *)

\* Every row, record and request has its type, and the stages, tasks and
\* proposals they point to exist: no step leaves the project with a current stage
\* or a task with a stage that is not there, the repair of any length included.
THEOREM TypesHold == Spec => []TypeOK
<1>1. IInv /\ PlanInv => TypeOK
  BY DEF IInv, PlanInv, TypeOK
<1> QED
  BY <1>1, SpecPlanInv, PTL

\* What CurrentIsLive rests on: who puts stages at risk and makes one current that
\* has not begun, and that the current stage stands.
LiveInv ==
    /\ OnlyByHand(plan, edits.stages)
    /\ "repair" \notin raced => CurrentStands(plan, edits.stages)

LEMMA SpecLiveInv == Spec => [](IInv /\ PlanInv /\ LiveInv)
<1>1. Init => LiveInv
  <2> SUFFICES ASSUME Init PROVE LiveInv
    OBVIOUS
  <2>1. plan = EmptyPlan
    BY DEF Init
  <2> QED
    BY <2>1, EmptyIsWellFormed DEF LiveInv, EmptyPlan, CurrentStands
<1>2. IInv /\ PlanInv /\ LiveInv /\ [Next]_vars => LiveInv'
  <2> SUFFICES ASSUME IInv, PlanInv, LiveInv, [Next]_vars PROVE LiveInv'
    OBVIOUS
  <2>1. OnlyByHand(plan', edits'.stages)
    BY NextMovesPlan DEF PlanMoves, LiveInv
  <2>2. "repair" \notin raced' => CurrentStands(plan', edits'.stages)
    <3>1. "repair" \notin raced' => "repair" \notin raced
      BY HistoriesGrow DEF HistoryGrows
    <3> QED
      BY <3>1, NextMovesPlan DEF PlanMoves, LiveInv
  <2> QED
    BY <2>1, <2>2 DEF LiveInv, OnlyByHand, CurrentStands
<1> QED
  BY <1>1, <1>2, SpecPlanInv, PTL DEF Spec

\* Plans, status updates and repairs leave the current stage a live one, whatever
\* the order in which they are read and written: only a status by hand makes it
\* another, or a repair of rows that had changed, and then it is a completed one
\* and not one that has not begun.
THEOREM CurrentStaysLive == Spec => []CurrentIsLive
<1>1. IInv /\ PlanInv /\ LiveInv => CurrentIsLive
  <2> SUFFICES ASSUME PlanInv, LiveInv, plan.current # None, plan.current \notin edits.stages,
                      ~IsLive(plan.stages[plan.current])
               PROVE  "repair" \in raced /\ plan.stages[plan.current].status = "completed"
    BY DEF CurrentIsLive
  <2>1. "repair" \in raced
    BY DEF LiveInv, CurrentStands
  <2>2. plan.current \in DOMAIN plan.stages /\ plan.stages[plan.current] \in Stages
    <3>1. plan \in Plans /\ plan.current \in DOMAIN plan.stages
      BY DEF PlanInv, PlanTypeOK
    <3> QED
      BY <3>1, OfPlan
  <2>3. plan.stages[plan.current].status # "pending"
    BY <2>2 DEF LiveInv, OnlyByHand
  <2> QED
    BY <2>1, <2>2, <2>3 DEF Stages, StageStatus, IsLive
<1> QED
  BY <1>1, SpecLiveInv, PTL

\* At most one element.
Single(S) == \A a, b \in S : a = b

\* What SerialPlan says, element by element.
SerialInv ==
    /\ "confirm" \notin raced /\ "repair" \notin raced =>
         InOrder(plan, edits.stages, edits.statuses)
    /\ "confirm" \notin raced /\ "reject" \notin raced =>
         \A p \in DOMAIN proposals : Decided(p) <= 1
    /\ "create" \notin raced =>
         (\A k \in Keys : Single(WithKey(k))) /\ Single(PendingReplans)

LEMMA SingleCount ==
    ASSUME NEW S, Single(S)
    PROVE  Cardinality(S) <= 1
<1>1. CASE S = {}
  BY <1>1, FS_EmptySet
<1>2. CASE S # {}
  <2>1. PICK x : S = {x}
    BY <1>2 DEF Single
  <2> QED
    BY <2>1, FS_Singleton
<1> QED
  BY <1>1, <1>2

\* A proposal is new, keeps its decisions, or is decided once more; a serial
\* request decides a proposal that was not decided.
LEMMA DecisionsFollow ==
    ASSUME IInv, [Next]_vars, NEW p \in DOMAIN proposals'
    PROVE  \/ Decided(p)' = 0
           \/ p \in DOMAIN proposals /\ Decided(p)' = Decided(p)
           \/ p \in DOMAIN proposals /\ Decided(p)' = Decided(p) + 1
              /\ ("confirm" \notin raced' /\ "reject" \notin raced' => Decided(p) = 0)
<1>1. /\ trail \in Seq(Trail) /\ proposals \in Seq(Proposal) /\ Len(trail) = Len(proposals)
      /\ DOMAIN trail = DOMAIN proposals /\ Len(trail) \in Nat
  BY DEF IInv, DecisionTypeOK
<1>2. CASE UNCHANGED <<trail, proposals>>
  BY <1>2 DEF Decided
<1>3. ASSUME NEW s \in Sessions, WriteDraft(s)
      PROVE  \/ Decided(p)' = 0
             \/ p \in DOMAIN proposals /\ Decided(p)' = Decided(p)
  <2> DEFINE n == Len(trail) + 1
  <2>1. trail' = Append(trail, NoTrail) /\ NoTrail \in Trail
    BY <1>3 DEF WriteDraft, NoTrail, Trail, RunEvents
  <2>2. /\ trail'[n] = NoTrail /\ \A q \in 1..Len(trail) : trail'[q] = trail[q]
    BY <1>1, <2>1, AppendProperties
  <2>3. PICK new : proposals' = Append(proposals, new)
    BY <1>3 DEF WriteDraft
  <2>4. DOMAIN proposals' = 1..n /\ DOMAIN proposals = 1..Len(trail)
    BY <1>1, <2>3
  <2>5. p = n \/ p \in 1..Len(trail)
    BY <1>1, <2>4
  <2>6. NoTrail.confirmed = 0 /\ NoTrail.rejected = 0
    BY DEF NoTrail
  <2>7. CASE p = n
    BY <2>2, <2>6, <2>7 DEF Decided
  <2>8. CASE p \in 1..Len(trail)
    BY <2>2, <2>4, <2>8 DEF Decided
  <2> QED
    BY <2>5, <2>7, <2>8
<1>4. ASSUME NEW s \in Sessions, WriteConfirm(s) \/ WriteReject(s)
      PROVE  /\ p \in DOMAIN proposals
             /\ \/ Decided(p)' = Decided(p)
                \/ Decided(p)' = Decided(p) + 1
                   /\ ("confirm" \notin raced' /\ "reject" \notin raced' => Decided(p) = 0)
  <2>1. PICK d : d = session[s].p
    OBVIOUS
  <2>2. /\ d \in DOMAIN proposals /\ session[s].op \in {"confirm", "reject"}
        /\ \E next : Wrote(s, next)
    BY <1>4, <2>1 DEF WriteConfirm, WriteReject, IInv, DecisionTypeOK
  <2>3. \E st, why, t, r : Decides(s, d, st, why, t, r)
    <3>1. CASE WriteConfirm(s)
      BY <2>1, <3>1, ConfirmWrites
    <3>2. CASE WriteReject(s)
      BY <2>1, <3>2, RejectWrites
    <3> QED
      BY <1>4, <3>1, <3>2
  <2>4. PICK st, why, t, r : Decides(s, d, st, why, t, r)
    BY <2>3
  <2>5. /\ DOMAIN proposals' = DOMAIN proposals /\ trail'[d] = t
        /\ \A q \in DOMAIN proposals : q # d => trail'[q] = trail[q]
    BY <2>2, <2>4, DecisionEffect
  <2>6. t.confirmed + t.rejected = Decided(d) + 1
    BY <2>4 DEF Decides
  <2>7. "confirm" \notin raced' /\ "reject" \notin raced' => MayDecide(d)
    BY <2>1, <2>2 DEF Wrote, Outdated
  <2>8. MayDecide(d) => Decided(d) = 0
    BY <2>2 DEF MayDecide, IInv, DecisionRecorded, Decided
  <2> QED
    BY <2>5, <2>6, <2>7, <2>8 DEF Decided
<1>5. ASSUME UNCHANGED proposals, (\E s \in Sessions : Extract(s)) \/ Crash \/ \E s \in Sessions : Fail(s)
      PROVE  p \in DOMAIN proposals /\ Decided(p)' = Decided(p)
  <2>1. p \in DOMAIN proposals
    BY <1>5
  <2>2. ASSUME NEW s \in Sessions, Extract(s)
        PROVE  trail'[p].confirmed = trail[p].confirmed /\ trail'[p].rejected = trail[p].rejected
    <3>1. PICK d : d = session[s].p
      OBVIOUS
    <3>2. CASE trail' = trail
      BY <3>2
    <3>3. CASE session[s].op = "insert" /\ trail' = Inserted(d, session[s].memory, session[s].old)
      <4>1. d \in DOMAIN proposals /\ session[s].memory \in Memories
        BY <3>1, <3>3 DEF IInv, DecisionTypeOK, Extraction
      <4>2. /\ trail'[d].confirmed = trail[d].confirmed /\ trail'[d].rejected = trail[d].rejected
            /\ \A q \in DOMAIN proposals : q # d => trail'[q] = trail[q]
        BY <3>3, <4>1, InsertEffect
      <4> QED
        BY <2>1, <4>2
    <3> QED
      BY <2>2, <3>1, <3>2, <3>3, ExtractWrites
  <2>3. ASSUME Crash \/ \E s \in Sessions : Fail(s)
        PROVE  trail'[p].confirmed = trail[p].confirmed /\ trail'[p].rejected = trail[p].rejected
    <3>1. PICK S \in SUBSET Sessions : trail' = [q \in DOMAIN trail |-> LostBy(S, q)]
      BY <2>3, Losses
    <3> QED
      BY <1>1, <2>1, <3>1, LostByType
  <2> QED
    BY <1>5, <2>1, <2>2, <2>3 DEF Decided
<1> QED
  BY <1>2, <1>3, <1>4, <1>5, DecidedByWrites

\* The proposals of a tool call, and the replans that wait, become more only by a
\* draft; a serial draft is the first of its call, and its replan waits alone.
LEMMA DraftsFollow ==
    ASSUME IInv, [Next]_vars, "create" \notin raced'
    PROVE  /\ \A k \in Keys : Single(WithKey(k)) => Single(WithKey(k)')
           /\ Single(PendingReplans) => Single(PendingReplans')
<1>1. proposals \in Seq(Proposal) /\ \A q \in DOMAIN proposals : proposals[q] \in Proposal
  BY OfProposal DEF IInv, DecisionTypeOK
<1>2. CASE UNCHANGED proposals
  BY <1>2 DEF WithKey, PendingReplans, Single
<1>3. ASSUME NEW s \in Sessions, WriteDraft(s)
      PROVE  /\ \A k \in Keys : Single(WithKey(k)) => Single(WithKey(k)')
             /\ Single(PendingReplans) => Single(PendingReplans')
  <2> DEFINE n == Len(proposals) + 1
             j == session[s].key
  <2>1. PICK new : new = [kind |-> KindOf[j], key |-> j,
                          target |-> session[s].target, status |-> "pending",
                          reason |-> None]
    OBVIOUS
  <2>2. /\ proposals' = Append(proposals, new) /\ session[s].op = "create"
        /\ Wrote(s, Idle)
    BY <1>3, <2>1 DEF WriteDraft
  <2>3. /\ DOMAIN proposals' = 1..n /\ proposals'[n] = new /\ Len(proposals) \in Nat
        /\ DOMAIN proposals = 1..Len(proposals)
        /\ \A q \in 1..Len(proposals) : proposals'[q] = proposals[q]
    BY <1>1, <2>2
  <2>4. /\ WithKey(j) = {}
        /\ KindOf[j] = "replan" => PendingReplans = {}
    BY <2>2 DEF Wrote, Outdated, MayDraft
  <2>5. ASSUME NEW q \in DOMAIN proposals'
        PROVE  \/ q = n /\ proposals'[q] = new
               \/ q \in DOMAIN proposals /\ proposals'[q] = proposals[q]
    <3>1. q = n \/ q \in 1..Len(proposals)
      BY <2>3
    <3>2. CASE q = n
      BY <2>3, <3>2
    <3>3. CASE q \in 1..Len(proposals)
      BY <2>3, <3>3
    <3> QED
      BY <3>1, <3>2, <3>3
  <2>6. \A k \in Keys : WithKey(k)' \subseteq (IF k = j THEN {n} ELSE WithKey(k))
    BY <2>1, <2>4, <2>5 DEF WithKey
  <2>7. PendingReplans' \subseteq (IF KindOf[j] = "replan" THEN {n} ELSE PendingReplans)
    BY <2>1, <2>4, <2>5 DEF PendingReplans
  <2> QED
    BY <2>6, <2>7 DEF Single
<1>4. ASSUME NEW s \in Sessions, NEW d \in DOMAIN proposals, NEW st, NEW why, NEW t, NEW r,
             Decides(s, d, st, why, t, r)
      PROVE  (\A k \in Keys : WithKey(k)' \subseteq WithKey(k)) /\ PendingReplans' \subseteq PendingReplans
  <2>1. /\ DOMAIN proposals' = DOMAIN proposals /\ st \in {"confirmed", "rejected"}
        /\ proposals'[d].status = st
        /\ proposals'[d].kind = proposals[d].kind /\ proposals'[d].key = proposals[d].key
        /\ \A q \in DOMAIN proposals : q # d => proposals'[q] = proposals[q]
    <3>1. st \in {"confirmed", "rejected"}
      BY <1>4 DEF Decides
    <3> QED
      BY <1>4, <3>1, DecisionEffect
  <2>2. ASSUME NEW p \in DOMAIN proposals'
        PROVE  /\ p \in DOMAIN proposals /\ proposals'[p].kind = proposals[p].kind
               /\ proposals'[p].key = proposals[p].key
               /\ proposals'[p].status = proposals[p].status \/ proposals'[p].status = st
    BY <2>1
  <2> QED
    BY <2>1, <2>2 DEF WithKey, PendingReplans
<1>5. ASSUME NEW s \in Sessions, WriteConfirm(s) \/ WriteReject(s)
      PROVE  /\ \A k \in Keys : Single(WithKey(k)) => Single(WithKey(k)')
             /\ Single(PendingReplans) => Single(PendingReplans')
  <2>1. PICK d : d = session[s].p
    OBVIOUS
  <2>2. d \in DOMAIN proposals /\ \E st, why, t, r : Decides(s, d, st, why, t, r)
    <3>1. CASE WriteConfirm(s)
      BY <2>1, <3>1, ConfirmWrites
    <3>2. CASE WriteReject(s)
      BY <2>1, <3>2, RejectWrites
    <3> QED
      BY <1>5, <3>1, <3>2
  <2>3. (\A k \in Keys : WithKey(k)' \subseteq WithKey(k)) /\ PendingReplans' \subseteq PendingReplans
    BY <1>4, <2>2
  <2> QED
    BY <2>3 DEF Single
<1> QED
  BY <1>2, <1>3, <1>5, DecidedByWrites

LEMMA InitSerial == Init => SerialInv
<1> SUFFICES ASSUME Init PROVE SerialInv
  OBVIOUS
<1>1. /\ plan = EmptyPlan /\ proposals = <<>> /\ DOMAIN proposals = {}
  BY DEF Init
<1>2. (\A k : WithKey(k) = {}) /\ PendingReplans = {}
  BY <1>1 DEF WithKey, PendingReplans
<1> QED
  BY <1>1, <1>2, EmptyIsWellFormed DEF SerialInv, Single

LEMMA NextSerial == IInv /\ PlanInv /\ LiveInv /\ SerialInv /\ [Next]_vars => SerialInv'
<1> SUFFICES ASSUME IInv, PlanInv, LiveInv, SerialInv, [Next]_vars PROVE SerialInv'
  OBVIOUS
<1>1. raced \subseteq raced'
  BY HistoriesGrow DEF HistoryGrows
<1>2. "confirm" \notin raced' /\ "repair" \notin raced' =>
          InOrder(plan', edits'.stages, edits'.statuses)
  BY <1>1, NextMovesPlan DEF PlanMoves, LiveInv, SerialInv
<1>3. ASSUME "confirm" \notin raced', "reject" \notin raced', NEW p \in DOMAIN proposals'
      PROVE  Decided(p)' <= 1
  <2>1. \A q \in DOMAIN proposals : Decided(q) <= 1
    BY <1>1, <1>3 DEF SerialInv
  <2> QED
    BY <1>3, <2>1, DecisionsFollow
<1>4. ASSUME "create" \notin raced'
      PROVE  (\A k \in Keys : Single(WithKey(k)')) /\ Single(PendingReplans')
  <2>1. (\A k \in Keys : Single(WithKey(k))) /\ Single(PendingReplans)
    BY <1>1, <1>4 DEF SerialInv
  <2> QED
    BY <1>4, <2>1, DraftsFollow
<1> QED
  BY <1>2, <1>3, <1>4 DEF SerialInv, InOrder, Single

\* Each disorder comes from one kind of overlap or was made by hand.  While no
\* confirmation and no repair writes on the basis of rows that had changed, the
\* current stage is the only live one apart from stages given a status by hand,
\* and its project is active or has a status given by hand; while no confirmation
\* and no rejection does, a proposal is decided once; and while no draft does, a
\* tool call has one proposal and one replan waits.
THEOREM SerialProject == Spec => []SerialPlan
<1>1. IInv /\ PlanInv /\ LiveInv /\ SerialInv => SerialPlan
  <2> SUFFICES ASSUME PlanInv, SerialInv PROVE SerialPlan
    OBVIOUS
  <2>1. ASSUME raced \cap {"confirm", "repair"} = {}
        PROVE  /\ LiveStages(plan) \ edits.stages = {plan.current} \ ({None} \cup edits.stages)
               /\ plan.current # None => plan.status \in {"active"} \cup edits.statuses
    <3>1. InOrder(plan, edits.stages, edits.statuses)
      BY <2>1 DEF SerialInv
    <3>2. None \notin DOMAIN plan.stages /\ plan.current \in DOMAIN plan.stages \cup {None}
      <4>1. WellFormed(plan) /\ DOMAIN plan.stages = 1..Len(plan.stages)
        BY PlanTyped DEF PlanInv
      <4> QED
        BY <4>1, NoneAssumption DEF WellFormed
    <3> QED
      BY <3>1, <3>2 DEF InOrder, LiveStages
  <2>2. ASSUME raced \cap {"confirm", "reject"} = {}, NEW p \in DOMAIN proposals
        PROVE  trail[p].confirmed + trail[p].rejected <= 1
    BY <2>2 DEF SerialInv, Decided
  <2>3. ASSUME "create" \notin raced
        PROVE  (\A k \in Keys : Cardinality(WithKey(k)) <= 1) /\ Cardinality(PendingReplans) <= 1
    BY <2>3, SingleCount DEF SerialInv
  <2> QED
    BY <2>1, <2>2, <2>3 DEF SerialPlan
<1> QED
  BY <1>1, InitSerial, NextSerial, SpecLiveInv, PTL DEF Spec
=============================================================================
