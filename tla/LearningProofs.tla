---------------------------- MODULE LearningProofs ----------------------------
(***************************************************************************)
(* Proofs about the learning loop and the draft it evolves, for every set  *)
(* of runs, workflows and requests, whatever rejects and however often the *)
(* server restarts.                                                        *)
(***************************************************************************)
EXTENDS LearningLoop, TLAPS

-----------------------------------------------------------------------------
(* The type of a draft under the changes the code makes to it.             *)

Op == {"apply", "approve", "rollback"}
Artifacts == Artifact \cup {NoArtifact}

LEMMA DraftFields ==
  ASSUME NEW d \in Draft
  PROVE  /\ d.compiled \in Artifacts /\ d.infra \in Plan
         /\ d.versions \in Seq(Version) /\ d.rollback \in Artifacts
         /\ d.pending \in Requests \cup {None} /\ d.parts \in SUBSET Workflows
BY DEF Draft, Artifacts

LEMMA DraftUpdates ==
  ASSUME NEW d \in Draft
  PROVE  /\ \A x \in Artifacts : LET e == [d EXCEPT !.compiled = x] IN
              e \in Draft /\ e.infra = d.infra /\ e.versions = d.versions
              /\ e.parts = d.parts
         /\ \A x \in Plan : LET e == [d EXCEPT !.infra = x] IN
              e \in Draft /\ e.infra = x /\ e.versions = d.versions
              /\ e.parts = d.parts
         /\ \A x \in Requests \cup {None} : LET e == [d EXCEPT !.pending = x] IN
              e \in Draft /\ e.infra = d.infra /\ e.versions = d.versions
              /\ e.parts = d.parts
         /\ \A w \in Workflows : LET e == [d EXCEPT !.parts = @ \cup {w}] IN
              e \in Draft /\ e.infra = d.infra /\ e.versions = d.versions
              /\ d.parts \subseteq e.parts
<1>1. ASSUME NEW x \in Artifacts
      PROVE  LET e == [d EXCEPT !.compiled = x] IN
               e \in Draft /\ e.infra = d.infra /\ e.versions = d.versions
               /\ e.parts = d.parts
  BY DEF Draft, Artifacts
<1>2. ASSUME NEW x \in Plan
      PROVE  LET e == [d EXCEPT !.infra = x] IN
               e \in Draft /\ e.infra = x /\ e.versions = d.versions
               /\ e.parts = d.parts
  BY DEF Draft
<1>3. ASSUME NEW x \in Requests \cup {None}
      PROVE  LET e == [d EXCEPT !.pending = x] IN
               e \in Draft /\ e.infra = d.infra /\ e.versions = d.versions
               /\ e.parts = d.parts
  BY DEF Draft
<1>4. ASSUME NEW w \in Workflows
      PROVE  LET e == [d EXCEPT !.parts = @ \cup {w}] IN
               e \in Draft /\ e.infra = d.infra /\ e.versions = d.versions
               /\ d.parts \subseteq e.parts
  BY DEF Draft
<1>5. QED BY <1>1, <1>2, <1>3, <1>4

LEMMA EvolveFacts ==
  ASSUME draft \in Draft, NEW op \in Op, NEW by \in Learners, NEW a \in Artifacts
  PROVE  LET e == Evolve(op, by, a) IN
           /\ e \in Draft /\ e.infra = draft.infra /\ e.parts = draft.parts
           /\ e.versions = Append(draft.versions, [op |-> op, by |-> by])
<1> DEFINE v == [op |-> op, by |-> by]
<1>1. v \in Version
  BY DEF Version, Op
<1>2. Append(draft.versions, v) \in Seq(Version) /\ draft.compiled \in Artifacts
  BY <1>1, DraftFields
<1> HIDE DEF v
<1>3. [draft EXCEPT !.versions = Append(@, v),
                    !.rollback = draft.compiled, !.compiled = a]
      = [draft EXCEPT !.versions = Append(draft.versions, v),
                      !.rollback = draft.compiled, !.compiled = a]
  BY DEF Draft
<1> DEFINE n == Append(draft.versions, v)
<1> HIDE DEF n
<1>4. LET e == [draft EXCEPT !.versions = n, !.rollback = draft.compiled, !.compiled = a]
      IN  /\ e \in Draft /\ e.infra = draft.infra /\ e.parts = draft.parts
          /\ e.versions = n
  <2>1. n \in Seq(Version) /\ draft.compiled \in Artifacts
    BY <1>2 DEF n
  <2>2. QED BY <2>1 DEF Draft, Artifacts
<1>5. QED BY <1>3, <1>4 DEF Evolve, n, v

\* validateAndApply() by a run, or with the plan of a request.
LEMMA ApplyFacts ==
  ASSUME draft \in Draft, NEW l \in Learners, NEW plan, Apply(l, plan),
         plan # None => l \in Requests /\ plan \in {"safe", "risky"}
  PROVE  /\ draft' \in Draft /\ draft'.parts = draft.parts
         /\ draft'.versions = Append(draft.versions, [op |-> "apply", by |-> l])
         /\ draft'.infra = draft.infra \/ draft'.infra.kind = "safe"
         /\ appended' = appended \cup {l}
         /\ UNCHANGED <<flow, copy, approved>>
<1> DEFINE a == [draft.compiled EXCEPT !.learned = l]
           next1 == Evolve("apply", l, a)
<1>1. a \in Artifacts
  <2>1. draft.compiled \in Artifact
    BY DraftFields DEF Apply, Artifacts
  <2>2. QED BY <2>1 DEF Artifact, Artifacts
<1>2. "apply" \in Op
  BY DEF Op
<1>3. /\ next1 \in Draft /\ next1.infra = draft.infra /\ next1.parts = draft.parts
      /\ next1.versions = Append(draft.versions, [op |-> "apply", by |-> l])
  BY <1>1, <1>2, EvolveFacts
<1>4. \/ draft' = next1
      \/ l \in Requests /\ draft' = [next1 EXCEPT !.pending = l]
      \/ l \in Requests /\ draft' = [next1 EXCEPT !.infra = [by |-> l, kind |-> "safe"]]
  BY DEF Apply, None
<1>0. appended' = appended \cup {l} /\ UNCHANGED <<flow, copy, approved>>
  BY DEF Apply
<1> HIDE DEF next1
<1>5. CASE draft' = next1
  BY <1>0, <1>3, <1>5
<1>6. CASE l \in Requests /\ draft' = [next1 EXCEPT !.pending = l]
  <2>1. draft' \in Draft /\ draft'.infra = next1.infra
        /\ draft'.versions = next1.versions /\ draft'.parts = next1.parts
    BY <1>3, <1>6, DraftUpdates
  <2>2. QED BY <1>0, <1>3, <2>1
<1>7. CASE l \in Requests /\ draft' = [next1 EXCEPT !.infra = [by |-> l, kind |-> "safe"]]
  <2>1. [by |-> l, kind |-> "safe"] \in Plan
    BY <1>7 DEF Plan
  <2>2. draft' \in Draft /\ draft'.infra = [by |-> l, kind |-> "safe"]
        /\ draft'.versions = next1.versions /\ draft'.parts = next1.parts
    BY <1>3, <1>7, <2>1, DraftUpdates
  <2>3. draft'.infra.kind = "safe"
    BY <2>2
  <2>4. QED BY <1>0, <1>3, <2>2, <2>3
<1>8. QED BY <1>4, <1>5, <1>6, <1>7

LEMMA ApproveFacts ==
  ASSUME draft \in Draft, NEW q \in Requests, NEW p \in Requests, Approve(q, p)
  PROVE  /\ draft' \in Draft /\ draft'.parts = draft.parts
         /\ UNCHANGED <<flow, copy, appended>>
         /\ \/ draft' = draft /\ approved' = approved
            \/ /\ draft'.versions = Append(draft.versions, [op |-> "approve", by |-> q])
               /\ draft'.infra.by = p /\ approved' = approved \cup {p}
<1>1. CASE draft' = draft /\ approved' = approved
  BY <1>1 DEF Approve
<1>2. CASE /\ draft' = [Evolve("approve", q, draft.compiled) EXCEPT
                          !.infra = [by |-> p, kind |-> "risky"], !.pending = None]
           /\ approved' = approved \cup {p}
  <2> DEFINE e == Evolve("approve", q, draft.compiled)
             plan == [by |-> p, kind |-> "risky"]
             f == [e EXCEPT !.infra = plan]
  <2>1. /\ e \in Draft /\ e.parts = draft.parts
        /\ e.versions = Append(draft.versions, [op |-> "approve", by |-> q])
    BY EvolveFacts, DraftFields DEF Op, Learners
  <2>2. plan \in Plan
    BY DEF Plan
  <2> HIDE DEF e, plan
  <2>3. f \in Draft /\ f.infra = plan /\ f.versions = e.versions /\ f.parts = e.parts
    BY <2>1, <2>2, DraftUpdates
  <2>4. draft' = [f EXCEPT !.pending = None]
    BY <1>2, <2>1 DEF e, plan
  <2> HIDE DEF f
  <2>5. draft' \in Draft /\ draft'.infra = plan /\ draft'.versions = f.versions
        /\ draft'.parts = f.parts
    BY <2>3, <2>4, DraftUpdates
  <2>6. draft'.infra.by = p
    BY <2>5 DEF plan
  <2>7. QED BY <1>2, <2>1, <2>3, <2>5, <2>6 DEF Approve
<1>3. QED BY <1>1, <1>2 DEF Approve

LEMMA RollbackFacts ==
  ASSUME draft \in Draft, NEW q \in Requests, Rollback(q)
  PROVE  /\ draft' \in Draft /\ draft'.parts = draft.parts
         /\ draft'.infra = draft.infra
         /\ UNCHANGED <<flow, copy, appended, approved>>
         /\ \/ draft' = draft
            \/ draft'.versions = Append(draft.versions, [op |-> "rollback", by |-> q])
<1>1. CASE draft' = draft
  BY <1>1 DEF Rollback
<1>2. CASE draft' = Evolve("rollback", q, draft.rollback)
  BY <1>2, EvolveFacts, DraftFields DEF Op, Learners, Rollback
<1>3. QED BY <1>1, <1>2 DEF Rollback

\* A draft a workflow derives from one it read.
From(d, e) ==
  /\ d \in Draft
  /\ d.versions = e.versions
  /\ d.infra = e.infra \/ d.infra.by \in Workflows

LEMMA MadeFacts ==
  ASSUME NEW e \in Draft, NEW w \in Workflows, NEW d \in Made(e, w)
  PROVE  From(d, e)
<1> DEFINE f == [e EXCEPT !.parts = @ \cup {w}]
           a == [by |-> w, learned |-> None]
           plan(k) == [by |-> w, kind |-> k]
<1>1. f \in Draft /\ f.infra = e.infra /\ f.versions = e.versions
  BY DraftUpdates
<1>2. \/ d = f
      \/ w \in Compiles /\ d = [f EXCEPT !.compiled = a]
      \/ \E k \in {"safe", "risky"} : d = [f EXCEPT !.infra = plan(k)]
  BY DEF Made
<1> HIDE DEF f
<1>3. CASE d = f
  BY <1>1, <1>3 DEF From
<1>4. CASE w \in Compiles /\ d = [f EXCEPT !.compiled = a]
  <2>1. a \in Artifacts
    BY <1>4 DEF Artifact, Artifacts
  <2>2. QED BY <1>1, <1>4, <2>1, DraftUpdates DEF From
<1>5. CASE \E k \in {"safe", "risky"} : d = [f EXCEPT !.infra = plan(k)]
  <2>1. PICK k \in {"safe", "risky"} : d = [f EXCEPT !.infra = plan(k)]
    BY <1>5
  <2>2. plan(k) \in Plan /\ plan(k).by \in Workflows
    BY DEF Plan
  <2> HIDE DEF plan
  <2>3. d \in Draft /\ d.infra = plan(k) /\ d.versions = f.versions
    BY <1>1, <2>1, <2>2, DraftUpdates
  <2>4. QED BY <1>1, <2>2, <2>3 DEF From
<1>6. QED BY <1>2, <1>3, <1>4, <1>5

LEMMA MadeKeepsParts ==
  ASSUME NEW e \in Draft, NEW w \in Workflows, NEW d \in Made(e, w)
  PROVE  d.versions = e.versions /\ e.parts \subseteq d.parts
<1> DEFINE f == [e EXCEPT !.parts = @ \cup {w}]
<1>1. f.versions = e.versions /\ e.parts \subseteq f.parts
  BY DEF Draft
<1>2. \/ d = f
      \/ d = [f EXCEPT !.compiled = [by |-> w, learned |-> None]]
      \/ \E k \in {"safe", "risky"} : d = [f EXCEPT !.infra = [by |-> w, kind |-> k]]
  BY DEF Made
<1>3. QED BY <1>1, <1>2 DEF Draft

LEMMA NoDraftType ==
  /\ NoDraft \in Draft /\ NoDraft.versions = <<>> /\ NoDraft.infra.kind = "safe"
  /\ \A a \in Artifacts : LET d == NewDraft(a) IN
       d \in Draft /\ d.versions = <<>> /\ d.infra.kind = "safe"
<1>1. ASSUME NEW a \in Artifacts
      PROVE  LET d == NewDraft(a) IN
               d \in Draft /\ d.versions = <<>> /\ d.infra.kind = "safe"
  <2>1. [by |-> None, kind |-> "safe"] \in Plan
    BY DEF Plan
  <2>2. <<>> \in Seq(Version) /\ {} \in SUBSET Workflows /\ NoArtifact \in Artifacts
    BY DEF Artifacts
  <2>3. QED BY <2>1, <2>2 DEF NewDraft, Draft, Artifacts
<1>2. NoArtifact \in Artifacts
  BY DEF Artifacts
<1>3. QED BY <1>1, <1>2 DEF NoDraft
-----------------------------------------------------------------------------
(* What holds of the draft and of every copy a workflow works on: a risky   *)
(* plan of a request is an approved one, and a run is in the versions once  *)
(* at most.                                                                 *)

Safe(d, a) == d.infra.kind = "risky" /\ d.infra.by \in Requests => d.infra.by \in a

OnceIn(d, a) ==
  \A i \in DOMAIN d.versions :
    d.versions[i].op = "apply" /\ d.versions[i].by \in Runs =>
      /\ d.versions[i].by \in a
      /\ \A j \in DOMAIN d.versions :
           d.versions[j].op = "apply" /\ d.versions[j].by = d.versions[i].by => i = j

DInv ==
  /\ DraftsTypeOK
  /\ Safe(draft, approved) /\ OnceIn(draft, appended)
  /\ \A w \in Workflows : Safe(copy[w], approved) /\ OnceIn(copy[w], appended)

LEMMA FromKeeps ==
  ASSUME DraftsAssumption, NEW d, NEW e, From(d, e), NEW a, NEW b, Safe(e, a),
         OnceIn(e, b)
  PROVE  Safe(d, a) /\ OnceIn(d, b)
BY DEF DraftsAssumption, From, Safe, OnceIn

LEMMA GrowKeeps ==
  ASSUME NEW e, NEW a, NEW b, NEW a2, NEW b2, a \subseteq a2, b \subseteq b2,
         Safe(e, a), OnceIn(e, b)
  PROVE  Safe(e, a2) /\ OnceIn(e, b2)
BY DEF Safe, OnceIn

LEMMA AppendOnce ==
  ASSUME NEW d \in Draft, NEW e \in Draft, NEW v \in Version,
         d.versions = Append(e.versions, v), NEW b, OnceIn(e, b),
         v.op = "apply" /\ v.by \in Runs => v.by \notin b
  PROVE  OnceIn(d, b \cup {v.by})
<1>1. e.versions \in Seq(Version)
  BY DraftFields
<1>2. PICK n \in Nat : n = Len(e.versions) + 1
  BY <1>1
<1>3. /\ DOMAIN d.versions = DOMAIN e.versions \cup {n} /\ n \notin DOMAIN e.versions
      /\ d.versions[n] = v
      /\ \A i \in DOMAIN e.versions : d.versions[i] = e.versions[i]
  BY <1>1, <1>2
<1>4. QED BY <1>3 DEF OnceIn

LEMMA AppendOther ==
  ASSUME NEW d \in Draft, NEW e \in Draft, NEW v \in Version,
         d.versions = Append(e.versions, v), NEW b, OnceIn(e, b), v.op # "apply"
  PROVE  OnceIn(d, b)
<1>1. e.versions \in Seq(Version)
  BY DraftFields
<1>2. PICK n \in Nat : n = Len(e.versions) + 1
  BY <1>1
<1>3. /\ DOMAIN d.versions = DOMAIN e.versions \cup {n} /\ n \notin DOMAIN e.versions
      /\ d.versions[n] = v
      /\ \A i \in DOMAIN e.versions : d.versions[i] = e.versions[i]
  BY <1>1, <1>2
<1>4. QED BY <1>3 DEF OnceIn

LEMMA BuilderKeeps ==
  ASSUME DInv, NEW w \in Workflows, Read(w) \/ Save(w) \/ GivesUp(w) \/ SaveAtOnce(w)
  PROVE  DInv'
<1>0. /\ DraftsTypeOK /\ draft \in Draft /\ copy \in [Workflows -> Draft]
      /\ flow \in [Workflows -> {"new", "working", "saved", "done"}]
      /\ UNCHANGED <<request, appended, approved>>
  BY DEF DInv, DraftsTypeOK, Read, Save, GivesUp, SaveAtOnce
<1>1. flow' \in [Workflows -> {"new", "working", "saved", "done"}]
  BY <1>0 DEF Read, Save, GivesUp, SaveAtOnce
<1>2. PICK e \in {draft} \cup {copy[v] : v \in Workflows} : From(draft', e)
  <2>1. CASE draft' = draft
    BY <1>0, <2>1 DEF From
  <2>2. ASSUME draft' \in Made(copy[w], w) PROVE From(draft', copy[w])
    BY <1>0, <2>2, MadeFacts
  <2>3. CASE draft' = [draft EXCEPT !.parts = @ \cup {w}]
    BY <1>0, <2>3, DraftUpdates DEF From
  <2>4. QED BY <2>1, <2>2, <2>3 DEF Read, Save, GivesUp, SaveAtOnce
<1>3. \/ copy' = [copy EXCEPT ![w] = draft']
      \/ copy' = [copy EXCEPT ![w] = NoDraft]
      \/ copy' = copy
  BY DEF Read, Save, GivesUp, SaveAtOnce
<1>4. Safe(e, approved) /\ OnceIn(e, appended) /\ draft' \in Draft
  BY <1>2 DEF DInv, From
<1>5. Safe(draft', approved') /\ OnceIn(draft', appended')
  BY <1>0, <1>2, <1>4, FromKeeps, DraftsAssumption
<1>6. Safe(NoDraft, approved') /\ OnceIn(NoDraft, appended')
  BY NoDraftType DEF Safe, OnceIn
<1>7. copy' \in [Workflows -> Draft]
  BY <1>0, <1>3, <1>4, NoDraftType
<1>8. ASSUME NEW v \in Workflows
      PROVE  Safe(copy'[v], approved') /\ OnceIn(copy'[v], appended')
  <2>1. Safe(copy[v], approved') /\ OnceIn(copy[v], appended')
    BY <1>0 DEF DInv
  <2>2. copy'[v] \in {copy[v], draft', NoDraft}
    BY <1>0, <1>3
  <2>3. QED BY <1>5, <1>6, <2>1, <2>2
<1>9. DraftsTypeOK'
  BY <1>0, <1>1, <1>4, <1>7 DEF DraftsTypeOK
<1>10. QED BY <1>5, <1>8, <1>9 DEF DInv

\* A learner whose version is not in the draft yet.
LEMMA ApplyKeeps ==
  ASSUME DInv, DraftsAssumption, NEW l \in Learners, NEW plan, Apply(l, plan),
         plan # None => l \in Requests /\ plan \in {"safe", "risky"},
         l \in Runs => l \notin appended,
         request' \subseteq Requests
  PROVE  DInv'
<1>0. DraftsTypeOK /\ draft \in Draft /\ copy \in [Workflows -> Draft]
  BY DEF DInv, DraftsTypeOK
<1>1. /\ draft' \in Draft
      /\ draft'.versions = Append(draft.versions, [op |-> "apply", by |-> l])
      /\ draft'.infra = draft.infra \/ draft'.infra.kind = "safe"
      /\ appended' = appended \cup {l}
      /\ UNCHANGED <<flow, copy, approved>>
  BY <1>0, ApplyFacts
<1>2. [op |-> "apply", by |-> l] \in Version
  BY DEF Version
<1>3. OnceIn(draft', appended')
  BY <1>0, <1>1, <1>2, AppendOnce DEF DInv
<1>4. Safe(draft', approved')
  BY <1>1 DEF DInv, Safe
<1>5. \A w \in Workflows : Safe(copy'[w], approved') /\ OnceIn(copy'[w], appended')
  BY <1>1, GrowKeeps DEF DInv
<1>6. DraftsTypeOK'
  BY <1>0, <1>1 DEF DraftsTypeOK
<1>7. QED BY <1>3, <1>4, <1>5, <1>6 DEF DInv

LEMMA HostKeeps ==
  ASSUME DInv, DraftsAssumption, Host
  PROVE  DInv'
<1>0. DraftsTypeOK /\ draft \in Draft /\ copy \in [Workflows -> Draft]
      /\ request \subseteq Requests
  BY DEF DInv, DraftsTypeOK
<1>1. ASSUME NEW q \in Requests, Recommend(q) PROVE DInv'
  <2>1. PICK plan \in {"safe", "risky"} : Apply(q, plan)
    BY <1>1 DEF Recommend
  <2>2. request' \subseteq Requests /\ q \in Learners /\ q \notin Runs
    BY <1>0, <1>1 DEF Recommend, Learners, DraftsAssumption
  <2>3. QED BY <2>1, <2>2, ApplyKeeps
<1>2. ASSUME NEW q \in Requests, NEW p \in Requests, Approve(q, p) PROVE DInv'
  <2>1. /\ draft' \in Draft /\ UNCHANGED <<flow, copy, appended>>
        /\ \/ draft' = draft /\ approved' = approved
           \/ /\ draft'.versions = Append(draft.versions, [op |-> "approve", by |-> q])
              /\ draft'.infra.by = p /\ approved' = approved \cup {p}
    BY <1>0, <1>2, ApproveFacts
  <2>2. [op |-> "approve", by |-> q] \in Version
    BY DEF Version, Learners
  <2>3. OnceIn(draft', appended')
    BY <1>0, <2>1, <2>2, AppendOther DEF DInv
  <2>4. Safe(draft', approved') /\ approved \subseteq approved'
    BY <2>1 DEF DInv, Safe
  <2>5. \A w \in Workflows : Safe(copy'[w], approved') /\ OnceIn(copy'[w], appended')
    BY <2>1, <2>4, GrowKeeps DEF DInv
  <2>6. request' \subseteq Requests
    BY <1>0, <1>2 DEF Approve
  <2>7. DraftsTypeOK'
    BY <1>0, <2>1, <2>6 DEF DraftsTypeOK
  <2>8. QED BY <2>3, <2>4, <2>5, <2>7 DEF DInv
<1>3. ASSUME NEW q \in Requests, Rollback(q) PROVE DInv'
  <2>1. /\ draft' \in Draft /\ draft'.infra = draft.infra
        /\ UNCHANGED <<flow, copy, appended, approved>>
        /\ \/ draft' = draft
           \/ draft'.versions = Append(draft.versions, [op |-> "rollback", by |-> q])
    BY <1>0, <1>3, RollbackFacts
  <2>2. [op |-> "rollback", by |-> q] \in Version
    BY DEF Version, Learners
  <2>3. OnceIn(draft', appended')
    BY <1>0, <2>1, <2>2, AppendOther DEF DInv
  <2>4. Safe(draft', approved')
    BY <2>1 DEF DInv, Safe
  <2>5. \A w \in Workflows : Safe(copy'[w], approved') /\ OnceIn(copy'[w], appended')
    BY <2>1 DEF DInv
  <2>6. request' \subseteq Requests
    BY <1>0, <1>3 DEF Rollback
  <2>7. DraftsTypeOK'
    BY <1>0, <2>1, <2>6 DEF DraftsTypeOK
  <2>8. QED BY <2>3, <2>4, <2>5, <2>7 DEF DInv
<1>4. QED BY <1>0, <1>1, <1>2, <1>3 DEF Host

LEMMA RestartKeeps ==
  ASSUME DInv, DraftsRestart
  PROVE  DInv'
<1>1. flow' \in [Workflows -> {"new", "working", "saved", "done"}]
      /\ UNCHANGED <<draft, request, appended, approved>>
      /\ copy' = [w \in Workflows |-> NoDraft]
  BY DEF DraftsRestart
<1>2. Safe(NoDraft, approved') /\ OnceIn(NoDraft, appended')
  BY NoDraftType DEF Safe, OnceIn
<1>3. DraftsTypeOK'
  BY <1>1, NoDraftType DEF DInv, DraftsTypeOK
<1>4. QED BY <1>1, <1>2, <1>3 DEF DInv

LEMMA DInvInit == DraftsInit => DInv
<1> SUFFICES ASSUME DraftsInit PROVE DInv
  OBVIOUS
<1>1. PICK a \in {NoArtifact, [by |-> None, learned |-> None]} : draft = NewDraft(a)
  BY DEF DraftsInit
<1>2. a \in Artifacts
  BY DEF Artifact, Artifacts
<1>3. draft \in Draft /\ draft.versions = <<>> /\ draft.infra.kind = "safe"
  BY <1>1, <1>2, NoDraftType
<1>4. copy = [w \in Workflows |-> NoDraft] /\ request = {} /\ appended = {}
      /\ approved = {} /\ flow = [w \in Workflows |-> "new"]
  BY DEF DraftsInit
<1>5. DraftsTypeOK
  BY <1>3, <1>4, NoDraftType DEF DraftsTypeOK
<1>6. QED BY <1>3, <1>4, <1>5, NoDraftType DEF DInv, Safe, OnceIn
-----------------------------------------------------------------------------
(* What a run is at and what its status is.                                *)

LoopTypes ==
  /\ status \in [Runs -> Final \cup {None, "queued", "running", "evaluated"}]
  /\ at \in [Runs -> Steps \cup {"new", "queued", "publishing", "activating"}]
  /\ next \in [Runs -> Steps]
  /\ troubled \subseteq Runs
  /\ restarts \in 0..MaxRestarts

Deciding == {"rejecting", "deferring", "applying"}

RInv(r) ==
  /\ at[r] = "new" <=> status[r] = None
  /\ at[r] # "publishing" => next[r] = "done"
  /\ at[r] \in Deciding \cup {"activating"} => status[r] = "evaluated"
  /\ next[r] \in Deciding => status[r] = "evaluated"
  /\ at[r] = "activating" => r \in appended
  /\ status[r] = "applied" => r \in appended
  /\ r \in appended =>
       /\ at[r] \in {"activating", "publishing", "done"}
       /\ next[r] = "done"
       /\ r \notin troubled => at[r] = "activating" \/ status[r] = "applied"

OneRunPerSession ==
  \A r, s \in Runs :
    Session(r) = Session(s) /\ status[r] # None /\ status[s] # None => r = s

LInv == DInv /\ LoopTypes /\ OneRunPerSession /\ \A r \in Runs : RInv(r)

\* A step of one run: the others do not see it.
Others(r) ==
  \A s \in Runs \ {r} :
    /\ status'[s] = status[s] /\ at'[s] = at[s] /\ next'[s] = next[s]
    /\ s \in appended' <=> s \in appended
    /\ s \in troubled' <=> s \in troubled

LEMMA OneRunStep ==
  ASSUME LInv, NEW r \in Runs, Others(r), RInv(r)', LoopTypes', DInv',
         status[r] # None \/ \A s \in Runs : Session(s) = Session(r) => status[s] = None
  PROVE  LInv'
<1>1. ASSUME NEW s \in Runs PROVE RInv(s)'
  BY DEF LInv, RInv, Others
<1>2. OneRunPerSession'
  <2> SUFFICES ASSUME NEW u \in Runs, NEW v \in Runs, Session(u) = Session(v),
                      status'[u] # None, status'[v] # None, u # v
               PROVE  FALSE
    BY DEF OneRunPerSession
  <2>1. \A s \in Runs \ {r} : status'[s] = status[s]
    BY DEF Others
  <2>2. QED BY <2>1 DEF LInv, OneRunPerSession
<1>3. QED BY <1>1, <1>2 DEF LInv

LEMMA PublishFacts ==
  ASSUME LoopTypes, NEW r \in Runs, NEW s \in Final \cup {"running", "evaluated"},
         NEW then \in Steps, Publish(r, s, then)
  PROVE  /\ status'[r] = s /\ at'[r] = "publishing" /\ next'[r] = then
         /\ \A o \in Runs \ {r} :
              status'[o] = status[o] /\ at'[o] = at[o] /\ next'[o] = next[o]
         /\ status' \in [Runs -> Final \cup {None, "queued", "running", "evaluated"}]
         /\ at' \in [Runs -> Steps \cup {"new", "queued", "publishing", "activating"}]
         /\ next' \in [Runs -> Steps]
BY DEF LoopTypes, Publish

LEMMA DraftsUnchanged ==
  ASSUME DInv, UNCHANGED draftVars
  PROVE  DInv' /\ appended' = appended
BY DEF DInv, DraftsTypeOK, draftVars, Safe, OnceIn

\* A publication by run r that leaves the draft alone.
LEMMA Publishes ==
  ASSUME LInv, NEW r \in Runs, NEW s \in Final \cup {"running", "evaluated"},
         NEW then \in Steps, Publish(r, s, then), UNCHANGED <<draftVars, restarts>>,
         troubled' \in {troubled, troubled \cup {r}}, at[r] # "new",
         s = "applied" => at[r] = "activating",
         then \in Deciding => s = "evaluated",
         r \in appended => then = "done" /\ (s = "applied" \/ r \in troubled')
  PROVE  LInv'
<1>0. LoopTypes /\ DInv /\ RInv(r)
  BY DEF LInv
<1>1. /\ status'[r] = s /\ at'[r] = "publishing" /\ next'[r] = then
      /\ \A o \in Runs \ {r} :
           status'[o] = status[o] /\ at'[o] = at[o] /\ next'[o] = next[o]
      /\ status' \in [Runs -> Final \cup {None, "queued", "running", "evaluated"}]
      /\ at' \in [Runs -> Steps \cup {"new", "queued", "publishing", "activating"}]
      /\ next' \in [Runs -> Steps]
  BY <1>0, PublishFacts
<1>2. DInv' /\ appended' = appended
  BY <1>0, DraftsUnchanged
<1>3. LoopTypes'
  BY <1>0, <1>1 DEF LoopTypes
<1>4. Others(r)
  BY <1>1, <1>2 DEF Others
<1>5. s # None /\ status[r] # None
  BY <1>0 DEF Final, None, RInv
<1>6. RInv(r)'
  BY <1>0, <1>1, <1>2, <1>5 DEF RInv, Deciding
<1>7. QED BY <1>2, <1>3, <1>4, <1>5, <1>6, OneRunStep

LEMMA EnqueueKeeps ==
  ASSUME LInv, NEW r \in Runs, Enqueue(r)
  PROVE  LInv'
<1>0. LoopTypes /\ DInv /\ RInv(r)
  BY DEF LInv
<1>1. DInv' /\ appended' = appended
  BY <1>0, DraftsUnchanged DEF Enqueue
<1>2. /\ status'[r] = "queued" /\ at'[r] = "queued" /\ at[r] = "new"
      /\ next' = next /\ troubled' = troubled /\ restarts' = restarts
      /\ \A o \in Runs \ {r} : status'[o] = status[o] /\ at'[o] = at[o]
      /\ \A s \in Runs : Session(s) = Session(r) => status[s] = None
  BY <1>0 DEF Enqueue, LoopTypes
<1>3. LoopTypes'
  BY <1>0 DEF LoopTypes, Enqueue
<1>4. RInv(r)'
  BY <1>0, <1>1, <1>2 DEF RInv, Deciding, None
<1>5. QED BY <1>1, <1>2, <1>3, <1>4, OneRunStep DEF Others

LEMMA ToldKeeps ==
  ASSUME LInv, NEW r \in Runs, Told(r)
  PROVE  LInv'
<1>0. LoopTypes /\ DInv /\ RInv(r)
  BY DEF LInv
<1>1. DInv' /\ appended' = appended
  BY <1>0, DraftsUnchanged DEF Told
<1>2. /\ status' = status /\ troubled' = troubled
      /\ at'[r] = next[r] /\ next'[r] = "done" /\ at[r] = "publishing"
      /\ \A o \in Runs \ {r} : at'[o] = at[o] /\ next'[o] = next[o]
  BY <1>0 DEF Told, LoopTypes
<1>3. next[r] \in Steps
  BY <1>0 DEF LoopTypes
<1>4. LoopTypes'
  BY <1>0, <1>3 DEF LoopTypes, Told, Steps
<1>5. RInv(r)'
  BY <1>0, <1>1, <1>2, <1>3 DEF RInv, Deciding, Steps
<1>6. status[r] # None
  BY <1>0, <1>2 DEF RInv
<1>7. QED BY <1>1, <1>2, <1>4, <1>5, <1>6, OneRunStep DEF Others

LEMMA NotToldKeeps ==
  ASSUME LInv, NEW r \in Runs, NotTold(r)
  PROVE  LInv'
<1>0. LoopTypes /\ DInv /\ RInv(r)
  BY DEF LInv
<1>a. at[r] = "publishing" /\ troubled' = troubled \cup {r}
      /\ UNCHANGED <<draftVars, restarts>>
  BY DEF NotTold
<1>1. CASE status[r] \in {"running", "failed"}
  <2>1. DInv' /\ appended' = appended
    BY <1>0, <1>a, DraftsUnchanged
  <2>2. /\ status' = status
        /\ at'[r] = "done" /\ next'[r] = "done"
        /\ \A o \in Runs \ {r} : at'[o] = at[o] /\ next'[o] = next[o]
    BY <1>0, <1>1 DEF NotTold, LoopTypes
  <2>3. LoopTypes'
    BY <1>0, <1>1 DEF LoopTypes, NotTold, Steps
  <2>4. status[r] # None /\ RInv(r)'
    BY <1>0, <1>a, <2>1, <2>2 DEF RInv, Deciding
  <2>5. QED BY <1>a, <2>1, <2>2, <2>3, <2>4, OneRunStep DEF Others
<1>2. CASE Publish(r, "failed", "done")
  BY <1>0, <1>a, <1>2, Publishes DEF Final, Steps, Deciding, RInv
<1>3. QED BY <1>1, <1>2 DEF NotTold

LEMMA EvolvesKeeps ==
  ASSUME LInv, DraftsAssumption, NEW r \in Runs, Evolves(r)
  PROVE  LInv'
<1>0. LoopTypes /\ DInv /\ RInv(r)
  BY DEF LInv
<1>1. at[r] = "applying" /\ Apply(r, None)
      /\ UNCHANGED <<request, status, next, troubled, restarts>>
  BY DEF Evolves
<1>2. r \notin appended /\ status[r] = "evaluated" /\ next[r] = "done"
  BY <1>0, <1>1 DEF RInv, Deciding
<1>3. DInv'
  <2>1. request' \subseteq Requests /\ r \in Learners
    BY <1>0, <1>1 DEF DInv, DraftsTypeOK, Learners
  <2>2. QED BY <1>0, <1>1, <1>2, <2>1, ApplyKeeps
<1>4. appended' = appended \cup {r}
  BY <1>1 DEF Apply
<1>5. at'[r] = "activating" /\ \A o \in Runs \ {r} : at'[o] = at[o]
  BY <1>0 DEF Evolves, LoopTypes
<1>6. LoopTypes'
  BY <1>0 DEF LoopTypes, Evolves
<1>7. RInv(r)'
  BY <1>0, <1>1, <1>2, <1>4, <1>5 DEF RInv, Deciding, None
<1>8. status[r] # None
  BY <1>2 DEF None
<1>9. QED BY <1>1, <1>3, <1>4, <1>5, <1>6, <1>7, <1>8, OneRunStep DEF Others

LEMMA RunKeeps ==
  ASSUME LInv, DraftsAssumption, NEW r \in Runs, Run(r)
  PROVE  LInv'
<1>0. LoopTypes /\ DInv /\ RInv(r)
  BY DEF LInv
<1>1. CASE Begin(r)
  BY <1>0, <1>1, Publishes DEF Begin, Steps, Deciding, RInv, Final
<1>2. CASE NothingToLearn(r)
  BY <1>0, <1>2, Publishes DEF NothingToLearn, Steps, Deciding, RInv, Final
<1>3. CASE Learn(r)
  <2>1. PICK then \in Steps : Publish(r, "evaluated", then)
    BY <1>3 DEF Learn, After, Steps
  <2>2. QED BY <1>0, <1>3, <2>1, Publishes DEF Learn, Deciding, RInv, Final
<1>4. CASE LearnFails(r)
  BY <1>0, <1>4, Publishes DEF LearnFails, Steps, Deciding, RInv, Final
<1>5. CASE Conclude(r)
  <2>1. PICK s \in {"rejected", "pending_approval"} : Publish(r, s, "done")
    BY <1>5 DEF Conclude
  <2>2. at[r] \in {"rejecting", "deferring"} /\ UNCHANGED <<draftVars, troubled, restarts>>
    BY <1>5 DEF Conclude
  <2>3. QED BY <1>0, <2>1, <2>2, Publishes DEF Steps, Deciding, RInv, Final
<1>6. CASE NotCompiled(r)
  BY <1>0, <1>6, Publishes DEF NotCompiled, Steps, Deciding, RInv, Final
<1>7. CASE Activated(r)
  BY <1>0, <1>7, Publishes DEF Activated, Steps, Deciding, RInv, Final
<1>8. CASE NotActivated(r)
  BY <1>0, <1>8, Publishes DEF NotActivated, Steps, Deciding, RInv, Final
<1>9. QED
  BY <1>1, <1>2, <1>3, <1>4, <1>5, <1>6, <1>7, <1>8, EnqueueKeeps, ToldKeeps,
     NotToldKeeps, EvolvesKeeps
  DEF Run

\* The builder and the host: no run is at another place.
LEMMA BesideKeeps ==
  ASSUME LInv, DraftsAssumption, Builder \/ Host, UNCHANGED loopVars
  PROVE  LInv'
<1>0. LoopTypes /\ DInv
  BY DEF LInv
<1>1. DInv'
  BY <1>0, BuilderKeeps, HostKeeps DEF Builder
<1>2. \A r \in Runs : r \in appended' <=> r \in appended
  <2>1. CASE Builder
    BY <2>1 DEF Builder, Read, Save, GivesUp, SaveAtOnce
  <2>2. CASE Host
    <3>1. ASSUME NEW q \in Requests, Recommend(q)
          PROVE  \A r \in Runs : r \in appended' <=> r \in appended
      <4>1. appended' = appended \cup {q}
        BY <3>1 DEF Recommend, Apply
      <4>2. QED BY <4>1 DEF DraftsAssumption
    <3>2. QED BY <2>2, <3>1 DEF Host, Approve, Rollback
  <2>3. QED BY <2>1, <2>2
<1>3. UNCHANGED <<status, at, next, troubled, restarts>>
  BY DEF loopVars
<1>4. \A r \in Runs : RInv(r)'
  BY <1>2, <1>3 DEF LInv, RInv
<1>5. LoopTypes' /\ OneRunPerSession'
  BY <1>3 DEF LInv, LoopTypes, OneRunPerSession
<1>6. QED BY <1>1, <1>4, <1>5 DEF LInv

LEMMA ServerRestarts ==
  ASSUME LInv, LoopAssumption, Restart
  PROVE  LInv'
<1>0. LoopTypes /\ DInv
  BY DEF LInv
<1>1. DInv' /\ appended' = appended /\ status' = status
  BY <1>0, RestartKeeps DEF Restart, DraftsRestart
<1>2. \A r \in Runs :
        /\ at'[r] = IF at[r] = "new" THEN "new" ELSE "done"
        /\ next'[r] = "done"
        /\ r \in troubled' <=> r \in troubled \/ at[r] \notin {"new", "done"}
  BY DEF Restart
<1>3. ASSUME NEW r \in Runs PROVE RInv(r)'
  BY <1>1, <1>2 DEF LInv, RInv, Deciding
<1>4. LoopTypes'
  <2>1. restarts' \in 0..MaxRestarts
    BY <1>0 DEF Restart, LoopTypes, LoopAssumption
  <2>2. at' \in [Runs -> Steps \cup {"new", "queued", "publishing", "activating"}]
        /\ next' \in [Runs -> Steps] /\ troubled' \subseteq Runs
    BY <1>0 DEF Restart, LoopTypes, Steps
  <2>3. QED BY <1>0, <1>1, <2>1, <2>2 DEF LoopTypes
<1>5. OneRunPerSession'
  BY <1>1 DEF LInv, OneRunPerSession
<1>6. QED BY <1>1, <1>3, <1>4, <1>5 DEF LInv

LEMMA LInvStep == DraftsAssumption /\ LoopAssumption /\ LInv /\ [Next]_vars => LInv'
<1> SUFFICES ASSUME DraftsAssumption, LoopAssumption, LInv, [Next]_vars PROVE LInv'
  OBVIOUS
<1>1. CASE UNCHANGED vars
  <2>1. UNCHANGED draftVars /\ UNCHANGED <<status, at, next, troubled, restarts>>
    BY <1>1 DEF vars, loopVars
  <2>2. DInv' /\ appended' = appended
    BY <2>1, DraftsUnchanged DEF LInv
  <2>3. QED BY <2>1, <2>2 DEF LInv, LoopTypes, OneRunPerSession, RInv
<1>2. QED BY <1>1, RunKeeps, BesideKeeps, ServerRestarts DEF Next

LEMMA LInvInit == LoopAssumption /\ Init => LInv
<1> SUFFICES ASSUME LoopAssumption, Init PROVE LInv
  OBVIOUS
<1>1. DInv /\ appended = {}
  BY DInvInit DEF Init, DraftsInit
<1>2. status = [r \in Runs |-> None] /\ at = [r \in Runs |-> "new"]
      /\ next = [r \in Runs |-> "done"] /\ troubled = {} /\ restarts = 0
  BY DEF Init
<1>3. LoopTypes
  BY <1>2 DEF LoopTypes, Steps, LoopAssumption
<1>4. \A r \in Runs : RInv(r)
  BY <1>1, <1>2 DEF RInv, Deciding, None
<1>5. OneRunPerSession
  BY <1>2 DEF OneRunPerSession
<1>6. QED BY <1>1, <1>3, <1>4, <1>5 DEF LInv

LEMMA LoopInvariant == Spec => []LInv
BY LInvInit, LInvStep, DraftsAssumption, LoopAssumption, PTL DEF Spec

-----------------------------------------------------------------------------

\* Every reachable state of the loop, the draft and its editors is well typed.
THEOREM LearningTypeCorrect == Spec => []TypeOK
<1>1. LInv => TypeOK
  BY DEF LInv, DInv, LoopTypes, TypeOK
<1>2. QED BY <1>1, LoopInvariant, PTL

\* A session changes the agent once at most: findBySource() of the run store
\* absorbs a second report of its end, before and after a restart.
THEOREM LearnsOnce == Spec => []LearnedOnce
<1>1. LInv => LearnedOnce
  <2> SUFFICES ASSUME LInv, NEW i \in 1..Len(draft.versions), NEW j \in 1..Len(draft.versions),
                      draft.versions[i].op = "apply", draft.versions[j].op = "apply",
                      draft.versions[i].by \in Runs, draft.versions[j].by \in Runs,
                      Session(draft.versions[i].by) = Session(draft.versions[j].by)
               PROVE  i = j
    BY DEF LearnedOnce
  <2>1. draft.versions \in Seq(Version) /\ OnceIn(draft, appended)
    BY DraftFields DEF LInv, DInv, DraftsTypeOK
  <2>2. i \in DOMAIN draft.versions /\ j \in DOMAIN draft.versions
    BY <2>1
  <2>3. draft.versions[i].by \in appended /\ draft.versions[j].by \in appended
    BY <2>1, <2>2 DEF OnceIn
  <2>4. \A r \in Runs : r \in appended => status[r] # None
    BY DEF LInv, RInv
  <2>5. draft.versions[i].by = draft.versions[j].by
    BY <2>3, <2>4 DEF LInv, OneRunPerSession
  <2>6. QED BY <2>1, <2>2, <2>5 DEF OnceIn
<1>2. QED BY <1>1, LoopInvariant, PTL

\* The status of a run tells what it did to the draft, unless something
\* rejected or the server stopped under it (publish in agent-learning-loop.ts).
THEOREM StatusIsTrue == Spec => []StatusTellsTheDraft
<1>1. LInv => StatusTellsTheDraft
  BY DEF LInv, RInv, StatusTellsTheDraft, Final
<1>2. QED BY <1>1, LoopInvariant, PTL

\* A recommended plan that needs an approval is the plan of the draft only after
\* an approval of it, for any workflows, which install plans of their own and
\* bring older drafts back, requests, runs and restarts.
THEOREM RiskyIsApproved == Spec => []RiskyNeedsApproval
<1>1. LInv => RiskyNeedsApproval
  BY DEF LInv, DInv, Safe, RiskyNeedsApproval
<1>2. QED BY <1>1, LoopInvariant, PTL
-----------------------------------------------------------------------------
(* The versions only grow, but for a workflow that saves over what it has   *)
(* not read.                                                                *)

Extends ==
  /\ Len(draft'.versions) >= Len(draft.versions)
  /\ SubSeq(draft'.versions, 1, Len(draft.versions)) = draft.versions
  /\ draft.parts \subseteq draft'.parts

Overwrites ==
  \E w \in Workflows :
    flow[w] \in {"working", "saved"} /\ flow'[w] # flow[w] /\ draft # copy[w]

LEMMA PrefixOfAppend ==
  ASSUME NEW S, NEW s \in Seq(S), NEW v \in S
  PROVE  /\ Len(Append(s, v)) >= Len(s) /\ SubSeq(Append(s, v), 1, Len(s)) = s
         /\ SubSeq(s, 1, Len(s)) = s
<1> DEFINE t == Append(s, v)
<1>1. t \in Seq(S) /\ Len(t) = Len(s) + 1 /\ Len(s) \in Nat
      /\ \A i \in 1..Len(s) : t[i] = s[i]
  OBVIOUS
<1> HIDE DEF t
<1>2. SubSeq(t, 1, Len(s)) \in Seq(S) /\ Len(SubSeq(t, 1, Len(s))) = Len(s)
      /\ \A i \in 1..Len(s) : SubSeq(t, 1, Len(s))[i] = s[i]
  BY <1>1
<1>3. SubSeq(t, 1, Len(s)) = s
  BY <1>2
<1>4. QED BY <1>1, <1>3 DEF t

LEMMA AppendExtends ==
  ASSUME draft \in Draft, NEW v \in Version,
         draft'.versions = Append(draft.versions, v), draft'.parts = draft.parts
  PROVE  Extends
BY DraftFields, PrefixOfAppend DEF Extends

LEMMA SameExtends ==
  ASSUME draft \in Draft, draft'.versions = draft.versions,
         draft.parts \subseteq draft'.parts
  PROVE  Extends
<1>1. draft.versions \in Seq(Version)
  BY DraftFields
<1>2. SubSeq(draft.versions, 1, Len(draft.versions)) = draft.versions
      /\ Len(draft.versions) \in Nat
  BY <1>1
<1>3. QED BY <1>2 DEF Extends

LEMMA BuilderSerializes ==
  ASSUME DInv, NEW w \in Workflows, Read(w) \/ Save(w) \/ GivesUp(w) \/ SaveAtOnce(w)
  PROVE  Extends \/ Overwrites
<1>0. draft \in Draft /\ copy \in [Workflows -> Draft]
      /\ flow \in [Workflows -> {"new", "working", "saved", "done"}]
  BY DEF DInv, DraftsTypeOK
<1>1. CASE draft' = draft
  BY <1>0, <1>1, SameExtends
<1>2. CASE Save(w)
  <2>1. flow[w] \in {"working", "saved"} /\ flow'[w] # flow[w]
    BY <1>0, <1>2 DEF Save
  <2>2. CASE draft = copy[w]
    <3>1. draft' \in Made(draft, w)
      BY <1>2, <2>2 DEF Save
    <3>2. draft'.versions = draft.versions /\ draft.parts \subseteq draft'.parts
      BY <1>0, <3>1, MadeKeepsParts
    <3>3. QED BY <1>0, <3>2, SameExtends
  <2>3. QED BY <2>1, <2>2 DEF Overwrites
<1>3. CASE SaveAtOnce(w)
  <2>1. draft' = [draft EXCEPT !.parts = @ \cup {w}]
    BY <1>3 DEF SaveAtOnce
  <2>2. draft'.versions = draft.versions /\ draft.parts \subseteq draft'.parts
    BY <1>0, <2>1, DraftUpdates
  <2>3. QED BY <1>0, <2>2, SameExtends
<1>4. QED BY <1>1, <1>2, <1>3 DEF Read, GivesUp

LEMMA HostSerializes ==
  ASSUME DInv, Host
  PROVE  Extends
<1>0. draft \in Draft /\ request \subseteq Requests
  BY DEF DInv, DraftsTypeOK
<1>1. ASSUME NEW q \in Requests, Recommend(q) PROVE Extends
  <2>1. PICK plan \in {"safe", "risky"} : Apply(q, plan)
    BY <1>1 DEF Recommend
  <2>2. draft'.versions = Append(draft.versions, [op |-> "apply", by |-> q])
        /\ draft'.parts = draft.parts
    BY <1>0, <2>1, ApplyFacts DEF Learners
  <2>3. [op |-> "apply", by |-> q] \in Version
    BY DEF Version, Learners
  <2>4. QED BY <1>0, <2>2, <2>3, AppendExtends
<1>2. ASSUME NEW q \in Requests, NEW p \in Requests, Approve(q, p) PROVE Extends
  <2>1. /\ draft'.parts = draft.parts
        /\ \/ draft' = draft
           \/ draft'.versions = Append(draft.versions, [op |-> "approve", by |-> q])
    BY <1>0, <1>2, ApproveFacts
  <2>2. [op |-> "approve", by |-> q] \in Version
    BY DEF Version, Learners
  <2>3. QED BY <1>0, <2>1, <2>2, AppendExtends, SameExtends
<1>3. ASSUME NEW q \in Requests, Rollback(q) PROVE Extends
  <2>1. /\ draft'.parts = draft.parts
        /\ \/ draft' = draft
           \/ draft'.versions = Append(draft.versions, [op |-> "rollback", by |-> q])
    BY <1>0, <1>3, RollbackFacts
  <2>2. [op |-> "rollback", by |-> q] \in Version
    BY DEF Version, Learners
  <2>3. QED BY <1>0, <2>1, <2>2, AppendExtends, SameExtends
<1>4. QED BY <1>0, <1>1, <1>2, <1>3 DEF Host

\* A version is only ever lost to a workflow that saves a draft it derived
\* from an older one: evolution.ts reads and saves without an await between.
THEOREM VersionsSerialize == Spec => EvolutionsSerialize
<1>1. DraftsAssumption /\ LInv /\ [Next]_vars => [Extends \/ Overwrites]_draftVars
  <2> SUFFICES ASSUME DraftsAssumption, LInv, [Next]_vars, ~UNCHANGED draftVars
               PROVE  Extends \/ Overwrites
    OBVIOUS
  <2>0. DInv /\ draft \in Draft
    BY DEF LInv, DInv, DraftsTypeOK
  <2>1. CASE Builder
    BY <2>0, <2>1, BuilderSerializes DEF Builder
  <2>2. CASE Host
    BY <2>0, <2>2, HostSerializes
  <2>3. ASSUME NEW r \in Runs, Evolves(r) PROVE Extends
    <3>1. draft'.versions = Append(draft.versions, [op |-> "apply", by |-> r])
          /\ draft'.parts = draft.parts
      BY <2>0, <2>3, ApplyFacts DEF Evolves, Learners
    <3>2. [op |-> "apply", by |-> r] \in Version
      BY DEF Version, Learners
    <3>3. QED BY <2>0, <3>1, <3>2, AppendExtends
  <2>4. CASE draft' = draft
    BY <2>0, <2>4, SameExtends
  <2>5. QED
    BY <2>1, <2>2, <2>3, <2>4
    DEF Next, Run, Enqueue, Begin, Told, NotTold, NothingToLearn, Learn, LearnFails,
        Conclude, NotCompiled, Activated, NotActivated, Restart, DraftsRestart,
        draftVars, vars
<1>2. QED
  BY <1>1, LoopInvariant, DraftsAssumption, PTL
  DEF Spec, EvolutionsSerialize, Extends, Overwrites

-----------------------------------------------------------------------------
(* The versions are append-only as long as a workflow that saves has read   *)
(* the versions it saves over.                                              *)

\* What every workflow that awaits between its read and its save would have
\* to see to: the versions of its copy are those of the draft it replaces.
SavesCurrent ==
  \A w \in Workflows :
    flow[w] \in {"working", "saved"} /\ flow'[w] # flow[w] /\ draft' # draft
      => copy[w].versions = draft.versions

\* A step keeps the versions and who appended, or appends one version.
Grows ==
  \/ draft'.versions = draft.versions /\ appended' = appended
  \/ \E v \in Version :
       /\ draft'.versions = Append(draft.versions, v)
       /\ appended' = appended \/ (v.op = "apply" /\ appended' = appended \cup {v.by})

LEMMA AppliesGrow ==
  ASSUME draft \in Draft, NEW l \in Learners, NEW plan, Apply(l, plan),
         plan # None => l \in Requests /\ plan \in {"safe", "risky"}
  PROVE  Grows
<1> DEFINE v == [op |-> "apply", by |-> l]
<1>1. draft'.versions = Append(draft.versions, v) /\ appended' = appended \cup {l}
  BY ApplyFacts
<1>2. v \in Version /\ v.op = "apply" /\ v.by = l
  BY DEF Version
<1>3. QED BY <1>1, <1>2 DEF Grows

LEMMA OthersGrow ==
  ASSUME NEW v \in Version, appended' = appended,
         draft' = draft \/ draft'.versions = Append(draft.versions, v)
  PROVE  Grows
<1>1. CASE draft' = draft
  BY <1>1 DEF Grows
<1>2. CASE draft'.versions = Append(draft.versions, v)
  BY <1>2 DEF Grows
<1>3. QED BY <1>1, <1>2

LEMMA BuilderGrows ==
  ASSUME DInv, SavesCurrent, NEW w \in Workflows,
         Read(w) \/ Save(w) \/ GivesUp(w) \/ SaveAtOnce(w)
  PROVE  Grows
<1>0. /\ draft \in Draft /\ copy \in [Workflows -> Draft] /\ appended' = appended
      /\ flow \in [Workflows -> {"new", "working", "saved", "done"}]
  BY DEF DInv, DraftsTypeOK, Read, Save, GivesUp, SaveAtOnce
<1>1. CASE draft' = draft
  BY <1>0, <1>1 DEF Grows
<1>2. CASE Save(w) /\ draft' # draft
  <2>1. flow[w] \in {"working", "saved"} /\ flow'[w] # flow[w] /\ draft' \in Made(copy[w], w)
    BY <1>0, <1>2 DEF Save
  <2>2. draft'.versions = copy[w].versions
    BY <1>0, <2>1, MadeKeepsParts
  <2>3. copy[w].versions = draft.versions
    BY <1>2, <2>1 DEF SavesCurrent
  <2>4. QED BY <1>0, <2>2, <2>3 DEF Grows
<1>3. CASE SaveAtOnce(w)
  <2>1. draft'.versions = draft.versions
    BY <1>0, <1>3, DraftUpdates DEF SaveAtOnce
  <2>2. QED BY <1>0, <2>1 DEF Grows
<1>4. QED BY <1>1, <1>2, <1>3 DEF Read, GivesUp

LEMMA HostGrows ==
  ASSUME DInv, Host
  PROVE  Grows
<1>0. draft \in Draft /\ request \subseteq Requests
  BY DEF DInv, DraftsTypeOK
<1>1. ASSUME NEW q \in Requests, Recommend(q) PROVE Grows
  BY <1>0, <1>1, AppliesGrow DEF Recommend, Learners
<1>2. ASSUME NEW q \in Requests, NEW p \in Requests, Approve(q, p) PROVE Grows
  <2>1. /\ appended' = appended
        /\ draft' = draft \/ draft'.versions = Append(draft.versions, [op |-> "approve", by |-> q])
    BY <1>0, <1>2, ApproveFacts
  <2>2. [op |-> "approve", by |-> q] \in Version
    BY DEF Version, Learners
  <2>3. QED BY <1>0, <2>1, <2>2, OthersGrow
<1>3. ASSUME NEW q \in Requests, Rollback(q) PROVE Grows
  <2>1. /\ appended' = appended
        /\ draft' = draft \/ draft'.versions = Append(draft.versions, [op |-> "rollback", by |-> q])
    BY <1>0, <1>3, RollbackFacts
  <2>2. [op |-> "rollback", by |-> q] \in Version
    BY DEF Version, Learners
  <2>3. QED BY <1>0, <2>1, <2>2, OthersGrow
<1>4. QED BY <1>0, <1>1, <1>2, <1>3 DEF Host

LEMMA NextGrows ==
  ASSUME LInv, SavesCurrent, Next
  PROVE  Grows
<1>0. DInv /\ draft \in Draft
  BY DEF LInv, DInv, DraftsTypeOK
<1>1. CASE Builder
  BY <1>0, <1>1, BuilderGrows DEF Builder
<1>2. CASE Host
  BY <1>0, <1>2, HostGrows
<1>3. ASSUME NEW r \in Runs, Evolves(r) PROVE Grows
  BY <1>0, <1>3, AppliesGrow DEF Evolves, Learners
<1>4. CASE draft' = draft /\ appended' = appended
  BY <1>4 DEF Grows
<1>5. QED
  BY <1>1, <1>2, <1>3, <1>4
  DEF Next, Run, Enqueue, Begin, Told, NotTold, NothingToLearn, Learn, LearnFails,
      Conclude, NotCompiled, Activated, NotActivated, Restart, DraftsRestart, draftVars

LEMMA GrowsKeeps ==
  ASSUME draft \in Draft, VersionsAppendOnly, Grows
  PROVE  VersionsAppendOnly'
<1>1. CASE draft'.versions = draft.versions /\ appended' = appended
  BY <1>1 DEF VersionsAppendOnly
<1>2. ASSUME NEW v \in Version, draft'.versions = Append(draft.versions, v),
             appended' = appended \/ (v.op = "apply" /\ appended' = appended \cup {v.by})
      PROVE  VersionsAppendOnly'
  <2>1. PICK n \in Nat : n = Len(draft.versions) + 1
    BY DraftFields
  <2>2. /\ Len(draft'.versions) = n /\ draft'.versions[n] = v
        /\ \A i \in 1..Len(draft.versions) :
             i \in 1..n /\ draft'.versions[i] = draft.versions[i]
    BY <1>2, <2>1, DraftFields
  <2>3. ASSUME NEW l \in appended
        PROVE  \E i \in 1..n : draft'.versions[i] = [op |-> "apply", by |-> l]
    BY <2>2 DEF VersionsAppendOnly
  <2>4. v.op = "apply" => v = [op |-> "apply", by |-> v.by]
    BY DEF Version
  <2>5. n \in 1..n
    BY <2>1
  <2>6. QED BY <1>2, <2>2, <2>3, <2>4, <2>5 DEF VersionsAppendOnly
<1>3. QED BY <1>1, <1>2 DEF Grows

\* The guarantee of the starter's README holds of every execution in which no
\* workflow saves over versions it has not read (the code does not see to it:
\* workflow-agent-compile.ts saves what it made of the draft it read first).
THEOREM AppendOnlyIfCurrent == Spec /\ [][SavesCurrent]_vars => []VersionsAppendOnly
<1>1. Init => VersionsAppendOnly
  BY DEF Init, DraftsInit, VersionsAppendOnly
<1>2. LInv /\ VersionsAppendOnly /\ [Next]_vars /\ [SavesCurrent]_vars => VersionsAppendOnly'
  <2> SUFFICES ASSUME LInv, VersionsAppendOnly, [Next]_vars, [SavesCurrent]_vars
               PROVE  VersionsAppendOnly'
    OBVIOUS
  <2>1. CASE UNCHANGED vars
    BY <2>1 DEF VersionsAppendOnly, vars, draftVars
  <2>2. CASE Next /\ SavesCurrent
    <3>1. draft \in Draft
      BY DEF LInv, DInv, DraftsTypeOK
    <3>2. QED BY <2>2, <3>1, NextGrows, GrowsKeeps
  <2>3. QED BY <2>1, <2>2
<1>3. QED BY <1>1, <1>2, LoopInvariant, PTL DEF Spec
=============================================================================
