----------------------------- MODULE AgentDrafts -----------------------------
(***************************************************************************)
(* One agent draft of the starter and everybody who changes it: the        *)
(* builder workflows, which read it, await a model or a database and save  *)
(* what they made of the draft they read, and the evolution port, which    *)
(* reads, changes and saves it in one go, for a learning run, a host that  *)
(* recommends an infra plan, an approval of that plan or a rollback.       *)
(*                                                                         *)
(* An artifact is who compiled it and whose learned block its prompt       *)
(* carries; an infra plan is who made it, risky if approvalReasonsFor()    *)
(* holds one like it for an approval, which only the evolution port asks:  *)
(* the plans of the workflows go into the draft whatever they are.  The    *)
(* versions of the evolution metadata are the operations that appended     *)
(* them, with their audits.  "parts" are the workflows whose results       *)
(* (plans, prompts, metadata) the draft holds.                             *)
(***************************************************************************)
EXTENDS Integers, Sequences

CONSTANTS
  Runs,       \* learning runs
  Compiles,   \* calls of compileAgent()
  Builds,     \* calls of buildAutonomousKnowledge()
  Plans,      \* calls of the workflows that save once
  Requests    \* calls of the evolution port by the host

None == "none"
Workflows == Compiles \cup Builds \cup Plans
Learners == Runs \cup Requests   \* who may hand validateAndApply() something

ASSUME DraftsAssumption ==
  /\ None \notin Learners \cup Workflows /\ Requests \cap (Runs \cup Workflows) = {}
  /\ Compiles \cap (Builds \cup Plans) = {} /\ Builds \cap Plans = {}

VARIABLES
  draft,     \* the draft in the store
  flow,      \* where each workflow is
  copy,      \* the draft each workflow works on, NoDraft while it does not
  request,   \* requests that were made
  appended,  \* history: learners that appended a version
  approved   \* history: requests whose infra plan was approved

draftVars == <<draft, flow, copy, request, appended, approved>>

Artifact == [by : Compiles \cup {None}, learned : Learners \cup {None}]
NoArtifact == [by |-> "nobody", learned |-> None]   \* not compiled, no rollback point
Plan == [by : Requests \cup Workflows \cup {None}, kind : {"safe", "risky"}]
Version == [op : {"apply", "approve", "rollback"}, by : Learners]
Draft == [compiled : Artifact \cup {NoArtifact}, infra : Plan, versions : Seq(Version),
          rollback : Artifact \cup {NoArtifact}, pending : Requests \cup {None},
          parts : SUBSET Workflows]

\* A draft right after the prompt plan, or compiled once.
NewDraft(artifact) ==
  [compiled |-> artifact, infra |-> [by |-> None, kind |-> "safe"], versions |-> <<>>,
   rollback |-> NoArtifact, pending |-> None, parts |-> {}]
NoDraft == NewDraft(NoArtifact)

DraftsTypeOK ==
  /\ draft \in Draft
  /\ flow \in [Workflows -> {"new", "working", "saved", "done"}]
  /\ copy \in [Workflows -> Draft]
  /\ request \subseteq Requests
  /\ appended \subseteq Learners
  /\ approved \subseteq Requests

DraftsInit ==
  /\ \E artifact \in {NoArtifact, [by |-> None, learned |-> None]} : draft = NewDraft(artifact)
  /\ flow = [w \in Workflows |-> "new"]
  /\ copy = [w \in Workflows |-> NoDraft]
  /\ request = {}
  /\ appended = {}
  /\ approved = {}

-----------------------------------------------------------------------------
(* Builder workflows                                                       *)

Read(w) ==
  /\ flow[w] = "new"
  /\ flow' = [flow EXCEPT ![w] = "working"]
  /\ copy' = [copy EXCEPT ![w] = draft]
  /\ UNCHANGED <<draft, request, appended, approved>>

\* mutateDraft(d) with what w made: an artifact, or plans, an infra plan of
\* the planner maybe among them, which is installed whatever it proposes.
Made(d, w) ==
  IF w \in Compiles
  THEN {[d EXCEPT !.parts = @ \cup {w}, !.compiled = [by |-> w, learned |-> None]]}
  ELSE {[d EXCEPT !.parts = @ \cup {w}]}
       \cup {[d EXCEPT !.parts = @ \cup {w}, !.infra = [by |-> w, kind |-> k]]
               : k \in {"safe", "risky"}}

\* buildAutonomousKnowledge() saves its own copy again and again.
Save(w) ==
  /\ flow[w] \in {"working", "saved"}
  /\ \E d \in Made(copy[w], w) :
       /\ draft' = d
       /\ IF w \in Builds /\ flow[w] = "working"
          THEN flow' = [flow EXCEPT ![w] = "saved"] /\ copy' = [copy EXCEPT ![w] = d]
          ELSE flow' = [flow EXCEPT ![w] = "done"] /\ copy' = [copy EXCEPT ![w] = NoDraft]
  /\ UNCHANGED <<request, appended, approved>>

\* What is awaited rejects, or the build ends early.
GivesUp(w) ==
  /\ flow[w] \in {"working", "saved"}
  /\ flow' = [flow EXCEPT ![w] = "done"]
  /\ copy' = [copy EXCEPT ![w] = NoDraft]
  /\ UNCHANGED <<draft, request, appended, approved>>

\* savePromptClarifications(), and a compile whose tools are invalid: read
\* and saved without an await.
SaveAtOnce(w) ==
  /\ flow[w] = "new" /\ w \in Plans \cup Compiles
  /\ draft' = [draft EXCEPT !.parts = @ \cup {w}]
  /\ flow' = [flow EXCEPT ![w] = "done"]
  /\ UNCHANGED <<copy, request, appended, approved>>

-----------------------------------------------------------------------------
(* The evolution port                                                      *)

\* Mutant: a version replaces the one before it.
EvolveReplacing(op, by, artifact) ==
  [draft EXCEPT !.versions = <<[op |-> op, by |-> by]>>,
                !.rollback = draft.compiled, !.compiled = artifact]

\* The next version: what is compiled becomes what rollback() goes back to.
Evolve(op, by, artifact) ==
  [draft EXCEPT !.versions = Append(@, [op |-> op, by |-> by]),
                !.rollback = draft.compiled, !.compiled = artifact]

\* Mutant: a recommended plan is applied whatever it is.
ApplyAnyPlan(l, plan) ==
  LET next == Evolve("apply", l, [draft.compiled EXCEPT !.learned = l]) IN
  /\ draft.compiled # NoArtifact
  /\ draft' = IF plan = None THEN next
              ELSE [next EXCEPT !.infra = [by |-> l, kind |-> plan]]
  /\ appended' = appended \cup {l}
  /\ UNCHANGED <<flow, copy, approved>>

\* Mutant: a draft that is not compiled is evolved all the same.
ApplyUncompiled(l, plan) ==
  /\ draft' = Evolve("apply", l, [draft.compiled EXCEPT !.learned = l])
  /\ appended' = appended \cup {l}
  /\ UNCHANGED <<flow, copy, approved>>

\* validateAndApply() of a compiled draft: the prompt takes the learned block of
\* l in place of the one it has; a plan that needs an approval becomes pending.
Apply(l, plan) ==
  LET next == Evolve("apply", l, [draft.compiled EXCEPT !.learned = l]) IN
  /\ draft.compiled # NoArtifact
  /\ draft' = IF plan = "risky" THEN [next EXCEPT !.pending = l]
              ELSE IF plan = "safe" THEN [next EXCEPT !.infra = [by |-> l, kind |-> "safe"]]
              ELSE next
  /\ appended' = appended \cup {l}
  /\ UNCHANGED <<flow, copy, approved>>

\* The host recommends a plan; the learning loop never does.
Recommend(q) ==
  /\ q \notin request
  /\ request' = request \cup {q}
  /\ \E plan \in {"safe", "risky"} : Apply(q, plan)

\* approveInfraEvolution() of the plan of p: approved, it is not pending any more.
Approve(q, p) ==
  /\ q \notin request
  /\ request' = request \cup {q}
  /\ IF draft.compiled # NoArtifact /\ draft.pending = p
     THEN /\ draft' = [Evolve("approve", q, draft.compiled) EXCEPT
                         !.infra = [by |-> p, kind |-> "risky"], !.pending = None]
          /\ approved' = approved \cup {p}
     ELSE UNCHANGED <<draft, approved>>
  /\ UNCHANGED <<flow, copy, appended>>

\* rollback(): the artifact before, and only the artifact.
Rollback(q) ==
  /\ q \notin request
  /\ request' = request \cup {q}
  /\ draft' = IF draft.rollback = NoArtifact THEN draft ELSE Evolve("rollback", q, draft.rollback)
  /\ UNCHANGED <<flow, copy, appended, approved>>

-----------------------------------------------------------------------------
Builder == \E w \in Workflows : Read(w) \/ Save(w) \/ GivesUp(w) \/ SaveAtOnce(w)
Host == \E q \in Requests : Recommend(q) \/ Rollback(q) \/ \E p \in request : Approve(q, p)

\* A restart finds the drafts in their file and forgets the workflows.
DraftsRestart ==
  /\ flow' = [w \in Workflows |-> IF flow[w] = "new" THEN "new" ELSE "done"]
  /\ copy' = [w \in Workflows |-> NoDraft]
  /\ UNCHANGED <<draft, request, appended, approved>>

-----------------------------------------------------------------------------
(* Properties                                                              *)

\* Learning, approvals and rollbacks only ever add versions and keep what the
\* workflows made, in any order and beside any workflow; what takes a version
\* away is a workflow that saves over a draft it has not read.
EvolutionsSerialize ==
  [][\/ /\ Len(draft'.versions) >= Len(draft.versions)
        /\ SubSeq(draft'.versions, 1, Len(draft.versions)) = draft.versions
        /\ draft.parts \subseteq draft'.parts
     \/ \E w \in Workflows :
          flow[w] \in {"working", "saved"} /\ flow'[w] # flow[w] /\ draft # copy[w]]_draftVars

\* An infra plan that was recommended and needs an approval is the plan of the
\* draft only after somebody approved that very plan, whichever plans are
\* recommended or rolled back after it, and whatever saves bring an older draft
\* back.  Of the plans the workflows install nobody asks for an approval.
RiskyNeedsApproval ==
  draft.infra.kind = "risky" /\ draft.infra.by \in Requests => draft.infra.by \in approved

\* "Guardrails keep versions append-only" (the starter's README): who appended
\* a version finds it in the draft.
VersionsAppendOnly ==
  \A l \in appended : \E i \in 1..Len(draft.versions) :
    draft.versions[i] = [op |-> "apply", by |-> l]
=============================================================================
