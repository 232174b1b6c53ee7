---------------------------- MODULE LearningLoop -----------------------------
(***************************************************************************)
(* The learning loop of the SDK as the starter runs it: a run for the      *)
(* session that ended, its status in the run store, and the evolution of   *)
(* the draft at its end.  Every status is published: saved, handed to the  *)
(* status sink if there is one, and told to the host.  A publication that  *)
(* rejects ends the run, or sends it to the catch, which publishes that it *)
(* failed, whatever was saved before.                                      *)
(*                                                                         *)
(* Runs and drafts are kept in files, written before a save returns: after *)
(* a restart both are there and every handler is gone.                     *)
(***************************************************************************)
EXTENDS AgentDrafts

CONSTANTS
  Session(_),  \* the session and the agent each run is asked for
  Actions,     \* decisions the policy may take
  Failing,     \* what may reject: "sink", "ports", "activation"
  MaxRestarts  \* bound on restarts of the server

Final == {"applied", "pending_approval", "rejected", "failed", "skipped"}
AllActions == {"none", "write_memory", "candidate", "pending_approval", "reject", "apply"}

ASSUME LoopAssumption ==
  /\ Actions \subseteq AllActions
  /\ Failing \subseteq {"sink", "ports", "activation"}
  /\ MaxRestarts \in Nat

VARIABLES
  status,   \* status of each run in the store, None before it is there
  at,       \* where the handler of each run is
  next,     \* where it goes on after a publication
  troubled, \* history: runs that something rejected under
  restarts

loopVars == <<status, at, next, troubled, restarts>>
vars == <<draftVars, loopVars>>

Steps == {"learning", "rejecting", "deferring", "applying", "done"}

TypeOK ==
  /\ DraftsTypeOK
  /\ status \in [Runs -> Final \cup {None, "queued", "running", "evaluated"}]
  /\ at \in [Runs -> Steps \cup {"new", "queued", "publishing", "activating"}]
  /\ next \in [Runs -> Steps]
  /\ troubled \subseteq Runs
  /\ restarts \in 0..MaxRestarts

Init ==
  /\ DraftsInit
  /\ status = [r \in Runs |-> None]
  /\ at = [r \in Runs |-> "new"]
  /\ next = [r \in Runs |-> "done"]
  /\ troubled = {}
  /\ restarts = 0

\* Save status s of run r; the handler goes on at "then" when it was told.
Publish(r, s, then) ==
  /\ status' = [status EXCEPT ![r] = s]
  /\ at' = [at EXCEPT ![r] = "publishing"]
  /\ next' = [next EXCEPT ![r] = then]

\* Mutant: a run that was queued before is not looked for.
EnqueueAgain(r) ==
  /\ at[r] = "new"
  /\ status' = [status EXCEPT ![r] = "queued"]
  /\ at' = [at EXCEPT ![r] = "queued"]
  /\ UNCHANGED <<draftVars, next, troubled, restarts>>

\* enqueueSessionLearning() for a session without a run: with one, that run is
\* returned.  The timer that starts the run is set.
Enqueue(r) ==
  /\ at[r] = "new"
  /\ \A other \in Runs : Session(other) = Session(r) => status[other] = None
  /\ status' = [status EXCEPT ![r] = "queued"]
  /\ at' = [at EXCEPT ![r] = "queued"]
  /\ UNCHANGED <<draftVars, next, troubled, restarts>>

Begin(r) ==
  /\ at[r] = "queued"
  /\ Publish(r, "running", "learning")
  /\ UNCHANGED <<draftVars, troubled, restarts>>

\* The sink and the host took the status.
Told(r) ==
  /\ at[r] = "publishing"
  /\ at' = [at EXCEPT ![r] = next[r]]
  /\ next' = [next EXCEPT ![r] = "done"]
  /\ UNCHANGED <<draftVars, status, troubled, restarts>>

\* The sink or the host's callback rejected.  "running" is published before the
\* try and "failed" in the catch: there the run just stops.
NotTold(r) ==
  /\ "sink" \in Failing /\ at[r] = "publishing"
  /\ troubled' = troubled \cup {r}
  /\ IF status[r] \in {"running", "failed"}
     THEN /\ at' = [at EXCEPT ![r] = "done"]
          /\ next' = [next EXCEPT ![r] = "done"]
          /\ UNCHANGED status
     ELSE Publish(r, "failed", "done")
  /\ UNCHANGED <<draftVars, restarts>>

\* A session without an agent or a draft.
NothingToLearn(r) ==
  /\ at[r] = "learning"
  /\ Publish(r, "skipped", "done")
  /\ UNCHANGED <<draftVars, troubled, restarts>>

\* What follows a decision; nothing more after the others.
After == [reject |-> "rejecting", pending_approval |-> "deferring", apply |-> "applying"]

\* Signals, decision, evaluation, receipt, memory and graph.
Learn(r) ==
  /\ at[r] = "learning"
  /\ \E action \in Actions :
       Publish(r, "evaluated", IF action \in DOMAIN After THEN After[action] ELSE "done")
  /\ UNCHANGED <<draftVars, troubled, restarts>>

\* One of the ports rejects (not the graph store, whose failure is ignored), or
\* validateAndApply() finds no such draft or a prompt without its policy.
LearnFails(r) ==
  /\ "ports" \in Failing /\ at[r] \in {"learning", "applying"}
  /\ troubled' = troubled \cup {r}
  /\ Publish(r, "failed", "done")
  /\ UNCHANGED <<draftVars, restarts>>

\* A decision that ends the run.
Conclude(r) ==
  /\ \/ at[r] = "rejecting" /\ Publish(r, "rejected", "done")
     \/ at[r] = "deferring" /\ Publish(r, "pending_approval", "done")
  /\ UNCHANGED <<draftVars, troubled, restarts>>

\* validateAndApply() up to its await.
Evolves(r) ==
  /\ at[r] = "applying"
  /\ Apply(r, None)
  /\ at' = [at EXCEPT ![r] = "activating"]
  /\ UNCHANGED <<request, status, next, troubled, restarts>>

\* Mutant: the answer of the port is not looked at.
NotCompiledApplied(r) ==
  /\ at[r] = "applying" /\ draft.compiled = NoArtifact
  /\ Publish(r, "applied", "done")
  /\ UNCHANGED <<draftVars, troubled, restarts>>

\* Its answer for a draft that is not compiled.
NotCompiled(r) ==
  /\ at[r] = "applying" /\ draft.compiled = NoArtifact
  /\ Publish(r, "skipped", "done")
  /\ UNCHANGED <<draftVars, troubled, restarts>>

\* The draft is made the active agent of its owner.
Activated(r) ==
  /\ at[r] = "activating"
  /\ Publish(r, "applied", "done")
  /\ UNCHANGED <<draftVars, troubled, restarts>>

NotActivated(r) ==
  /\ "activation" \in Failing /\ at[r] = "activating"
  /\ troubled' = troubled \cup {r}
  /\ Publish(r, "failed", "done")
  /\ UNCHANGED <<draftVars, restarts>>

Restart ==
  /\ restarts < MaxRestarts
  /\ restarts' = restarts + 1
  /\ at' = [r \in Runs |-> IF at[r] = "new" THEN "new" ELSE "done"]
  /\ troubled' = troubled \cup {r \in Runs : at[r] \notin {"new", "done"}}
  /\ next' = [r \in Runs |-> "done"]
  /\ DraftsRestart
  /\ UNCHANGED status

-----------------------------------------------------------------------------
Run(r) ==
  \/ Enqueue(r) \/ Begin(r) \/ Told(r) \/ NotTold(r) \/ NothingToLearn(r)
  \/ Learn(r) \/ LearnFails(r) \/ Conclude(r) \/ Evolves(r) \/ NotCompiled(r)
  \/ Activated(r) \/ NotActivated(r)

Next ==
  \/ \E r \in Runs : Run(r)
  \/ (Builder \/ Host) /\ UNCHANGED loopVars
  \/ Restart
Spec == Init /\ [][Next]_vars

-----------------------------------------------------------------------------
(* Properties                                                              *)

\* A session changes the agent once at most, however often its end is
\* reported and whenever the server restarts: no two versions were appended
\* by runs of one session.
LearnedOnce ==
  \A i, j \in 1..Len(draft.versions) :
    LET v == draft.versions[i]  u == draft.versions[j] IN
    v.op = "apply" /\ u.op = "apply" /\ {v.by, u.by} \subseteq Runs /\ Session(v.by) = Session(u.by)
      => i = j

\* The status of a run says what it did to the draft: "applied" only if it
\* appended a version, and any other final status only if it did not, unless
\* something rejected or the server stopped under the run.
StatusTellsTheDraft ==
  \A r \in Runs :
    /\ status[r] = "applied" => r \in appended
    /\ status[r] \in Final \ {"applied"} /\ r \in appended => r \in troubled
=============================================================================
