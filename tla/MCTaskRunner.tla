----------------------------- MODULE MCTaskRunner -----------------------------
(***************************************************************************)
(* Instances of TaskRunner.  Safety: two handlers race over one task that  *)
(* may be a download or an update.  Liveness: one handler, and two tasks   *)
(* that arrive in one list and compete for one work.                       *)
(***************************************************************************)
EXTENDS TaskRunner, TLC

MCTargets == {[site |-> "syosetu", work |-> "n1", form |-> "ncode"]}
Download(o) == [kind |-> "download", target |-> CHOOSE t \in MCTargets : TRUE,
                work |-> NoWork, opts |-> o]
Update(w, o) == [kind |-> "update", target |-> NoTarget, work |-> w, opts |-> o]

MCBatches == { <<Download({})>>, <<Update(1, {})>> }
MCPairBatch == { <<Download({}), Update(1, {})>> }

Symmetry == Permutations(TaskIDs) \cup Permutations(Clients)
=============================================================================
