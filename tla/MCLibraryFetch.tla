---------------------------- MODULE MCLibraryFetch ----------------------------
(***************************************************************************)
(* Instances of LibraryFetch: one work of a site, requested as download,   *)
(* update and resume.                                                      *)
(***************************************************************************)
EXTENDS LibraryFetch, TLC

MCTargets == {[site |-> "syosetu", work |-> "n1", form |-> "ncode"]}
Download(o) == [kind |-> "download", target |-> CHOOSE t \in MCTargets : TRUE,
                work |-> NoWork, opts |-> o]
Update(o) == [kind |-> "update", target |-> NoTarget, work |-> 1, opts |-> o]
Resume == [kind |-> "resume", target |-> NoTarget, work |-> 1, opts |-> {}]

MCBatches == { <<Download({})>>, <<Download({"force"})>>,
               <<Update({})>>, <<Update({"skip_unchanged"})>>, <<Resume>> }

Rows == {t \in TaskIDs : tasks[t].status # "absent"}

\* One download, perhaps forced, that is paused, resumed and killed while
\* the site's two episodes change.
OneTask ==
  /\ Cardinality(Rows) <= 1
  /\ \A t \in Rows : tasks[t].req.kind = "download"
  /\ count["removal"] = 0

\* Two tasks for a work of one episode that is removed in between.
TwoTasks ==
  /\ \A t \in Rows : tasks[t].req.opts # {"force"} /\ tasks[t].attempt <= 2
  /\ listed = {1} /\ count["relist"] = 0 /\ count["stop"] = 0

OneOrTwoTasks == OneTask \/ TwoTasks

Symmetry == Permutations(TaskIDs)
=============================================================================
