------------------------------- MODULE Bundle -------------------------------
(***************************************************************************)
(* The job that orchestration/bundle.py generates for a schedule group,    *)
(* next to the batch that `ingest run --group' makes of the same tables:   *)
(* `selected' of module BatchRunner is the group, every other table is in  *)
(* another one.  In the job each enabled table is a task that runs by      *)
(* itself, after the tasks it depends on; only the edges between tasks are *)
(* left of what BatchRunner does with levels and failed dependencies.      *)
(***************************************************************************)
EXTENDS BatchRunner

\* build_resources: the tables of the job; without any there is none.
JobTables == selected \ Disabled

\* build_task: "Only dependencies inside this job can be expressed".
Edges(t) == {d \in deps[t] : d \in JobTables}

\* MUTANT: a dependency on a disabled table of the group is not named.
NotExpressedAcrossGroups == {p \in JobTables \X Tables :
                               p[2] \in deps[p[1]] \ selected}

\* _cross_group_dependencies: what the job's description names, as pairs of
\* a task and a table it depends on.
NotExpressed == {p \in JobTables \X Tables : p[2] \in deps[p[1]] \ JobTables}

\* cross_group_dependency_report, for the tables of this group.
CrossGroupReport == {p \in selected \X Tables : p[2] \in deps[p[1]] \ selected}

----------------------------------------------------------------------------
(* Properties.                                                             *)

\* The levels of the batch are made; what follows is about its arguments.
Ordered == phase = "partition" /\ cur = 1

\* Every set that has t and is closed under Succ has u.
Leads(S, Succ(_), t, u) ==
  \A P \in SUBSET S : t \in P /\ (\A x \in P : Succ(x) \subseteq P) => u \in P

\* u comes before t in the job, and in the batch.
JobBefore(u, t) == Leads(JobTables, Edges, t, u)

BatchBefore(u, t) == Leads(selected, DepsInBatch, t, u)

\* The job has no cycle (build_job's order_tables), waits for none but its
\* own tasks, and each edge leads to a lower level of the batch.
JobFitsLevels ==
  /\ Acyclic(JobTables)
  /\ \A t \in JobTables : \A u \in Edges(t) : u \in JobTables
                                              /\ level[u] < level[t]

\* Between t and u the batch has a disabled table that a task before t, or t
\* itself, depends on, and the job's description says so.
LostThrough(d, u, t) == /\ d \in Disabled
                        /\ BatchBefore(u, d)
                        /\ \E x \in JobTables : /\ x = t \/ JobBefore(x, t)
                                                /\ <<x, d>> \in NotExpressed

(***************************************************************************)
(* bundle.py: "Silently dropping an ordering constraint would be the worst *)
(* outcome".  A group that runs as a batch runs as a job, and what the     *)
(* batch orders, the job orders too, except through a disabled table; and  *)
(* then, as for a table of another group, the description names the edge   *)
(* that is missing.                                                        *)
(***************************************************************************)
JobKeepsOrder ==
  Ordered =>
    /\ JobFitsLevels
    /\ \A t, u \in JobTables :
         t # u /\ BatchBefore(u, t) =>
           JobBefore(u, t) \/ \E d \in selected : LostThrough(d, u, t)
    /\ \A pair \in CrossGroupReport : pair[1] \in JobTables => pair \in NotExpressed
=============================================================================
