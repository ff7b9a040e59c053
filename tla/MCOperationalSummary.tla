------------------------ MODULE MCOperationalSummary ------------------------
(***************************************************************************)
(* Instances of OperationalSummary: all jobs in one concurrency group, or  *)
(* one group for each.                                                     *)
(***************************************************************************)
EXTENDS OperationalSummary

GitHubGroup == [j \in Jobs |-> "remediation"]
GitLabGroup == [j \in Jobs |-> j]
=============================================================================
