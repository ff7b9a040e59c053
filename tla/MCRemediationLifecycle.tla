----------------------- MODULE MCRemediationLifecycle -----------------------
(* Deployments of RemediationLifecycle for TLC: the concurrency groups of   *)
(* the four CI jobs in the GitHub workflow and in the GitLab pipeline.      *)
EXTENDS RemediationRefinement

\* One workflow group for everything but the review.
GitHubGroup == [a \in Actors |-> IF a = "review" THEN "review" ELSE "control-plane"]

\* Recovery and remediation share a job; lifecycle and review have their own.
GitLabGroup == [a \in Actors |-> IF a \in {"runner", "recovery"} THEN "remediation" ELSE a]

\* Every job excludes every other.
SerialGroup == [a \in Actors |-> "all"]
=============================================================================
