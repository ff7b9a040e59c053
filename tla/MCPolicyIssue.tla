---------------------------- MODULE MCPolicyIssue ----------------------------
(* The policy issue on GitLab, where one scheduled job replays it beside a  *)
(* finding sync, and on GitHub, where every comment starts a job.           *)
EXTENDS PolicyIssue

GitLabJob  == {"policy"}
GitHubJobs == {"policy", "second"}
=============================================================================
