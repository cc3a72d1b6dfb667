---------------------------- MODULE MCWebhookQueue ----------------------------
(* A small instance of WebhookQueue for TLC: a pull request of GitLab that is pushed to *)
(* and merged, and a comment on one of GitHub, for which the workers have no executor.  *)
EXTENDS WebhookQueue

CONSTANTS push, merge, comment, gitlabPR, githubPR

Raw == [provider |-> "gitlab", event |-> "Merge Request Hook", action |-> "update",
        onPR |-> TRUE, body |-> "none", signed |-> TRUE, wellFormed |-> TRUE,
        allowed |-> TRUE]

MCPayload ==
    [d \in Deliveries |->
       CASE d = push -> Raw
         [] d = merge -> [Raw EXCEPT !.action = "merge"]
         [] OTHER -> [Raw EXCEPT !.provider = "github", !.event = "issue_comment",
                                 !.action = "created", !.body = "text"]]

\* Only the merge is sent twice.
MCPosts == [d \in Deliveries |-> IF d = merge THEN 2 ELSE 1]

MCPR == [d \in Deliveries |-> IF d = comment THEN githubPR ELSE gitlabPR]
==============================================================================
