---------------------------- MODULE WebhookEvents ----------------------------
(***************************************************************************)
(* What a webhook means (internal/webhook, internal/models/event.go): the  *)
(* verdict of the HTTP handler on a request, the event a payload is parsed *)
(* into, and what is done about the event by a worker of the queue and by  *)
(* a goroutine of the handler, which are two copies of the same decisions. *)
(*                                                                         *)
(* A payload keeps what is looked at: provider, kind of event, action,     *)
(* whether a comment is on a pull request, and of the comment's text       *)
(* whether it is a command, other text or Lemuria's own ("marked", which   *)
(* may also quote a command).  That the signature or token is right        *)
(* (signed), that the body can be read (wellFormed) and that the           *)
(* repository is on the list (allowed) are facts about the request.        *)
(*                                                                         *)
(* MergeIsNoClose is a faulty variant of the definition after it.          *)
(***************************************************************************)

Providers == {"github", "gitlab"}
Bodies == {"command", "text", "marked"}

\* A parsed event.  It is complete unless branches and head commit are missing, as in
\* GitHub's comments.
NoEvent == [type |-> "none", action |-> "none", body |-> "none", complete |-> FALSE]

ParseGitHub(raw) ==
    CASE raw.event \in {"pull_request", "pull_request_review"} ->
           [type |-> raw.event, action |-> raw.action, body |-> "none", complete |-> TRUE]
      [] raw.event = "issue_comment" /\ raw.onPR ->
           [type |-> "issue_comment", action |-> raw.action, body |-> raw.body,
            complete |-> FALSE]
      [] OTHER -> NoEvent

\* mapGitLabMRAction; any other action stays what it is.
MergeIsNoClose(action) ==
    CASE action = "open" -> "opened"
      [] action = "update" -> "synchronize"
      [] action = "close" -> "closed"
      [] OTHER -> action
MapAction(action) ==
    CASE action = "open" -> "opened"
      [] action = "update" -> "synchronize"
      [] action \in {"close", "merge"} -> "closed"
      [] OTHER -> action

\* GitLab does not say whether a note is new: all count as created.
ParseGitLab(raw) ==
    CASE raw.event = "Merge Request Hook" ->
           [type |-> "pull_request", action |-> MapAction(raw.action), body |-> "none",
            complete |-> TRUE]
      [] raw.event = "Note Hook" /\ raw.onPR ->
           [type |-> "issue_comment", action |-> "created", body |-> raw.body,
            complete |-> TRUE]
      [] OTHER -> NoEvent

Parse(raw) == IF raw.provider = "github" THEN ParseGitHub(raw) ELSE ParseGitLab(raw)

\* The HTTP handlers, both the same: the first check that fails decides.
Handle(raw) ==
    IF ~raw.signed THEN "unauthorized"
    ELSE IF ~raw.wellFormed THEN "bad request"
    ELSE IF Parse(raw) = NoEvent THEN "ignored"
    ELSE IF Parse(raw).body = "marked" THEN "bot comment ignored"
    ELSE IF ~raw.allowed THEN "repo not allowed"
    ELSE "accepted"

ShouldAutoplan(e) == e.type = "pull_request" /\ e.action \in {"opened", "synchronize"}
ShouldUnlockAll(e) == e.type = "pull_request" /\ e.action = "closed"

\* handleComment: only a new comment that is a command is executed.
NewCommand(e) == e.action = "created" /\ e.body = "command"

\* WebhookHandler.processEvent of the queue's worker.
TaskReaction(e, autoplan) ==
    CASE ShouldUnlockAll(e) -> "unlock all"
      [] ShouldAutoplan(e) /\ autoplan -> "plan"
      [] e.type = "issue_comment" /\ NewCommand(e) -> "command"
      [] OTHER -> "nothing"

\* processEvent of the HTTP handlers.  A marked comment never gets here; were it to, it
\* would be parsed like any other.
FallbackReaction(e, autoplan) ==
    CASE ShouldUnlockAll(e) -> "unlock all"
      [] ShouldAutoplan(e) /\ autoplan -> "plan"
      [] e.type = "issue_comment" /\ e.action = "created" /\ e.body # "text" -> "command"
      [] OTHER -> "nothing"

==============================================================================
