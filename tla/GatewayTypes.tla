---------------------------- MODULE GatewayTypes ----------------------------
(***************************************************************************)
(* The enumerations of domain/enums.py, as sets of their string values,    *)
(* and the result codes of the two request handlers.                       *)
(***************************************************************************)

RiskLevel      == {"low", "medium", "high", "critical"}
EntityStatus   == {"active", "disabled"}
PolicyEffect   == {"allow", "deny", "require_approval"}
ToolCallStatus == {"denied", "pending_approval", "executing", "succeeded", "failed"}
ApprovalStatus == {"pending", "approved", "denied", "expired", "executed", "failed"}

\* A review in one of these states is closed.
TerminalStatuses == {"denied", "expired", "executed", "failed"}

\* What the audit events of the two handlers carry in their status column.
AuditStatus == {"denied", "pending_approval", "succeeded", "failed",
                "approved", "expired", "executed"}

\* The application errors the handlers raise, by their API code.
ErrorCode == {"idempotency_conflict", "agent_disabled", "tool_not_found",
              "tool_disabled", "argument_schema_invalid",
              "approval_not_found", "approval_not_pending", "approval_denied",
              "approval_already_processed", "internal_error"}

\* What PolicyService.evaluate can return for a tool of this risk level: the
\* built-in rules pin critical and high, agent role, arguments and configured
\* policies choose among the rest.
Decisions(risk) == CASE risk = "critical" -> {"deny"}
                     [] risk = "high"     -> {"deny", "require_approval"}
                     [] OTHER             -> PolicyEffect
=============================================================================
