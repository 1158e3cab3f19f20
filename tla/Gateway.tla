------------------------------- MODULE Gateway --------------------------------
(***************************************************************************)
(* What the edge of the system decides without state: who may ask for what *)
(* (internal/api/transport/http), and how an error of a service becomes a  *)
(* gRPC code, the error of the service that called it, and in the end an   *)
(* HTTP status.                                                            *)
(***************************************************************************)
EXTENDS Naturals

\* requirePlayer: the error of a request that `caller` sends about `owner`.
RequirePlayer(caller, owner, none) ==
  CASE caller = none -> "Unauthenticated"
    [] caller # owner -> "PermissionDenied"
    [] OTHER -> "OK"

\* requireOperator: the identity and the role of an operator.
RequireOperator(operator, role, allowed, none) ==
  CASE operator = none \/ role = none -> "Unauthenticated"
    [] role \notin allowed -> "PermissionDenied"
    [] OTHER -> "OK"

\* playerError: the code of an error of the player service.
PlayerCode(err) ==
  CASE err \in {"ErrInvalidPlayer", "ErrInvalidMatchResult"} -> "InvalidArgument"
    [] err = "ErrPlayerAlreadyExists" -> "AlreadyExists"
    [] err = "ErrPlayerNotFound" -> "NotFound"
    [] err = "ErrRatingConflict" -> "Aborted"
    [] err = "Canceled" -> "Canceled"
    [] err = "DeadlineExceeded" -> "DeadlineExceeded"
    [] OTHER -> "Internal"

\* GetPlayer of the player client in the matchmaking service: a code of the
\* player service as an error of the ticket service.
PlayerClientError(code) ==
  CASE code = "NotFound" -> "ErrPlayerNotFound"
    [] code \in {"Canceled", "DeadlineExceeded"} -> "statusError"
    [] OTHER -> "ErrPlayerServiceUnavailable"

\* ticketError: the code of an error of the matchmaking service.  An error
\* that no case names, such as a conflict of two revisions of a match or a
\* status that the player client passed on, is internal.
TicketCode(err) ==
  CASE err \in {"ErrInvalidTicket", "ErrInvalidPolicy", "ErrIdempotencyKeyRequired",
                "ErrInvalidAnalysis", "ErrInvalidExperiment", "ErrInvalidMatch"}
         -> "InvalidArgument"
    [] err \in {"ErrTicketNotFound", "ErrPlayerNotFound", "ErrMatchNotFound",
                "ErrPolicyNotFound"} -> "NotFound"
    [] err = "ErrActiveTicketExists" -> "AlreadyExists"
    [] err \in {"ErrTicketForbidden", "ErrPlayerBanned", "ErrOperationsUnauthorized"}
         -> "PermissionDenied"
    [] err \in {"ErrApprovalRequired", "ErrExperimentActive", "ErrExperimentNotActive",
                "ErrIllegalStateTransition", "ErrIllegalMatchTransition"}
         -> "FailedPrecondition"
    [] err = "ErrPlayerServiceUnavailable" -> "Unavailable"
    [] err = "Canceled" -> "Canceled"
    [] err = "DeadlineExceeded" -> "DeadlineExceeded"
    [] OTHER -> "Internal"

\* Fault: an unknown outcome is reported as a conflict.
Fault_HttpStatus(code) ==
  CASE code \in {"InvalidArgument", "FailedPrecondition", "OutOfRange"} -> 400
    [] code = "Unauthenticated" -> 401
    [] code = "PermissionDenied" -> 403
    [] code = "NotFound" -> 404
    [] code \in {"AlreadyExists", "Aborted", "DeadlineExceeded"} -> 409
    [] code = "ResourceExhausted" -> 429
    [] code = "Unavailable" -> 503
    [] OTHER -> 500

\* writeError: the HTTP status of a gRPC code.
HttpStatus(code) ==
  CASE code \in {"InvalidArgument", "FailedPrecondition", "OutOfRange"} -> 400
    [] code = "Unauthenticated" -> 401
    [] code = "PermissionDenied" -> 403
    [] code = "NotFound" -> 404
    [] code \in {"AlreadyExists", "Aborted"} -> 409
    [] code = "ResourceExhausted" -> 429
    [] code = "Unavailable" -> 503
    [] code = "DeadlineExceeded" -> 504
    [] OTHER -> 500
=============================================================================
