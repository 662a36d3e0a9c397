----------------------------- MODULE ErrorReplies ----------------------------
(***************************************************************************)
(* What a caller is told when a request fails: the filter of the GraphQL   *)
(* API, the catch blocks of the gRPC controllers, and the interceptor      *)
(* written for them, which nothing registers.  They look at different      *)
(* facets of an error: its class, its status, its code, or the words of    *)
(* its message.                                                            *)
(***************************************************************************)
EXTENDS Naturals

VARIABLES
    reply  \* the last reply: the error, by whom it was answered, the code, and whether its
           \* message is the error's "own", "generic" or put "friendly"ly

Saying(class, status, words) ==
    [class |-> class, status |-> status, code |-> "none", says |-> words]
An(class, status) == Saying(class, status, {})
OfDatabase(code, says) ==
    [class |-> "PrismaClientKnownRequestError", status |-> 0, code |-> code, says |-> says]

\* The errors that src/ throws, or Prisma does, with the phrases somebody looks for,
\* each in one word.  Status 0: the error has none.
Raised ==
    {An("UnauthorizedException", 401), An("ForbiddenException", 403),
     An("BadRequestException", 400), An("ValidationException", 400),
     An("ConflictException", 409), An("HttpException", 429), An("Error", 0),
     An("RequestTimeoutException", 408), An("RpcException", 0),
     Saying("UnauthorizedException", 401, {"InvalidCredentials"}),
     Saying("NotFoundException", 404, {"NotFound"}),
     Saying("Error", 0, {"NotFound"}),
     Saying("Error", 0, {"invalid", "token"}),
     Saying("ForbiddenException", 403, {"permission"}),
     OfDatabase("P2024", {}),
     OfDatabase("P2002", {"UniqueConstraintFailed"}),
     OfDatabase("P2003", {"ForeignKeyConstraintFailed"}),
     OfDatabase("P2025", {"NotFound", "RecordToUpdateNotFound"})}

\* ValidationException extends BadRequestException.
InstanceOf(e, class) ==
    e.class = class \/ (e.class = "ValidationException" /\ class = "BadRequestException")

IsCriticalError(e) == e.status = 0 \/ e.status >= 500
IsClientError(e) == e.status >= 400 /\ e.status < 500

-----------------------------------------------------------------------------
(* GraphQL                                                                 *)

\* What getErrorCode falls back on.
StatusCode(status) ==
    CASE status = 400 -> "BAD_USER_INPUT"     [] status = 401 -> "UNAUTHENTICATED"
      [] status = 403 -> "FORBIDDEN"          [] status = 404 -> "NOT_FOUND"
      [] status = 409 -> "CONFLICT"           [] status = 422 -> "VALIDATION_ERROR"
      [] status = 429 -> "RATE_LIMIT_EXCEEDED" [] OTHER -> "INTERNAL_SERVER_ERROR"

\* Mutant: no fallback on the status.
GetErrorCodeOfClass(e) ==
    CASE InstanceOf(e, "UnauthorizedException") -> "UNAUTHENTICATED"
      [] InstanceOf(e, "BadRequestException")   -> "BAD_USER_INPUT"
      [] InstanceOf(e, "NotFoundException")     -> "NOT_FOUND"
      [] InstanceOf(e, "ConflictException")     -> "CONFLICT"
      [] OTHER -> IF e.code # "none" THEN e.code ELSE "INTERNAL_SERVER_ERROR"

\* The class first, then a code the error carries, then the status.  No error of the
\* class AuthorizationException is ever thrown.
GetErrorCode(e) ==
    CASE InstanceOf(e, "UnauthorizedException") -> "UNAUTHENTICATED"
      [] InstanceOf(e, "BadRequestException")   -> "BAD_USER_INPUT"
      [] InstanceOf(e, "NotFoundException")     -> "NOT_FOUND"
      [] InstanceOf(e, "ConflictException")     -> "CONFLICT"
      [] OTHER -> IF e.code # "none" THEN e.code ELSE StatusCode(e.status)

\* enhanceUserFriendlyMessage looks for words of the database and of the login.
Friendly(e) ==
    e.says \cap {"UniqueConstraintFailed", "ForeignKeyConstraintFailed",
                 "RecordToUpdateNotFound", "InvalidCredentials"} # {}

SanitizeErrorMessage(e, code) ==
    IF code = "INTERNAL_SERVER_ERROR" THEN "generic" ELSE IF Friendly(e) THEN "friendly" ELSE "own"

Reply(e, by, code, words, level) ==
    reply' = [to |-> e, by |-> by, code |-> code, words |-> words, level |-> level]

\* GraphQLExceptionFilter.catch; clients' errors are logged as warnings.
Catch(e) ==
    LET code == GetErrorCode(e) IN
    Reply(e, "graphql", code, SanitizeErrorMessage(e, code),
          IF IsCriticalError(e) \/ ~ IsClientError(e) THEN "error" ELSE "warn")

-----------------------------------------------------------------------------
(* gRPC                                                                    *)

\* handleGrpcError of the authorization controller has the words only.
HandleGrpcError(e) ==
    LET code == IF "NotFound" \in e.says THEN "NOT_FOUND"
                ELSE IF "permission" \in e.says THEN "PERMISSION_DENIED"
                ELSE IF "token" \in e.says THEN "UNAUTHENTICATED"
                ELSE IF "invalid" \in e.says THEN "INVALID_ARGUMENT" ELSE "INTERNAL"
    IN  Reply(e, "controller", code, IF code = "INTERNAL" THEN "generic" ELSE "own", "error")

\* handleError of the base controller, which the user controller calls with an Error of
\* its own.
HandleError(e) ==
    e.class = "Error" /\ Reply(e, "base", IF e.code = "none" THEN "INTERNAL_ERROR" ELSE e.code, "own", "error")

\* mapErrorToGrpcError.
MapErrorToGrpcError(e) ==
    CASE InstanceOf(e, "UnauthorizedException") -> "UNAUTHENTICATED"
      [] InstanceOf(e, "NotFoundException")     -> "NOT_FOUND"
      [] InstanceOf(e, "BadRequestException")   -> "INVALID_ARGUMENT"
      [] InstanceOf(e, "ConflictException")     -> "ALREADY_EXISTS"
      [] OTHER -> IF IsCriticalError(e) THEN "INTERNAL" ELSE "UNKNOWN"

\* An RpcException goes through as it is.
InterceptError(e) ==
    LET code == IF e.class = "RpcException" THEN "ItsOwn" ELSE MapErrorToGrpcError(e) IN
    Reply(e, "interceptor", code, IF code = "INTERNAL" THEN "generic" ELSE "own",
          IF IsCriticalError(e) \/ ~ IsClientError(e) THEN "error" ELSE "warn")

ErrorsInit == reply = [to |-> An("Error", 0), by |-> "nobody"]

ErrorsNext ==
    \E e \in Raised : \/ Catch(e) \/ HandleGrpcError(e) \/ HandleError(e) \/ InterceptError(e)

ErrorsSpec == ErrorsInit /\ [][ErrorsNext]_reply

-----------------------------------------------------------------------------
(* Correctness                                                             *)

\* Whatever classes and codes an error has, a GraphQL client is told the meaning of its
\* status, and only what has no status is logged as an error; a broken constraint is told in
\* friendly words.  What says nothing about itself is told in nobody's words, and so is a
\* timeout: the table of the codes has no 408, and the client reads of an internal error what
\* the log calls the client's.  The interceptor blames the server for no error with a status.
ErrorsKeepMeaning ==
    LET e == reply.to
        Broken == {"UniqueConstraintFailed", "ForeignKeyConstraintFailed"}
        Told == e.status # 0 /\ e.class # "RequestTimeoutException"
    IN
    /\ reply.by = "graphql" =>
          /\ e.status # 0 => reply.code = StatusCode(e.status)
          /\ Told => reply.code # "INTERNAL_SERVER_ERROR" /\ reply.words # "generic"
          /\ ~ Told /\ e.code = "none" => reply.words = "generic"
          /\ e.says \cap Broken # {} => reply.words = "friendly"
          /\ (e.status = 0) <=> reply.level = "error"
    /\ reply.by = "interceptor" /\ e.class # "RpcException" =>
          (e.status = 0 <=> reply.code = "INTERNAL")
=============================================================================
