---------------------------- MODULE ODataAnswers ----------------------------
(***************************************************************************)
(* What one GET sent by ODataClient can come back with, reduced to the     *)
(* classes the code tells apart, and what the code makes of each class:    *)
(* the retry decision of _send_get, the exception request / request_raw    *)
(* raise, and the status tool_executor gives to that exception.            *)
(***************************************************************************)

\* 2xx with a body that parses, 2xx (or an unfollowed 3xx) with one that does
\* not, 401, any other 4xx but 429, 429, 5xx, and httpx.TransportError.
Answers == { "usable", "unusable", "unauthorized", "client_error",
             "throttled", "server_error", "no_answer" }

\* The answers that make _send_get sleep and go round its loop again.
Transient == { "throttled", "server_error", "no_answer" }

\* A bug the runs must catch: 429 and the transport failure swapped.
StatusOfSwapped(answer) ==
    CASE answer = "usable"    -> "ok"
      [] answer = "throttled" -> "timeout"
      [] answer = "no_answer" -> "rate_limited"
      [] OTHER                -> "http_error"

\* The status of the ToolResult and of the audit row for the answer the
\* client gives up or succeeds on.
StatusOf(answer) ==
    CASE answer = "usable"    -> "ok"
      [] answer = "throttled" -> "rate_limited"
      [] answer = "no_answer" -> "timeout"
      [] OTHER                -> "http_error"

\* The status the taxonomy of audit.py gives to the same answer, and the two
\* answers for which the code does not follow it: the exception that request
\* and request_raw raise for them is the one of any other HTTP error.
DocumentedStatus(answer) ==
    CASE answer = "usable"       -> "ok"
      [] answer = "unusable"     -> "parse_error"
      [] answer = "unauthorized" -> "auth_error"
      [] answer = "throttled"    -> "rate_limited"
      [] answer = "no_answer"    -> "timeout"
      [] OTHER                   -> "http_error"
Misfiled == { "unusable", "unauthorized" }

=============================================================================
