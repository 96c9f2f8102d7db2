--------------------------- MODULE UpstreamErrors ---------------------------
(***************************************************************************)
(* handlers/common/failover.go: what an upstream's error means.  Two       *)
(* judgements are made of each response from the words it contains, one    *)
(* whether another key is worth trying, in fuzzy or in normal mode, and    *)
(* one whether the key has to be disabled; a third decides what a client   *)
(* is told when all keys have failed.                                      *)
(*                                                                         *)
(* Of a text it matters which lists of keywords it matches.  The fields    *)
(* that may hold the text (message, detail, upstream_error...) are one.    *)
(***************************************************************************)
EXTENDS Naturals, FiniteSets

CONSTANTS
  MaxWords   \* bound: the lists a text matches

VARIABLES
  fuzzyMode,
  apiType,            \* "Responses", or another one
  judged,             \* the response being judged
  lastFailoverError,  \* the last one that another key was tried for
  told                \* what the client is told: [status, cause]

errorVars == <<fuzzyMode, apiType, judged, lastFailoverError, told>>

NoError == [status |-> 0, shape |-> "none", code |-> "none", type |-> "none", words |-> {}]
Untold  == [status |-> 0, cause |-> "none"]

-----------------------------------------------------------------------------
(* Responses *)

(* 400 stands for the codes for which the text decides, 401 also for 403.   *)
Statuses == {400, 401, 402, 408, 429, 500}

(* "auth": invalid_api_key, authentication_error, permission_denied;        *)
(* "balance": codes of upstreams such as 1113 or USAGE_LIMIT_EXCEEDED.      *)
Codes == {"none", "content_filter", "bad_request", "auth", "balance", "model_not_found",
          "missing_required_parameter"}

(* "billing" and "quota" are both about money, but only billing_error and   *)
(* INSUFFICIENT_BALANCE mean that there is none.                            *)
ErrorTypes == {"none", "validation_error", "auth", "balance", "billing", "quota", "server_error",
               "other"}

(* "schema", "quota", "auth" and "transient" are the lists of               *)
(* classifyMessage; "balance" and "authFailed" those of ShouldBlacklistKey; *)
(* "tools" and "rejected" those of isResponsesToolsProtocolError.           *)
Words == {"schema", "quota", "auth", "transient", "balance", "authFailed", "tools", "rejected"}
Texts == {w \in SUBSET Words : Cardinality(w) <= MaxWords /\ ("authFailed" \in w => "auth" \in w)}

(* An error object, its fields alone, a string, or no body that can be      *)
(* parsed.                                                                  *)
Bodies(status) ==
  [status : {status}, shape : {"nested"}, code : Codes, type : ErrorTypes, words : Texts]
    \cup [status : {status}, shape : {"flat"}, code : {"none", "auth", "balance"},
          type : ErrorTypes, words : Texts]
    \cup [status : {status}, shape : {"text"}, code : {"none"}, type : {"none"}, words : Texts]
    \cup {[NoError EXCEPT !.status = status]}

-----------------------------------------------------------------------------
(* Another key? *)

Stay     == [failover |-> FALSE, quota |-> FALSE]
Failover == [failover |-> TRUE, quota |-> FALSE]
Quota    == [failover |-> TRUE, quota |-> TRUE]

ClassifyByStatusCode(status) ==
  IF status \in {402, 429} THEN Quota
  ELSE IF status \in {401, 408} \/ status >= 500 THEN Failover
  ELSE Stay

ClassifyMessage(words) ==
  IF "schema" \in words THEN Stay
  ELSE IF "quota" \in words THEN Quota
  ELSE IF words \cap {"auth", "transient"} # {} THEN Failover
  ELSE Stay

ClassifyErrorType(type) ==
  IF type \in {"quota", "billing"} THEN Quota
  ELSE IF type \in {"auth", "server_error"} THEN Failover
  ELSE Stay

IsSchemaValidationError(e) ==
  /\ e.code # "auth"
  /\ "schema" \in e.words \/ e.type = "validation_error"

IsNonRetryableErrorCode(e) == e.code = "bad_request"

ClassifyByErrorMessage(e) ==
  IF e.shape = "nested" /\ (IsNonRetryableErrorCode(e) \/ IsSchemaValidationError(e)) THEN Stay
  ELSE IF ClassifyMessage(e.words).failover THEN ClassifyMessage(e.words)
  ELSE ClassifyErrorType(e.type)

IsContentModerationError(e) == e.shape = "nested" /\ e.code = "content_filter"

(* An upstream that does not know the tools of the Responses API.           *)
IsResponsesToolsProtocolError(e) ==
  "tools" \in e.words /\ (e.code = "missing_required_parameter" \/ "rejected" \in e.words)

IsNonRetryableError(e, api) ==
  /\ e.shape = "nested"
  /\ ~ (api = "Responses" /\ IsResponsesToolsProtocolError(e))
  /\ IsSchemaValidationError(e) \/ IsNonRetryableErrorCode(e)

(* The request is at fault: another key would not help.                     *)
RequestAtFault(e, api) ==
  \/ IsContentModerationError(e)
  \/ e.status \in 400..499 /\ IsNonRetryableError(e, api)

ShouldRetryWithNextKeyFuzzy(e, api) ==
  IF RequestAtFault(e, api) THEN Stay
  ELSE IF e.status \in {402, 429} \/ ClassifyByErrorMessage(e).quota THEN Quota
  ELSE Failover

(* Mutant: validation failures are only recognised when the status leaves   *)
(* it to the text.                                                          *)
ShouldRetryWithNextKeyNormalByStatus(e, api) ==
  LET byStatus == ClassifyByStatusCode(e.status)
      byText   == ClassifyByErrorMessage(e)
  IN  IF IsContentModerationError(e) THEN Stay
      ELSE IF byStatus.failover THEN (IF byStatus.quota \/ byText.quota THEN Quota ELSE Failover)
      ELSE byText

ShouldRetryWithNextKeyNormal(e, api) ==
  LET byStatus == ClassifyByStatusCode(e.status)
      byText   == ClassifyByErrorMessage(e)
  IN  IF RequestAtFault(e, api) THEN Stay
      ELSE IF byStatus.failover THEN (IF byStatus.quota \/ byText.quota THEN Quota ELSE Failover)
      ELSE byText

ShouldRetryWithNextKey(e) ==
  IF fuzzyMode THEN ShouldRetryWithNextKeyFuzzy(e, apiType)
               ELSE ShouldRetryWithNextKeyNormal(e, apiType)

-----------------------------------------------------------------------------
(* Is the key to be disabled? *)

(* extractErrorInfo: the code is looked at if there is no type.             *)
ErrType(e) == IF e.type # "none" THEN e.type ELSE e.code

BlacklistReason(e) ==
  IF e.status = 402 THEN "insufficient_balance"
  ELSE IF ErrType(e) = "auth" \/ (e.status = 401 /\ "authFailed" \in e.words)
       THEN "authentication_error"
  ELSE IF ErrType(e) \in {"balance", "billing"} \/ (e.status \in {401, 429} /\ "balance" \in e.words)
       THEN "insufficient_balance"
  ELSE "none"

ShouldBlacklistKey(e) == BlacklistReason(e) # "none"

-----------------------------------------------------------------------------
(* What the client is told *)

IsModelRoutingError(e) == e.shape = "nested" /\ e.code = "model_not_found"

NormalizeUpstreamErrorStatus(e) ==
  IF e.status >= 500 /\ IsModelRoutingError(e) THEN 404 ELSE e.status

Tell(status, cause) == told' = [status |-> status, cause |-> cause]

ErrorInit ==
  /\ fuzzyMode \in BOOLEAN /\ apiType \in {"Responses", "Messages"}
  /\ judged = NoError /\ lastFailoverError = NoError /\ told = Untold

(* A response of a status other than 2xx.                                   *)
JudgeResponse ==
  /\ told = Untold /\ judged = NoError
  /\ \E status \in Statuses : \E e \in Bodies(status) :
       /\ judged' = e
       /\ IF ShouldRetryWithNextKey(e).failover
          THEN lastFailoverError' = e /\ UNCHANGED told
          ELSE Tell(NormalizeUpstreamErrorStatus(e), "response") /\ UNCHANGED lastFailoverError
  /\ UNCHANGED <<fuzzyMode, apiType>>

(* All keys, or all channels, have failed, the last one with an error       *)
(* response or without any.                                                 *)
TellFailure ==
  /\ told = Untold
  /\ LET status == NormalizeUpstreamErrorStatus(lastFailoverError)
     IN  IF lastFailoverError = NoError
         THEN \E s \in {500, 503} : (fuzzyMode => s = 503) /\ Tell(s, "none left")
         ELSE Tell(IF fuzzyMode /\ status = lastFailoverError.status THEN 503 ELSE status,
                   "none left")
  /\ UNCHANGED <<fuzzyMode, apiType, judged, lastFailoverError>>

ErrorNext == JudgeResponse \/ TellFailure

ErrorSpec == ErrorInit /\ [][ErrorNext]_errorVars

-----------------------------------------------------------------------------
(* Properties *)

(* The judgements of an error, made from different lists of words, fit      *)
(* together.  Fuzzy mode only adds attempts, and both modes see the same    *)
(* quota errors, whose failures do not count for the breaker.  A client is  *)
(* not told of an error that disables the key, unless its request is at     *)
(* fault or, in normal mode, the status leaves it to a text that says       *)
(* nothing.                                                                 *)
JudgementsFit ==
  LET normal == ShouldRetryWithNextKeyNormal(judged, apiType)
      fuzzy  == ShouldRetryWithNextKeyFuzzy(judged, apiType)
  IN  judged # NoError =>
        /\ normal.failover => fuzzy.failover
        /\ normal.quota = fuzzy.quota
        /\ ShouldBlacklistKey(judged) /\ told.cause = "response" =>
             \/ RequestAtFault(judged, apiType)
             \/ ~ fuzzyMode /\ judged.status = 400
=============================================================================
