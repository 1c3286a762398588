---------------------------- MODULE ExchangeOutcome ----------------------------
(***************************************************************************)
(* How a log entry names what became of an exchange: the same decision in  *)
(* src/src/proxy/pipeline.ts and src/src/grpc/grpc-listener.ts.            *)
(***************************************************************************)

Flags == {"mock", "fault", "modified", "delayed", "upstream_error", "client_aborted"}
Outcomes == Flags \cup {"rule_error", "captured"}
Reasons == {"client_aborted", "upstream_error", "matched_rule", "rule_error", "capture_rule"}

(* The messages an entry may hold besides the request and the response. *)
Drafts == {"forwarded", "upstream"}
Entry == [outcome : Outcomes, reason : Reasons, drafts : SUBSET Drafts]

(* As the metrics name an exchange that is not logged. *)
OutcomeForMetrics(f, e) ==
  IF f = {} THEN IF e THEN "rule_error" ELSE "passthrough" ELSE CHOOSE flag \in f : TRUE

(* decideOutcome(), from the flags set and whether rules failed: the first of *)
(* these that applies.                                                        *)
Outcome(f, e) ==
  IF "client_aborted" \in f THEN "client_aborted"
  ELSE IF "upstream_error" \in f THEN "upstream_error"
  ELSE IF "mock" \in f THEN "mock"
  ELSE IF "fault" \in f THEN "fault"
  ELSE IF "modified" \in f THEN "modified"
  ELSE IF "delayed" \in f THEN "delayed"
  ELSE IF e THEN "rule_error" ELSE "captured"

ReasonByOutcome(outcome, e, intercepted, captured) ==
  IF outcome \in {"client_aborted", "upstream_error", "rule_error"} THEN outcome
  ELSE IF intercepted THEN "matched_rule" ELSE "capture_rule"

(* loggingReason, which also depends on whether an intercept rule or capture *)
(* rules matched.                                                            *)
Reason(outcome, e, intercepted, captured) ==
  IF outcome = "client_aborted" THEN "client_aborted"
  ELSE IF outcome = "upstream_error" /\ ~intercepted /\ ~captured THEN "upstream_error"
  ELSE IF intercepted THEN "matched_rule"
  ELSE IF e /\ ~captured THEN "rule_error"
  ELSE "capture_rule"

=============================================================================
