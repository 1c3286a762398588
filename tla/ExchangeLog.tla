------------------------------ MODULE ExchangeLog ------------------------------
(***************************************************************************)
(* What every proxied exchange promises about its trace: it is rejected    *)
(* unseen, or counted once in the metrics and, in the same moment, logged  *)
(* at most once; nothing is taken back or added later.  The comment above  *)
(* the main try block of handleHttpExchange (src/src/proxy/pipeline.ts,    *)
(* 365-368) and the tests "HTTP attempt logging is guaranteed exactly      *)
(* once" state this of the code.                                           *)
(***************************************************************************)
EXTENDS Naturals, Sequences

CONSTANT Entry      \* the log entries there may be

VARIABLES
  recorded,   \* calls of MetricsRegistry.recordRequest() for this exchange
  log,        \* the entries handed to TrafficLogStore.add()
  rejected    \* the exchange was refused before its rules were evaluated

traceVars == <<recorded, log, rejected>>

TraceInit == recorded = 0 /\ log = <<>> /\ rejected = FALSE

Undecided == recorded = 0 /\ ~rejected

Reject ==
  /\ Undecided
  /\ rejected' = TRUE
  /\ UNCHANGED <<recorded, log>>

(* An exchange no rule had anything to do with is counted and not logged. *)
RecordPassthrough ==
  /\ Undecided
  /\ recorded' = 1
  /\ UNCHANGED <<log, rejected>>

RecordAndLog ==
  /\ Undecided
  /\ recorded' = 1
  /\ \E entry \in Entry : log' = <<entry>>
  /\ UNCHANGED rejected

TraceNext == Reject \/ RecordPassthrough \/ RecordAndLog

TraceSpec == TraceInit /\ [][TraceNext]_traceVars

=============================================================================
