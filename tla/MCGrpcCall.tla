------------------------------ MODULE MCGrpcCall -------------------------------
(* Rules with each action of each stage, with and without delays, and each kind *)
(* of response condition.                                                       *)
EXTENDS GrpcCall

Plain == [delay |-> FALSE, action |-> "none", onReply |-> FALSE,
          replyMatch |-> "none", replyDelay |-> FALSE, replyAction |-> "none"]

RequestRules == {[Plain EXCEPT !.action = a, !.delay = d] :
                   a \in RequestActions, d \in BOOLEAN} \ {Plain}
ReplyRules == {[Plain EXCEPT !.onReply = TRUE, !.action = f, !.replyMatch = m,
                             !.replyDelay = d, !.replyAction = a] :
                 f \in {"none", "request_rewrite"}, m \in {"none", "headers", "trailers"},
                 d \in BOOLEAN, a \in ReplyActions}

MCRules == RequestRules \cup ReplyRules

=============================================================================
