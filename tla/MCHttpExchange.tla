---------------------------- MODULE MCHttpExchange ----------------------------
(* Rules with each action of each stage, with and without delays and a response *)
(* condition, and one whose matcher reads the body.                             *)
EXTENDS HttpExchange

Plain == [needsBody |-> FALSE, delay |-> FALSE, action |-> "none", onReply |-> FALSE,
          replyMatch |-> FALSE, replyDelay |-> FALSE, replyAction |-> "none"]

RequestRules == {[Plain EXCEPT !.action = a, !.delay = d] :
                   a \in RequestActions, d \in BOOLEAN} \ {Plain}
ReplyRules == {[Plain EXCEPT !.onReply = TRUE, !.action = f, !.replyMatch = m,
                             !.replyDelay = d, !.replyAction = a] :
                 f \in {"none", "request_rewrite"}, m \in BOOLEAN, d \in BOOLEAN,
                 a \in ReplyActions}
BodyRules == {[Plain EXCEPT !.needsBody = TRUE, !.action = "mock_response"]}

MCRules == RequestRules \cup ReplyRules \cup BodyRules

=============================================================================
