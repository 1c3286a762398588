---------------------------- MODULE MCProxyProcess ----------------------------
(* A listener of each kind, and two clients that compete for one slot.       *)
EXTENDS ProxyProcess, TLC

CONSTANTS http, connect_http, grpc, connect_grpc

MCOrder == <<http, connect_http, grpc, connect_grpc>>

MCKindOf == (http :> "http") @@ (connect_http :> "connect_http")
              @@ (grpc :> "grpc") @@ (connect_grpc :> "connect_grpc")
=============================================================================
