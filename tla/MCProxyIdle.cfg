CONSTANTS
  http = http
  connect_http = connect_http
  grpc = grpc
  connect_grpc = connect_grpc
  Listeners = {http, connect_http, grpc, connect_grpc}
  Order <- MCOrder
  KindOf <- MCKindOf
  Clients = {c1, c2}
  Limit = 1
  Nil = Nil
SPECIFICATION Spec
PROPERTY IdleConnectionsEnd
CHECK_DEADLOCK FALSE
