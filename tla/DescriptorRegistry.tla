-------------------------- MODULE DescriptorRegistry --------------------------
(***************************************************************************)
(* The registry of protobuf descriptors (src/src/grpc/descriptors.ts): a   *)
(* map from ids to descriptors.  A descriptor is the set of services it    *)
(* defines and where it came from: a reflection target, or Upload for      *)
(* anything given by hand or by a configured file.  Message types and      *)
(* their encoding are left out.                                            *)
(***************************************************************************)
EXTENDS Integers, FiniteSets

CONSTANTS
  Targets,          \* the reflection targets (host:port)
  Services,         \* full names of gRPC services
  Upload,           \* the source of descriptors that are not reflected
  MaxDescriptors    \* bound on ids

ASSUME RegistryConstants ==
  /\ IsFiniteSet(Targets)
  /\ IsFiniteSet(Services)
  /\ Upload \notin Targets
  /\ MaxDescriptors \in Nat

VARIABLE descriptors    \* DescriptorRegistry.stored

Descriptor ==
  [id : 1 .. MaxDescriptors, source : Targets \cup {Upload},
   services : SUBSET Services]

(* randomUUID(): an id that no descriptor has.                             *)
FreshIds(stored) ==
  {i \in 1 .. MaxDescriptors : \A d \in stored : d.id # i}

FreshId(stored) ==
  CHOOSE i \in FreshIds(stored) : \A j \in FreshIds(stored) : i <= j

(* Whether add() takes a descriptor set: its references resolve and it     *)
(* defines a service.                                                      *)
Acceptable(services, resolves) == resolves /\ services # {}

(* The registry after an add() that does not throw.                        *)
Added(stored, source, services) ==
  stored \cup {[id |-> FreshId(stored), source |-> source, services |-> services]}

(* removeWhere() with the predicate of the reflection importer.            *)
WithoutSource(stored, target) == {d \in stored : d.source # target}

HasService(stored, service) == \E d \in stored : service \in d.services
=============================================================================
