---------------------------- MODULE MCMongoMulti ----------------------------
(***************************************************************************)
(* MongoMulti for TLC: two routes that share a budget, a small and a large *)
(* document on the first, one on the second that either connection may     *)
(* bring, one that BSON cannot encode and one that no buffer can hold.     *)
(***************************************************************************)
EXTENDS MongoMulti, TLC

CONSTANTS r1, r2, c1, c2, small, large, shared, broken, oversize

MCRouteOf == small :> r1 @@ large :> r1 @@ shared :> r2 @@ broken :> r1 @@ oversize :> r2
MCSizeOf == small :> 1 @@ large :> 2 @@ shared :> 1 @@ broken :> 1 @@ oversize :> BufferMaxBytes + 1
MCSourcesOf ==
  small :> {c1} @@ large :> {c1} @@ shared :> {c1, c2} @@ broken :> {c1} @@ oversize :> {c2}
============================================================================
