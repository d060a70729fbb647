---------------------------- MODULE MCOrderService ----------------------------
(* The order service with interchangeable requests. *)
EXTENDS OrderService, TLC

Symmetry == Permutations(Clients)
===============================================================================
