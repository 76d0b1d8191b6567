----------------------------- MODULE MCDispatch -----------------------------
(***************************************************************************)
(* Dispatch on a small instance: two threads, a window of two ids and one  *)
(* message more than twice the window, so that ids are evicted and come    *)
(* back.  MaxDelivered bounds the history.                                 *)
(***************************************************************************)
EXTENDS Dispatch

CONSTANT MaxDelivered

BoundedNext == DispatchNext /\ Len(delivered') <= MaxDelivered

MCSpec == DispatchInit /\ [][BoundedNext]_dispatchVars
=============================================================================
