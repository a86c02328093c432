----------------------------- MODULE MCNotifier -----------------------------
(***************************************************************************)
(* Notifier with two workers, a queue of two events and two attempts, and  *)
(* five events, so that the queue overflows while both workers are busy    *)
(* and one event has time to overtake several.                             *)
(***************************************************************************)
EXTENDS Notifier
=============================================================================
