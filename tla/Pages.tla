--------------------------------- MODULE Pages ---------------------------------
(***************************************************************************)
(* Who acts in one browser: its new tab pages and the service worker.      *)
(* An operation is named by who starts it, its kind and a number.          *)
(***************************************************************************)
EXTENDS Naturals

CONSTANTS Tab, None

ASSUME NoneAssumption == None \notin Nat /\ None \notin Tab
\* A page's name is neither the worker's nor what a reset signs with.
ASSUME PageNames == {"worker", "reset"} \cap Tab = {}

Op == [by : Tab \cup {"worker"}, kind : STRING, n : Nat]
===============================================================================
