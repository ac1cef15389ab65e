-------------------------------- MODULE Site --------------------------------
(***************************************************************************)
(* What the modules about viewers share: users, the browser tabs they have *)
(* open, and the movies of the catalogue.                                  *)
(***************************************************************************)
EXTENDS FiniteSets, Integers

CONSTANTS User, Tab, Owner(_), Movie

ASSUME SiteAssumption == \A t \in Tab : Owner(t) \in User
=============================================================================
