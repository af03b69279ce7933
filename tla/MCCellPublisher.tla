-------------------------- MODULE MCCellPublisher --------------------------
(* A session, an application and one label, for TLC. *)
EXTENDS CellPublisher

MCCallers == {"serve", "app"}

=============================================================================
