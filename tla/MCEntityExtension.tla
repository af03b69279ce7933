-------------------------- MODULE MCEntityExtension ---------------------------
(* A small instance of EntityExtension for TLC.                            *)
EXTENDS EntityExtension, TLC

CONSTANTS phone, laptop, read, admin

(* Nothing, so that the default applies; a scope that is not recognised.   *)
MCScopeChoices == {{}, {read, admin}}
=============================================================================
