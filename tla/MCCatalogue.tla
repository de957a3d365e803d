----------------------------- MODULE MCCatalogue ----------------------------
(* A small instance of Catalogue for TLC.                                   *)
EXTENDS Catalogue

CONSTANTS a, b

(* Manifests a developer might add by mistake.                              *)
SomeDrafts ==
  [again   |-> Scaffold("meet"),
   foreign |-> [Scaffold("tasks") EXCEPT !.permissions[1].key = Key("drive", "node", "move")],
   stolen  |-> [Scaffold("tasks") EXCEPT !.permissions[1].key = Key("drive", "node", "share")]]
=============================================================================
