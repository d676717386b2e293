------------------------------ MODULE MCCatalog --------------------------------
(***************************************************************************)
(* Menu, gallery and replaced rows for TLC: of the catalog's tables they   *)
(* share none but that of products, whose row each has for itself, so each *)
(* behaviour is of one of them, chosen at the start, and the others stand  *)
(* still.                                                                  *)
(*                                                                         *)
(* The closed facts about revisions and routes are evaluated here, apart   *)
(* from the runs of what they are about: there a mutant of a revision or a *)
(* route breaks a property, and not an assumption.                         *)
(***************************************************************************)
EXTENDS Menu, Gallery, Replacement, SchemaFacts, RouteFacts

VARIABLE moving

catalogVars == <<menuVars, galleryVars, replacementVars, moving>>

CatalogInit ==
  /\ MenuInit /\ GalleryInit /\ ReplacementInit
  /\ moving \in {"menu", "gallery", "replacement"}

MenuMoves == moving = "menu" /\ MenuNext /\ UNCHANGED <<galleryVars, replacementVars>>
GalleryMoves == moving = "gallery" /\ GalleryNext /\ UNCHANGED <<menuVars, replacementVars>>
ReplacementMoves == moving = "replacement" /\ ReplacementNext /\ UNCHANGED <<menuVars, galleryVars>>

CatalogNext ==
  /\ MenuMoves \/ GalleryMoves \/ ReplacementMoves
  /\ UNCHANGED moving

CatalogSpec == CatalogInit /\ [][CatalogNext]_catalogVars

CatalogSymmetry ==
  Permutations(Workers) \cup Permutations(Slugs) \cup Permutations(Sizes)

=============================================================================
