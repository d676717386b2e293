----------------------------- MODULE MCCustomer ------------------------------
(***************************************************************************)
(* What belongs to a customer, for TLC: sessions, addresses, wishlist with *)
(* preferences, inbox, avatar, and the files that mirror accounts and      *)
(* orders. They share no row (of users, sessions and avatars model         *)
(* different columns), so each behaviour is of one of them, chosen at the  *)
(* start, and the others stand still.                                      *)
(***************************************************************************)
EXTENDS Sessions, Addresses, Wishlists, Inbox, Avatars, Mirrors

VARIABLE part

customerVars == <<vars, addressVars, wishVars, inboxVars,
                  avatarVars, mirrorVars, part>>

(* Of what stands still, one initial state stands for all. *)
CustomerInit ==
  /\ Init /\ AddressInit /\ WishInit /\ InboxInit
  /\ AvatarInit /\ MirrorInit
  /\ part \in {"sessions", "addresses", "wishlist", "inbox",
               "avatar", "mirrors"}
  /\ part # "inbox" => active = {}
  /\ part # "mirrors" => copies

SessionsMove ==
  /\ part = "sessions" /\ Next
  /\ UNCHANGED <<addressVars, wishVars, inboxVars, avatarVars, mirrorVars>>
AddressesMove ==
  /\ part = "addresses" /\ AddressNext
  /\ UNCHANGED <<vars, wishVars, inboxVars, avatarVars, mirrorVars>>
WishlistMoves ==
  /\ part = "wishlist" /\ WishNext
  /\ UNCHANGED <<vars, addressVars, inboxVars, avatarVars, mirrorVars>>
InboxMoves ==
  /\ part = "inbox" /\ InboxNext
  /\ UNCHANGED <<vars, addressVars, wishVars, avatarVars, mirrorVars>>
AvatarMoves ==
  /\ part = "avatar" /\ AvatarNext
  /\ UNCHANGED <<vars, addressVars, wishVars, inboxVars, mirrorVars>>
MirrorsMove ==
  /\ part = "mirrors" /\ MirrorNext
  /\ UNCHANGED <<vars, addressVars, wishVars, inboxVars, avatarVars>>

CustomerNext ==
  /\ \/ SessionsMove \/ AddressesMove
     \/ WishlistMoves \/ InboxMoves \/ AvatarMoves \/ MirrorsMove
  /\ UNCHANGED part

CustomerSpec == CustomerInit /\ [][CustomerNext]_customerVars

CustomerSymmetry ==
  Permutations(Workers) \cup Permutations(Users)

=============================================================================
