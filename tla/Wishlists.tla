------------------------------- MODULE Wishlists -------------------------------
(***************************************************************************)
(* What a customer has one of, made when it is first asked for: the        *)
(* wishlist, with its items, and the preferences.                          *)
(*                                                                         *)
(* Two requests that miss the row both insert it; the unique index lets    *)
(* one of them in. The items are rows that are inserted and then only ever *)
(* soft-deleted: gen numbers the rows of a product, and a loaded row is    *)
(* the one deleted if its number is still that of the live one. A session  *)
(* does not load the items of a wishlist twice: the answer shows those it  *)
(* found first, without those it deleted.                                  *)
(***************************************************************************)
EXTENDS Handlers

CONSTANTS
  Products,     \* products that exist
  MaxGen        \* bound: rows for one product

ASSUME WishlistBounds == MaxGen \in Nat

VARIABLES
  single,       \* the rows a customer has one of, that exist
  item,         \* rows of wishlist items, by product
  wreq          \* what each handler is at

wishVars == <<single, item, wreq>>

Singles == {"wishlist", "preferences"}

(* found: the items as first loaded, the number of each product's row.     *)
WishAt(pc, kind, product, found) ==
  [pc |-> pc, kind |-> kind, product |-> product, found |-> found]

WishIdle == WishAt("idle", None, None, <<>>)

WishInit ==
  /\ single = {}
  /\ item = [p \in Products |-> [live |-> FALSE, gen |-> 0]]
  /\ wreq = [w \in Workers |-> WishIdle]

LiveItems == {p \in Products : item[p].live}

Loaded == [p \in LiveItems |-> item[p].gen]

WishGoto(w, r) == wreq' = [wreq EXCEPT ![w] = r]

(* Mutant: the row is made under the name of the request. *)
WhichAsked(kind) == kind

Which(kind) == IF kind = "prefer" THEN "preferences" ELSE "wishlist"

(* get_or_create, when the row is there and when it is not. *)
AskFor(w, kind, p) ==
  /\ wreq[w] = WishIdle
  /\ (p = None) = (kind \in {"show", "clear", "prefer"})
  /\ IF Which(kind) \in single
       THEN WishGoto(w, WishAt("act", kind, p, Loaded))
       ELSE WishGoto(w, WishAt("make", kind, p, <<>>))
  /\ UNCHANGED <<single, item>>

(* The index refuses the second row; the request fails. *)
Make(w) ==
  /\ wreq[w].pc = "make"
  /\ IF Which(wreq[w].kind) \in single
       THEN UNCHANGED single /\ WishGoto(w, WishIdle)
       ELSE /\ single' = single \cup {Which(wreq[w].kind)}
            /\ WishGoto(w, [wreq[w] EXCEPT !.pc = "act", !.found = Loaded])
  /\ UNCHANGED item

(* get_item: the item is there for remove, and not for add. *)
GetItem(w) ==
  LET r == wreq[w] IN
  /\ r.pc = "act" /\ r.kind \in {"add", "remove"}
  /\ IF (r.product \in LiveItems) = (r.kind = "remove")
       THEN WishGoto(w, [r EXCEPT !.pc = "save",
              !.found = With(@, r.product, item[r.product].gen)])
       ELSE WishGoto(w, WishIdle)
  /\ UNCHANGED <<single, item>>

(* Mutant: no index over the live items of a wishlist, one row hides       *)
(* another.                                                                *)
AddBlindly(w) ==
  LET p == wreq[w].product IN
  /\ wreq[w].pc = "save" /\ wreq[w].kind = "add" /\ item[p].gen < MaxGen
  /\ item' = [item EXCEPT ![p] = [live |-> TRUE, gen |-> @.gen + 1]]
  /\ WishGoto(w, WishIdle)
  /\ UNCHANGED single

AddItem(w) ==
  LET p == wreq[w].product IN
  /\ wreq[w].pc = "save" /\ wreq[w].kind = "add"
  /\ \/ /\ ~item[p].live /\ item[p].gen < MaxGen
        /\ item' = [item EXCEPT ![p] = [live |-> TRUE, gen |-> @.gen + 1]]
     \/ item[p].live /\ UNCHANGED item
  /\ WishGoto(w, WishIdle)
  /\ UNCHANGED single

(* The rows to delete, as loaded. *)
Doomed(r) == IF r.kind = "remove" THEN {r.product} ELSE DOMAIN r.found

SameRow(r, p) == item[p] = [live |-> TRUE, gen |-> r.found[p]]

(* remove and clear: all the rows in one transaction, or none if one of    *)
(* them has been deleted since.                                            *)
DeleteItems(w) ==
  LET r == wreq[w] IN
  /\ \/ r.pc = "save" /\ r.kind = "remove"
     \/ r.pc = "act" /\ r.kind = "clear"
  /\ IF \A p \in Doomed(r) : SameRow(r, p)
       THEN item' = [p \in Products |-> IF p \in Doomed(r)
                       THEN [item[p] EXCEPT !.live = FALSE] ELSE item[p]]
       ELSE UNCHANGED item
  /\ WishGoto(w, WishIdle)
  /\ UNCHANGED single

(* The list or the preferences are answered; or the request fails. *)
EndWish(w) ==
  /\ wreq[w] # WishIdle
  /\ WishGoto(w, WishIdle)
  /\ UNCHANGED <<single, item>>

WishNext ==
  \E w \in Workers :
    \/ \E kind \in {"show", "clear", "prefer", "add", "remove"},
          p \in Products \cup {None} : AskFor(w, kind, p)
    \/ Make(w) \/ GetItem(w) \/ AddItem(w) \/ DeleteItems(w) \/ EndWish(w)

WishSpec == WishInit /\ [][WishNext]_wishVars

-----------------------------------------------------------------------------
WishTypeOK ==
  /\ single \subseteq Singles
  /\ item \in [Products -> [live : BOOLEAN, gen : 0 .. MaxGen]]
  /\ \A w \in Workers : DOMAIN wreq[w].found \subseteq Products

(* A request never takes a row that is live out of the list, or puts       *)
(* another in its place, unless it found that very row there itself.       *)
ItemsGoOnlyWhenSeen ==
  [][\A p \in Products :
       item[p].live /\ item'[p] # item[p] =>
         \E w \in Workers :
           /\ wreq[w].kind \in {"remove", "clear"} /\ wreq'[w] = WishIdle
           /\ p \in DOMAIN wreq[w].found /\ SameRow(wreq[w], p)]_wishVars

(* All that is promised of wish lists: the rows are of the list their      *)
(* request asked for, and none goes that its request had not found.        *)
WishlistsCorrect ==
  /\ [](WishTypeOK)
  /\ ItemsGoOnlyWhenSeen

=============================================================================
