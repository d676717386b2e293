------------------------------- MODULE Gallery ---------------------------------
(***************************************************************************)
(* The images of one product, of which one is the primary and is the       *)
(* product's cover, and their files at Cloudinary.                         *)
(*                                                                         *)
(* Requests of staff run in transactions at READ COMMITTED. The product    *)
(* and the images are versioned rows: an UPDATE finds a row only at the    *)
(* version it was loaded. clear_primary is a bulk UPDATE and moves no      *)
(* version; it is the product's version that keeps a deletion and an       *)
(* upload from both choosing the primary. A file has the number of its     *)
(* image; it is stored before the row is, and destroyed after the row's    *)
(* deletion is committed.                                                  *)
(***************************************************************************)
EXTENDS Handlers

CONSTANTS
  MaxProductImages,  \* settings.max_product_images
  MaxImages,         \* bound: images ever uploaded
  MaxEdits,          \* bound: updates of one row
  Chosen             \* a cover that an editor gave the product

ASSUME GalleryBounds ==
  /\ MaxProductImages \in Nat /\ MaxImages \in Nat /\ MaxEdits \in Nat
  /\ {None, Chosen} \cap 1 .. MaxImages = {}

VARIABLES
  image,        \* committed rows of product_images
  product,      \* the committed row of the product
  files,        \* files at Cloudinary, by the number of their image
  gdraft,       \* rows a transaction has written: images, and 0 for the product
  greq          \* what each handler is at

galleryVars == <<image, product, files, gdraft, greq>>

Images == 1 .. MaxImages

Aside == 10000  \* display_order while a reordering is under way

(* Of a deleted row only the version is looked at. *)
ImageRow(state, primary, order, version) ==
  [state |-> state, primary |-> primary, order |-> order, version |-> version]

ProductRow(cover, version) == [cover |-> cover, version |-> version]

(* row: the image at hand. primary: it is, or is to be, the primary.       *)
(* loaded: the product, and seen: the versions of the images, as loaded.   *)
(* todo: images to write; asked: the order asked for.                      *)
NotLoaded == ProductRow(None, 0)

GalleryIdle ==
  [pc |-> "idle", kind |-> None, row |-> None, primary |-> FALSE,
   order |-> 0, cover |-> None, loaded |-> NotLoaded, seen |-> <<>>,
   todo |-> {}, asked |-> <<>>]

GalleryInit ==
  /\ image = [a \in Images |-> ImageRow("none", FALSE, 0, 0)]
  /\ product = ProductRow(None, 1)
  /\ files = [a \in Images |-> "none"]
  /\ gdraft = [w \in Workers |-> <<>>]
  /\ greq = [w \in Workers |-> GalleryIdle]

-----------------------------------------------------------------------------
ImageView(w) == [a \in Images |-> IF a \in DOMAIN gdraft[w] THEN gdraft[w][a] ELSE image[a]]

LiveImages(table) == {a \in Images : table[a].state = "live"}

Primaries(table) == {a \in LiveImages(table) : table[a].primary}

(* The first image that list_for_product lists. *)
FirstImage(table) ==
  CHOOSE a \in LiveImages(table) : \A b \in LiveImages(table) : table[a].order <= table[b].order

RowLockedBy(a) == {v \in Workers : a \in DOMAIN gdraft[v]}

At(w, pc) == greq[w].pc = pc

GalleryGoto(w, r) == greq' = [greq EXCEPT ![w] = r]

Step(w, pc) == GalleryGoto(w, [greq[w] EXCEPT !.pc = pc])

Undo(w) ==
  /\ gdraft' = [gdraft EXCEPT ![w] = <<>>]
  /\ GalleryGoto(w, GalleryIdle)

Write(w, a, row) == gdraft' = [gdraft EXCEPT ![w] = With(@, a, row)]

(* Mutant: the unique indexes are missing. *)
Unindexed(w, a, row) == TRUE

(* The unique indexes over primary images and display orders. *)
Unique(w, a, row) ==
  \A b \in LiveImages(ImageView(w)) \ {a} :
    /\ ~(row.primary /\ ImageView(w)[b].primary)
    /\ row.order # ImageView(w)[b].order

(* Another transaction holds an entry of an index that this row needs. *)
EntryTaken(w, a, row) ==
  \E v \in Workers \ {w} : \E b \in DOMAIN gdraft[v] \ {0, a} :
    \E other \in {image[b], gdraft[v][b]} :
      /\ other.state = "live"
      /\ (row.primary /\ other.primary) \/ row.order = other.order

-----------------------------------------------------------------------------
(* Every request loads the product first. A deletion names an image that   *)
(* some answer has shown.                                                  *)
LoadProduct(w, kind, a) ==
  /\ At(w, "idle")
  /\ IF kind = "delete" THEN a \in Images /\ image[a].state # "none" ELSE a = None
  /\ GalleryGoto(w, [GalleryIdle EXCEPT !.pc = kind, !.kind = kind, !.row = a,
                        !.loaded = IF kind = "reorder" THEN @ ELSE product])
  /\ UNCHANGED <<image, product, files, gdraft>>

(* ProductService.update, with an image_url or without. *)
EditProduct(w) ==
  /\ At(w, "edit") /\ product.version < MaxEdits
  /\ \E cover \in {greq[w].loaded.cover, Chosen} :
       GalleryGoto(w, [greq[w] EXCEPT !.pc = "cover", !.cover = cover])
  /\ UNCHANGED <<image, product, files, gdraft>>

(* upload counts, and stores the file. *)
StoreFile(w, wanted) ==
  LET count == Cardinality(LiveImages(image))
      first == wanted \/ count = 0
  IN /\ At(w, "upload") /\ count < MaxProductImages
     /\ \E a \in Images :
          /\ \A b \in Images : files[b] = "none" <=> b >= a
          /\ files' = [files EXCEPT ![a] = "stored"]
          /\ GalleryGoto(w, [greq[w] EXCEPT !.pc = IF first THEN "find" ELSE "order",
                                            !.row = a, !.primary = first,
                                            !.loaded = IF first THEN @ ELSE NotLoaded])
     /\ UNCHANGED <<image, product, gdraft>>

(* The row the bulk UPDATE of clear_primary finds when it starts. *)
FindPrimary(w) ==
  /\ At(w, "find")
  /\ IF Primaries(image) = {} THEN Step(w, "order")
     ELSE \E a \in Primaries(image) :
            GalleryGoto(w, [greq[w] EXCEPT !.pc = "clear", !.todo = {a}])
  /\ UNCHANGED <<image, product, files, gdraft>>

ClearPrimary(w) ==
  /\ At(w, "clear")
  /\ \E a \in greq[w].todo :
       /\ RowLockedBy(a) = {}
       /\ IF a \in Primaries(image)
            THEN Write(w, a, [image[a] EXCEPT !.primary = FALSE])
            ELSE UNCHANGED gdraft
  /\ GalleryGoto(w, [greq[w] EXCEPT !.pc = "order", !.todo = {}])
  /\ UNCHANGED <<image, product, files>>

(* Mutant: the next display order is the last one. *)
LastDisplayOrder(w) ==
  /\ At(w, "order")
  /\ LET last == Max({-1} \cup {image[a].order : a \in LiveImages(image)})
     IN GalleryGoto(w, [greq[w] EXCEPT !.pc = "insert", !.order = last])
  /\ UNCHANGED <<image, product, files, gdraft>>

NextDisplayOrder(w) ==
  /\ At(w, "order")
  /\ LET next == Max({-1} \cup {image[a].order : a \in LiveImages(image)}) + 1
     IN GalleryGoto(w, [greq[w] EXCEPT !.pc = "insert", !.order = next])
  /\ UNCHANGED <<image, product, files, gdraft>>

InsertImage(w) ==
  LET r == greq[w]
      row == ImageRow("live", r.primary, r.order, 1)
  IN /\ r.pc = "insert"
     /\ ~EntryTaken(w, r.row, row)
     /\ IF Unique(w, r.row, row)
          THEN /\ Write(w, r.row, row)
               /\ GalleryGoto(w, [r EXCEPT !.pc = IF r.primary THEN "cover" ELSE "commit",
                                           !.cover = r.row, !.order = 0])
          ELSE Undo(w)
     /\ UNCHANGED <<image, product, files>>

(* Mutant: the file is destroyed before the row is deleted. *)
LoadDestroying(w) ==
  LET a == greq[w].row IN
  /\ At(w, "delete") /\ a \in LiveImages(image)
  /\ files' = [files EXCEPT ![a] = "gone"]
  /\ GalleryGoto(w, [greq[w] EXCEPT !.pc = "softDelete", !.primary = image[a].primary,
                                    !.seen = [b \in {a} |-> image[b].version]])
  /\ UNCHANGED <<image, product, gdraft>>

LoadImage(w) ==
  LET a == greq[w].row IN
  /\ At(w, "delete") /\ a \in LiveImages(image)
  /\ GalleryGoto(w, [greq[w] EXCEPT !.pc = "softDelete", !.primary = image[a].primary,
                                    !.seen = [b \in {a} |-> image[b].version]])
  /\ UNCHANGED <<image, product, files, gdraft>>

SoftDelete(w) ==
  LET r == greq[w] IN
  /\ r.pc = "softDelete" /\ RowLockedBy(r.row) = {}
  /\ IF image[r.row].version = r.seen[r.row]
       THEN /\ Write(w, r.row, ImageRow("deleted", FALSE, 0, image[r.row].version + 1))
            /\ GalleryGoto(w, [r EXCEPT !.pc = IF r.primary THEN "list" ELSE "commit",
                                        !.seen = <<>>])
       ELSE Undo(w)
  /\ UNCHANGED <<image, product, files>>

(* Mutant: the primary that is deleted is not replaced. *)
ListNoneRemaining(w) ==
  /\ At(w, "list")
  /\ Step(w, "commit")
  /\ UNCHANGED <<image, product, files, gdraft>>

(* delete: the first of the remaining images becomes the primary. *)
ListRemainingImages(w) ==
  LET table == ImageView(w)
      first == FirstImage(table)
  IN /\ At(w, "list")
     /\ GalleryGoto(w, IF LiveImages(table) = {}
                         THEN [greq[w] EXCEPT !.pc = "cover", !.cover = None]
                       ELSE [greq[w] EXCEPT !.pc = "cover", !.cover = first,
                               !.primary = table[first].primary,
                               !.seen = [b \in {first} |-> table[b].version]])
     /\ UNCHANGED <<image, product, files, gdraft>>

(* The flush of the product; a cover that is set to what it was is no change. *)
AfterCover(r) == IF r.kind = "delete" /\ r.cover # None /\ ~r.primary THEN "promote" ELSE "commit"

(* Mutant: the product is written whatever its version is. *)
UpdateCoverBlindly(w) ==
  LET r == greq[w] IN
  /\ r.pc = "cover" /\ RowLockedBy(0) = {}
  /\ Write(w, 0, ProductRow(r.cover, product.version + 1))
  /\ Step(w, AfterCover(r))
  /\ UNCHANGED <<image, product, files>>

UpdateCover(w) ==
  LET r == greq[w] IN
  /\ r.pc = "cover"
  /\ IF r.kind # "edit" /\ r.cover = r.loaded.cover
       THEN Step(w, AfterCover(r)) /\ UNCHANGED gdraft
       ELSE /\ RowLockedBy(0) = {}
            /\ IF product.version = r.loaded.version
                 THEN /\ Write(w, 0, ProductRow(r.cover, product.version + 1))
                      /\ Step(w, AfterCover(r))
                 ELSE Undo(w)
  /\ UNCHANGED <<image, product, files>>

(* Mutant: the first of the remaining images is not made the primary. *)
PromoteNone(w) ==
  /\ At(w, "promote")
  /\ Step(w, "commit")
  /\ UNCHANGED <<image, product, files, gdraft>>

Promote(w) ==
  LET r == greq[w]
      a == r.cover
      row == [image[a] EXCEPT !.primary = TRUE, !.version = @ + 1]
  IN /\ r.pc = "promote" /\ RowLockedBy(a) = {} /\ image[a].version < MaxEdits
     /\ ~EntryTaken(w, a, row)
     /\ IF image[a].version = r.seen[a] /\ Unique(w, a, row)
          THEN Write(w, a, row) /\ GalleryGoto(w, [r EXCEPT !.pc = "commit", !.seen = <<>>])
          ELSE Undo(w)
     /\ UNCHANGED <<image, product, files>>

(* reorder: the request names every image the listing shows. *)
ListForReorder(w) ==
  /\ At(w, "reorder") /\ LiveImages(image) # {}
  /\ \A a \in LiveImages(image) : image[a].version < MaxEdits
  /\ \E asked \in SetToSeqs(LiveImages(image)) :
       GalleryGoto(w, [greq[w] EXCEPT !.pc = "aside", !.asked = asked,
                         !.todo = LiveImages(image),
                         !.seen = [a \in LiveImages(image) |-> image[a].version]])
  /\ UNCHANGED <<image, product, files, gdraft>>

IndexIn(a, asked) == CHOOSE i \in DOMAIN asked : asked[i] = a

(* Mutant: the versions are not checked. *)
SetAsideBlindly(w) ==
  LET r == greq[w]
      a == Min(r.todo)
  IN /\ r.pc = "aside" /\ RowLockedBy(a) = {}
     /\ Write(w, a, [image[a] EXCEPT !.order = Aside + IndexIn(a, r.asked), !.version = @ + 1])
     /\ GalleryGoto(w, [r EXCEPT !.todo = @ \ {a}, !.pc = IF r.todo = {a} THEN "arrange" ELSE @])
     /\ UNCHANGED <<image, product, files>>

(* The first phase, row by row. *)
SetAside(w) ==
  LET r == greq[w]
      a == Min(r.todo)
  IN /\ r.pc = "aside" /\ RowLockedBy(a) = {}
     /\ IF image[a].version = r.seen[a]
          THEN /\ Write(w, a, [image[a] EXCEPT !.order = Aside + IndexIn(a, r.asked),
                                               !.version = @ + 1])
               /\ GalleryGoto(w, [r EXCEPT !.todo = @ \ {a},
                                    !.pc = IF r.todo = {a} THEN "arrange" ELSE @])
          ELSE Undo(w)
     /\ UNCHANGED <<image, product, files>>

(* The second phase: the rows are this transaction's by now. *)
Arrange(w) ==
  LET r == greq[w]
      Arranged(a) == [gdraft[w][a] EXCEPT !.order = IndexIn(a, r.asked) - 1, !.version = @ + 1]
  IN /\ r.pc = "arrange"
     /\ \A a \in DOMAIN gdraft[w] : ~EntryTaken(w, a, Arranged(a))
     /\ IF \A b \in LiveImages(image) \ DOMAIN gdraft[w] : image[b].order >= Len(r.asked)
          THEN /\ gdraft' = [gdraft EXCEPT ![w] = [a \in DOMAIN @ |-> Arranged(a)]]
               /\ Step(w, "commit")
          ELSE Undo(w)
     /\ UNCHANGED <<image, product, files>>

Commit(w) ==
  /\ At(w, "commit")
  /\ image' = ImageView(w)
  /\ product' = IF 0 \in DOMAIN gdraft[w] THEN gdraft[w][0] ELSE product
  /\ gdraft' = [gdraft EXCEPT ![w] = <<>>]
  /\ GalleryGoto(w, IF greq[w].kind = "delete"
                      THEN [GalleryIdle EXCEPT !.pc = "destroy", !.row = greq[w].row]
                      ELSE GalleryIdle)
  /\ UNCHANGED files

(* CatalogCloudinaryService.delete; when it fails the file stays. *)
DestroyFile(w) ==
  /\ At(w, "destroy")
  /\ files' = [files EXCEPT ![greq[w].row] = "gone"]
  /\ GalleryGoto(w, GalleryIdle)
  /\ UNCHANGED <<image, product, gdraft>>

(* A refusal, an error, a lost connection, the end of the process. *)
AbandonGallery(w) ==
  /\ ~At(w, "idle")
  /\ Undo(w)
  /\ UNCHANGED <<image, product, files>>

GalleryNext ==
  \E w \in Workers :
    \/ \E kind \in {"edit", "upload", "delete", "reorder"}, a \in Images \cup {None} :
         LoadProduct(w, kind, a)
    \/ \E wanted \in BOOLEAN : StoreFile(w, wanted)
    \/ EditProduct(w) \/ LoadImage(w)
    \/ FindPrimary(w) \/ ClearPrimary(w) \/ NextDisplayOrder(w) \/ InsertImage(w)
    \/ SoftDelete(w) \/ ListRemainingImages(w) \/ UpdateCover(w) \/ Promote(w)
    \/ ListForReorder(w) \/ SetAside(w) \/ Arrange(w)
    \/ Commit(w) \/ DestroyFile(w) \/ AbandonGallery(w)

GallerySpec == GalleryInit /\ [][GalleryNext]_galleryVars

-----------------------------------------------------------------------------
GalleryTypeOK ==
  LET Row == [state : {"none", "live", "deleted"}, primary : BOOLEAN, order : Nat, version : Nat]
  IN /\ image \in [Images -> Row]
     /\ product.cover \in Images \cup {None, Chosen} /\ product.version \in Nat
     /\ files \in [Images -> {"none", "stored", "gone"}]
     /\ \A w \in Workers : \A a \in DOMAIN gdraft[w] \ {0} : gdraft[w][a] \in Row

(* However uploads, deletions, reorderings and edits interleave, there is  *)
(* one primary image at most.                                              *)
OnePrimary == \A a, b \in Primaries(image) : a = b

CoverIsPrimary ==
  Primaries(image) # {} => product.cover = Chosen \/ Primaries(image) = {product.cover}

(* A deletion that sets the cover the product was loaded with changes      *)
(* nothing of the product, so the product's version is not looked at.      *)
UncheckedDeletion(w) ==
  /\ greq[w].kind = "delete" /\ greq[w].pc = "commit" /\ greq'[w].pc = "destroy"
  /\ greq[w].cover = greq[w].loaded.cover /\ product.cover # greq[w].loaded.cover

(* The primary image is the cover, unless an editor gave the product       *)
(* another one, or a deletion came that did not look at the product.       *)
CoverFollowsPrimary ==
  [][CoverIsPrimary /\ ~CoverIsPrimary'
     => \E w \in Workers : UncheckedDeletion(w)]_galleryVars

(* No image is listed whose file is gone, or was never stored. *)
ListedHaveFiles == \A a \in LiveImages(image) : files[a] = "stored"

(* A commit leaves images without a primary only if it deleted the last    *)
(* one it could see.                                                       *)
PrimaryKept ==
  [][Primaries(image) # {} /\ Primaries(image') = {} /\ LiveImages(image') # {}
     => \E w \in Workers :
          /\ greq[w].kind = "delete" /\ greq[w].pc = "commit" /\ greq'[w].pc = "destroy"
          /\ greq[w].primary /\ greq[w].cover = None]_galleryVars

(* A deletion leaves the product the cover it deletes only if it did not   *)
(* look at the product.                                                    *)
CoverOutlivesRow ==
  [][product.cover \in LiveImages(image) /\ product'.cover = product.cover
       /\ product.cover \notin LiveImages(image')
     => \E w \in Workers : UncheckedDeletion(w)]_galleryVars

(* When a reordering has committed, the images it named are listed in the  *)
(* order it asked for, and none of them had been deleted meanwhile.        *)
ReorderHolds ==
  [][\A w \in Workers :
       greq[w].kind = "reorder" /\ greq[w].pc = "commit" /\ image' # image
         /\ greq'[w] = GalleryIdle
       => LET asked == greq[w].asked
          IN /\ ToSet(asked) \subseteq LiveImages(image')
             /\ \A i, j \in DOMAIN asked :
                  i < j => image'[asked[i]].order < image'[asked[j]].order]_galleryVars

(* All that is promised of a gallery: one primary image, which is the      *)
(* cover, files for all that is listed, and no request that undoes         *)
(* another's deletion, cover or order.                                     *)
GalleryCorrect ==
  /\ [](GalleryTypeOK /\ OnePrimary /\ ListedHaveFiles)
  /\ CoverFollowsPrimary
  /\ PrimaryKept
  /\ CoverOutlivesRow
  /\ ReorderHolds

=============================================================================
