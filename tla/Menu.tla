--------------------------------- MODULE Menu ----------------------------------
(***************************************************************************)
(* Rows of the menu (products, and alike categories and deals), edited by  *)
(* staff in transactions at READ COMMITTED, and the public pages cached    *)
(* from them.                                                              *)
(*                                                                         *)
(* An edit loads the row and its UPDATE sets the changed columns only, of  *)
(* the row at the version it loaded. A bulk edit is one UPDATE and moves   *)
(* no version. A slug is looked up first, and then kept unique among the   *)
(* live rows by an index. After its commit an edit reads the row again,    *)
(* and drops every cached page: it scans for the keys and unlinks those it *)
(* found. A reader who misses the cache reads the row and then stores the  *)
(* page.                                                                   *)
(***************************************************************************)
EXTENDS Handlers

CONSTANTS
  Slugs,
  MaxMenuRows,     \* bound: rows ever created
  MaxMenuWrites    \* bound: updates of one row

ASSUME MenuBounds == None \notin Slugs /\ MaxMenuRows \in Nat /\ MaxMenuWrites \in Nat

VARIABLES
  menu,         \* committed rows
  page,         \* catalog:product:{slug} keys
  mdraft,       \* the row a transaction has written
  mreq          \* what each handler is at

menuVars == <<menu, page, mdraft, mreq>>

MenuRows == 1 .. MaxMenuRows

(* state: a row deleted in bulk is "purged", any other one "deleted".      *)
MenuRow(state, slug, visible, version) ==
  [state |-> state, slug |-> slug, visible |-> visible, version |-> version]

(* loaded: the row as loaded, or the page a reader is to store.            *)
MenuAt(pc, kind, row, slug, loaded) ==
  [pc |-> pc, kind |-> kind, row |-> row, slug |-> slug, loaded |-> loaded,
   keys |-> {}]

(* A page that was read before an edit and may be stored after it dropped  *)
(* the pages, or that an edit failed to drop: nothing more is said of it.  *)
Late == <<0, 0>>

MenuIdle == MenuAt("idle", None, None, None, None)

MenuInit ==
  /\ menu = [r \in MenuRows |-> MenuRow("none", None, FALSE, 0)]
  /\ page = [s \in Slugs |-> None]
  /\ mdraft = [w \in Workers |-> <<>>]
  /\ mreq = [w \in Workers |-> MenuIdle]

-----------------------------------------------------------------------------
LiveOn(table) == {r \in MenuRows : table[r].state = "live"}

MenuGoto(w, r) == mreq' = [mreq EXCEPT ![w] = r]

MenuLockedBy(r) == {v \in Workers : r \in DOMAIN mdraft[v]}

EndEdit(w) ==
  /\ mdraft' = [mdraft EXCEPT ![w] = <<>>]
  /\ MenuGoto(w, MenuIdle)

(* get_by_slug for the public: what a page of the slug shows. *)
Public(s) ==
  LET shown == {r \in LiveOn(menu) : menu[r].slug = s /\ menu[r].visible}
  IN IF shown = {} THEN None ELSE <<CHOOSE r \in shown : TRUE, menu[CHOOSE r \in shown : TRUE].version>>

(* Mutant: the index is missing. *)
AnySlug(r, row) == TRUE

FreeSlug(r, row) ==
  row.state = "live" => \A q \in LiveOn(menu) \ {r} : menu[q].slug # row.slug

SlugTaken(w, r, row) ==
  /\ row.state = "live"
  /\ \E v \in Workers \ {w} : \E q \in DOMAIN mdraft[v] \ {r} :
       \E other \in {menu[q], mdraft[v][q]} :
         other.state = "live" /\ other.slug = row.slug

-----------------------------------------------------------------------------
StartCreate(w, s) ==
  /\ mreq[w] = MenuIdle
  /\ MenuGoto(w, MenuAt("slug", "create", None, s, None))
  /\ UNCHANGED <<menu, page, mdraft>>

(* kind: "rename" to a slug, "show" or "hide", "touch" other columns,      *)
(* "delete". A row that is not deleted is not restored but shown.          *)
LoadRow(w, r, kind, s) ==
  /\ mreq[w] = MenuIdle
  /\ menu[r].version <= MaxMenuWrites
  /\ IF kind = "restore" THEN menu[r].state \in {"deleted", "purged"} ELSE r \in LiveOn(menu)
  /\ kind = "rename" <=> s \in Slugs
  /\ MenuGoto(w, MenuAt(IF kind = "rename" THEN "slug" ELSE "write", kind, r, s, menu[r]))
  /\ UNCHANGED <<menu, page, mdraft>>

(* slug_exists *)
CheckSlug(w) ==
  LET r == mreq[w] IN
  /\ r.pc = "slug"
  /\ \A q \in LiveOn(menu) \ {r.row} : menu[q].slug # r.slug
  /\ MenuGoto(w, [r EXCEPT !.pc = "write"])
  /\ UNCHANGED <<menu, page, mdraft>>

InsertRow(w, r) ==
  LET row == MenuRow("live", mreq[w].slug, TRUE, 1) IN
  /\ mreq[w].pc = "write" /\ mreq[w].kind = "create"
  /\ \A q \in MenuRows : menu[q].state = "none" /\ MenuLockedBy(q) = {} <=> q >= r
  /\ ~SlugTaken(w, r, row)
  /\ IF FreeSlug(r, row)
       THEN /\ mdraft' = [mdraft EXCEPT ![w] = With(@, r, row)]
            /\ MenuGoto(w, MenuAt("commit", "create", r, None, None))
       ELSE EndEdit(w)
  /\ UNCHANGED <<menu, page>>

(* The columns an edit sets, of a row. *)
Columns(r, row, version) ==
  [state |-> IF r.kind = "delete" THEN "deleted" ELSE IF r.kind = "restore" THEN "live"
             ELSE row.state,
   slug |-> IF r.kind = "rename" THEN r.slug ELSE row.slug,
   visible |-> (row.visible \/ r.kind \in {"show", "restore"}) /\ r.kind # "hide",
   version |-> version]

(* Mutant: the UPDATE writes every column as it was loaded. *)
WholeRow(r, row) ==
  Columns(r, r.loaded, row.version + 1)

(* Mutant: a deletion does not move the version. *)
Unversioned(r, row) ==
  Columns(r, row, IF r.kind = "delete" THEN row.version ELSE row.version + 1)

(* Mutant: a slug that is not given is written as null. *)
NullSlug(r, row) ==
  [Columns(r, row, row.version + 1) EXCEPT !.slug = r.slug]

(* What the UPDATE makes of the row it finds. *)
EditedAs(r, row) ==
  Columns(r, row, row.version + 1)

(* Columns that are set to what they were loaded as are not written. *)
Unchanged(r) ==
  \/ r.kind = "rename" /\ r.slug = r.loaded.slug
  \/ r.kind \in {"show", "hide"} /\ r.loaded.visible = (r.kind = "show")

UpdateRow(w) ==
  LET r == mreq[w] IN
  /\ r.pc = "write" /\ r.kind # "create"
  /\ IF Unchanged(r) THEN /\ MenuGoto(w, MenuAt("commit", r.kind, r.row, None, None))
                         /\ UNCHANGED mdraft
     ELSE LET row == EditedAs(r, menu[r.row]) IN
          /\ MenuLockedBy(r.row) = {}
          /\ ~SlugTaken(w, r.row, row)
          /\ IF menu[r.row].version = r.loaded.version /\ FreeSlug(r.row, row)
               THEN /\ mdraft' = [mdraft EXCEPT ![w] = With(@, r.row, row)]
                    /\ MenuGoto(w, MenuAt("commit", r.kind, r.row, None, None))
               ELSE EndEdit(w)
  /\ UNCHANGED <<menu, page>>

(* bulk_update_fields and bulk_delete, of one row. *)
BulkUpdate(w, r, kind) ==
  /\ mreq[w] = MenuIdle /\ MenuLockedBy(r) = {} /\ r \in LiveOn(menu)
  /\ mdraft' = [mdraft EXCEPT ![w] = With(@, r,
                   IF kind = "purge" THEN [menu[r] EXCEPT !.state = "purged"]
                   ELSE [menu[r] EXCEPT !.visible = kind = "bulkShow"])]
  /\ MenuGoto(w, MenuAt("commit", kind, r, None, None))
  /\ UNCHANGED <<menu, page>>

CommitMenu(w) ==
  LET r == mreq[w] IN
  /\ r.pc = "commit"
  /\ menu' = [q \in MenuRows |-> IF q \in DOMAIN mdraft[w] THEN mdraft[w][q] ELSE menu[q]]
  /\ mdraft' = [mdraft EXCEPT ![w] = <<>>]
  /\ mreq' = [v \in Workers |->
       IF v = w THEN MenuAt(IF r.kind \in {"create", "rename", "show", "hide", "touch"}
                              THEN "detail" ELSE "scan", None, r.row, None, None)
       ELSE [mreq[v] EXCEPT !.loaded = IF mreq[v].pc = "fill" THEN Late ELSE @]]
  /\ UNCHANGED <<page>>

(* The pages, when an edit has not dropped them. *)
Doubted == [s \in Slugs |-> IF page[s] = None THEN None ELSE Late]

(* Mutant: only the pages of the edit's own slug are dropped. *)
ScanOwnPage(w) ==
  /\ mreq[w].pc = "scan"
  /\ MenuGoto(w, [mreq[w] EXCEPT !.pc = "unlink", !.keys = {menu[mreq[w].row].slug}])
  /\ UNCHANGED <<menu, page, mdraft>>

(* get_detail: a row that is not there any more is an assertion error. *)
ReadDetail(w) ==
  LET r == mreq[w] IN
  /\ r.pc = "detail"
  /\ IF r.row \in LiveOn(menu)
       THEN MenuGoto(w, [r EXCEPT !.pc = "scan"]) /\ UNCHANGED page
       ELSE MenuGoto(w, MenuIdle) /\ page' = Doubted
  /\ UNCHANGED <<menu, mdraft>>

(* invalidate_all: scan, then unlink what the scan found. *)
ScanPages(w) ==
  /\ mreq[w].pc = "scan"
  /\ MenuGoto(w, [mreq[w] EXCEPT !.pc = "unlink", !.keys = {s \in Slugs : page[s] # None}])
  /\ UNCHANGED <<menu, page, mdraft>>

UnlinkPages(w) ==
  /\ mreq[w].pc = "unlink"
  /\ page' = [s \in Slugs |-> IF s \in mreq[w].keys THEN None ELSE page[s]]
  /\ MenuGoto(w, MenuIdle)
  /\ UNCHANGED <<menu, mdraft>>

(* Redis fails, and that is swallowed; or the process dies, or Postgres    *)
(* does: before the commit that is a rollback.                             *)
AbandonMenu(w) ==
  /\ mreq[w].pc # "idle"
  /\ page' = IF mreq[w].pc \in {"detail", "scan", "unlink"} THEN Doubted ELSE page
  /\ EndEdit(w)
  /\ UNCHANGED menu

(* get_by_slug of a reader whom the cache did not help. *)
ReadPage(w, s) ==
  /\ mreq[w] = MenuIdle /\ Public(s) # None
  /\ MenuGoto(w, MenuAt("fill", "read", None, s, Public(s)))
  /\ UNCHANGED <<menu, page, mdraft>>

FillPage(w) ==
  LET r == mreq[w] IN
  /\ r.pc = "fill"
  /\ page' = [page EXCEPT ![r.slug] = r.loaded]
  /\ MenuGoto(w, MenuIdle)
  /\ UNCHANGED <<menu, mdraft>>

ExpirePage(s) ==
  /\ page[s] # None
  /\ page' = [page EXCEPT ![s] = None]
  /\ UNCHANGED <<menu, mdraft, mreq>>

MenuEdits == {"show", "hide", "touch", "delete", "restore"}

MenuNext ==
  \/ \E w \in Workers :
       \/ \E s \in Slugs : StartCreate(w, s) \/ ReadPage(w, s)
       \/ \E r \in MenuRows :
            \/ \E s \in Slugs : LoadRow(w, r, "rename", s)
            \/ \E kind \in MenuEdits : LoadRow(w, r, kind, None)
            \/ \E kind \in {"bulkShow", "bulkHide", "purge"} : BulkUpdate(w, r, kind)
            \/ InsertRow(w, r)
       \/ CheckSlug(w) \/ UpdateRow(w) \/ CommitMenu(w)
       \/ ReadDetail(w) \/ ScanPages(w) \/ UnlinkPages(w) \/ AbandonMenu(w)
       \/ FillPage(w)
  \/ \E s \in Slugs : ExpirePage(s)

MenuSpec == MenuInit /\ [][MenuNext]_menuVars

-----------------------------------------------------------------------------
MenuTypeOK ==
  LET Row == [state : {"none", "live", "deleted", "purged"}, slug : Slugs \cup {None},
              visible : BOOLEAN, version : Nat]
  IN /\ menu \in [MenuRows -> Row]
     /\ \A r \in MenuRows : menu[r].state # "none" => menu[r].slug \in Slugs
     /\ \A s \in Slugs : page[s] = None \/ page[s] \in Nat \X Nat
     /\ \A w \in Workers : \A r \in DOMAIN mdraft[w] : mdraft[w][r] \in Row

(* However creations, renamings and restorations interleave, a slug names  *)
(* one live row at most.                                                   *)
SlugNamesOne ==
  \A q, r \in LiveOn(menu) : menu[q].slug = menu[r].slug => q = r

(* A cached page shows the row as it is, or an edit has yet to drop it; or *)
(* it was read before an edit and stored after it, or dropping it failed.  *)
StalePageIsLate ==
  \A s \in Slugs :
    page[s] \notin {None, Late, Public(s)}
    => \E w \in Workers : mreq[w].pc \in {"detail", "scan", "unlink"}

(* A row appears and disappears, for the public and altogether, only when  *)
(* a request asked for that commits: no edit takes back what another one,  *)
(* or a bulk edit, did meanwhile.                                          *)
AskedOnly ==
  [][\A w \in Workers, r \in MenuRows :
       mreq[w].pc = "commit" /\ mreq'[w] # mreq[w] /\ menu'[r] # menu[r]
       => /\ menu'[r].state # menu[r].state =>
               mreq[w].kind \in {"create", "delete", "purge", "restore"}
          /\ menu'[r].visible # menu[r].visible =>
               mreq[w].kind \in {"create", "show", "hide", "bulkShow", "bulkHide", "restore"}]_menuVars

(* A deleted row is edited no more, unless it was deleted in bulk, which   *)
(* moves no version.                                                       *)
DeletedIsLeftAlone ==
  [][\A r \in MenuRows :
       menu[r].state = "deleted" /\ menu'[r] # menu[r] => menu'[r].state = "live"]_menuVars

(* All that is promised of the menu: a slug names one row, cached pages    *)
(* are stale for named reasons only, rows come and go as asked, and        *)
(* deleted rows are left alone.                                            *)
MenuCorrect ==
  /\ [](MenuTypeOK /\ SlugNamesOne /\ StalePageIsLate)
  /\ AskedOnly
  /\ DeletedIsLeftAlone

=============================================================================
