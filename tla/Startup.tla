-------------------------------- MODULE Startup --------------------------------
(***************************************************************************)
(* Processes that boot, several at once and again and again, on one        *)
(* database: schema check, alembic upgrade head with its fallback, clients,*)
(* and the seeds of the demo menu and coupons; with the operator, who may  *)
(* take the schema back a revision, and the chef, whose menu and coupons   *)
(* the seeds meet. The chef's own account is seeded in module Sessions.    *)
(*                                                                         *)
(* A segment of the upgrade is what is committed together: all of it is    *)
(* one transaction but for the two revisions that leave it.                *)
(***************************************************************************)
EXTENDS Migrations

CONSTANTS
  Processes,        \* application processes
  Codes,            \* codes of the demo coupons
  MaxBoots,         \* bound: boots begun
  MaxDowngrades     \* bound: revisions taken back

VARIABLES
  db,           \* the schema, and the revision alembic_version names
  fallback,     \* whether create_all has made tables instead of the revisions
  redup,        \* some pair has been deleted and made again
  phoneless,    \* some user has no phone number
  boot,         \* what each process is at
  boots,        \* boots begun
  downgrades,   \* revisions taken back
  demoMenu,     \* live copies of the demo menu, and whether categories were ever made
  coupon        \* who made the live coupon of each code: "none", "demo", "chef"

startupVars == <<db, fallback, redup, phoneless, boot, boots, downgrades, demoMenu, coupon>>
schemaVars == <<db, fallback>>
dataVars == <<redup, phoneless>>
seedVars == <<demoMenu, coupon>>
countVars == <<boots, downgrades>>

(* empty: the schema had no table; at: the revision it goes on from;        *)
(* current: the upgrade has succeeded, and no revision was taken back since;*)
(* missing: seeds found missing.                                            *)
Boot(pc, empty, at, current, missing) ==
  [pc |-> pc, empty |-> empty, at |-> at, current |-> current, missing |-> missing]

Stopped(pc) == Boot(pc, FALSE, Base, FALSE, {})

StartupInit ==
  /\ db = EmptyDatabase
  /\ fallback = FALSE /\ redup = FALSE /\ phoneless = FALSE
  /\ boot = [p \in Processes |-> Stopped("down")]
  /\ boots = 0 /\ downgrades = 0
  /\ demoMenu = [live |-> 0, any |-> FALSE]
  /\ coupon = [c \in Codes |-> "none"]

Proceed(p, b) == boot' = [boot EXCEPT ![p] = b]
Goes(p, pc) == Proceed(p, [boot[p] EXCEPT !.pc = pc])

NoTables == db.schema.objects = {} /\ ~db.versioned

-----------------------------------------------------------------------------
(* ensure_schema_ready *)

CountTables(p) ==
  /\ boot[p].pc \in {"down", "failed"} /\ boots < MaxBoots
  /\ boots' = boots + 1
  /\ Proceed(p, Boot("upgrade", NoTables, db.rev, FALSE, {}))
  /\ UNCHANGED <<schemaVars, dataVars, downgrades, seedVars>>

(* Mutant: a failed upgrade passes for a done one. *)
UpgradeShrugged(p) ==
  /\ UNCHANGED schemaVars
  /\ Proceed(p, [boot[p] EXCEPT !.pc = "recheck", !.current = TRUE])

UpgradeFailed(p) ==
  /\ UNCHANGED schemaVars
  /\ Goes(p, IF boot[p].empty THEN "create" ELSE "recheck")

UpgradeDone(p) ==
  /\ boot[p].at = Latest /\ UNCHANGED schemaVars
  /\ Proceed(p, [boot[p] EXCEPT !.pc = "recheck", !.current = db.rev = Latest])

(* Mutant: the version is stamped whatever became of the operations. *)
CommitRevisionsAnyway(p) ==
  /\ boot[p].at < Latest /\ db.rev = boot[p].at
  /\ db' = Advanced(db)
  /\ Proceed(p, [boot[p] EXCEPT !.at = CommitPoint(@)])
  /\ UNCHANGED fallback

(* The revisions up to the next commit. They fail if another process has    *)
(* moved the version, if an operation is refused, or for any reason else.   *)
CommitRevisions(p) ==
  /\ boot[p].at < Latest /\ db.rev = boot[p].at
  /\ db' = Advanced(db) /\ db'.schema.ok
  /\ Proceed(p, [boot[p] EXCEPT !.at = CommitPoint(@)])
  /\ UNCHANGED fallback

Upgrade(p) ==
  /\ boot[p].pc = "upgrade"
  /\ CommitRevisions(p) \/ UpgradeDone(p) \/ UpgradeFailed(p)
  /\ UNCHANGED <<dataVars, countVars, seedVars>>

CreateTables(p) ==
  /\ boot[p].pc = "create"
  /\ \/ /\ db' = Filled(db)
        /\ fallback' = TRUE
        /\ Goes(p, "recheck")
     \/ UNCHANGED schemaVars /\ Goes(p, "failed")
  /\ UNCHANGED <<dataVars, countVars, seedVars>>

(* Any table will do, alembic_version too. Then init_redis, init_cloudinary,*)
(* validate_brevo_required and init_brevo, any of which may end the boot.   *)
Recheck(p) ==
  /\ boot[p].pc = "recheck"
  /\ (~NoTables /\ Goes(p, "menu")) \/ Goes(p, "failed")
  /\ UNCHANGED <<schemaVars, dataVars, countVars, seedVars>>

-----------------------------------------------------------------------------
(* Seeds: whatever goes wrong with one is logged, and the boot goes on.     *)

FindMenu(p) ==
  /\ boot[p].pc = "menu"
  /\ Goes(p, IF demoMenu.any THEN "coupons" ELSE "addMenu") \/ Goes(p, "coupons")
  /\ UNCHANGED <<schemaVars, dataVars, countVars, seedVars>>

(* Mutant: nothing refuses a second copy. *)
AddMenuAgain(p) ==
  /\ boot[p].pc = "addMenu"
  /\ demoMenu' = [live |-> demoMenu.live + 1, any |-> TRUE]
  /\ Goes(p, "coupons")
  /\ UNCHANGED <<schemaVars, dataVars, countVars, coupon>>

AddMenu(p) ==
  /\ boot[p].pc = "addMenu"
  /\ demoMenu' = IF demoMenu.live = 0 THEN [live |-> 1, any |-> TRUE] ELSE demoMenu
  /\ Goes(p, "coupons")
  /\ UNCHANGED <<schemaVars, dataVars, countVars, coupon>>

FindCoupons(p) ==
  LET missing == {c \in Codes : coupon[c] = "none"} IN
  /\ boot[p].pc = "coupons"
  /\ Proceed(p, [boot[p] EXCEPT !.pc = IF missing = {} THEN "ready" ELSE "addCoupons",
                                !.missing = missing])
     \/ Goes(p, "ready")
  /\ UNCHANGED <<schemaVars, dataVars, countVars, seedVars>>

(* Mutant: what is there by now is written over. *)
AddCouponsOver(p) ==
  /\ boot[p].pc = "addCoupons"
  /\ coupon' = [c \in Codes |-> IF c \in boot[p].missing THEN "demo" ELSE coupon[c]]
  /\ Proceed(p, [boot[p] EXCEPT !.pc = "ready", !.missing = {}])
  /\ UNCHANGED <<schemaVars, dataVars, countVars, demoMenu>>

(* All that were missing are committed together, or none: the unique index *)
(* refuses a code that has a live coupon by now.                           *)
AddCoupons(p) ==
  LET missing == boot[p].missing IN
  /\ boot[p].pc = "addCoupons"
  /\ coupon' = IF \E c \in missing : coupon[c] # "none" THEN coupon
               ELSE [c \in Codes |-> IF c \in missing THEN "demo" ELSE coupon[c]]
  /\ Proceed(p, [boot[p] EXCEPT !.pc = "ready", !.missing = {}])
  /\ UNCHANGED <<schemaVars, dataVars, countVars, demoMenu>>

Stop(p) ==
  /\ boot[p].pc # "down"
  /\ Proceed(p, Stopped("down"))
  /\ UNCHANGED <<schemaVars, dataVars, countVars, seedVars>>

-----------------------------------------------------------------------------
(* The operator, the chef, and what customers' requests leave behind. *)

Serving == \E p \in Processes : boot[p].pc = "ready"

(* Rows of the later schema may make it impossible to take a revision back. *)
Refused(rev) == (rev = 2 /\ redup) \/ (rev = 9 /\ phoneless)

(* Mutant: the version stays where it was. *)
DowngradeUnstamped ==
  /\ db.rev > Base /\ downgrades < MaxDowngrades /\ ~Refused(db.rev)
  /\ db' = [TakenBack(db) EXCEPT !.rev = db.rev] /\ db'.schema.ok
  /\ downgrades' = downgrades + 1
  /\ boot' = [p \in Processes |-> [boot[p] EXCEPT !.current = FALSE]]
  /\ UNCHANGED <<fallback, dataVars, boots, seedVars>>

(* alembic downgrade -1: one transaction. *)
Downgrade ==
  /\ db.rev > Base /\ downgrades < MaxDowngrades
  /\ ~Refused(db.rev)
  /\ db' = TakenBack(db) /\ db'.schema.ok
  /\ downgrades' = downgrades + 1
  /\ boot' = [p \in Processes |-> [boot[p] EXCEPT !.current = FALSE]]
  /\ UNCHANGED <<fallback, dataVars, boots, seedVars>>

MakeAgain ==
  /\ Serving
  /\ <<"wishlist_items", "uq_wishlist_items_wishlist_product_active">> \in db.schema.objects
  /\ redup' = TRUE
  /\ UNCHANGED <<schemaVars, phoneless, boot, countVars, seedVars>>

RegisterWithoutPhone ==
  /\ Serving /\ <<"users", "">> \in db.schema.objects
  /\ <<"users", "phone required">> \notin db.schema.objects
  /\ phoneless' = TRUE
  /\ UNCHANGED <<schemaVars, redup, boot, countVars, seedVars>>

EditMenu ==
  /\ Serving
  /\ \/ demoMenu' = [demoMenu EXCEPT !.any = TRUE]
     \/ demoMenu' = [live |-> 0, any |-> demoMenu.any]
  /\ UNCHANGED <<schemaVars, dataVars, boot, countVars, coupon>>

EditCoupon(c) ==
  /\ Serving
  /\ coupon' = [coupon EXCEPT ![c] = IF @ = "chef" THEN "none" ELSE "chef"]
  /\ UNCHANGED <<schemaVars, dataVars, boot, countVars, demoMenu>>

BootStep(p) ==
  Upgrade(p) \/ CreateTables(p) \/ Recheck(p)
  \/ FindMenu(p) \/ AddMenu(p) \/ FindCoupons(p) \/ AddCoupons(p)

ProcessesMove == \E p \in Processes : BootStep(p) \/ CountTables(p) \/ Stop(p)
SchemaMoves == Downgrade \/ MakeAgain \/ RegisterWithoutPhone
ChefMoves == EditMenu \/ \E c \in Codes : EditCoupon(c)

StartupNext == ProcessesMove \/ SchemaMoves \/ ChefMoves

StartupSpec == StartupInit /\ [][StartupNext]_startupVars

-----------------------------------------------------------------------------
StartupTypeOK ==
  /\ db.rev \in Base..Latest /\ db.schema.ok
  /\ fallback \in BOOLEAN
  /\ demoMenu.live \in Nat /\ coupon \in [Codes -> {"none", "demo", "chef"}]
  /\ \A p \in Processes : boot[p].at \in Base..Latest /\ boot[p].missing \subseteq Codes

(* A process may stop at any point and leaves the database as it is: what   *)
(* the next two say with all of them down holds at all times.               *)
AllDown == \A p \in Processes : boot[p].pc = "down"

(* Unless create_all meddled, the version tells the schema: whichever       *)
(* processes upgraded, raced, failed and were taken back in between, and at *)
(* the head it is what the models declare.                                  *)
VersionTellsSchema ==
  AllDown /\ ~fallback => ToldByVersion(db)

(* After its first boot a database can be upgraded from wherever it is,     *)
(* unless a boot fell back on create_all, or everything was taken back: the *)
(* first downgrade keeps its types.                                         *)
UpgradePossible ==
  AllDown /\ boots > 0 /\ ~fallback /\ (db.rev > Base \/ ~db.versioned) =>
    CanBeUpgraded(db)

(* A process that booted on an upgrade of its own serves the schema the     *)
(* models declare, even when another fell back in the meantime.             *)
CurrentServesModels ==
  \A p \in Processes : boot[p].current => ServesModels(db)

(* Two boots that both find no category do not make the demo menu twice. *)
OneDemoMenu == demoMenu.live <= 1

(* A boot never writes over a live coupon, the chef's least of all. *)
SeedsOverwriteNothing ==
  [][boot' # boot => \A c \in Codes : coupon[c] # "none" => coupon'[c] = coupon[c]]_startupVars

(* All that is promised of the schema: its version tells what it is, it    *)
(* can be upgraded, and who serves after an upgrade finds the models'.     *)
SchemaCorrect ==
  /\ StartupTypeOK /\ VersionTellsSchema
  /\ UpgradePossible /\ CurrentServesModels

(* All that is promised of seeds: one demo menu, and nothing overwritten.  *)
SeedsCorrect == []OneDemoMenu /\ SeedsOverwriteNothing

=============================================================================
