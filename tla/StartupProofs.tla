---------------------------- MODULE StartupProofs ----------------------------
(***************************************************************************)
(* Seeds: a boot makes one demo menu and writes over nothing, for any      *)
(* number of processes, boots and coupons: processes that find the same    *)
(* thing missing all try to add it, and the unique indexes let one.        *)
(*                                                                         *)
(* The schema: however many processes boot, race, stop and are taken back, *)
(* the database is one of those that its version tells. Which those are is *)
(* computed from the revisions in module SchemaFacts; what is proved here  *)
(* is that processes which interfere make no others of it.                 *)
(***************************************************************************)
EXTENDS Startup, SchemaFacts, TLAPS

SeedsTyped ==
  /\ demoMenu.live \in {0, 1}
  /\ demoMenu = [live |-> demoMenu.live, any |-> demoMenu.any]
  /\ coupon = [c \in Codes |-> coupon[c]]

LEMMA MenuKept ==
  ASSUME SeedsTyped, [StartupNext]_startupVars
  PROVE  SeedsTyped'
<1>1. ASSUME NEW p \in Processes, AddMenu(p)
      PROVE  SeedsTyped'
  BY <1>1 DEF AddMenu, SeedsTyped
<1>2. ASSUME NEW p \in Processes, AddCoupons(p)
      PROVE  SeedsTyped'
  BY <1>2 DEF AddCoupons, SeedsTyped
<1>3. ASSUME EditMenu
      PROVE  SeedsTyped'
  BY <1>3 DEF EditMenu, SeedsTyped
<1>4. ASSUME NEW c \in Codes, EditCoupon(c)
      PROVE  SeedsTyped'
  BY <1>4 DEF EditCoupon, SeedsTyped
<1>5. ASSUME UNCHANGED <<demoMenu, coupon>>
      PROVE  SeedsTyped'
  BY <1>5 DEF SeedsTyped
<1>6. ASSUME NEW p \in Processes, BootStep(p) \/ CountTables(p) \/ Stop(p),
             ~ AddMenu(p), ~ AddCoupons(p)
      PROVE  UNCHANGED <<demoMenu, coupon>>
  BY <1>6 DEF BootStep, Upgrade, CreateTables, Recheck, FindMenu, FindCoupons, CountTables,
              Stop, seedVars
<1>7. ASSUME SchemaMoves
      PROVE  UNCHANGED <<demoMenu, coupon>>
  BY <1>7 DEF SchemaMoves, Downgrade, MakeAgain, RegisterWithoutPhone, seedVars
<1>8. QED
  BY <1>1, <1>2, <1>3, <1>4, <1>5, <1>6, <1>7
     DEF StartupNext, ProcessesMove, ChefMoves, startupVars

(* A step of a process leaves every live coupon as it was.                 *)
LEMMA CouponsKept ==
  ASSUME SeedsTyped, [StartupNext]_startupVars, boot' # boot, NEW c \in Codes,
         coupon[c] # "none"
  PROVE  coupon'[c] = coupon[c]
<1>1. ASSUME NEW p \in Processes, AddCoupons(p)
      PROVE  coupon'[c] = coupon[c]
  <2> DEFINE missing == boot[p].missing
  <2>1. coupon' = IF \E d \in missing : coupon[d] # "none" THEN coupon
                  ELSE [d \in Codes |-> IF d \in missing THEN "demo" ELSE coupon[d]]
    BY <1>1 DEF AddCoupons
  <2>2. CASE \E d \in missing : coupon[d] # "none"
    BY <2>1, <2>2
  <2>3. CASE ~ \E d \in missing : coupon[d] # "none"
    <3>1. c \notin missing
      BY <2>3
    <3>2. QED
      BY <2>1, <2>3, <3>1
  <2>4. QED
    BY <2>2, <2>3
<1>2. ASSUME NEW p \in Processes, BootStep(p) \/ CountTables(p) \/ Stop(p), ~ AddCoupons(p)
      PROVE  coupon'[c] = coupon[c]
  BY <1>2 DEF BootStep, Upgrade, CreateTables, Recheck, FindMenu, AddMenu, FindCoupons,
              CountTables, Stop, seedVars
<1>3. ASSUME SchemaMoves
      PROVE  coupon'[c] = coupon[c]
  BY <1>3 DEF SchemaMoves, Downgrade, MakeAgain, RegisterWithoutPhone, seedVars
<1>4. ~ ChefMoves
  BY DEF ChefMoves, EditMenu, EditCoupon
<1>5. QED
  BY <1>1, <1>2, <1>3, <1>4 DEF StartupNext, ProcessesMove, startupVars

(* One demo menu, whoever boots, and no coupon that a boot writes over.    *)
THEOREM SeedsHold == StartupSpec => SeedsCorrect
<1>1. StartupInit => SeedsTyped
  BY DEF StartupInit, SeedsTyped
<1>2. SeedsTyped /\ [StartupNext]_startupVars => SeedsTyped'
  BY MenuKept
<1>3. SeedsTyped => OneDemoMenu
  BY DEF SeedsTyped, OneDemoMenu
<1>4. ASSUME SeedsTyped, [StartupNext]_startupVars
      PROVE  boot' # boot => \A c \in Codes : coupon[c] # "none" => coupon'[c] = coupon[c]
  BY <1>4, CouponsKept
<1>5. QED
  BY <1>1, <1>2, <1>3, <1>4, PTL DEF StartupSpec, SeedsCorrect, SeedsOverwriteNothing

-----------------------------------------------------------------------------
(* The schema. Nothing is used of the revisions but what module SchemaFacts *)
(* says of Databases.                                                       *)

BootTyped(b) ==
  /\ b = Boot(b.pc, b.empty, b.at, b.current, b.missing)
  /\ b.at \in Base..Latest /\ b.missing \subseteq Codes

BootsTyped == boot = [p \in Processes |-> boot[p]] /\ \A p \in Processes : BootTyped(boot[p])

CouponsTyped == coupon \in [Codes -> {"none", "demo", "chef"}]

(* No process takes its upgrade for the latest when it is not. *)
CurrentAtLatest == \A p \in Processes : boot[p].current => db.rev = Latest

DatabaseKnown == <<db, fallback>> \in Databases

SchemaInv ==
  /\ SeedsTyped /\ CouponsTyped /\ BootsTyped
  /\ DatabaseKnown /\ CurrentAtLatest

LEMMA BaseToLatest == Base \in Base..Latest
  BY CommitsAtRevisions

LEMMA SchemaInvInit == StartupInit => SchemaInv
<1> SUFFICES ASSUME StartupInit
             PROVE  SchemaInv
  OBVIOUS
<1>1. SeedsTyped /\ CouponsTyped
  BY DEF StartupInit, SeedsTyped, CouponsTyped
<1>2. BootsTyped
  BY BaseToLatest DEF StartupInit, BootsTyped, BootTyped, Stopped, Boot
<1>3. DatabaseKnown
  BY DatabasesClosed DEF StartupInit, DatabaseKnown
<1>4. CurrentAtLatest
  BY DEF StartupInit, CurrentAtLatest, Stopped, Boot
<1>5. QED
  BY <1>1, <1>2, <1>3, <1>4 DEF SchemaInv

LEMMA CouponsTypedKept ==
  ASSUME CouponsTyped, [StartupNext]_startupVars
  PROVE  CouponsTyped'
<1>1. ASSUME NEW p \in Processes, AddCoupons(p)
      PROVE  CouponsTyped'
  BY <1>1 DEF AddCoupons, CouponsTyped
<1>2. ASSUME NEW c \in Codes, EditCoupon(c)
      PROVE  CouponsTyped'
  BY <1>2 DEF EditCoupon, CouponsTyped
<1>3. ASSUME UNCHANGED coupon
      PROVE  CouponsTyped'
  BY <1>3 DEF CouponsTyped
<1>4. ASSUME NEW p \in Processes, BootStep(p) \/ CountTables(p) \/ Stop(p), ~ AddCoupons(p)
      PROVE  UNCHANGED coupon
  BY <1>4 DEF BootStep, Upgrade, CreateTables, Recheck, FindMenu, AddMenu, FindCoupons,
              CountTables, Stop, seedVars
<1>5. ASSUME SchemaMoves \/ EditMenu
      PROVE  UNCHANGED coupon
  BY <1>5 DEF SchemaMoves, Downgrade, MakeAgain, RegisterWithoutPhone, EditMenu, seedVars
<1>6. QED
  BY <1>1, <1>2, <1>3, <1>4, <1>5 DEF StartupNext, ProcessesMove, ChefMoves, startupVars

(* Any step leaves the database as it is, or does to it what Become allows.  *)
LEMMA DatabaseKnownKept ==
  ASSUME DatabaseKnown, [StartupNext]_startupVars
  PROVE  DatabaseKnown'
<1>1. ASSUME NEW p \in Processes, CommitRevisions(p)
      PROVE  DatabaseKnown'
  <2>1. db.rev < Latest /\ db' = Advanced(db) /\ Advanced(db).schema.ok /\ fallback' = fallback
    BY <1>1 DEF CommitRevisions
  <2>2. <<Advanced(db), fallback>> \in Databases
    BY <2>1, DatabasesClosed DEF DatabaseKnown
  <2>3. QED
    BY <2>1, <2>2 DEF DatabaseKnown
<1>2. ASSUME NEW p \in Processes, CreateTables(p), ~ UNCHANGED schemaVars
      PROVE  DatabaseKnown'
  <2>1. db' = Filled(db) /\ fallback' = TRUE
    BY <1>2 DEF CreateTables
  <2>2. <<Filled(db), TRUE>> \in Databases
    BY DatabasesClosed DEF DatabaseKnown
  <2>3. QED
    BY <2>1, <2>2 DEF DatabaseKnown
<1>3. ASSUME Downgrade
      PROVE  DatabaseKnown'
  <2>1. db.rev > Base /\ db' = TakenBack(db) /\ TakenBack(db).schema.ok /\ fallback' = fallback
    BY <1>3 DEF Downgrade
  <2>2. <<TakenBack(db), fallback>> \in Databases
    BY <2>1, DatabasesClosed DEF DatabaseKnown
  <2>3. QED
    BY <2>1, <2>2 DEF DatabaseKnown
<1>4. ASSUME UNCHANGED schemaVars
      PROVE  DatabaseKnown'
  BY <1>4 DEF DatabaseKnown, schemaVars
<1>5. ASSUME NEW p \in Processes, BootStep(p) \/ CountTables(p) \/ Stop(p),
             ~ CommitRevisions(p), ~ CreateTables(p)
      PROVE  UNCHANGED schemaVars
  BY <1>5 DEF BootStep, Upgrade, UpgradeDone, UpgradeFailed, Recheck, FindMenu, AddMenu,
              FindCoupons, AddCoupons, CountTables, Stop, schemaVars
<1>6. ASSUME MakeAgain \/ RegisterWithoutPhone \/ ChefMoves
      PROVE  UNCHANGED schemaVars
  BY <1>6 DEF MakeAgain, RegisterWithoutPhone, ChefMoves, EditMenu, EditCoupon, schemaVars
<1>7. QED
  BY <1>1, <1>2, <1>3, <1>4, <1>5, <1>6
     DEF StartupNext, ProcessesMove, SchemaMoves, startupVars, schemaVars

-----------------------------------------------------------------------------
(* What the processes know. *)

(* What a boot goes on to: a step of one process sets its record and leaves *)
(* the others'.                                                             *)
LEMMA ProceedTyped ==
  ASSUME BootsTyped, NEW p \in Processes, NEW b, BootTyped(b), Proceed(p, b)
  PROVE  BootsTyped'
  BY DEF BootsTyped, Proceed

LEMMA WithCurrent ==
  ASSUME NEW b, BootTyped(b), NEW current
  PROVE  /\ BootTyped([b EXCEPT !.current = current])
         /\ [b EXCEPT !.current = current].current = current
<1> DEFINE c == [b EXCEPT !.current = current]
<1>1. b = Boot(b.pc, b.empty, b.at, b.current, b.missing)
  BY DEF BootTyped
<1>2. c = Boot(b.pc, b.empty, b.at, current, b.missing)
  BY <1>1 DEF Boot
<1>3. /\ c.pc = b.pc /\ c.empty = b.empty /\ c.at = b.at
      /\ c.current = current /\ c.missing = b.missing
  BY <1>2 DEF Boot
<1> HIDE DEF c
<1>4. BootTyped(c)
  BY <1>2, <1>3 DEF BootTyped
<1>5. QED
  BY <1>3, <1>4 DEF c

LEMMA WithMissing ==
  ASSUME NEW b, BootTyped(b), NEW missing \in SUBSET Codes
  PROVE  BootTyped([b EXCEPT !.missing = missing])
<1> DEFINE c == [b EXCEPT !.missing = missing]
<1>1. b = Boot(b.pc, b.empty, b.at, b.current, b.missing)
  BY DEF BootTyped
<1>2. c = Boot(b.pc, b.empty, b.at, b.current, missing)
  BY <1>1 DEF Boot
<1>3. /\ c.pc = b.pc /\ c.empty = b.empty /\ c.at = b.at
      /\ c.current = b.current /\ c.missing = missing
  BY <1>2 DEF Boot
<1> HIDE DEF c
<1>4. BootTyped(c)
  BY <1>2, <1>3 DEF BootTyped
<1>5. QED
  BY <1>4 DEF c

LEMMA WithSeeds ==
  ASSUME NEW b, BootTyped(b), NEW pc, NEW missing \in SUBSET Codes
  PROVE  BootTyped([b EXCEPT !.pc = pc, !.missing = missing])
<1> DEFINE c == [b EXCEPT !.pc = pc]
<1>1. b = Boot(b.pc, b.empty, b.at, b.current, b.missing)
  BY DEF BootTyped
<1>2. [c EXCEPT !.missing = missing] = [b EXCEPT !.pc = pc, !.missing = missing]
  BY <1>1 DEF Boot
<1>3. BootTyped(c)
  BY <1>1 DEF BootTyped, Boot
<1> HIDE DEF c
<1>4. QED
  BY <1>2, <1>3, WithMissing

LEMMA GoesTyped ==
  ASSUME BootsTyped, NEW p \in Processes, NEW pc, Goes(p, pc)
  PROVE  BootsTyped'
<1>1. BootTyped(boot[p])
  BY DEF BootsTyped
<1>2. BootTyped([boot[p] EXCEPT !.pc = pc])
  BY <1>1 DEF BootTyped, Boot
<1>3. QED
  BY <1>2, ProceedTyped DEF Goes

LEMMA DatabaseFacts ==
  ASSUME DatabaseKnown
  PROVE  /\ db.rev \in Base..Latest
         /\ db.schema.ok
         /\ fallback \in BOOLEAN
         /\ db.rev = Latest => ServesModels(db)
         /\ ~ fallback => ToldByVersion(db)
         /\ ~ fallback /\ (db.rev > Base \/ ~ db.versioned) => CanBeUpgraded(db)
  BY DatabasesSound DEF DatabaseKnown

LEMMA UpgradeTyped ==
  ASSUME BootsTyped, NEW p \in Processes, Upgrade(p)
  PROVE  BootsTyped'
<1>1. BootTyped(boot[p])
  BY DEF BootsTyped
<1>2. CASE CommitRevisions(p)
  <2> DEFINE b == [boot[p] EXCEPT !.at = CommitPoint(@)]
  <2>1. Proceed(p, b)
    BY <1>2 DEF CommitRevisions
  <2>2. CommitPoint(boot[p].at) \in Base..Latest
    BY <1>1, CommitsAtRevisions DEF BootTyped
  <2>3. BootTyped(b)
    BY <1>1, <2>2 DEF BootTyped, Boot
  <2>4. QED
    BY <2>1, <2>3, ProceedTyped
<1>3. CASE UpgradeDone(p)
  <2> DEFINE b == [boot[p] EXCEPT !.pc = "recheck", !.current = db.rev = Latest]
  <2>1. Proceed(p, b)
    BY <1>3 DEF UpgradeDone
  <2>2. BootTyped([boot[p] EXCEPT !.pc = "recheck"])
    BY <1>1 DEF BootTyped, Boot
  <2>3. [[boot[p] EXCEPT !.pc = "recheck"] EXCEPT !.current = db.rev = Latest] = b
    BY <1>1 DEF BootTyped, Boot
  <2>4. BootTyped(b)
    BY <2>2, <2>3, WithCurrent
  <2>5. QED
    BY <2>1, <2>4, ProceedTyped
<1>4. CASE UpgradeFailed(p)
  BY <1>4, GoesTyped DEF UpgradeFailed
<1>5. QED
  BY <1>2, <1>3, <1>4 DEF Upgrade

LEMMA SeedingTyped ==
  ASSUME BootsTyped, NEW p \in Processes, FindCoupons(p) \/ AddCoupons(p)
  PROVE  BootsTyped'
<1>1. BootTyped(boot[p])
  BY DEF BootsTyped
<1>2. ASSUME NEW pc, NEW missing, missing \subseteq Codes,
             Proceed(p, [boot[p] EXCEPT !.pc = pc, !.missing = missing])
      PROVE  BootsTyped'
  <2>1. BootTyped([boot[p] EXCEPT !.pc = pc, !.missing = missing])
    BY <1>1, <1>2, WithSeeds
  <2>2. QED
    BY <1>2, <2>1, ProceedTyped
<1>3. CASE FindCoupons(p)
  <2> DEFINE missing == {c \in Codes : coupon[c] = "none"}
  <2>1. missing \subseteq Codes
    OBVIOUS
  <2>2. \/ Proceed(p, [boot[p] EXCEPT !.pc = IF missing = {} THEN "ready" ELSE "addCoupons",
                                      !.missing = missing])
        \/ Goes(p, "ready")
    BY <1>3 DEF FindCoupons
  <2> HIDE DEF missing
  <2>3. QED
    BY <1>2, <2>1, <2>2, GoesTyped
<1>4. CASE AddCoupons(p)
  <2>1. Proceed(p, [boot[p] EXCEPT !.pc = "ready", !.missing = {}])
    BY <1>4 DEF AddCoupons
  <2>2. QED
    BY <1>2, <2>1
<1>5. QED
  BY <1>3, <1>4

LEMMA BootsTypedKept ==
  ASSUME BootsTyped, DatabaseKnown, [StartupNext]_startupVars
  PROVE  BootsTyped'
<1>1. ASSUME NEW p \in Processes, Upgrade(p) \/ FindCoupons(p) \/ AddCoupons(p)
      PROVE  BootsTyped'
  BY <1>1, UpgradeTyped, SeedingTyped
<1>2. ASSUME NEW p \in Processes, CreateTables(p) \/ Recheck(p) \/ FindMenu(p) \/ AddMenu(p)
      PROVE  BootsTyped'
  BY <1>2, GoesTyped DEF CreateTables, Recheck, FindMenu, AddMenu
<1>3. ASSUME NEW p \in Processes, CountTables(p)
      PROVE  BootsTyped'
  <2>1. BootTyped(Boot("upgrade", NoTables, db.rev, FALSE, {}))
    BY DatabaseFacts DEF BootTyped, Boot
  <2>2. QED
    BY <1>3, <2>1, ProceedTyped DEF CountTables
<1>4. ASSUME NEW p \in Processes, Stop(p)
      PROVE  BootsTyped'
  <2>1. BootTyped(Stopped("down"))
    BY BaseToLatest DEF BootTyped, Stopped, Boot
  <2>2. QED
    BY <1>4, <2>1, ProceedTyped DEF Stop
<1>5. ASSUME Downgrade
      PROVE  BootsTyped'
  <2>1. boot' = [p \in Processes |-> [boot[p] EXCEPT !.current = FALSE]]
    BY <1>5 DEF Downgrade
  <2>2. ASSUME NEW p \in Processes
        PROVE  BootTyped([boot[p] EXCEPT !.current = FALSE])
    BY WithCurrent DEF BootsTyped
  <2>3. QED
    BY <2>1, <2>2 DEF BootsTyped
<1>6. ASSUME UNCHANGED boot
      PROVE  BootsTyped'
  BY <1>6 DEF BootsTyped
<1>7. ASSUME MakeAgain \/ RegisterWithoutPhone \/ ChefMoves
      PROVE  UNCHANGED boot
  BY <1>7 DEF MakeAgain, RegisterWithoutPhone, ChefMoves, EditMenu, EditCoupon
<1>8. QED
  BY <1>1, <1>2, <1>3, <1>4, <1>5, <1>6, <1>7
     DEF StartupNext, ProcessesMove, BootStep, SchemaMoves, startupVars

(* A process that goes on as one that was not more current than before.     *)
LEMMA ProceedCurrent ==
  ASSUME CurrentAtLatest, NEW p \in Processes, NEW b, Proceed(p, b), BootsTyped,
         b.current => boot[p].current \/ db.rev = Latest,
         db'.rev = db.rev
  PROVE  CurrentAtLatest'
<1> SUFFICES ASSUME NEW q \in Processes, boot'[q].current
             PROVE  db'.rev = Latest
  BY DEF CurrentAtLatest
<1>1. CASE q = p
  <2>1. boot'[q] = b
    BY <1>1 DEF Proceed, BootsTyped
  <2>2. QED
    BY <2>1 DEF CurrentAtLatest
<1>2. CASE q # p
  <2>1. boot'[q] = boot[q]
    BY <1>2 DEF Proceed, BootsTyped
  <2>2. QED
    BY <2>1 DEF CurrentAtLatest
<1>3. QED
  BY <1>1, <1>2

LEMMA GoesCurrent ==
  ASSUME CurrentAtLatest, NEW p \in Processes, NEW pc, Goes(p, pc), BootsTyped,
         db'.rev = db.rev
  PROVE  CurrentAtLatest'
<1>1. BootTyped(boot[p])
  BY DEF BootsTyped
<1>2. [boot[p] EXCEPT !.pc = pc].current = boot[p].current
  BY <1>1 DEF BootTyped, Boot
<1>3. QED
  BY <1>2, ProceedCurrent DEF Goes

LEMMA UpgradeCurrent ==
  ASSUME CurrentAtLatest, BootsTyped, DatabaseKnown, NEW p \in Processes, Upgrade(p)
  PROVE  CurrentAtLatest'
<1>1. BootTyped(boot[p])
  BY DEF BootsTyped
<1>2. CASE CommitRevisions(p)
  <2>1. db.rev < Latest /\ Proceed(p, [boot[p] EXCEPT !.at = CommitPoint(@)])
    BY <1>2 DEF CommitRevisions
  <2>2. \A q \in Processes : ~ boot[q].current
    BY <2>1, CommitsAtRevisions DEF CurrentAtLatest
  <2>3. ASSUME NEW q \in Processes
        PROVE  ~ boot'[q].current
    <3>1. CASE q = p
      BY <1>1, <2>1, <2>2, <3>1 DEF Proceed, BootsTyped, BootTyped, Boot
    <3>2. CASE q # p
      BY <2>1, <2>2, <3>2 DEF Proceed, BootsTyped
    <3>3. QED
      BY <3>1, <3>2
  <2>4. QED
    BY <2>3 DEF CurrentAtLatest
<1>3. CASE UpgradeDone(p)
  <2> DEFINE b == [boot[p] EXCEPT !.pc = "recheck", !.current = db.rev = Latest]
  <2>1. Proceed(p, b) /\ db' = db
    BY <1>3 DEF UpgradeDone, schemaVars
  <2>2. b.current => db.rev = Latest
    BY <1>1 DEF BootTyped, Boot
  <2> HIDE DEF b
  <2>3. QED
    BY <2>1, <2>2, ProceedCurrent
<1>4. CASE UpgradeFailed(p)
  BY <1>4, GoesCurrent DEF UpgradeFailed, schemaVars
<1>5. QED
  BY <1>2, <1>3, <1>4 DEF Upgrade

LEMMA SeedingCurrent ==
  ASSUME CurrentAtLatest, BootsTyped, NEW p \in Processes, FindCoupons(p) \/ AddCoupons(p)
  PROVE  CurrentAtLatest'
<1>1. BootTyped(boot[p]) /\ db' = db
  BY DEF BootsTyped, FindCoupons, AddCoupons, schemaVars
<1>2. ASSUME NEW pc, NEW missing,
             Proceed(p, [boot[p] EXCEPT !.pc = pc, !.missing = missing])
      PROVE  CurrentAtLatest'
  <2>1. [boot[p] EXCEPT !.pc = pc, !.missing = missing].current = boot[p].current
    BY <1>1 DEF BootTyped, Boot
  <2>2. QED
    BY <1>1, <1>2, <2>1, ProceedCurrent
<1>3. CASE FindCoupons(p)
  <2> DEFINE missing == {c \in Codes : coupon[c] = "none"}
  <2>1. \/ Proceed(p, [boot[p] EXCEPT !.pc = IF missing = {} THEN "ready" ELSE "addCoupons",
                                      !.missing = missing])
        \/ Goes(p, "ready")
    BY <1>3 DEF FindCoupons
  <2> HIDE DEF missing
  <2>2. QED
    BY <1>1, <1>2, <2>1, GoesCurrent
<1>4. CASE AddCoupons(p)
  <2>1. Proceed(p, [boot[p] EXCEPT !.pc = "ready", !.missing = {}])
    BY <1>4 DEF AddCoupons
  <2>2. QED
    BY <1>2, <2>1
<1>5. QED
  BY <1>3, <1>4

LEMMA CurrentAtLatestKept ==
  ASSUME CurrentAtLatest, BootsTyped, DatabaseKnown, [StartupNext]_startupVars
  PROVE  CurrentAtLatest'
<1>1. ASSUME NEW p \in Processes, Upgrade(p) \/ FindCoupons(p) \/ AddCoupons(p)
      PROVE  CurrentAtLatest'
  BY <1>1, UpgradeCurrent, SeedingCurrent
<1>2. ASSUME NEW p \in Processes, CreateTables(p)
      PROVE  CurrentAtLatest'
  <2>1. db'.rev = db.rev
    <3>1. DatabaseKnown /\ (db' = Filled(db) \/ db' = db)
      BY <1>2 DEF CreateTables, schemaVars
    <3>2. Filled(db).rev = db.rev
      BY DEF Filled
    <3>3. QED
      BY <3>1, <3>2
  <2>2. Goes(p, "recheck") \/ Goes(p, "failed")
    BY <1>2 DEF CreateTables
  <2>3. QED
    BY <2>1, <2>2, GoesCurrent
<1>3. ASSUME NEW p \in Processes, Recheck(p) \/ FindMenu(p) \/ AddMenu(p)
      PROVE  CurrentAtLatest'
  BY <1>3, GoesCurrent DEF Recheck, FindMenu, AddMenu, schemaVars
<1>4. ASSUME NEW p \in Processes, CountTables(p)
      PROVE  CurrentAtLatest'
  <2> DEFINE b == Boot("upgrade", NoTables, db.rev, FALSE, {})
  <2>1. Proceed(p, b) /\ db' = db
    BY <1>4 DEF CountTables, schemaVars
  <2>2. ~ b.current
    BY DEF Boot
  <2> HIDE DEF b
  <2>3. QED
    BY <2>1, <2>2, ProceedCurrent
<1>5. ASSUME NEW p \in Processes, Stop(p)
      PROVE  CurrentAtLatest'
  <2>1. Proceed(p, Stopped("down")) /\ db' = db
    BY <1>5 DEF Stop, schemaVars
  <2>2. ~ Stopped("down").current
    BY DEF Stopped, Boot
  <2>3. QED
    BY <2>1, <2>2, ProceedCurrent
<1>6. ASSUME Downgrade
      PROVE  CurrentAtLatest'
  <2>1. boot' = [p \in Processes |-> [boot[p] EXCEPT !.current = FALSE]]
    BY <1>6 DEF Downgrade
  <2>2. ASSUME NEW p \in Processes
        PROVE  ~ boot'[p].current
    BY <2>1 DEF BootsTyped, BootTyped, Boot
  <2>3. QED
    BY <2>2 DEF CurrentAtLatest
<1>7. ASSUME UNCHANGED <<db, boot>>
      PROVE  CurrentAtLatest'
  BY <1>7 DEF CurrentAtLatest
<1>8. ASSUME MakeAgain \/ RegisterWithoutPhone \/ ChefMoves
      PROVE  UNCHANGED <<db, boot>>
  BY <1>8 DEF MakeAgain, RegisterWithoutPhone, ChefMoves, EditMenu, EditCoupon, schemaVars
<1>9. QED
  BY <1>1, <1>2, <1>3, <1>4, <1>5, <1>6, <1>7, <1>8
     DEF StartupNext, ProcessesMove, BootStep, SchemaMoves, startupVars

LEMMA SchemaInvImplies == SchemaInv => SchemaCorrect
<1> SUFFICES ASSUME SchemaInv
             PROVE  SchemaCorrect
  OBVIOUS
<1>1. StartupTypeOK
  <2>1. demoMenu.live \in Nat
    BY DEF SchemaInv, SeedsTyped
  <2>2. \A p \in Processes : boot[p].at \in Base..Latest /\ boot[p].missing \subseteq Codes
    BY DEF SchemaInv, BootsTyped, BootTyped
  <2>3. QED
    BY <2>1, <2>2, DatabaseFacts DEF SchemaInv, StartupTypeOK, CouponsTyped
<1>2. VersionTellsSchema
  BY DatabaseFacts DEF SchemaInv, VersionTellsSchema
<1>3. UpgradePossible
  BY DatabaseFacts DEF SchemaInv, UpgradePossible
<1>4. CurrentServesModels
  BY DatabaseFacts DEF SchemaInv, CurrentServesModels, CurrentAtLatest
<1>5. QED
  BY <1>1, <1>2, <1>3, <1>4 DEF SchemaCorrect

(* The version tells what the schema is, an upgrade stays possible, and who *)
(* booted on an upgrade of its own finds what the models declare: for any   *)
(* number of processes, of boots, stops and failures at any point, and of   *)
(* revisions taken back.                                                    *)
THEOREM SchemaHolds == StartupSpec => []SchemaCorrect
<1>1. StartupInit => SchemaInv
  BY SchemaInvInit
<1>2. SchemaInv /\ [StartupNext]_startupVars => SchemaInv'
  BY MenuKept, CouponsTypedKept, BootsTypedKept, DatabaseKnownKept, CurrentAtLatestKept
     DEF SchemaInv
<1>3. SchemaInv => SchemaCorrect
  BY SchemaInvImplies
<1>4. QED
  BY <1>1, <1>2, <1>3, PTL DEF StartupSpec

=============================================================================
