------------------------------- MODULE Settings --------------------------------
(***************************************************************************)
(* The settings the chef edits while customers order, and the two Redis    *)
(* entries made of them: settings:commerce, filled by whoever prices a     *)
(* cart and kept for a minute, and settings:maintenance, written by who    *)
(* edits the switch and kept for five. The maintenance middleware looks at *)
(* the entries only.                                                       *)
(*                                                                         *)
(* Two keys stand for all: "fee" for those that price a cart, and "mode"   *)
(* for maintenance.mode. Of a value it matters whether it is the default   *)
(* (0) or was changed (1).                                                 *)
(***************************************************************************)
EXTENDS Handlers

CONSTANT MaxEdits     \* bound: saves that may change a row

VARIABLES
  setting,      \* rows of system_settings, by key
  commerce,     \* settings:commerce, or None
  flag,         \* settings:maintenance, or None
  dropped,      \* some handler died between its commit and its last cache call
  shand         \* what each handler is at

settingsVars == <<setting, commerce, flag, dropped, shand>>

Keys == {"fee", "mode"}

(* A row that was never inserted has version 0 and reads as the default. *)
Setting(value, updated, version) ==
  [value |-> value, updated |-> updated, version |-> version]

Unset == Setting(0, FALSE, 0)

Values == [k \in Keys |-> setting[k].value]

(* todo: the keys and values still to be saved; row: the row as loaded;   *)
(* got: what is to be put in a cache, or, of ensure_defaults, 1 for each   *)
(* key that has no row.                                                    *)
Task(pc, todo, row, got) == [pc |-> pc, todo |-> todo, row |-> row, got |-> got]

NoValues == [k \in Keys |-> 0]
Resting == Task("idle", <<>>, Unset, NoValues)

SettingsInit ==
  /\ setting = [k \in Keys |-> Unset]
  /\ commerce = None /\ flag = None /\ dropped = FALSE
  /\ shand = [w \in Workers |-> Resting]

Turn(w, task) == shand' = [shand EXCEPT ![w] = task]
Key(w) == Head(shand[w].todo)[1]
Value(w) == Head(shand[w].todo)[2]

(* MaintenanceModeMiddleware._maintenance_enabled *)
Closed == IF commerce # None THEN commerce["mode"] = 1 ELSE flag = 1

-----------------------------------------------------------------------------
(* upsert, and bulk_upsert, which upserts one key after another. *)

Edits == {<< <<k, v>> >> : k \in Keys, v \in 0..1}
         \cup {<< <<"fee", v>>, <<"mode", u>> >> : v, u \in 0..1}

Version == setting["fee"].version + setting["mode"].version

StartEdit(w, todo) ==
  /\ shand[w] = Resting /\ Version < MaxEdits
  /\ Turn(w, Task("load", todo, Unset, NoValues))
  /\ UNCHANGED <<setting, commerce, flag, dropped>>

LoadSetting(w) ==
  /\ shand[w].pc = "load"
  /\ Turn(w, [shand[w] EXCEPT !.pc = "save", !.row = setting[Key(w)]])
  /\ UNCHANGED <<setting, commerce, flag, dropped>>

(* Mutant: the row is written whatever version it has by now. *)
SaveUnversioned(w) ==
  LET now == setting[Key(w)] IN
  /\ shand[w].pc = "save"
  /\ setting' = [setting EXCEPT ![Key(w)] = Setting(Value(w), TRUE, now.version + 1)]
  /\ Turn(w, [shand[w] EXCEPT !.pc = "refresh"])
  /\ UNCHANGED <<commerce, flag, dropped>>

(* An INSERT when there was no row, which the unique index refuses if there *)
(* is one by now; otherwise an UPDATE of the version that was loaded, which *)
(* is not made when neither the value nor its editor changes.              *)
SaveSetting(w) ==
  LET row == shand[w].row  now == setting[Key(w)]
      new == Setting(Value(w), row.version > 0, row.version + 1)
      same == row.version > 0 /\ row.updated /\ row.value = Value(w)
  IN
  /\ shand[w].pc = "save"
  /\ IF ~same /\ now.version # row.version
       THEN Turn(w, Resting) /\ UNCHANGED setting
       ELSE /\ setting' = IF same THEN setting ELSE [setting EXCEPT ![Key(w)] = new]
            /\ Turn(w, [shand[w] EXCEPT !.pc = "refresh"])
  /\ UNCHANGED <<commerce, flag, dropped>>

RefreshSetting(w) ==
  /\ shand[w].pc = "refresh"
  /\ Turn(w, [shand[w] EXCEPT !.pc = "drop", !.row = setting[Key(w)]])
  /\ UNCHANGED <<setting, commerce, flag, dropped>>

(* CommerceConfigService.invalidate: one entry, then the other. *)
DropCommerce(w) ==
  /\ shand[w].pc = "drop"
  /\ commerce' = None
  /\ Turn(w, [shand[w] EXCEPT !.pc = "unflag"])
  /\ UNCHANGED <<setting, flag, dropped>>

NextKey(w) ==
  Turn(w, IF Len(shand[w].todo) = 1 THEN Resting
          ELSE Task("load", Tail(shand[w].todo), Unset, NoValues))

DropFlag(w) ==
  /\ shand[w].pc = "unflag"
  /\ flag' = None
  /\ IF Key(w) = "mode" THEN Turn(w, [shand[w] EXCEPT !.pc = "flag"]) ELSE NextKey(w)
  /\ UNCHANGED <<setting, commerce, dropped>>

SetFlag(w) ==
  /\ shand[w].pc = "flag"
  /\ flag' = shand[w].row.value
  /\ NextKey(w)
  /\ UNCHANGED <<setting, commerce, dropped>>

-----------------------------------------------------------------------------
(* ensure_defaults, which every reading of the settings begins with. *)

FindMissing(w) ==
  /\ shand[w] = Resting
  /\ \E k \in Keys : setting[k].version = 0
  /\ Turn(w, Task("insert", <<>>, Unset,
                  [k \in Keys |-> IF setting[k].version = 0 THEN 1 ELSE 0]))
  /\ UNCHANGED <<setting, commerce, flag, dropped>>

(* Mutant: what has a row by now is overwritten. *)
InsertOver(w) ==
  /\ shand[w].pc = "insert"
  /\ setting' = [k \in Keys |-> IF shand[w].got[k] = 1 THEN Setting(0, FALSE, 1)
                                                       ELSE setting[k]]
  /\ Turn(w, Resting)
  /\ UNCHANGED <<commerce, flag, dropped>>

(* One transaction: a key that has a row by now fails it for all of them. *)
InsertDefaults(w) ==
  LET missing == {k \in Keys : shand[w].got[k] = 1} IN
  /\ shand[w].pc = "insert"
  /\ setting' = IF \E k \in missing : setting[k].version > 0 THEN setting
                ELSE [k \in Keys |-> IF k \in missing THEN Setting(0, FALSE, 1)
                                                      ELSE setting[k]]
  /\ Turn(w, Resting)
  /\ UNCHANGED <<commerce, flag, dropped>>

-----------------------------------------------------------------------------
(* CommerceConfigService.get, for a cart priced while the shop is open: a  *)
(* SELECT for each key, then the entry.                                    *)

ReadFee(w) ==
  /\ shand[w] = Resting /\ ~Closed /\ commerce = None
  /\ Turn(w, Task("mode", <<>>, Unset, [NoValues EXCEPT !["fee"] = Values["fee"]]))
  /\ UNCHANGED <<setting, commerce, flag, dropped>>

ReadMode(w) ==
  /\ shand[w].pc = "mode"
  /\ Turn(w, [shand[w] EXCEPT !.pc = "fill", !.got["mode"] = Values["mode"]])
  /\ UNCHANGED <<setting, commerce, flag, dropped>>

(* Mutant: the entry is made without the switch. *)
FillFee(w) ==
  /\ shand[w].pc = "fill"
  /\ commerce' = [k \in {"fee"} |-> shand[w].got[k]]
  /\ Turn(w, Resting)
  /\ UNCHANGED <<setting, flag, dropped>>

FillCommerce(w) ==
  /\ shand[w].pc = "fill"
  /\ commerce' = shand[w].got
  /\ Turn(w, Resting)
  /\ UNCHANGED <<setting, flag, dropped>>

(* Mutant: an entry is kept until somebody edits a setting. *)
KeepCommerce == FALSE /\ UNCHANGED settingsVars

ExpireCommerce ==
  /\ commerce # None /\ commerce' = None
  /\ UNCHANGED <<setting, flag, dropped, shand>>

(* Mutant: an entry is kept until somebody edits a setting. *)
KeepFlag == FALSE /\ UNCHANGED settingsVars

ExpireFlag ==
  /\ flag # None /\ flag' = None
  /\ UNCHANGED <<setting, commerce, dropped, shand>>

(* A Redis or database error, or the process dies. *)
Abandon(w) ==
  /\ shand[w] # Resting /\ ~dropped
  /\ dropped' = TRUE
  /\ Turn(w, Resting)
  /\ UNCHANGED <<setting, commerce, flag>>

EditStep(w) ==
  LoadSetting(w) \/ SaveSetting(w) \/ RefreshSetting(w)
  \/ DropCommerce(w) \/ DropFlag(w) \/ SetFlag(w)

SettingsStep(w) == EditStep(w) \/ InsertDefaults(w) \/ ReadMode(w) \/ FillCommerce(w)

SettingsNext ==
  \/ \E w \in Workers : SettingsStep(w) \/ FindMissing(w) \/ ReadFee(w) \/ Abandon(w)
                        \/ \E todo \in Edits : StartEdit(w, todo)
  \/ ExpireCommerce \/ ExpireFlag

SettingsSpec == SettingsInit /\ [][SettingsNext]_settingsVars

(* Handlers answer, and Redis forgets what is past its time. *)
SettingsFairness ==
  /\ \A w \in Workers : WF_settingsVars(SettingsStep(w))
  /\ WF_settingsVars(ExpireCommerce) /\ WF_settingsVars(ExpireFlag)

-----------------------------------------------------------------------------
SettingsTypeOK ==
  /\ setting \in [Keys -> [value : 0..1, updated : BOOLEAN, version : Nat]]
  /\ commerce \in [Keys -> 0..1] \cup {None} /\ flag \in {0, 1, None}
  /\ dropped \in BOOLEAN
  /\ \A w \in Workers : /\ shand[w].todo \in Seq(Keys \X (0..1))
                        /\ shand[w].got \in [Keys -> 0..1]

(* A row that is there is only written by a handler that loaded it as it   *)
(* is now: neither a second editor nor the defaults write over a value     *)
(* nobody saw.                                                             *)
NothingOverwritten ==
  [][\A k \in Keys : setting'[k] # setting[k] /\ setting[k].version > 0 =>
       \E w \in Workers : /\ shand[w].pc = "save" /\ Key(w) = k
                          /\ shand[w].row = setting[k]]_settingsVars

(* However edits, prices and failures interleave, customers are in the end *)
(* charged the fee that is saved.                                          *)
PricesSettle == <>[](commerce # None => commerce["fee"] = Values["fee"])

(* And the shop is not kept closed, or open, by a switch that was saved    *)
(* otherwise: what the caches say of it agrees with the row in the end.    *)
SwitchSettles ==
  <>[]( /\ commerce # None => commerce["mode"] = Values["mode"]
        /\ flag # None => flag = Values["mode"] )

(* The middleware's promise: once the chef's edit is done and nothing went *)
(* wrong, the switch he turned on answers 503. The code does not keep it:  *)
(* both entries expire, and what would fill the first is what is closed.   *)
ClosedWhenSwitchedOn ==
  (\A w \in Workers : shand[w] = Resting) /\ ~dropped /\ Values["mode"] = 1 => Closed

(* All that is promised of settings at every step: no save overwrites one  *)
(* it had not read.                                                        *)
SettingsCorrect == []SettingsTypeOK /\ NothingOverwritten

(* And in the end, what customers are charged and whether the shop answers *)
(* them go by what is saved.                                               *)
SettingsSettle == PricesSettle /\ SwitchSettles

=============================================================================
