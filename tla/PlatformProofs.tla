--------------------------- MODULE PlatformProofs ---------------------------
(***************************************************************************)
(* What Settings, Limits, Pricing, Mail and Gateway promise, proved for    *)
(* any number of handlers, any limits, prices and failures, and whatever a *)
(* request fills the path of a route in with. For each of them: the state  *)
(* it can be in, the invariant that is inductive, a lemma for every action *)
(* that needs one, and the theorem at the end of its part.                 *)
(***************************************************************************)
EXTENDS Settings, Limits, Pricing, Mail, Gateway, RouteFacts, WellFoundedInduction, TLAPS

(***************************************************************************)
(* SETTINGS                                                                *)
(***************************************************************************)

Rows == [value : 0..1, updated : BOOLEAN, version : Nat]
Todos == Seq(Keys \X (0..1))
Editing == {"load", "save", "refresh", "drop", "unflag", "flag"}
Tasks == [pc : Editing \cup {"idle", "insert", "mode", "fill"},
          todo : Todos, row : Rows, got : [Keys -> 0..1]]

SettingsTyped ==
  /\ setting \in [Keys -> Rows]
  /\ commerce \in [Keys -> 0..1] \cup {None} /\ flag \in {0, 1, None}
  /\ dropped \in BOOLEAN
  /\ shand \in [Workers -> Tasks]

(* An editor has a key to edit. *)
HasKey(t) == t.pc \in Editing => t.todo # <<>>

(* What an editor is about to save it loaded from the row as it is now, or *)
(* as it was at an earlier version.                                        *)
Seen(t, s) ==
  t.pc = "save" =>
    LET current == s[Head(t.todo)[1]] IN
    t.row.version <= current.version /\ (t.row.version = current.version => t.row = current)

SettingsInv ==
  /\ SettingsTyped
  /\ \A w \in Workers : HasKey(shand[w]) /\ Seen(shand[w], setting)

LEMMA RestingIsTask ==
  Unset \in Rows /\ NoValues \in [Keys -> 0..1] /\ Resting \in Tasks /\ Resting.pc = "idle"
<1>1. Unset \in Rows
  BY DEF Unset, Setting, Rows
<1>2. NoValues \in [Keys -> 0..1]
  BY DEF NoValues
<1>3. <<>> \in Todos
  BY DEF Todos
<1> QED
  BY <1>1, <1>2, <1>3 DEF Resting, Task, Tasks, Editing

LEMMA HeadIsEdit ==
  ASSUME NEW t \in Tasks, t.todo # <<>>
  PROVE  Head(t.todo)[1] \in Keys /\ Head(t.todo)[2] \in 0..1
<1>1. t.todo \in Seq(Keys \X (0..1))
  BY DEF Tasks, Todos
<1>2. Head(t.todo) \in Keys \X (0..1)
  BY <1>1
<1> QED
  BY <1>2

(* A row is left alone, or written with a version it did not have. *)
Newer(s, t) == \A k \in Keys : t[k] = s[k] \/ t[k].version > s[k].version

LEMMA StillSeen ==
  ASSUME NEW s \in [Keys -> Rows], NEW t \in [Keys -> Rows], Newer(s, t),
         NEW h \in Tasks, HasKey(h), Seen(h, s)
  PROVE  Seen(h, t)
<1> SUFFICES ASSUME h.pc = "save" PROVE Seen(h, t)
  BY DEF Seen
<1> DEFINE k == Head(h.todo)[1]
<1>1. k \in Keys
  BY HeadIsEdit DEF HasKey, Editing
<1>2. h.row.version \in Nat /\ s[k].version \in Nat /\ t[k].version \in Nat
  BY <1>1 DEF Tasks, Rows
<1>3. h.row.version <= s[k].version /\ (h.row.version = s[k].version => h.row = s[k])
  BY DEF Seen
<1>4. t[k] = s[k] \/ t[k].version > s[k].version
  BY <1>1 DEF Newer
<1>5. h.row.version <= t[k].version /\ (h.row.version = t[k].version => h.row = t[k])
  BY <1>2, <1>3, <1>4
<1> QED
  BY <1>5 DEF Seen

(* Only one handler moves, and what it is at next is as it should be. *)
LEMMA TurnKeeps ==
  ASSUME SettingsInv, NEW w \in Workers, NEW t \in Tasks, Turn(w, t),
         setting' \in [Keys -> Rows], Newer(setting, setting'),
         HasKey(t), Seen(t, setting'),
         commerce' \in [Keys -> 0..1] \cup {None}, flag' \in {0, 1, None},
         dropped' \in BOOLEAN
  PROVE  SettingsInv'
<1>1. shand' \in [Workers -> Tasks]
  BY DEF SettingsInv, SettingsTyped, Turn
<1>2. ASSUME NEW x \in Workers PROVE HasKey(shand'[x]) /\ Seen(shand'[x], setting')
  <2>1. CASE x = w
    BY <2>1 DEF SettingsInv, SettingsTyped, Turn
  <2>2. CASE x # w
    <3>1. shand'[x] = shand[x] /\ shand[x] \in Tasks
      BY <2>2 DEF SettingsInv, SettingsTyped, Turn
    <3>2. HasKey(shand[x]) /\ Seen(shand[x], setting) /\ setting \in [Keys -> Rows]
      BY DEF SettingsInv, SettingsTyped
    <3> QED
      BY <3>1, <3>2, StillSeen
  <2> QED
    BY <2>1, <2>2
<1> QED
  BY <1>1, <1>2 DEF SettingsInv, SettingsTyped

LEMMA SameIsNewer == ASSUME NEW s PROVE Newer(s, s)
  BY DEF Newer

LEMMA LongerThanOne ==
  ASSUME NEW S, NEW s \in Seq(S), s # <<>>, Len(s) # 1
  PROVE  Tail(s) \in Seq(S) /\ Tail(s) # <<>>
<1>1. Len(s) \in Nat /\ Len(s) # 0
  OBVIOUS
<1>2. Tail(s) \in Seq(S) /\ Len(Tail(s)) = Len(s) - 1
  BY <1>1
<1>3. Len(Tail(s)) # 0
  BY <1>1, <1>2
<1> QED
  BY <1>2, <1>3

LEMMA NextKeyKeeps ==
  ASSUME SettingsInv, NEW w \in Workers, NextKey(w), shand[w].todo # <<>>,
         setting' = setting, commerce' \in [Keys -> 0..1] \cup {None},
         flag' \in {0, 1, None}, dropped' = dropped
  PROVE  SettingsInv'
<1> DEFINE t == Task("load", Tail(shand[w].todo), Unset, NoValues)
<1>1. shand[w] \in Tasks /\ setting \in [Keys -> Rows] /\ dropped \in BOOLEAN
  BY DEF SettingsInv, SettingsTyped
<1>2. CASE Len(shand[w].todo) = 1
  <2>1. HasKey(Resting) /\ Seen(Resting, setting')
    BY RestingIsTask DEF HasKey, Seen, Editing
  <2> QED
    BY <1>1, <1>2, <2>1, RestingIsTask, SameIsNewer, TurnKeeps DEF NextKey
<1>3. CASE Len(shand[w].todo) # 1
  <2>1. shand[w].todo \in Seq(Keys \X (0..1))
    BY <1>1 DEF Tasks, Todos
  <2>2. Tail(shand[w].todo) \in Todos /\ Tail(shand[w].todo) # <<>>
    BY <1>3, <2>1, LongerThanOne DEF Todos
  <2>3. t \in Tasks /\ t.pc = "load" /\ t.todo # <<>>
    BY <2>2, RestingIsTask DEF Task, Tasks, Editing
  <2>4. HasKey(t) /\ Seen(t, setting')
    BY <2>3 DEF HasKey, Seen
  <2>5. Turn(w, t)
    BY <1>3 DEF NextKey
  <2> QED
    BY <1>1, <2>3, <2>4, <2>5, SameIsNewer, TurnKeeps
<1> QED
  BY <1>2, <1>3

LEMMA SettingsStart == SettingsInit => SettingsInv
<1> SUFFICES ASSUME SettingsInit PROVE SettingsInv
  OBVIOUS
<1>1. SettingsTyped
  BY RestingIsTask DEF SettingsInit, SettingsTyped
<1>2. \A w \in Workers : HasKey(shand[w]) /\ Seen(shand[w], setting)
  BY RestingIsTask DEF SettingsInit, HasKey, Seen, Editing
<1> QED
  BY <1>1, <1>2 DEF SettingsInv

(* One step of an editor writes only the row it saw, or none. *)
LEMMA SaveIsSeen ==
  ASSUME SettingsInv, NEW w \in Workers, SaveSetting(w)
  PROVE  \/ setting' = setting
         \/ /\ Key(w) \in Keys /\ shand[w].row = setting[Key(w)]
            /\ setting' = [setting EXCEPT ![Key(w)] =
                 Setting(Value(w), setting[Key(w)].version > 0, setting[Key(w)].version + 1)]
<1> DEFINE k == Key(w)
           row == shand[w].row
<1>1. shand[w] \in Tasks /\ shand[w].pc = "save" /\ shand[w].todo # <<>>
  BY DEF SettingsInv, SettingsTyped, SaveSetting, HasKey, Editing
<1>2. k \in Keys
  BY <1>1, HeadIsEdit DEF Key
<1>3. row.version = setting[k].version => row = setting[k]
  BY <1>1 DEF SettingsInv, Seen, Key
<1>4. \/ setting' = setting
      \/ /\ row.version = setting[k].version
         /\ setting' = [setting EXCEPT ![k] = Setting(Value(w), row.version > 0, row.version + 1)]
  BY DEF SaveSetting
<1> QED
  BY <1>2, <1>3, <1>4

LEMMA SaveSettingKeeps ==
  ASSUME SettingsInv, NEW w \in Workers, SaveSetting(w)
  PROVE  SettingsInv'
<1> DEFINE k == Key(w)
           bump == setting[k].version > 0
           new == Setting(Value(w), bump, setting[k].version + 1)
           t == [shand[w] EXCEPT !.pc = "refresh"]
<1>1. shand[w] \in Tasks /\ shand[w].pc = "save" /\ shand[w].todo # <<>>
  BY DEF SettingsInv, SettingsTyped, SaveSetting, HasKey, Editing
<1>2. k \in Keys /\ Value(w) \in 0..1
  BY <1>1, HeadIsEdit DEF Key, Value
<1>3. /\ setting \in [Keys -> Rows] /\ commerce' = commerce /\ flag' = flag
      /\ dropped' = dropped /\ commerce \in [Keys -> 0..1] \cup {None}
      /\ flag \in {0, 1, None} /\ dropped \in BOOLEAN
  BY DEF SettingsInv, SettingsTyped, SaveSetting
<1>4. setting' \in [Keys -> Rows] /\ Newer(setting, setting')
  <2>1. CASE setting' = setting
    BY <1>3, <2>1, SameIsNewer
  <2>2. CASE setting' = [setting EXCEPT ![k] = new]
    <3>1. setting[k].version \in Nat /\ bump \in BOOLEAN
      BY <1>2, <1>3 DEF Rows
    <3>2. new \in Rows /\ new.version = setting[k].version + 1
      BY <1>2, <3>1 DEF Setting, Rows
    <3> HIDE DEF new
    <3>3. \A j \in Keys : setting'[j] = IF j = k THEN new ELSE setting[j]
      BY <1>3, <2>2
    <3>4. Newer(setting, setting')
      BY <1>2, <3>1, <3>2, <3>3 DEF Newer
    <3> QED
      BY <1>3, <2>2, <3>2, <3>4
  <2> QED
    BY <2>1, <2>2, SaveIsSeen
<1>5. Turn(w, Resting) \/ Turn(w, t)
  BY DEF SaveSetting
<1>6. HasKey(Resting) /\ Seen(Resting, setting') /\ Resting \in Tasks
  BY RestingIsTask DEF HasKey, Seen, Editing
<1>7. t \in Tasks /\ HasKey(t) /\ Seen(t, setting')
  BY <1>1 DEF Tasks, HasKey, Seen, Editing
<1> HIDE DEF t
<1> QED
  BY <1>3, <1>4, <1>5, <1>6, <1>7, TurnKeeps

LEMMA DefaultsAreNew ==
  ASSUME SettingsInv, NEW w \in Workers, InsertDefaults(w)
  PROVE  /\ setting' \in [Keys -> Rows]
         /\ \A k \in Keys : setting'[k] = setting[k] \/ setting[k].version = 0
         /\ Newer(setting, setting')
<1> DEFINE missing == {k \in Keys : shand[w].got[k] = 1}
           new == Setting(0, FALSE, 1)
<1>1. setting \in [Keys -> Rows]
  BY DEF SettingsInv, SettingsTyped
<1>2. new \in Rows /\ new.version = 1
  BY DEF Setting, Rows
<1>3. \/ setting' = setting
      \/ /\ ~\E k \in missing : setting[k].version > 0
         /\ setting' = [k \in Keys |-> IF k \in missing THEN new ELSE setting[k]]
  BY DEF InsertDefaults
<1> HIDE DEF new
<1>4. CASE setting' = setting
  BY <1>1, <1>4, SameIsNewer
<1>5. CASE /\ ~\E k \in missing : setting[k].version > 0
           /\ setting' = [k \in Keys |-> IF k \in missing THEN new ELSE setting[k]]
  <2>1. \A k \in Keys : setting[k].version \in Nat
    BY <1>1 DEF Rows
  <2>2. setting' \in [Keys -> Rows]
    BY <1>1, <1>2, <1>5
  <2>3. \A k \in Keys : setting'[k] = setting[k]
                        \/ (setting'[k] = new /\ setting[k].version = 0)
    BY <1>5, <2>1
  <2> QED
    BY <1>2, <2>2, <2>3 DEF Newer
<1> QED
  BY <1>3, <1>4, <1>5

LEMMA SettingsKept == SettingsInv /\ [SettingsNext]_settingsVars => SettingsInv'
<1> SUFFICES ASSUME SettingsInv, [SettingsNext]_settingsVars PROVE SettingsInv'
  OBVIOUS
<1>1. /\ setting \in [Keys -> Rows] /\ commerce \in [Keys -> 0..1] \cup {None}
      /\ flag \in {0, 1, None} /\ dropped \in BOOLEAN
      /\ \A w \in Workers : shand[w] \in Tasks /\ HasKey(shand[w])
  BY DEF SettingsInv, SettingsTyped
<1>2. Newer(setting, setting)
  BY SameIsNewer
<1>3. Resting \in Tasks /\ HasKey(Resting) /\ \A s : Seen(Resting, s)
  BY RestingIsTask DEF HasKey, Seen, Editing
<1>4. Values \in [Keys -> 0..1] /\ "fee" \in Keys /\ "mode" \in Keys
  BY <1>1 DEF Values, Rows, Keys
<1>5. ASSUME NEW w \in Workers, NEW todo \in Edits, StartEdit(w, todo) PROVE SettingsInv'
  <2> DEFINE t == Task("load", todo, Unset, NoValues)
  <2>1. todo \in Todos /\ todo # <<>>
    <3>1. CASE \E k \in Keys, v \in 0..1 : todo = << <<k, v>> >>
      BY <3>1 DEF Todos
    <3>2. CASE \E v, u \in 0..1 : todo = << <<"fee", v>>, <<"mode", u>> >>
      BY <1>4, <3>2 DEF Todos
    <3> QED
      BY <3>1, <3>2 DEF Edits
  <2>2. t \in Tasks /\ t.pc = "load" /\ t.todo # <<>>
    BY <2>1, RestingIsTask DEF Task, Tasks, Editing
  <2>3. HasKey(t) /\ Seen(t, setting')
    BY <2>2 DEF HasKey, Seen
  <2>4. Turn(w, t) /\ UNCHANGED <<setting, commerce, flag, dropped>>
    BY <1>5 DEF StartEdit
  <2> HIDE DEF t
  <2> QED
    BY <1>1, <1>2, <2>2, <2>3, <2>4, TurnKeeps
<1>6. ASSUME NEW w \in Workers, LoadSetting(w) PROVE SettingsInv'
  <2> DEFINE t == [shand[w] EXCEPT !.pc = "save", !.row = setting[Key(w)]]
  <2>1. shand[w].todo # <<>>
    BY <1>1, <1>6 DEF LoadSetting, HasKey, Editing
  <2>2. Key(w) \in Keys
    BY <1>1, <2>1, HeadIsEdit DEF Key
  <2>3. setting[Key(w)] \in Rows
    BY <1>1, <2>2
  <2>4. /\ t \in Tasks /\ t.pc = "save" /\ t.todo = shand[w].todo
        /\ t.row = setting[Key(w)]
    BY <1>1, <2>3 DEF Tasks, Editing
  <2>5. Turn(w, t) /\ UNCHANGED <<setting, commerce, flag, dropped>>
    BY <1>6 DEF LoadSetting
  <2>6. t.row.version \in Nat
    BY <2>3, <2>4 DEF Rows
  <2> HIDE DEF t
  <2>7. HasKey(t) /\ Seen(t, setting')
    BY <2>1, <2>4, <2>5, <2>6 DEF HasKey, Seen, Key
  <2> QED
    BY <1>1, <1>2, <2>4, <2>5, <2>7, TurnKeeps
<1>7. ASSUME NEW w \in Workers, SaveSetting(w) PROVE SettingsInv'
  BY <1>7, SaveSettingKeeps
<1>8. ASSUME NEW w \in Workers, RefreshSetting(w) PROVE SettingsInv'
  <2> DEFINE t == [shand[w] EXCEPT !.pc = "drop", !.row = setting[Key(w)]]
  <2>1. shand[w].todo # <<>>
    BY <1>1, <1>8 DEF RefreshSetting, HasKey, Editing
  <2>2. Key(w) \in Keys
    BY <1>1, <2>1, HeadIsEdit DEF Key
  <2>3. setting[Key(w)] \in Rows
    BY <1>1, <2>2
  <2>4. t \in Tasks /\ t.pc = "drop" /\ t.todo = shand[w].todo
    BY <1>1, <2>3 DEF Tasks, Editing
  <2>5. Turn(w, t) /\ UNCHANGED <<setting, commerce, flag, dropped>>
    BY <1>8 DEF RefreshSetting
  <2> HIDE DEF t
  <2>6. HasKey(t) /\ Seen(t, setting')
    BY <2>1, <2>4 DEF HasKey, Seen
  <2> QED
    BY <1>1, <1>2, <2>4, <2>5, <2>6, TurnKeeps
<1>9. ASSUME NEW w \in Workers, DropCommerce(w) PROVE SettingsInv'
  <2> DEFINE t == [shand[w] EXCEPT !.pc = "unflag"]
  <2>1. shand[w].todo # <<>>
    BY <1>1, <1>9 DEF DropCommerce, HasKey, Editing
  <2>2. t \in Tasks /\ t.pc = "unflag" /\ t.todo = shand[w].todo
    BY <1>1 DEF Tasks, Editing
  <2>3. Turn(w, t) /\ commerce' = None /\ UNCHANGED <<setting, flag, dropped>>
    BY <1>9 DEF DropCommerce
  <2> HIDE DEF t
  <2>4. HasKey(t) /\ Seen(t, setting')
    BY <2>1, <2>2 DEF HasKey, Seen
  <2> QED
    BY <1>1, <1>2, <2>2, <2>3, <2>4, TurnKeeps
<1>10. ASSUME NEW w \in Workers, DropFlag(w) PROVE SettingsInv'
  <2> DEFINE t == [shand[w] EXCEPT !.pc = "flag"]
  <2>1. shand[w].todo # <<>>
    BY <1>1, <1>10 DEF DropFlag, HasKey, Editing
  <2>2. t \in Tasks /\ t.pc = "flag" /\ t.todo = shand[w].todo
    BY <1>1 DEF Tasks, Editing
  <2>3. /\ Turn(w, t) \/ NextKey(w)
        /\ flag' = None /\ UNCHANGED <<setting, commerce, dropped>>
    BY <1>10 DEF DropFlag
  <2> HIDE DEF t
  <2>4. HasKey(t) /\ Seen(t, setting')
    BY <2>1, <2>2 DEF HasKey, Seen
  <2> QED
    BY <1>1, <1>2, <2>1, <2>2, <2>3, <2>4, TurnKeeps, NextKeyKeeps
<1>11. ASSUME NEW w \in Workers, SetFlag(w) PROVE SettingsInv'
  <2>1. shand[w].todo # <<>>
    BY <1>1, <1>11 DEF SetFlag, HasKey, Editing
  <2>2. shand[w].row.value \in 0..1
    BY <1>1 DEF Tasks, Rows
  <2>3. NextKey(w) /\ flag' = shand[w].row.value /\ UNCHANGED <<setting, commerce, dropped>>
    BY <1>11 DEF SetFlag
  <2> QED
    BY <1>1, <2>1, <2>2, <2>3, NextKeyKeeps
<1>12. ASSUME NEW w \in Workers, InsertDefaults(w) PROVE SettingsInv'
  <2>1. Turn(w, Resting) /\ UNCHANGED <<commerce, flag, dropped>>
    BY <1>12 DEF InsertDefaults
  <2> QED
    BY <1>1, <1>3, <1>12, <2>1, DefaultsAreNew, TurnKeeps
<1>13. ASSUME NEW w \in Workers, ReadMode(w) PROVE SettingsInv'
  <2> DEFINE t == [shand[w] EXCEPT !.pc = "fill", !.got["mode"] = Values["mode"]]
  <2>1. Turn(w, t) /\ UNCHANGED <<setting, commerce, flag, dropped>>
    BY <1>13 DEF ReadMode
  <2>2. Values["mode"] \in 0..1
    BY <1>4
  <2>3. t \in Tasks /\ t.pc = "fill"
    BY <1>1, <1>4, <2>2 DEF Tasks
  <2> HIDE DEF t
  <2>4. HasKey(t) /\ Seen(t, setting')
    BY <2>3 DEF HasKey, Seen, Editing
  <2> QED
    BY <1>1, <1>2, <2>1, <2>3, <2>4, TurnKeeps
<1>14. ASSUME NEW w \in Workers, FillCommerce(w) PROVE SettingsInv'
  <2>1. Turn(w, Resting) /\ commerce' = shand[w].got /\ UNCHANGED <<setting, flag, dropped>>
    BY <1>14 DEF FillCommerce
  <2>2. shand[w].got \in [Keys -> 0..1]
    BY <1>1 DEF Tasks
  <2> QED
    BY <1>1, <1>2, <1>3, <2>1, <2>2, TurnKeeps
<1>15. ASSUME NEW w \in Workers, FindMissing(w) PROVE SettingsInv'
  <2> DEFINE got == [k \in Keys |-> IF setting[k].version = 0 THEN 1 ELSE 0]
             t == Task("insert", <<>>, Unset, got)
  <2>1. Turn(w, t) /\ UNCHANGED <<setting, commerce, flag, dropped>>
    BY <1>15 DEF FindMissing
  <2>2. got \in [Keys -> 0..1] /\ <<>> \in Todos
    BY DEF Todos
  <2> HIDE DEF got
  <2>3. t \in Tasks /\ t.pc = "insert"
    BY <2>2, RestingIsTask DEF Task, Tasks, Editing
  <2> HIDE DEF t
  <2>4. HasKey(t) /\ Seen(t, setting')
    BY <2>3 DEF HasKey, Seen, Editing
  <2> QED
    BY <1>1, <1>2, <2>1, <2>3, <2>4, TurnKeeps
<1>16. ASSUME NEW w \in Workers, ReadFee(w) PROVE SettingsInv'
  <2> DEFINE got == [NoValues EXCEPT !["fee"] = Values["fee"]]
             t == Task("mode", <<>>, Unset, got)
  <2>1. Turn(w, t) /\ UNCHANGED <<setting, commerce, flag, dropped>>
    BY <1>16 DEF ReadFee
  <2>2. got \in [Keys -> 0..1] /\ <<>> \in Todos
    BY <1>4, RestingIsTask DEF Todos
  <2> HIDE DEF got
  <2>3. t \in Tasks /\ t.pc = "mode"
    BY <2>2, RestingIsTask DEF Task, Tasks, Editing
  <2> HIDE DEF t
  <2>4. HasKey(t) /\ Seen(t, setting')
    BY <2>3 DEF HasKey, Seen, Editing
  <2> QED
    BY <1>1, <1>2, <2>1, <2>3, <2>4, TurnKeeps
<1>17. ASSUME NEW w \in Workers, Abandon(w) PROVE SettingsInv'
  <2>1. Turn(w, Resting) /\ dropped' = TRUE /\ UNCHANGED <<setting, commerce, flag>>
    BY <1>17 DEF Abandon
  <2> QED
    BY <1>1, <1>2, <1>3, <2>1, TurnKeeps
<1>18. CASE ExpireCommerce
  BY <1>18 DEF ExpireCommerce, SettingsInv, SettingsTyped
<1>19. CASE ExpireFlag
  BY <1>19 DEF ExpireFlag, SettingsInv, SettingsTyped
<1>20. CASE UNCHANGED settingsVars
  BY <1>20 DEF settingsVars, SettingsInv, SettingsTyped
<1> QED
  BY <1>5, <1>6, <1>7, <1>8, <1>9, <1>10, <1>11, <1>12, <1>13, <1>14, <1>15, <1>16,
     <1>17, <1>18, <1>19, <1>20 DEF SettingsNext, SettingsStep, EditStep

(* The rows are written by who saves one and by who inserts the defaults. *)
LEMMA NothingIsOverwritten ==
  ASSUME SettingsInv, SettingsNext, NEW k \in Keys,
         setting'[k] # setting[k], setting[k].version > 0
  PROVE  \E w \in Workers : /\ shand[w].pc = "save" /\ Key(w) = k
                            /\ shand[w].row = setting[k]
<1>0. setting \in [Keys -> Rows]
  BY DEF SettingsInv, SettingsTyped
<1>1. CASE \E w \in Workers : SaveSetting(w)
  <2> PICK w \in Workers : SaveSetting(w)
    BY <1>1
  <2>1. shand[w].pc = "save"
    BY DEF SaveSetting
  <2>2. Key(w) = k /\ shand[w].row = setting[k]
    BY <1>0, SaveIsSeen
  <2> QED
    BY <2>1, <2>2
<1>2. CASE \E w \in Workers : InsertDefaults(w)
  BY <1>2, DefaultsAreNew
<1>3. CASE setting' = setting
  BY <1>3
<1> QED
  BY <1>1, <1>2, <1>3
  DEF SettingsNext, SettingsStep, EditStep, StartEdit, LoadSetting, RefreshSetting,
      DropCommerce, DropFlag, SetFlag, FindMissing, ReadFee, ReadMode, FillCommerce,
      ExpireCommerce, ExpireFlag, Abandon

(* A row of the settings that is there is only written by a handler that   *)
(* loaded it as it is, whatever else is being edited or inserted.          *)
THEOREM SettingsHold == SettingsSpec => SettingsCorrect
<1>1. SettingsInv => SettingsTypeOK
  BY DEF SettingsInv, SettingsTyped, SettingsTypeOK, Rows, Tasks, Todos
<1>2. SettingsInv /\ [SettingsNext]_settingsVars =>
        [\A k \in Keys : setting'[k] # setting[k] /\ setting[k].version > 0 =>
           \E w \in Workers : /\ shand[w].pc = "save" /\ Key(w) = k
                              /\ shand[w].row = setting[k]]_settingsVars
  BY NothingIsOverwritten
<1> QED
  BY SettingsStart, SettingsKept, <1>1, <1>2, PTL
  DEF SettingsSpec, SettingsCorrect, NothingOverwritten

(***************************************************************************)
(* LIMITS                                                                  *)
(***************************************************************************)

(* Time is cut into windows of length n, and t + 1 is in that of t or      *)
(* begins the next.                                                        *)
StartOf(t, n) == (t \div n) * n

LEMMA WindowOf ==
  ASSUME NEW t \in Nat, NEW n \in Nat \ {0}
  PROVE  /\ StartOf(t, n) \in Nat
         /\ StartOf(t, n) <= t /\ t < StartOf(t, n) + n
         /\ (t \div n + 1) * n = StartOf(t, n) + n
<1> DEFINE q == t \div n
<1>1. q \in Int /\ q * n <= t /\ t < q * n + n
  OBVIOUS
<1>2. q \in Nat
  <2>1. CASE q < 0
    <3>1. q + 1 <= 0 /\ (q + 1) * n = q * n + n
      BY <1>1, <2>1
    <3>2. \A a \in Nat : a * n \in Nat
      OBVIOUS
    <3>3. (0 - (q + 1)) * n \in Nat /\ (0 - (q + 1)) * n = 0 - (q * n + n)
      BY <1>1, <3>1, <3>2
    <3> QED
      BY <1>1, <3>3
  <2> QED
    BY <1>1, <2>1
<1>3. q * n \in Nat /\ (q + 1) * n = q * n + n
  BY <1>2
<1> QED
  BY <1>1, <1>3 DEF StartOf

LEMMA OneWindow ==
  ASSUME NEW t \in Int, NEW n \in Nat \ {0}, NEW a \in Nat, NEW b \in Nat,
         a * n <= t, t < a * n + n, b * n <= t, t < b * n + n
  PROVE  a = b
<1>0. \A c \in Nat : c * n \in Nat
  OBVIOUS
<1>1. \A c, d \in Nat : c < d => c * n + n <= d * n
  <2> SUFFICES ASSUME NEW c \in Nat, NEW d \in Nat, c < d PROVE c * n + n <= d * n
    OBVIOUS
  <2>1. d - c - 1 \in Nat
    OBVIOUS
  <2>2. (d - c - 1) * n \in Nat /\ (d - c - 1) * n = d * n - c * n - n
    BY <1>0, <2>1
  <2>3. c * n \in Nat /\ d * n \in Nat
    BY <1>0
  <2> QED
    BY <2>2, <2>3
<1>2. ~(a < b) /\ ~(b < a)
  BY <1>0, <1>1
<1> QED
  BY <1>2

LEMMA NextWindow ==
  ASSUME NEW t \in Nat, NEW n \in Nat \ {0}
  PROVE  \/ StartOf(t + 1, n) = StartOf(t, n) /\ t + 1 < StartOf(t, n) + n
         \/ StartOf(t + 1, n) = t + 1 /\ t + 1 = StartOf(t, n) + n
<1> DEFINE q == t \div n
           r == (t + 1) \div n
<1>1. q * n <= t /\ t < q * n + n /\ q \in Int
  OBVIOUS
<1>2. r * n <= t + 1 /\ t + 1 < r * n + n /\ r \in Int
  OBVIOUS
<1>3. StartOf(t, n) = q * n /\ StartOf(t + 1, n) = r * n
  BY DEF StartOf
<1>4. StartOf(t, n) \in Nat /\ StartOf(t + 1, n) \in Nat
  <2> t + 1 \in Nat
    OBVIOUS
  <2> QED
    BY WindowOf
<1>5. q \in Nat /\ r \in Nat
  BY <1>1, <1>2, <1>3, <1>4
<1> HIDE DEF q, r
<1>6. CASE t + 1 < q * n + n
  <2>1. q * n <= t + 1
    BY <1>1, <1>3, <1>4
  <2>2. q = r
    BY <1>2, <1>5, <1>6, <2>1, OneWindow
  <2> QED
    BY <1>3, <1>6, <2>2
<1>7. CASE t + 1 = q * n + n
  <2>1. (q + 1) * n = q * n + n /\ q + 1 \in Nat
    BY <1>5
  <2>2. (q + 1) * n <= t + 1 /\ t + 1 < (q + 1) * n + n
    BY <1>3, <1>4, <1>7, <2>1
  <2>3. q + 1 = r
    BY <1>2, <1>5, <2>1, <2>2, OneWindow
  <2> QED
    BY <1>3, <1>7, <2>1, <2>3
<1> QED
  BY <1>1, <1>3, <1>4, <1>6, <1>7

-----------------------------------------------------------------------------

LimitsTyped ==
  /\ now \in 0..LastTick /\ answer \in Limiters \cup {"ok"}
  /\ count \in [Limiters -> [n : Nat, until : Nat]]
  /\ asks \in {Ticking, {"login"}}
  /\ passed \in [0..LastTick -> Nat]
  /\ retry \in [Limiters -> Nat]

(* Requests admitted up to a time, before the first one, too. *)
Upto(p, t) == IF t < 0 THEN 0 ELSE p[t]

Rising ==
  /\ \A t, u \in 0..LastTick : t <= u => passed[t] <= passed[u]
  /\ \A t \in now..LastTick : passed[t] = passed[now]

(* A key lives for its window and no longer than a refusal told.           *)
Alive(l) ==
  /\ count[l].n <= Limit[l] + 1
  /\ count[l].n = 0 => count[l].until = 0
  /\ count[l].n > 0 => now < count[l].until /\ count[l].until <= now + Length[l]
  /\ retry[l] # 0 => count[l].until <= retry[l]
  /\ l \notin asks => count[l].n = 0
  /\ l \in Ticking /\ count[l].n > 0 => count[l].until = StartOf(now, Length[l]) + Length[l]

(* Since when a limiter counts. *)
Since(l) ==
  IF l \in Ticking THEN StartOf(now, Length[l])
  ELSE IF count[l].n > 0 THEN count[l].until - Length[l] ELSE now

(* Since then it admitted no more than it counted, and no more than its    *)
(* limit; nor did it in the window's length before.                        *)
WithinLimit(l, s, u, p) ==
  /\ s \in Nat /\ s <= u /\ u < s + Length[l]
  /\ Upto(p, u) - Upto(p, s - 1) <= Limit[l]
  /\ Upto(p, s - 1) - Upto(p, s - 1 - Length[l]) <= Limit[l]

Counts(l) ==
  /\ WithinLimit(l, Since(l), now, passed)
  /\ Upto(passed, now) - Upto(passed, Since(l) - 1) <= count[l].n

(* Who is counted was let in when the counting began. *)
LetIn ==
  count["login"].n > 0 =>
    LET s == count["login"].until - Length["login"]
    IN  s \in 0..now /\ passed[s] > Upto(passed, s - 1)

LimitsInv ==
  /\ LimitsTyped /\ Rising
  /\ \A l \in Limiters : Alive(l)
  /\ \A l \in asks : Counts(l)
  /\ \A l \in asks, u \in 0..now : \E s \in Nat : WithinLimit(l, s, u, passed)
  /\ LetIn

LEMMA LengthsOf ==
  /\ \A l \in Limiters : Length[l] \in Nat \ {0} /\ Limit[l] \in Nat \ {0}
  /\ LastTick \in Nat
  /\ Ticking \subseteq Limiters /\ "login" \in Limiters /\ "login" \notin Ticking
  BY LimitsAssumption DEF Limiters, Ticking

LEMMA UptoRises ==
  ASSUME LimitsTyped, Rising, NEW t \in Int, NEW u \in Int, t <= u, u <= LastTick
  PROVE  /\ Upto(passed, t) \in Nat /\ Upto(passed, u) \in Nat
         /\ Upto(passed, t) <= Upto(passed, u)
<1>1. \A v \in 0..LastTick : passed[v] \in Nat
  BY DEF LimitsTyped
<1>2. LastTick \in Nat
  BY LengthsOf
<1>3. CASE t < 0
  BY <1>1, <1>2, <1>3 DEF Upto
<1>4. CASE t >= 0
  <2>1. t \in 0..LastTick /\ u \in 0..LastTick
    BY <1>2, <1>4
  <2> QED
    BY <1>1, <1>4, <2>1 DEF Upto, Rising
<1> QED
  BY <1>3, <1>4

LEMMA LimitsStart == LimitsInit => LimitsInv
<1> SUFFICES ASSUME LimitsInit PROVE LimitsInv
  OBVIOUS
<1>1. /\ now = 0 /\ answer = "ok" /\ asks \in {Ticking, {"login"}}
      /\ count = [l \in Limiters |-> Counter(0, 0)]
      /\ passed = [t \in 0..LastTick |-> 0] /\ retry = [l \in Limiters |-> 0]
  BY DEF LimitsInit
<1>2. \A l \in Limiters : count[l] = [n |-> 0, until |-> 0]
  BY <1>1 DEF Counter
<1>3. LimitsTyped
  BY <1>1, LengthsOf DEF LimitsTyped, Counter
<1>4. Rising
  BY <1>1, LengthsOf DEF Rising
<1>5. \A l \in Limiters : Alive(l)
  BY <1>1, <1>2, LengthsOf DEF Alive
<1>6. \A t \in Int : t <= LastTick => Upto(passed, t) = 0
  BY <1>1, LengthsOf DEF Upto
<1>7. \A l \in Limiters : StartOf(0, Length[l]) = 0
  <2> SUFFICES ASSUME NEW l \in Limiters PROVE StartOf(0, Length[l]) = 0
    OBVIOUS
  <2>1. StartOf(0, Length[l]) \in Nat /\ StartOf(0, Length[l]) <= 0
    BY LengthsOf, WindowOf
  <2> QED
    BY <2>1
<1>8. \A l \in asks : Counts(l) /\ WithinLimit(l, 0, 0, passed)
  <2> SUFFICES ASSUME NEW l \in asks PROVE Counts(l) /\ WithinLimit(l, 0, 0, passed)
    OBVIOUS
  <2>1. l \in Limiters /\ Length[l] \in Nat \ {0} /\ Limit[l] \in Nat \ {0} /\ LastTick \in Nat
    BY <1>1, LengthsOf
  <2>2. Since(l) = 0
    BY <1>1, <1>2, <1>7, <2>1 DEF Since
  <2>3. /\ Upto(passed, 0) = 0 /\ Upto(passed, 0 - 1) = 0
        /\ Upto(passed, 0 - 1 - Length[l]) = 0
    BY <1>6, <2>1
  <2> QED
    BY <1>1, <1>2, <2>1, <2>2, <2>3 DEF Counts, WithinLimit
<1>9. \A l \in asks, u \in 0..now : \E s \in Nat : WithinLimit(l, s, u, passed)
  <2> \A u \in 0..now : u = 0 /\ 0 \in Nat
    BY <1>1
  <2> QED
    BY <1>8
<1>10. LetIn
  BY <1>2, LengthsOf DEF LetIn
<1> QED
  BY <1>3, <1>4, <1>5, <1>8, <1>9, <1>10 DEF LimitsInv

-----------------------------------------------------------------------------
(* A request. *)

LEMMA HitOf ==
  ASSUME LimitsInv, NEW l \in asks
  PROVE  /\ l \in Limiters /\ Hit(l) \in [n : Nat, until : Nat]
         /\ Hit(l).n = IF count[l].n > Limit[l] THEN count[l].n ELSE count[l].n + 1
         /\ Hit(l).until = IF count[l].n > 0 THEN count[l].until ELSE Since(l) + Length[l]
         /\ Hit(l).n > 0 /\ Hit(l).n <= Limit[l] + 1
         /\ now < Hit(l).until /\ Hit(l).until <= now + Length[l]
         /\ l \in Ticking => Hit(l).until = StartOf(now, Length[l]) + Length[l]
<1>1. l \in Limiters /\ Length[l] \in Nat \ {0} /\ Limit[l] \in Nat \ {0}
  BY LengthsOf DEF LimitsInv, LimitsTyped
<1>2. /\ count[l].n \in Nat /\ count[l].until \in Nat /\ now \in Nat
      /\ Alive(l) /\ Counts(l)
  BY <1>1, LengthsOf DEF LimitsInv, LimitsTyped
<1>3. /\ StartOf(now, Length[l]) \in Nat /\ StartOf(now, Length[l]) <= now
      /\ now < StartOf(now, Length[l]) + Length[l]
      /\ EndOfWindow(l) = StartOf(now, Length[l]) + Length[l]
  BY <1>1, <1>2, WindowOf DEF EndOfWindow
<1> DEFINE until == IF l \in Ticking THEN EndOfWindow(l)
                    ELSE IF count[l].n = 0 THEN now + Length[l] ELSE count[l].until
<1>4. Hit(l) = [n |-> Counted(l), until |-> until]
  BY DEF Hit, Counter
<1>5. Counted(l) \in Nat /\ Counted(l) > 0 /\ Counted(l) <= Limit[l] + 1
  BY <1>1, <1>2 DEF Counted, Alive
<1>6. /\ until \in Nat /\ now < until /\ until <= now + Length[l]
      /\ until = IF count[l].n > 0 THEN count[l].until ELSE Since(l) + Length[l]
  BY <1>1, <1>2, <1>3 DEF Alive, Since
<1>7. l \in Ticking => until = StartOf(now, Length[l]) + Length[l]
  BY <1>3
<1> HIDE DEF until
<1> QED
  BY <1>1, <1>4, <1>5, <1>6, <1>7 DEF Counted

(* What is told of a request: who refused it counted one too many, and who *)
(* admitted it did not.                                                    *)
LEMMA AnsweredKeeps ==
  ASSUME LimitsInv, NEW word \in Limiters \cup {"ok"}, Answered(word),
         word = "ok" => \A l \in asks : ~Over(l),
         word # "ok" => word \in asks /\ Over(word)
  PROVE  LimitsInv'
<1>1. /\ count' = [l \in Limiters |-> IF l \in asks THEN Hit(l) ELSE count[l]]
      /\ answer' = word /\ now' = now /\ asks' = asks
      /\ retry' = [l \in Limiters |-> IF l = word THEN now + Length[l] ELSE 0]
      /\ word = "ok" =>
           passed' = [t \in 0..LastTick |-> passed[t] + IF t >= now THEN 1 ELSE 0]
      /\ word # "ok" => passed' = passed
  BY DEF Answered
<1>2. /\ now \in 0..LastTick /\ LastTick \in Nat /\ now \in Nat
      /\ asks \in {Ticking, {"login"}} /\ asks \subseteq Limiters
      /\ \A l \in Limiters : count[l] \in [n : Nat, until : Nat] /\ Alive(l)
      /\ \A t \in 0..LastTick : passed[t] \in Nat
  BY LengthsOf DEF LimitsInv, LimitsTyped
<1> DEFINE d == IF word = "ok" THEN 1 ELSE 0
<1>3. d \in {0, 1} /\ (d = 1 <=> word = "ok")
  OBVIOUS
<1>4. \A t \in 0..LastTick : passed'[t] = IF t >= now THEN passed[t] + d ELSE passed[t]
  BY <1>1, <1>2
<1> HIDE DEF d
<1>5. LimitsTyped'
  <2>1. count' \in [Limiters -> [n : Nat, until : Nat]]
    BY <1>1, <1>2, HitOf
  <2>2. passed' \in [0..LastTick -> Nat]
    <3>1. \A t \in 0..LastTick : (passed[t] + (IF t >= now THEN 1 ELSE 0)) \in Nat
      BY <1>2
    <3> QED
      BY <1>1, <3>1 DEF LimitsInv, LimitsTyped
  <2>3. retry' \in [Limiters -> Nat]
    BY <1>1, <1>2, LengthsOf
  <2> QED
    BY <1>1, <1>2, <2>1, <2>2, <2>3 DEF LimitsTyped
<1>6. Rising'
  <2>1. \A t, u \in 0..LastTick : t <= u => passed'[t] <= passed'[u]
    <3> SUFFICES ASSUME NEW t \in 0..LastTick, NEW u \in 0..LastTick, t <= u
                 PROVE  passed'[t] <= passed'[u]
      OBVIOUS
    <3>1. passed[t] <= passed[u] /\ passed[t] \in Nat /\ passed[u] \in Nat
      BY <1>2 DEF LimitsInv, Rising
    <3> QED
      BY <1>2, <1>3, <1>4, <3>1
  <2>2. \A t \in now..LastTick : passed'[t] = passed'[now]
    <3> SUFFICES ASSUME NEW t \in now..LastTick PROVE passed'[t] = passed'[now]
      OBVIOUS
    <3>1. passed[t] = passed[now] /\ t \in 0..LastTick /\ t >= now
      BY <1>2 DEF LimitsInv, Rising
    <3> QED
      BY <1>2, <1>4, <3>1
  <2> QED
    BY <1>1, <2>1, <2>2 DEF Rising
<1>7. ASSUME NEW l \in Limiters PROVE Alive(l)'
  <2>1. Length[l] \in Nat \ {0} /\ Limit[l] \in Nat \ {0} /\ Alive(l)
        /\ count[l].n \in Nat /\ count[l].until \in Nat
    BY <1>2, LengthsOf
  <2>2. retry'[l] # 0 => l = word /\ retry'[l] = now + Length[l]
    BY <1>1
  <2>3. CASE l \in asks
    <3>1. count'[l] = Hit(l)
      BY <1>1, <2>3
    <3> QED
      BY <1>1, <2>1, <2>2, <2>3, <3>1, HitOf DEF Alive
  <2>4. CASE l \notin asks
    <3>1. count'[l] = count[l] /\ count[l].n = 0 /\ count[l].until = 0
      BY <1>1, <2>1, <2>4 DEF Alive
    <3> QED
      BY <1>1, <1>2, <2>1, <2>2, <2>4, <3>1 DEF Alive
  <2> QED
    BY <2>3, <2>4
<1>8. \A t \in Int : t <= LastTick =>
        /\ Upto(passed, t) \in Nat
        /\ Upto(passed', t) = IF t >= now THEN Upto(passed, t) + d ELSE Upto(passed, t)
  <2> SUFFICES ASSUME NEW t \in Int, t <= LastTick
               PROVE  /\ Upto(passed, t) \in Nat
                      /\ Upto(passed', t) = IF t >= now THEN Upto(passed, t) + d
                                                        ELSE Upto(passed, t)
    OBVIOUS
  <2>1. CASE t < 0
    BY <1>2, <2>1 DEF Upto
  <2>2. CASE t >= 0
    <3>1. t \in 0..LastTick
      BY <1>2, <2>2
    <3> QED
      BY <1>2, <1>4, <2>2, <3>1 DEF Upto
  <2> QED
    BY <2>1, <2>2
<1>9. ASSUME NEW l \in asks PROVE Counts(l)' /\ Since(l)' = Since(l)
  <2>1. /\ l \in Limiters /\ Length[l] \in Nat \ {0} /\ Limit[l] \in Nat \ {0}
        /\ count[l].n \in Nat /\ count[l].until \in Nat
    BY <1>2, LengthsOf
  <2>2. Counts(l)
    BY DEF LimitsInv
  <2>3. count'[l] = Hit(l) /\ Hit(l).n > 0
    BY <1>1, <2>1, HitOf
  <2>4. Since(l)' = Since(l)
    <3>1. Since(l) \in Nat
      BY <2>2 DEF Counts, WithinLimit
    <3> QED
      BY <1>1, <1>2, <2>1, <2>3, <3>1, HitOf DEF Since
  <2> DEFINE s == Since(l)
             here == Upto(passed, now)
             there == Upto(passed, s - 1)
             before == Upto(passed, s - 1 - Length[l])
  <2>5. /\ s \in Nat /\ s <= now /\ now < s + Length[l]
        /\ here - there <= count[l].n /\ here - there <= Limit[l]
        /\ there - before <= Limit[l]
    BY <2>2 DEF Counts, WithinLimit
  <2>6. Hit(l).n = IF count[l].n > Limit[l] THEN count[l].n ELSE count[l].n + 1
    BY HitOf
  <2>7. d = 1 => Hit(l).n <= Limit[l]
    <3>1. Hit(l).n \in Nat
      BY HitOf
    <3> QED
      BY <1>3, <2>1, <3>1 DEF Over
  <2>8. /\ Upto(passed', now) = here + d /\ Upto(passed', s - 1) = there
        /\ Upto(passed', s - 1 - Length[l]) = before
        /\ here \in Nat /\ there \in Nat /\ before \in Nat
    <3>1. /\ s - 1 \in Int /\ s - 1 <= LastTick /\ ~(s - 1 >= now)
          /\ s - 1 - Length[l] \in Int /\ s - 1 - Length[l] <= LastTick
          /\ ~(s - 1 - Length[l] >= now)
      <4> HIDE DEF s
      <4> QED
        BY <1>2, <2>1, <2>5
    <3>2. now \in Int /\ now <= LastTick /\ now >= now
      BY <1>2
    <3> HIDE DEF s
    <3> QED
      BY <1>8, <3>1, <3>2
  <2> HIDE DEF here, there, before
  <2>9. /\ (here + d) - there <= Hit(l).n
        /\ (here + d) - there <= Limit[l]
    BY <1>3, <2>1, <2>5, <2>6, <2>7, <2>8
  <2>10. WithinLimit(l, s, now, passed')
    BY <2>5, <2>8, <2>9 DEF WithinLimit
  <2>11. Upto(passed', now) - Upto(passed', s - 1) <= count'[l].n
    BY <2>3, <2>8, <2>9
  <2> QED
    BY <1>1, <2>4, <2>10, <2>11 DEF Counts
<1>10. ASSUME NEW l \in asks, NEW u \in 0..now
       PROVE  \E s \in Nat : WithinLimit(l, s, u, passed')
  <2>1. l \in Limiters /\ Length[l] \in Nat \ {0}
    BY <1>2, LengthsOf
  <2>2. CASE u = now
    BY <1>1, <1>9, <2>2 DEF Counts, WithinLimit
  <2>3. CASE u < now
    <3>1. PICK s \in Nat : WithinLimit(l, s, u, passed)
      BY DEF LimitsInv
    <3>2. s <= u /\ s \in Nat /\ u \in Nat
      BY <1>2, <3>1 DEF WithinLimit
    <3>3. /\ Upto(passed', u) = Upto(passed, u)
          /\ Upto(passed', s - 1) = Upto(passed, s - 1)
          /\ Upto(passed', s - 1 - Length[l]) = Upto(passed, s - 1 - Length[l])
      BY <1>2, <1>8, <2>1, <2>3, <3>2
    <3>4. WithinLimit(l, s, u, passed')
      BY <3>1, <3>3 DEF WithinLimit
    <3> QED
      BY <3>4
  <2> QED
    BY <1>2, <2>2, <2>3
<1>11. LetIn'
  <2> SUFFICES ASSUME count'["login"].n > 0
               PROVE  LetIn'
    BY DEF LetIn
  <2>1. /\ "login" \in Limiters /\ Length["login"] \in Nat \ {0}
        /\ Limit["login"] \in Nat \ {0} /\ "login" \notin Ticking
    BY LengthsOf
  <2>2. "login" \in asks
    BY <1>1, <1>2, <2>1 DEF Alive
  <2>3. /\ count'["login"] = Hit("login") /\ count["login"].n \in Nat
        /\ count["login"].until \in Nat /\ asks = {"login"}
    BY <1>1, <1>2, <2>1, <2>2 DEF Ticking
  <2> DEFINE s == Since("login")
  <2>4. s \in Nat /\ s <= now
    BY <2>2 DEF LimitsInv, Counts, WithinLimit
  <2>5. count'["login"].until - Length["login"] = s
    <3>1. Hit("login").until = IF count["login"].n > 0 THEN count["login"].until
                                                    ELSE Since("login") + Length["login"]
      BY <2>2, HitOf
    <3>2. count["login"].n > 0 => s = count["login"].until - Length["login"]
      BY <2>1 DEF Since
    <3>3. CASE count["login"].n > 0
      BY <2>3, <3>1, <3>2, <3>3
    <3>4. CASE count["login"].n = 0
      <4>1. count'["login"].until = s + Length["login"]
        BY <2>3, <3>1, <3>4
      <4> HIDE DEF s
      <4> QED
        BY <2>1, <2>4, <4>1
    <3> QED
      BY <2>3, <3>3, <3>4
  <2>6. count["login"].n > 0 => passed[s] > Upto(passed, s - 1)
    BY <2>1 DEF LimitsInv, LetIn, Since
  <2>7. count["login"].n = 0 => s = now
    BY <2>1 DEF Since
  <2>8. count["login"].n = 0 => d = 1
    <3> SUFFICES ASSUME count["login"].n = 0 PROVE d = 1
      OBVIOUS
    <3>1. Hit("login").n = 1
      BY <2>1, <2>2, HitOf
    <3>2. ~Over("login")
      BY <2>1, <3>1 DEF Over
    <3> QED
      BY <1>3, <2>3, <3>2
  <2> HIDE DEF s
  <2>9. s \in 0..LastTick /\ s - 1 \in Int /\ s - 1 <= LastTick /\ s - 1 < now
    BY <1>2, <2>4
  <2>10. Upto(passed', s) = passed'[s] /\ Upto(passed, s) = passed[s]
    BY <2>4 DEF Upto
  <2>11. /\ Upto(passed', s - 1) = Upto(passed, s - 1)
         /\ Upto(passed, s - 1) \in Nat /\ Upto(passed, s) \in Nat
         /\ Upto(passed', s) \in Nat /\ Upto(passed', s) >= Upto(passed, s)
         /\ s = now => Upto(passed', s) = Upto(passed, s) + d
    BY <1>2, <1>3, <1>8, <2>9
  <2>12. Upto(passed, s - 1) <= Upto(passed, s)
    BY <1>2, <2>9, UptoRises DEF LimitsInv
  <2>13. s \in 0..now /\ passed'[s] > Upto(passed', s - 1)
    <3>1. CASE count["login"].n > 0
      BY <1>2, <2>4, <2>6, <2>10, <2>11, <3>1
    <3>2. CASE count["login"].n = 0
      BY <1>2, <2>4, <2>7, <2>8, <2>10, <2>11, <2>12, <3>2
    <3> QED
      BY <2>3, <3>1, <3>2
  <2> QED
    BY <1>1, <2>5, <2>13 DEF LetIn
<1> QED
  BY <1>1, <1>5, <1>6, <1>7, <1>9, <1>10, <1>11 DEF LimitsInv

-----------------------------------------------------------------------------
(* Time. *)

LEMMA TickKeeps == ASSUME LimitsInv, Tick PROVE LimitsInv'
<1>1. /\ now < LastTick /\ now' = now + 1
      /\ count' = [l \in Limiters |->
                     IF count[l].until <= now' THEN Counter(0, 0) ELSE count[l]]
      /\ asks' = asks /\ passed' = passed /\ answer' = answer /\ retry' = retry
  BY DEF Tick
<1>2. /\ now \in 0..LastTick /\ LastTick \in Nat /\ now \in Nat
      /\ asks \in {Ticking, {"login"}} /\ asks \subseteq Limiters
      /\ \A l \in Limiters : /\ count[l] \in [n : Nat, until : Nat] /\ Alive(l)
                             /\ count[l].n \in Nat /\ count[l].until \in Nat
                             /\ Length[l] \in Nat \ {0} /\ Limit[l] \in Nat \ {0}
                             /\ retry[l] \in Nat
      /\ \A t \in 0..LastTick : passed[t] \in Nat
  BY LengthsOf DEF LimitsInv, LimitsTyped
<1> DEFINE none == Counter(0, 0)
<1>3. none \in [n : Nat, until : Nat] /\ none.n = 0 /\ none.until = 0
  BY DEF Counter
<1> HIDE DEF none
<1>4. \A l \in Limiters : count'[l] = IF count[l].until <= now + 1 THEN none ELSE count[l]
  BY <1>1 DEF none
<1>5. LimitsTyped'
  <2>1. count' \in [Limiters -> [n : Nat, until : Nat]]
    BY <1>1, <1>2, <1>3 DEF none
  <2> QED
    BY <1>1, <1>2, <2>1 DEF LimitsInv, LimitsTyped
<1>6. Rising'
  <2>1. \A t \in now'..LastTick : passed'[t] = passed'[now']
    BY <1>1, <1>2 DEF LimitsInv, Rising
  <2> QED
    BY <1>1, <2>1 DEF LimitsInv, Rising
<1>7. ASSUME NEW l \in Limiters PROVE Alive(l)'
  <2> DEFINE s == StartOf(now, Length[l])
  <2>1. \/ StartOf(now + 1, Length[l]) = s /\ now + 1 < s + Length[l]
        \/ StartOf(now + 1, Length[l]) = now + 1 /\ now + 1 = s + Length[l]
    BY <1>2, NextWindow
  <2>2. s \in Nat
    BY <1>2, WindowOf
  <2> HIDE DEF s
  <2>3. CASE count[l].until <= now + 1
    <3>1. count'[l] = none
      BY <1>4, <2>3
    <3> QED
      BY <1>1, <1>2, <1>3, <3>1 DEF Alive
  <2>4. CASE count[l].until > now + 1
    <3>1. count'[l] = count[l] /\ Alive(l)
      BY <1>2, <1>4, <2>4
    <3>2. count[l].n > 0 /\ count[l].until <= now + Length[l]
      BY <1>2, <2>4, <3>1 DEF Alive
    <3>3. l \in Ticking => StartOf(now', Length[l]) = s
      BY <1>1, <1>2, <2>1, <2>2, <2>4, <3>1, <3>2 DEF Alive, s
    <3> QED
      BY <1>1, <1>2, <2>4, <3>1, <3>2, <3>3 DEF Alive, s
  <2> QED
    BY <1>2, <2>3, <2>4
<1>9. ASSUME NEW l \in asks PROVE Counts(l)'
  <2> DEFINE s == Since(l)
             here == Upto(passed, now)
             there == Upto(passed, s - 1)
             before == Upto(passed, s - 1 - Length[l])
  <2>1. /\ l \in Limiters /\ Length[l] \in Nat \ {0} /\ Limit[l] \in Nat \ {0}
        /\ count[l].n \in Nat /\ count[l].until \in Nat /\ Alive(l)
    BY <1>2
  <2>2. /\ s \in Nat /\ s <= now /\ now < s + Length[l]
        /\ here - there <= count[l].n /\ here - there <= Limit[l]
        /\ there - before <= Limit[l]
    BY DEF LimitsInv, Counts, WithinLimit
  <2>3. Upto(passed, now + 1) = here
    <3>1. now + 1 \in now..LastTick /\ ~(now + 1 < 0) /\ ~(now < 0)
      BY <1>1, <1>2
    <3> QED
      BY <3>1 DEF Upto, LimitsInv, Rising
  <2>4. /\ here \in Nat /\ there \in Nat /\ before \in Nat
        /\ Upto(passed, now - Length[l]) \in Nat
        /\ s = now => before <= Upto(passed, now - Length[l])
    <3>1. LimitsTyped /\ Rising
      BY DEF LimitsInv
    <3> HIDE DEF s
    <3>2. /\ now \in Int /\ now - Length[l] \in Int /\ s - 1 \in Int
          /\ s - 1 - Length[l] \in Int /\ now <= LastTick /\ s - 1 <= now
          /\ now - Length[l] <= now /\ s - 1 - Length[l] <= s - 1
          /\ s = now => s - 1 - Length[l] <= now - Length[l]
          /\ s - 1 <= LastTick /\ now - Length[l] <= LastTick
      BY <1>2, <2>1, <2>2
    <3>3. here \in Nat /\ there \in Nat
      BY <3>1, <3>2, UptoRises
    <3>4. before \in Nat
      BY <3>1, <3>2, UptoRises
    <3>5. /\ Upto(passed, now - Length[l]) \in Nat
          /\ s = now => before <= Upto(passed, now - Length[l])
      BY <3>1, <3>2, UptoRises
    <3> QED
      BY <3>3, <3>4, <3>5
  <2>5. \/ /\ Since(l)' = s /\ now + 1 < s + Length[l]
           /\ count'[l].n = count[l].n
        \/ /\ Since(l)' = now + 1 /\ now + 1 = s + Length[l] /\ count'[l].n = 0
        \/ /\ Since(l)' = now + 1 /\ s = now /\ count[l].n = 0 /\ count'[l].n = 0
    <3>1. CASE l \in Ticking
      <4>1. s = StartOf(now, Length[l]) /\ Since(l)' = StartOf(now + 1, Length[l])
        BY <1>1, <3>1 DEF Since
      <4>2. \/ StartOf(now + 1, Length[l]) = s /\ now + 1 < s + Length[l]
            \/ StartOf(now + 1, Length[l]) = now + 1 /\ now + 1 = s + Length[l]
        BY <1>2, <2>1, <4>1, NextWindow
      <4>3. count[l].n > 0 => count[l].until = s + Length[l]
        BY <2>1, <3>1, <4>1 DEF Alive
      <4>4. count[l].n = 0 => count'[l].n = 0
        BY <1>3, <1>4, <2>1
      <4> HIDE DEF s
      <4> QED
        BY <1>2, <1>3, <1>4, <2>1, <2>2, <4>1, <4>2, <4>3, <4>4
    <3>2. CASE l \notin Ticking /\ count[l].n = 0
      <4>1. s = now /\ count'[l].n = 0
        BY <1>3, <1>4, <2>1, <3>2 DEF Since
      <4> QED
        BY <1>1, <3>2, <4>1 DEF Since
    <3>3. CASE l \notin Ticking /\ count[l].n > 0
      <4>1. s = count[l].until - Length[l] /\ now < count[l].until
        BY <2>1, <3>3 DEF Since, Alive
      <4>2. CASE count[l].until <= now + 1
        <5>1. count'[l].n = 0 /\ now + 1 = s + Length[l]
          BY <1>2, <1>3, <1>4, <2>1, <4>1, <4>2
        <5>2. Since(l)' = now + 1
          BY <1>1, <3>3, <5>1 DEF Since
        <5> QED
          BY <5>1, <5>2
      <4>3. CASE count[l].until > now + 1
        <5>1. count'[l] = count[l]
          BY <1>2, <1>4, <2>1, <4>3
        <5>2. Since(l)' = s /\ now + 1 < s + Length[l]
          BY <1>1, <1>2, <2>1, <3>3, <4>1, <4>3, <5>1 DEF Since
        <5> QED
          BY <5>1, <5>2
      <4> QED
        BY <1>2, <2>1, <4>2, <4>3
    <3> QED
      BY <2>1, <3>1, <3>2, <3>3
  <2>6. CASE /\ Since(l)' = s /\ now + 1 < s + Length[l] /\ count'[l].n = count[l].n
    <3> HIDE DEF s, here, there, before
    <3>1. /\ s <= now + 1 /\ Upto(passed, now + 1) - there <= Limit[l]
          /\ Upto(passed, now + 1) - there <= count'[l].n
      BY <1>2, <2>2, <2>3, <2>6
    <3>2. WithinLimit(l, s, now + 1, passed)
      BY <2>2, <2>6, <3>1 DEF WithinLimit, there, before
    <3> QED
      BY <1>1, <2>6, <3>1, <3>2 DEF Counts, there
  <2>7. CASE Since(l)' = now + 1 /\ count'[l].n = 0
    <3>1. Upto(passed, now + 1 - 1) = here /\ now + 1 - 1 - Length[l] = now - Length[l]
      BY <1>2, <2>1
    <3>2. here - Upto(passed, now - Length[l]) <= Limit[l]
      <4>1. CASE now + 1 = s + Length[l]
        <5>1. now - Length[l] = s - 1
          BY <1>2, <2>1, <2>2, <4>1
        <5> QED
          BY <2>2, <5>1
      <4>2. CASE s = now /\ count[l].n = 0
        <5> HIDE DEF s, here, there, before
        <5> QED
          BY <2>1, <2>2, <2>4, <4>2
      <4>3. s # now + 1
        <5> HIDE DEF s
        <5> QED
          BY <1>2, <2>2
      <4> QED
        BY <2>5, <2>7, <4>1, <4>2, <4>3
    <3> HIDE DEF here
    <3>3. /\ now + 1 \in Nat /\ now + 1 < now + 1 + Length[l]
          /\ here - here = 0 /\ 0 <= Limit[l]
      BY <1>2, <2>1, <2>4
    <3>4. WithinLimit(l, now + 1, now + 1, passed)
      BY <1>2, <2>3, <3>1, <3>2, <3>3 DEF WithinLimit
    <3> QED
      BY <1>1, <1>2, <2>3, <2>7, <3>1, <3>3, <3>4 DEF Counts
  <2> QED
    BY <2>5, <2>6, <2>7
<1>10. ASSUME NEW l \in asks, NEW u \in 0..(now + 1)
       PROVE  \E s \in Nat : WithinLimit(l, s, u, passed)
  <2>1. CASE u = now + 1
    BY <1>1, <1>9, <2>1 DEF Counts, WithinLimit
  <2>2. CASE u \in 0..now
    BY <2>2 DEF LimitsInv
  <2> QED
    BY <1>2, <2>1, <2>2
<1>11. LetIn'
  <2>1. "login" \in Limiters /\ Length["login"] \in Nat \ {0}
    BY LengthsOf
  <2>2. CASE count'["login"].n = 0
    BY <2>2 DEF LetIn
  <2>3. CASE count'["login"] = count["login"]
    <3>1. 0..now \subseteq 0..(now + 1)
      BY <1>2
    <3> QED
      BY <1>1, <2>3, <3>1 DEF LimitsInv, LetIn
  <2> QED
    BY <1>3, <1>4, <2>1, <2>2, <2>3
<1> QED
  BY <1>1, <1>5, <1>6, <1>7, <1>9, <1>10, <1>11 DEF LimitsInv

-----------------------------------------------------------------------------

(* What a request is told by. *)
LEMMA ToldBy ==
  ASSUME LimitsInv, Request \/ LoginAttempt
  PROVE  \E word \in Limiters \cup {"ok"} :
           /\ Answered(word)
           /\ word = "ok" => \A l \in asks : ~Over(l)
           /\ word # "ok" => word \in asks /\ Over(word)
<1>1. CASE Request
  <2> DEFINE word == IF Over("minute") THEN "minute" ELSE IF Over("hour") THEN "hour"
                     ELSE IF Over("burst") THEN "burst" ELSE "ok"
  <2>1. asks = {"burst", "minute", "hour"} /\ Answered(word)
    BY <1>1 DEF Request, Ticking
  <2>2. word \in Limiters \cup {"ok"}
    BY DEF Limiters, Ticking
  <2>3. word = "ok" => \A l \in asks : ~Over(l)
    BY <2>1
  <2>4. word # "ok" => word \in asks /\ Over(word)
    BY <2>1
  <2> HIDE DEF word
  <2> QED
    BY <2>1, <2>2, <2>3, <2>4
<1>2. CASE LoginAttempt
  <2> DEFINE word == IF Over("login") THEN "login" ELSE "ok"
  <2>1. asks = {"login"} /\ Answered(word)
    BY <1>2 DEF LoginAttempt
  <2>2. word \in Limiters \cup {"ok"}
    BY DEF Limiters
  <2>3. word = "ok" => \A l \in asks : ~Over(l)
    BY <2>1
  <2>4. word # "ok" => word \in asks /\ Over(word)
    BY <2>1
  <2> HIDE DEF word
  <2> QED
    BY <2>1, <2>2, <2>3, <2>4
<1> QED
  BY <1>1, <1>2

LEMMA LimitsKept == LimitsInv /\ [LimitsNext]_limitsVars => LimitsInv'
<1> SUFFICES ASSUME LimitsInv, [LimitsNext]_limitsVars PROVE LimitsInv'
  OBVIOUS
<1>1. CASE Request \/ LoginAttempt
  BY <1>1, ToldBy, AnsweredKeeps
<1>2. CASE Tick
  BY <1>2, TickKeeps
<1>3. CASE UNCHANGED limitsVars
  BY <1>3 DEF limitsVars, LimitsInv, LimitsTyped, Rising, Alive, Counts, Since,
              LetIn
<1> QED
  BY <1>1, <1>2, <1>3 DEF LimitsNext

(* Any span of a window's length ends in a window, and begins in it or in  *)
(* the length before it.                                                   *)
LEMMA SpanIsBounded == LimitsInv => TwiceTheLimit
<1> SUFFICES ASSUME LimitsInv, NEW l \in asks, NEW t \in 0..now, NEW u \in 0..now,
                    t <= u, u - t < Length[l]
             PROVE  passed[u] - Before(t) <= 2 * Limit[l]
  BY DEF TwiceTheLimit
<1>1. /\ l \in Limiters /\ Length[l] \in Nat \ {0} /\ Limit[l] \in Nat \ {0}
      /\ LastTick \in Nat /\ now \in 0..LastTick /\ LimitsTyped /\ Rising
  BY LengthsOf DEF LimitsInv, LimitsTyped
<1>2. PICK s \in Nat : WithinLimit(l, s, u, passed)
  BY DEF LimitsInv
<1> DEFINE there == Upto(passed, s - 1)
           before == Upto(passed, s - 1 - Length[l])
<1>3. s <= u /\ u < s + Length[l] /\ Upto(passed, u) - there <= Limit[l]
      /\ there - before <= Limit[l]
  BY <1>2 DEF WithinLimit
<1>4. s - 1 - Length[l] <= t - 1 /\ t - 1 <= LastTick /\ s - 1 <= u /\ u <= LastTick
  BY <1>1, <1>3
<1>5. before <= Upto(passed, t - 1) /\ Upto(passed, t - 1) \in Nat /\ before \in Nat
  BY <1>1, <1>4, UptoRises
<1>6. Upto(passed, u) \in Nat /\ there \in Nat
  BY <1>1, <1>4, UptoRises
<1> HIDE DEF there, before
<1>7. Upto(passed, u) - Upto(passed, t - 1) <= 2 * Limit[l]
  BY <1>1, <1>3, <1>5, <1>6
<1>8. Upto(passed, u) = passed[u] /\ Upto(passed, t - 1) = Before(t)
  BY <1>1 DEF Upto, Before
<1> QED
  BY <1>7, <1>8

LEMMA LockoutsEnd == LimitsInv => LockoutEnds
<1> SUFFICES ASSUME LimitsInv, count["login"].n > 0
             PROVE  \E t \in 0..now : now - t < Length["login"] /\ passed[t] > Before(t)
  BY DEF LockoutEnds
<1> DEFINE s == count["login"].until - Length["login"]
<1>1. "login" \in Limiters /\ Length["login"] \in Nat \ {0} /\ count["login"].until \in Nat
      /\ now \in Nat
  BY LengthsOf DEF LimitsInv, LimitsTyped
<1>2. s \in 0..now /\ passed[s] > Upto(passed, s - 1)
  BY DEF LimitsInv, LetIn
<1>3. now < count["login"].until
  BY <1>1 DEF LimitsInv, Alive
<1>4. now - s < Length["login"]
  BY <1>1, <1>3
<1>5. Upto(passed, s - 1) = Before(s)
  BY <1>1, <1>2 DEF Upto, Before
<1> QED
  BY <1>2, <1>4, <1>5

(* Who waited as long as he was told finds the key gone. *)
LEMMA WaitingHelps ==
  ASSUME LimitsInv, LimitsNext, NEW l \in Limiters,
         retry[l] # 0, now >= retry[l], now' = now
  PROVE  answer' # l
<1>1. /\ Length[l] \in Nat \ {0} /\ Limit[l] \in Nat \ {0} /\ now \in Nat
      /\ count[l].n \in Nat /\ count[l].until \in Nat /\ retry[l] \in Nat /\ Alive(l)
  BY LengthsOf DEF LimitsInv, LimitsTyped
<1>2. Request \/ LoginAttempt
  BY <1>1 DEF LimitsNext, Tick
<1>3. PICK word \in Limiters \cup {"ok"} :
           /\ Answered(word)
           /\ word # "ok" => word \in asks /\ Over(word)
  BY <1>2, ToldBy
<1>4. count[l].n = 0
  BY <1>1 DEF Alive
<1>5. l \in asks => Hit(l).n = 1
  BY <1>1, <1>4, HitOf
<1>6. l \in asks => ~Over(l)
  BY <1>1, <1>5 DEF Over
<1>7. l # "ok"
  BY DEF Limiters, Ticking
<1> QED
  BY <1>3, <1>6, <1>7 DEF Answered

(* However the windows are set off against each other and whatever their   *)
(* lengths: no client is let through more than twice the limit in the time *)
(* of a window, every lockout ends, and who waits as long as he was told   *)
(* is not refused again by who told him.                                   *)
THEOREM LimitsHold == LimitsSpec => LimitsCorrect
<1>1. LimitsInv => LimitsTypeOK
  <2> SUFFICES ASSUME LimitsInv PROVE LimitsTypeOK
    OBVIOUS
  <2>1. ASSUME NEW l \in Limiters
        PROVE  count[l].n \in 0..(Limit[l] + 1) /\ count[l].until <= now + Length[l]
    <3>1. /\ Length[l] \in Nat \ {0} /\ Limit[l] \in Nat \ {0} /\ now \in Nat
          /\ count[l].n \in Nat /\ count[l].until \in Nat /\ Alive(l)
      BY LengthsOf DEF LimitsInv, LimitsTyped
    <3> QED
      BY <3>1 DEF Alive
  <2> QED
    BY <2>1 DEF LimitsTypeOK, LimitsInv, LimitsTyped
<1>2. LimitsInv => LimitsTypeOK /\ TwiceTheLimit /\ LockoutEnds
  BY <1>1, SpanIsBounded, LockoutsEnd
<1>3. LimitsInv /\ [LimitsNext]_limitsVars =>
        [\A l \in Limiters :
           retry[l] # 0 /\ now >= retry[l] /\ UNCHANGED now => answer' # l]_limitsVars
  BY WaitingHelps
<1> QED
  BY LimitsStart, LimitsKept, <1>2, <1>3, PTL DEF LimitsSpec, LimitsCorrect, RetryHonest

(***************************************************************************)
(* PRICES                                                                  *)
(***************************************************************************)

(* Rounding to a hundredth keeps the order, whole rupees, and never gains  *)
(* more than what it rounds.                                               *)
LEMMA MoneyRounds ==
  ASSUME NEW n \in Nat
  PROVE  Money(n, 10000) \in Nat
  BY DEF Money

LEMMA MoneyGrows ==
  ASSUME NEW m \in Nat, NEW n \in Nat, m <= n
  PROVE  Money(m, 10000) <= Money(n, 10000)
  BY DEF Money

LEMMA MoneyGrowsSlowly ==
  ASSUME NEW m \in Nat, NEW n \in Nat, NEW k \in Nat, n <= m + 10000 * k
  PROVE  Money(n, 10000) <= Money(m, 10000) + k
  BY DEF Money

LEMMA MoneyOfNothing == Money(0, 10000) = 0
  BY DEF Money

(* The products a percentage makes, which are not linear. *)
LEMMA ProductGrows ==
  ASSUME NEW s \in Nat, NEW t \in Nat, s <= t, NEW v \in Nat
  PROVE  s * v \in Nat /\ t * v \in Nat /\ s * v <= t * v
<1>1. \A a, b \in Nat : a * b \in Nat
  OBVIOUS
<1>2. t - s \in Nat /\ t = s + (t - s)
  OBVIOUS
<1>3. t * v = s * v + (t - s) * v
  BY <1>2
<1> QED
  BY <1>1, <1>2, <1>3

LEMMA ProductGrowsSlowly ==
  ASSUME NEW s \in Nat, NEW t \in Nat, s <= t, NEW v \in Nat, v <= 10000
  PROVE  t * v <= s * v + 10000 * (t - s)
<1> DEFINE k == t - s
<1>1. k \in Nat /\ t = s + k
  OBVIOUS
<1>2. 10000 - v \in Nat
  OBVIOUS
<1>3. t * v = s * v + k * v
  BY <1>1
<1>4. k * (10000 - v) \in Nat /\ k * (10000 - v) = 10000 * k - k * v
  BY <1>1, <1>2
<1>5. k * v \in Int /\ s * v \in Int
  BY <1>1
<1> QED
  BY <1>1, <1>3, <1>4, <1>5

-----------------------------------------------------------------------------

IsTerms(t) == t.fee \in Int /\ t.threshold \in Int /\ t.rate \in Int
IsCoupon(c) ==
  /\ c.percentage \in BOOLEAN /\ c.value \in Nat /\ c.minimum \in Nat
  /\ c.cap \in Nat \cup {NoCap}
  /\ c.percentage => c.value <= 10000

LEMMA TermsAreNumbers == ASSUME NEW t \in Terms PROVE IsTerms(t)
  BY PricingAssumption DEF Terms, IsTerms

LEMMA CouponsAreNumbers == ASSUME NEW c \in Coupons PROVE IsCoupon(c)
  BY PricingAssumption DEF Coupons, IsCoupon

(* What a percentage or an amount comes to before the cap. *)
Full(c, s) == IF c.percentage THEN Money(s * c.value, 10000) ELSE c.value

LEMMA FullGrows ==
  ASSUME NEW c, IsCoupon(c), NEW s \in Nat, NEW t \in Nat, s <= t
  PROVE  /\ Full(c, s) \in Nat /\ Full(c, t) \in Nat
         /\ Full(c, s) <= Full(c, t)
         /\ Full(c, t) <= Full(c, s) + (t - s)
<1>1. t - s \in Nat
  OBVIOUS
<1>2. CASE c.percentage
  <2>1. c.value \in Nat /\ c.value <= 10000
    BY <1>2 DEF IsCoupon
  <2>2. /\ s * c.value \in Nat /\ t * c.value \in Nat
        /\ s * c.value <= t * c.value
        /\ t * c.value <= s * c.value + 10000 * (t - s)
    BY <2>1, ProductGrows, ProductGrowsSlowly
  <2>3. Full(c, s) = Money(s * c.value, 10000) /\ Full(c, t) = Money(t * c.value, 10000)
    BY <1>2 DEF Full
  <2> DEFINE p == s * c.value
             q == t * c.value
  <2>4. p \in Nat /\ q \in Nat /\ p <= q /\ q <= p + 10000 * (t - s)
    BY <2>2
  <2>5. Full(c, s) = Money(p, 10000) /\ Full(c, t) = Money(q, 10000)
    BY <2>3
  <2> HIDE DEF p, q
  <2> QED
    BY <1>1, <2>4, <2>5, MoneyRounds, MoneyGrows, MoneyGrowsSlowly
<1>3. CASE ~c.percentage
  BY <1>1, <1>3 DEF Full, IsCoupon
<1> QED
  BY <1>2, <1>3 DEF IsCoupon

(* A discount is never more than what it is taken off, grows with it, and  *)
(* by no more than it does.                                                *)
LEMMA DiscountFits ==
  ASSUME NEW c, IsCoupon(c), NEW s \in Nat, NEW t \in Nat, s <= t
  PROVE  /\ Discount(c, s) \in Nat /\ Discount(c, t) \in Nat
         /\ Discount(c, s) <= s
         /\ t - Discount(c, t) >= s - Discount(c, s)
<1> DEFINE f == Full(c, s)
           g == Full(c, t)
<1>1. f \in Nat /\ g \in Nat /\ f <= g /\ g <= f + (t - s)
  BY FullGrows
<1>2. c.cap \in Nat \/ c.cap = NoCap
  BY DEF IsCoupon
<1>3. /\ DiscountUncapped(c, s) = IF c.cap = NoCap THEN f ELSE Least(f, c.cap)
      /\ DiscountUncapped(c, t) = IF c.cap = NoCap THEN g ELSE Least(g, c.cap)
  BY DEF DiscountUncapped, Full
<1> HIDE DEF f, g
<1> QED
  BY <1>1, <1>2, <1>3 DEF Discount, Least

LEMMA TaxGrows ==
  ASSUME NEW t, IsTerms(t), NEW a \in Nat, NEW b \in Nat, a <= b
  PROVE  Tax(t, a) \in Nat /\ Tax(t, b) \in Nat /\ Tax(t, a) <= Tax(t, b)
<1>1. t.rate \in Int
  BY DEF IsTerms
<1>2. CASE t.rate <= 0 \/ b = 0
  BY <1>1, <1>2 DEF Tax
<1>3. CASE t.rate > 0 /\ b > 0
  <2> DEFINE p == a * t.rate
             q == b * t.rate
  <2>1. p \in Nat /\ q \in Nat /\ p <= q
    BY <1>1, <1>3, ProductGrows
  <2>2. Tax(t, b) = Money(q, 10000)
    BY <1>1, <1>3 DEF Tax
  <2>3. Tax(t, a) = IF a = 0 THEN 0 ELSE Money(p, 10000)
    BY <1>1, <1>3 DEF Tax
  <2> HIDE DEF p, q
  <2> QED
    BY <2>1, <2>2, <2>3, MoneyRounds, MoneyGrows
<1> QED
  BY <1>1, <1>2, <1>3

(* The fee of more is the fee of less, but for a delivery that is free now. *)
LEMMA FeesOf ==
  ASSUME NEW t, IsTerms(t), NEW a \in Nat, NEW b \in Nat, a <= b
  PROVE  /\ Fee(t, a) \in Int /\ Fee(t, b) \in Int
         /\ t.fee >= 0 => Fee(t, a) >= 0
         /\ \/ Fee(t, a) = Fee(t, b)
            \/ ~Free(t, a) /\ Free(t, b) /\ Fee(t, a) = t.fee /\ Fee(t, b) = 0
  BY DEF IsTerms, Fee, Free, Waived

(* The bill of a cart, as numbers. *)
Held(c, s, holds) == holds /\ Good(c, s)
Off(c, s, holds) == IF Held(c, s, holds) THEN Discount(c, s) ELSE 0

LEMMA BillOf ==
  ASSUME NEW t, IsTerms(t), NEW c, IsCoupon(c), NEW s \in Nat, NEW holds \in BOOLEAN
  PROVE  LET b == Recalculated(t, c, s, holds)
             after == s - Off(c, s, holds)
         IN  /\ b.subtotal = s /\ b.discount = Off(c, s, holds)
             /\ b.held = Held(c, s, holds)
             /\ b.fee = Fee(t, after) /\ b.tax = Tax(t, after)
             /\ b.total = after + b.fee + b.tax
             /\ Off(c, s, holds) \in Nat /\ after \in Nat
             /\ b.fee \in Int /\ b.tax \in Nat /\ b.total \in Int
             /\ t.fee >= 0 => b.fee >= 0
<1> DEFINE off == Off(c, s, holds)
           after == s - off
           b == Recalculated(t, c, s, holds)
<1>1. off \in Nat /\ off <= s
  BY DiscountFits DEF Off
<1>2. after \in Nat
  BY <1>1
<1>3. /\ Fee(t, after) \in Int /\ Tax(t, after) \in Nat
      /\ t.fee >= 0 => Fee(t, after) >= 0
  BY <1>2, FeesOf, TaxGrows
<1>4. b = Bill(s, Held(c, s, holds), off, Fee(t, after), Tax(t, after))
  BY DEF Recalculated, Off, Held
<1>5. /\ b.subtotal = s /\ b.discount = off /\ b.held = Held(c, s, holds)
      /\ b.fee = Fee(t, after) /\ b.tax = Tax(t, after)
      /\ b.total = s - off + Fee(t, after) + Tax(t, after)
  BY <1>4 DEF Bill
<1> QED
  BY <1>1, <1>2, <1>3, <1>5

-----------------------------------------------------------------------------

PricingInv ==
  /\ PricingTypeOK
  /\ bill.subtotal \in Nat /\ bill.discount \in Nat

LEMMA StoreKeeps ==
  ASSUME PricingInv, UNCHANGED <<terms, coupon>>,
         NEW s \in Nat, NEW holds \in BOOLEAN, Store(s, holds)
  PROVE  PricingInv'
<1> DEFINE b == Recalculated(terms, coupon, s, holds)
<1>1. terms \in Terms /\ coupon \in Coupons /\ IsTerms(terms) /\ IsCoupon(coupon)
  BY TermsAreNumbers, CouponsAreNumbers DEF PricingInv, PricingTypeOK
<1>2. /\ b.subtotal = s /\ b.discount \in Nat
      /\ b.discount = Off(coupon, s, holds) /\ b.held = Held(coupon, s, holds)
      /\ b.total = s - b.discount + b.fee + b.tax
  BY <1>1, BillOf
<1>3. Storable(b) /\ bill' = b
  BY DEF Store
<1>4. b.held \in BOOLEAN
  BY <1>2 DEF Held, Good
<1>5. b.discount > 0 => b.held
  BY <1>2 DEF Off
<1> HIDE DEF b
<1> QED
  BY <1>1, <1>2, <1>3, <1>4, <1>5 DEF PricingInv, PricingTypeOK

LEMMA PricingStart == PricingInit => PricingInv
  BY DEF PricingInit, PricingInv, PricingTypeOK, Bill, Storable

LEMMA PricingKept == PricingInv /\ [PricingNext]_pricingVars => PricingInv'
<1> SUFFICES ASSUME PricingInv, [PricingNext]_pricingVars PROVE PricingInv'
  OBVIOUS
<1>1. bill.held \in BOOLEAN /\ \A s \in Subtotals : s \in Nat
  BY PricingAssumption DEF PricingInv, PricingTypeOK
<1>2. CASE Reprice
  BY <1>1, <1>2, StoreKeeps DEF Reprice
<1>3. CASE ApplyCoupon
  BY <1>1, <1>3, StoreKeeps DEF ApplyCoupon
<1>4. CASE RemoveCoupon
  BY <1>1, <1>4, StoreKeeps DEF RemoveCoupon
<1>5. CASE EditCoupon
  BY <1>5 DEF EditCoupon, PricingInv, PricingTypeOK
<1>6. CASE EditTerms
  BY <1>6 DEF EditTerms, PricingInv, PricingTypeOK
<1>7. CASE UNCHANGED pricingVars
  BY <1>7 DEF pricingVars, PricingInv, PricingTypeOK
<1> QED
  BY <1>2, <1>3, <1>4, <1>5, <1>6, <1>7 DEF PricingNext

-----------------------------------------------------------------------------

LEMMA AllHavePrices == PricingInv => EveryCartHasAPrice
<1> SUFFICES ASSUME PricingInv, terms.fee >= 0, NEW s \in Subtotals
             PROVE  Storable(Recalculated(terms, coupon, s, bill.held))
  BY DEF EveryCartHasAPrice
<1> DEFINE b == Recalculated(terms, coupon, s, bill.held)
<1>1. IsTerms(terms) /\ IsCoupon(coupon) /\ bill.held \in BOOLEAN /\ s \in Nat
  BY TermsAreNumbers, CouponsAreNumbers, PricingAssumption DEF PricingInv, PricingTypeOK
<1>2. /\ b.subtotal \in Nat /\ b.discount \in Nat /\ b.fee \in Int /\ b.fee >= 0
      /\ b.tax \in Nat /\ b.total = s - b.discount + b.fee + b.tax
      /\ s - b.discount \in Nat
  BY <1>1, BillOf
<1> HIDE DEF b
<1> QED
  BY <1>2 DEF Storable, b

LEMMA FullerCostsMore == PricingInv => MoreCostsMore
<1> SUFFICES ASSUME PricingInv, NEW s \in Subtotals, s > bill.subtotal
             PROVE  LET base == Recalculated(terms, coupon, bill.subtotal, bill.held)
                        more == Recalculated(terms, coupon, s, bill.held)
                    IN  more.total < base.total =>
                          \/ ~base.held /\ more.held
                          \/ ~Free(terms, base.subtotal - base.discount)
                             /\ Free(terms, s - more.discount)
  BY DEF MoreCostsMore
<1> DEFINE r == bill.subtotal
           base == Recalculated(terms, coupon, r, bill.held)
           more == Recalculated(terms, coupon, s, bill.held)
           a == r - Off(coupon, r, bill.held)
           b == s - Off(coupon, s, bill.held)
<1>1. /\ IsTerms(terms) /\ IsCoupon(coupon) /\ bill.held \in BOOLEAN
      /\ s \in Nat /\ r \in Nat /\ r <= s
  BY TermsAreNumbers, CouponsAreNumbers, PricingAssumption DEF PricingInv, PricingTypeOK
<1>2. /\ base.subtotal - base.discount = a /\ base.total = a + Fee(terms, a) + Tax(terms, a)
      /\ base.held = Held(coupon, r, bill.held) /\ a \in Nat
  BY <1>1, BillOf
<1>3. /\ s - more.discount = b /\ more.total = b + Fee(terms, b) + Tax(terms, b)
      /\ more.held = Held(coupon, s, bill.held) /\ b \in Nat
  BY <1>1, BillOf
<1>4. CASE ~Held(coupon, r, bill.held) /\ Held(coupon, s, bill.held)
  BY <1>2, <1>3, <1>4
<1>5. CASE Held(coupon, r, bill.held) \/ ~Held(coupon, s, bill.held)
  <2>1. Held(coupon, r, bill.held) => Held(coupon, s, bill.held)
    BY <1>1 DEF Held, Good, IsCoupon
  <2>2. a <= b
    BY <1>1, <1>5, <2>1, DiscountFits DEF Off
  <2>3. Tax(terms, a) \in Nat /\ Tax(terms, b) \in Nat /\ Tax(terms, a) <= Tax(terms, b)
    BY <1>1, <1>2, <1>3, <2>2, TaxGrows
  <2>4. /\ Fee(terms, a) \in Int /\ Fee(terms, b) \in Int
        /\ Fee(terms, a) = Fee(terms, b) \/ (~Free(terms, a) /\ Free(terms, b))
    BY <1>1, <1>2, <1>3, <2>2, FeesOf
  <2> HIDE DEF a, b, base, more
  <2> QED
    BY <1>2, <1>3, <2>2, <2>3, <2>4 DEF base, more, r
<1> QED
  BY <1>4, <1>5

(* The bill of a cart with its coupon and without. *)
CouponCosts(held, bare) ==
  LET without == Recalculated(terms, coupon, bill.subtotal, bare)
      with == Recalculated(terms, coupon, bill.subtotal, held)
  IN  with.total > without.total =>
        /\ Free(terms, bill.subtotal) /\ ~Free(terms, bill.subtotal - with.discount)
        /\ with.total <= without.total + terms.fee

LEMMA CouponsHelp ==
  ASSUME PricingInv, NEW held \in BOOLEAN, NEW bare \in BOOLEAN
  PROVE  ~bare => CouponCosts(held, bare)
<1> DEFINE r == bill.subtotal
           without == Recalculated(terms, coupon, r, bare)
           with == Recalculated(terms, coupon, r, held)
           a == r - Off(coupon, r, held)
<1>1. IsTerms(terms) /\ IsCoupon(coupon) /\ r \in Nat
  BY TermsAreNumbers, CouponsAreNumbers DEF PricingInv, PricingTypeOK
<1>2. /\ with.total = a + Fee(terms, a) + Tax(terms, a) /\ a \in Nat
      /\ r - with.discount = a
  BY <1>1, BillOf
<1> DEFINE c == r - Off(coupon, r, bare)
<1>3. without.total = c + Fee(terms, c) + Tax(terms, c)
  BY <1>1, BillOf
<1>4. ~bare => c = r
  BY <1>1 DEF Off, Held
<1>5. a <= r
  BY <1>1, DiscountFits DEF Off
<1>6. Tax(terms, a) \in Nat /\ Tax(terms, r) \in Nat /\ Tax(terms, a) <= Tax(terms, r)
  BY <1>1, <1>2, <1>5, TaxGrows
<1>7. /\ Fee(terms, a) \in Int /\ Fee(terms, r) \in Int
      /\ \/ Fee(terms, a) = Fee(terms, r)
         \/ /\ ~Free(terms, a) /\ Free(terms, r)
            /\ Fee(terms, a) = terms.fee /\ Fee(terms, r) = 0
  BY <1>1, <1>2, <1>5, FeesOf
<1>8. terms.fee \in Int
  BY <1>1 DEF IsTerms
<1> HIDE DEF a, c, with, without
<1>9. ~bare /\ with.total > without.total =>
        /\ Free(terms, r) /\ ~Free(terms, r - with.discount)
        /\ with.total <= without.total + terms.fee
  BY <1>1, <1>2, <1>3, <1>4, <1>5, <1>6, <1>7, <1>8
<1> QED
  BY <1>9 DEF CouponCosts, with, without

LEMMA CouponsCostLittle == PricingInv => CouponCostsAtMostTheFee
<1>1. CouponCosts(TRUE, FALSE) => CouponCostsAtMostTheFee
  BY DEF CouponCosts, CouponCostsAtMostTheFee
<1>2. \A held, bare \in BOOLEAN : PricingInv => (~bare => CouponCosts(held, bare))
  BY CouponsHelp
<1>3. PricingInv => CouponCosts(TRUE, FALSE)
  BY <1>2, Zenon
<1> QED
  BY <1>1, <1>3

(* Whatever the settings and the coupon are: a cart that is not charged a  *)
(* negative fee can be priced, a fuller one costs no less and a coupon     *)
(* helps, but for the free delivery gained or lost by it.                  *)
THEOREM PricesHold == PricingSpec => []PricesCorrect
<1>1. PricingInv => PricesCorrect
  BY AllHavePrices, FullerCostsMore, CouponsCostLittle DEF PricesCorrect, PricingInv
<1> QED
  BY PricingStart, PricingKept, <1>1, PTL DEF PricingSpec

(***************************************************************************)
(* MAIL                                                                    *)
(***************************************************************************)

MailStages == {"none", "refuse", "queue", "mark", "call", "record", "giveUp", "done", "dead"}
MailTasks == [pc : MailStages, attempt : 0..MaxAttempts]
MailLogs == [status : {"none", "queued", "sending", "sent", "failed"},
             retries : 0..MaxAttempts]
MailCalls == [taken : Nat, unsure : Nat]
Answers == {"nothing", "ok", "error"}

MailTyped ==
  /\ about \in [Occasions -> DOMAIN Firsts] /\ ready \in BOOLEAN
  /\ saved \subseteq Occasions
  /\ task \in [Mails -> MailTasks] /\ log \in [Mails -> MailLogs]
  /\ calls \in [Mails -> MailCalls]
  /\ told \in [Occasions -> Answers]

(* How often the provider took a mail, by where its sending is and by what *)
(* its log row says: until an answer is recorded, just as often as nobody  *)
(* knows of.                                                               *)
Tallied(t, l, c) ==
  /\ t.pc \in {"none", "refuse", "queue"} =>
       c.taken = 0 /\ c.unsure = 0 /\ l.status = "none"
  /\ t.pc \in {"mark", "call", "giveUp"} =>
       c.taken = c.unsure /\ t.attempt >= 1 /\ l.status \in {"queued", "sending"}
  /\ t.pc \in {"call", "giveUp"} => l.status = "sending"
  /\ t.pc = "record" =>
       c.taken = c.unsure + 1 /\ t.attempt >= 1 /\ l.status = "sending"
  /\ c.taken = c.unsure \/ c.taken = c.unsure + 1
  /\ l.status = "sent" => c.taken = c.unsure + 1
  /\ l.status = "failed" => c.taken = c.unsure

(* The first mail is begun when the row is saved, the second when the first *)
(* is sent and over.                                                       *)
Ordered(o) ==
  /\ o \in saved <=> task[First(o)].pc # "none"
  /\ task[Second(o)].pc # "none" =>
       task[First(o)].pc = "done" /\ log[First(o)].status = "sent"

Deserved(o) ==
  /\ told[o] = "ok" => o \in saved
  /\ told[o] = "ok" /\ about[o] = "contact" => calls[First(o)].taken > 0
  /\ told[o] = "error" /\ o \in saved => about[o] = "contact"

MailInv ==
  /\ MailTyped
  /\ \A m \in Mails : Tallied(task[m], log[m], calls[m])
  /\ \A o \in Occasions : Ordered(o) /\ Deserved(o)

LEMMA MailsOf ==
  /\ \A o \in Occasions : First(o) \in Mails /\ Second(o) \in Mails /\ First(o) # Second(o)
  /\ \A m \in Mails : m[1] \in Occasions /\ (m = First(m[1]) \/ m = Second(m[1]))
  /\ \A m \in Mails : m[2] = "second" <=> m = Second(m[1])
  /\ \A o \in Occasions : First(o)[1] = o /\ Second(o)[1] = o
  BY DEF Mails, First, Second

(* What one step of the sending of m may do to another mail: only the end  *)
(* of a first mail that was sent begins the second one.                    *)
Begins(m, n) ==
  /\ m = First(m[1]) /\ n = Second(m[1])
  /\ log'[m].status = "sent" /\ task'[m].pc = "done"
  /\ task'[n].pc \in {"queue", "refuse"}

LEMMA SendingKeeps ==
  ASSUME MailInv, NEW m \in Mails,
         UNCHANGED <<about, ready, saved>>,
         task' \in [Mails -> MailTasks], log' \in [Mails -> MailLogs],
         calls' \in [Mails -> MailCalls],
         task[m].pc \notin {"none", "done"}, task'[m].pc # "none",
         calls'[m].taken >= calls[m].taken,
         Tallied(task'[m], log'[m], calls'[m]),
         \A n \in Mails : n # m =>
           log'[n] = log[n] /\ calls'[n] = calls[n] /\ (task'[n] = task[n] \/ Begins(m, n)),
         \/ told' = told
         \/ /\ m = First(m[1])
            /\ \E x \in {"ok", "error"} :
                 /\ told' = [told EXCEPT ![m[1]] = x]
                 /\ x = "ok" /\ about[m[1]] = "contact" => calls'[m].taken > 0
                 /\ x = "error" => about[m[1]] = "contact"
  PROVE  MailInv'
<1> DEFINE p == m[1]
<1>0. p \in Occasions /\ (m = First(p) \/ m = Second(p)) /\ First(p) # Second(p)
  BY MailsOf
<1>1. \A n \in Mails : /\ task[n] \in MailTasks /\ task'[n] \in MailTasks
                       /\ Tallied(task[n], log[n], calls[n])
  BY DEF MailInv, MailTyped
<1>2. \A n \in Mails : /\ calls[n].taken \in Nat /\ calls'[n].taken \in Nat
                       /\ calls'[n].taken >= calls[n].taken
  BY DEF MailInv, MailTyped, MailCalls
<1>3. told' \in [Occasions -> Answers]
  BY <1>0 DEF MailInv, MailTyped, Answers
<1>4. \A o \in Occasions : Ordered(o) /\ Deserved(o)
  BY DEF MailInv
<1>5. m = First(p) => task[Second(p)].pc = "none"
  BY <1>0, <1>4 DEF Ordered
<1>6. ASSUME NEW n \in Mails PROVE Tallied(task'[n], log'[n], calls'[n])
  <2>1. CASE n = m
    BY <2>1
  <2>2. CASE n # m /\ task'[n] = task[n]
    BY <1>1, <2>2
  <2>3. CASE n # m /\ Begins(m, n)
    <3>1. task[n].pc = "none" /\ task'[n].pc \in {"queue", "refuse"}
      BY <1>5, <2>3 DEF Begins
    <3>2. log'[n] = log[n] /\ calls'[n] = calls[n]
      BY <2>3
    <3> QED
      BY <1>1, <3>1, <3>2 DEF Tallied
  <2> QED
    BY <2>1, <2>2, <2>3
<1>7. ASSUME NEW o \in Occasions PROVE Ordered(o)'
  <2>0. First(o) \in Mails /\ Second(o) \in Mails /\ First(o) # Second(o)
        /\ First(o)[1] = o /\ Second(o)[1] = o
    BY MailsOf
  <2>1. CASE o # p
    <3>1. First(o) # m /\ Second(o) # m /\ ~Begins(m, First(o)) /\ ~Begins(m, Second(o))
      BY <1>0, <2>0, <2>1, MailsOf DEF Begins
    <3>2. task'[First(o)] = task[First(o)] /\ task'[Second(o)] = task[Second(o)]
          /\ log'[First(o)] = log[First(o)]
      BY <2>0, <3>1
    <3> QED
      BY <1>4, <3>2 DEF Ordered
  <2>2. CASE o = p /\ m = First(o)
    <3>1. o \in saved' /\ task'[First(o)].pc # "none"
      BY <1>4, <2>2 DEF Ordered
    <3>2. task'[Second(o)].pc # "none" => Begins(m, Second(o))
      BY <1>5, <2>0, <2>2
    <3> QED
      BY <2>2, <3>1, <3>2 DEF Ordered, Begins
  <2>3. CASE o = p /\ m = Second(o)
    <3>1. ~Begins(m, First(o))
      BY <2>0, <2>3 DEF Begins
    <3>2. task'[First(o)] = task[First(o)] /\ log'[First(o)] = log[First(o)]
      BY <2>0, <2>3, <3>1
    <3> QED
      BY <1>4, <2>3, <3>2 DEF Ordered
  <2> QED
    BY <1>0, <2>1, <2>2, <2>3
<1>8. ASSUME NEW o \in Occasions PROVE Deserved(o)'
  <2>0. First(o) \in Mails /\ First(o)[1] = o
    BY MailsOf
  <2>1. calls[First(o)].taken > 0 => calls'[First(o)].taken > 0
    BY <1>2, <2>0
  <2>2. CASE told'[o] = told[o]
    BY <1>4, <2>1, <2>2 DEF Deserved
  <2>3. CASE told'[o] # told[o]
    <3>1. m = First(o) /\ o = p
      BY <2>0, <2>3 DEF MailInv, MailTyped
    <3>2. o \in saved'
      BY <1>4, <3>1 DEF Ordered
    <3>3. PICK x \in {"ok", "error"} :
                 /\ told' = [told EXCEPT ![p] = x]
                 /\ x = "ok" /\ about[p] = "contact" => calls'[m].taken > 0
                 /\ x = "error" => about[p] = "contact"
      BY <2>3
    <3>4. told'[o] = x
      BY <3>1, <3>3 DEF MailInv, MailTyped
    <3> QED
      BY <3>1, <3>2, <3>3, <3>4 DEF Deserved
  <2> QED
    BY <2>2, <2>3
<1> QED
  BY <1>3, <1>6, <1>7, <1>8 DEF MailInv, MailTyped

-----------------------------------------------------------------------------

LEMMA MailStart == MailInit => MailInv
<1> SUFFICES ASSUME MailInit PROVE MailInv
  OBVIOUS
<1>1. MaxAttempts \in Nat
  BY MailAssumption
<1>2. MailTyped
  BY <1>1 DEF MailInit, MailTyped, MailTasks, MailStages, MailLogs, MailCalls, Answers,
              MailAt, Log
<1>3. \A m \in Mails : /\ task[m].pc = "none" /\ log[m].status = "none"
                       /\ calls[m].taken = 0 /\ calls[m].unsure = 0
  BY DEF MailInit, MailAt, Log
<1>4. \A m \in Mails : Tallied(task[m], log[m], calls[m])
  BY <1>3 DEF Tallied
<1>5. \A o \in Occasions : Ordered(o) /\ Deserved(o)
  BY <1>3, MailsOf DEF MailInit, Ordered, Deserved
<1> QED
  BY <1>2, <1>4, <1>5 DEF MailInv

(* The row of an occasion is saved, or not, before any mail about it.      *)
LEMMA SaveKeeps ==
  ASSUME MailInv, NEW q \in Occasions, Save(q)
  PROVE  MailInv'
<1> DEFINE f == First(q)
           stage == IF ready THEN "queue" ELSE "refuse"
<1>0. f \in Mails /\ Second(q) \in Mails /\ f # Second(q)
  BY MailsOf
<1>1. /\ task[f].pc = "none" /\ told[q] = "nothing"
      /\ log' = log /\ calls' = calls /\ about' = about /\ ready' = ready
  BY DEF Save
<1>2. MailTyped /\ \A m \in Mails : Tallied(task[m], log[m], calls[m])
  BY DEF MailInv
<1>3. \A o \in Occasions : Ordered(o) /\ Deserved(o)
  BY DEF MailInv
<1>4. CASE saved' = saved \cup {q} /\ Goto(f, stage) /\ told' = told
  <2>1. task' = [task EXCEPT ![f].pc = stage] /\ stage \in {"queue", "refuse"}
    BY <1>4 DEF Goto
  <2>2. task[f] \in MailTasks
    BY <1>0, <1>2 DEF MailTyped
  <2>3. /\ [task[f] EXCEPT !.pc = stage] \in MailTasks
        /\ [task[f] EXCEPT !.pc = stage].pc = stage
    BY <2>1, <2>2 DEF MailTasks, MailStages
  <2>4. /\ task' \in [Mails -> MailTasks] /\ task'[f].pc = stage
        /\ \A n \in Mails : n # f => task'[n] = task[n]
    BY <1>0, <1>2, <2>1, <2>3 DEF MailTyped
  <2>5. MailTyped'
    BY <1>1, <1>2, <1>4, <2>4 DEF MailTyped
  <2>6. ASSUME NEW m \in Mails PROVE Tallied(task[m], log[m], calls[m])'
    <3>1. CASE m = f
      BY <1>1, <1>2, <2>1, <2>4, <3>1 DEF Tallied
    <3>2. CASE m # f
      BY <1>1, <1>2, <2>4, <3>2
    <3> QED
      BY <3>1, <3>2
  <2>7. ASSUME NEW o \in Occasions PROVE Ordered(o)' /\ Deserved(o)'
    <3>0. First(o) \in Mails /\ Second(o) \in Mails /\ Second(o) # f
          /\ (First(o) = f <=> o = q)
      BY MailsOf
    <3>1. CASE o = q
      <4>1. task'[Second(o)].pc = "none"
        BY <1>1, <1>3, <2>4, <3>0, <3>1 DEF Ordered
      <4>2. task'[First(o)].pc # "none" /\ o \in saved'
        BY <1>4, <2>1, <2>4, <3>1
      <4>3. told'[o] = "nothing"
        BY <1>1, <1>4, <3>1
      <4> QED
        BY <4>1, <4>2, <4>3 DEF Ordered, Deserved
    <3>2. CASE o # q
      BY <1>1, <1>3, <1>4, <2>4, <3>0, <3>2 DEF Ordered, Deserved
    <3> QED
      BY <3>1, <3>2
  <2> QED
    BY <2>5, <2>6, <2>7 DEF MailInv
<1>5. CASE told' = [told EXCEPT ![q] = "error"] /\ saved' = saved /\ task' = task
  <2>1. MailTyped'
    BY <1>1, <1>2, <1>5 DEF MailTyped, Answers
  <2>2. \A o \in Occasions : told'[o] = IF o = q THEN "error" ELSE told[o]
    BY <1>2, <1>5 DEF MailTyped
  <2>3. q \notin saved
    BY <1>1, <1>3 DEF Ordered
  <2>4. \A o \in Occasions : Ordered(o)' /\ Deserved(o)'
    BY <1>1, <1>3, <1>5, <2>2, <2>3 DEF Ordered, Deserved
  <2> QED
    BY <1>1, <1>2, <1>5, <2>1, <2>4 DEF MailInv
<1> QED
  BY <1>4, <1>5 DEF Save

LEMMA DieKeeps == ASSUME MailInv, Die PROVE MailInv'
<1>1. /\ UNCHANGED <<about, ready, saved, log, calls, told>>
      /\ task' = [m \in Mails |-> IF task[m].pc \in {"none", "done"} THEN task[m]
                                                                     ELSE MailAt("dead", 0)]
  BY DEF Die
<1> DEFINE gone == MailAt("dead", 0)
<1>2. gone \in MailTasks /\ gone.pc = "dead"
  BY MailAssumption DEF MailAt, MailTasks, MailStages
<1> HIDE DEF gone
<1>3. MailTyped /\ \A m \in Mails : Tallied(task[m], log[m], calls[m])
  BY DEF MailInv
<1>4. /\ task' \in [Mails -> MailTasks]
      /\ \A m \in Mails : IF task[m].pc \in {"none", "done"} THEN task'[m] = task[m]
                          ELSE task'[m].pc = "dead"
  BY <1>1, <1>2, <1>3 DEF MailTyped, gone
<1>5. \A m \in Mails : Tallied(task[m], log[m], calls[m])'
  BY <1>1, <1>3, <1>4 DEF Tallied
<1>6. ASSUME NEW o \in Occasions PROVE Ordered(o)' /\ Deserved(o)'
  <2>1. First(o) \in Mails /\ Second(o) \in Mails
    BY MailsOf
  <2>2. Ordered(o) /\ Deserved(o)
    BY DEF MailInv
  <2> QED
    BY <1>1, <1>4, <2>1, <2>2 DEF Ordered, Deserved
<1> QED
  BY <1>1, <1>3, <1>4, <1>5, <1>6 DEF MailInv, MailTyped

-----------------------------------------------------------------------------

LEMMA GotoOne ==
  ASSUME MailTyped, NEW m \in Mails, NEW pc \in MailStages, Goto(m, pc)
  PROVE  /\ task' \in [Mails -> MailTasks]
         /\ task'[m].pc = pc /\ task'[m].attempt = task[m].attempt
         /\ \A n \in Mails : n # m => task'[n] = task[n]
<1>1. task[m] \in MailTasks
  BY DEF MailTyped
<1> DEFINE t == [task[m] EXCEPT !.pc = pc]
<1>2. t \in MailTasks /\ t.pc = pc /\ t.attempt = task[m].attempt
  BY <1>1 DEF MailTasks
<1>3. task' = [task EXCEPT ![m] = t]
  BY DEF Goto
<1> HIDE DEF t
<1> QED
  BY <1>2, <1>3 DEF MailTyped

LEMMA RetryOne ==
  ASSUME MailTyped, NEW m \in Mails, Retry(m), task[m].attempt >= 1
  PROVE  /\ task' \in [Mails -> MailTasks]
         /\ task'[m].pc \in {"mark", "giveUp"} /\ task'[m].attempt >= 1
         /\ \A n \in Mails : n # m => task'[n] = task[n]
<1>1. task[m] \in MailTasks /\ MaxAttempts \in Nat
  BY MailAssumption DEF MailTyped
<1> DEFINE k == task[m].attempt
           t == IF k < MaxAttempts THEN MailAt("mark", k + 1) ELSE MailAt("giveUp", k)
<1>2. k \in 0..MaxAttempts
  BY <1>1 DEF MailTasks
<1>3. t \in MailTasks /\ t.pc \in {"mark", "giveUp"} /\ t.attempt >= 1
  BY <1>1, <1>2 DEF MailAt, MailTasks, MailStages
<1>4. task' = [task EXCEPT ![m] = t]
  BY DEF Retry
<1> HIDE DEF t
<1> QED
  BY <1>3, <1>4 DEF MailTyped

LEMMA LogOne ==
  ASSUME MailTyped, NEW m \in Mails,
         NEW status \in {"queued", "sending", "sent", "failed"}, NEW k \in 0..MaxAttempts,
         log' = [log EXCEPT ![m] = Log(status, k)]
  PROVE  /\ log' \in [Mails -> MailLogs] /\ log'[m].status = status
         /\ \A n \in Mails : n # m => log'[n] = log[n]
<1> DEFINE l == Log(status, k)
<1>1. l \in MailLogs /\ l.status = status
  BY DEF Log, MailLogs
<1> HIDE DEF l
<1> QED
  BY <1>1 DEF MailTyped, l

(* A mail that failed answers its client: of a message, with an error.     *)
LEMMA FailedKeeps ==
  ASSUME MailInv, NEW m \in Mails, UNCHANGED <<about, ready, saved, calls>>,
         task[m].pc \notin {"none", "done"}, Failed(m),
         log' \in [Mails -> MailLogs], \A n \in Mails : n # m => log'[n] = log[n],
         log'[m] = log[m] \/ (log'[m].status = "failed" /\ calls[m].taken = calls[m].unsure)
  PROVE  MailInv'
<1>1. MailTyped /\ Tallied(task[m], log[m], calls[m])
  BY DEF MailInv
<1>2. Goto(m, "done") /\ "done" \in MailStages
  BY DEF Failed, MailStages
<1>3. /\ task' \in [Mails -> MailTasks] /\ task'[m].pc = "done"
      /\ \A n \in Mails : n # m => task'[n] = task[n]
  BY <1>1, <1>2, GotoOne
<1>4. Tallied(task'[m], log'[m], calls'[m])
  BY <1>1, <1>3 DEF Tallied
<1>5. calls' = calls /\ calls \in [Mails -> MailCalls] /\ calls[m].taken \in Nat
  BY <1>1 DEF MailTyped, MailCalls
<1>6. m[2] = "second" \/ m = First(m[1])
  BY MailsOf
<1> DEFINE x == IF about[m[1]] = "contact" THEN "error" ELSE "ok"
<1>7. /\ told' = told \/ (m = First(m[1]) /\ told' = [told EXCEPT ![m[1]] = x])
      /\ x \in {"ok", "error"}
      /\ x = "ok" => about[m[1]] # "contact"
      /\ x = "error" => about[m[1]] = "contact"
  BY <1>6 DEF Failed
<1> HIDE DEF x
<1> QED
  BY <1>3, <1>4, <1>5, <1>7, SendingKeeps

LEMMA RefuseKeeps == ASSUME MailInv, NEW m \in Mails, Refuse(m) PROVE MailInv'
<1>1. MailTyped /\ Tallied(task[m], log[m], calls[m])
  BY DEF MailInv
<1>2. /\ task[m].pc = "refuse" /\ Failed(m) /\ UNCHANGED <<about, ready, saved, calls>>
      /\ log' = log \/ log' = [log EXCEPT ![m] = Log("failed", 0)]
  BY DEF Refuse
<1>3. calls[m].taken = calls[m].unsure /\ 0 \in 0..MaxAttempts
  BY <1>1, <1>2, MailAssumption DEF Tallied
<1>4. /\ log' \in [Mails -> MailLogs] /\ \A n \in Mails : n # m => log'[n] = log[n]
      /\ log'[m] = log[m] \/ log'[m].status = "failed"
  <2>1. CASE log' = log
    BY <1>1, <2>1 DEF MailTyped
  <2>2. CASE log' = [log EXCEPT ![m] = Log("failed", 0)]
    BY <1>1, <1>3, <2>2, LogOne
  <2> QED
    BY <1>2, <2>1, <2>2
<1> QED
  BY <1>2, <1>3, <1>4, FailedKeeps

LEMMA LogFailsKeeps == ASSUME MailInv, NEW m \in Mails, LogFails(m) PROVE MailInv'
<1>1. /\ task[m].pc \in {"queue", "mark", "record", "giveUp"} /\ Failed(m)
      /\ UNCHANGED <<about, ready, saved, log, calls>>
  BY DEF LogFails
<1>2. log' \in [Mails -> MailLogs] /\ task[m].pc \notin {"none", "done"}
  BY <1>1 DEF MailInv, MailTyped
<1> QED
  BY <1>1, <1>2, FailedKeeps

LEMMA GiveUpKeeps == ASSUME MailInv, NEW m \in Mails, GiveUp(m) PROVE MailInv'
<1>1. MailTyped /\ Tallied(task[m], log[m], calls[m])
  BY DEF MailInv
<1>2. /\ task[m].pc = "giveUp" /\ Failed(m) /\ UNCHANGED <<about, ready, saved, calls>>
      /\ log' = [log EXCEPT ![m] = Log("failed", MaxAttempts)]
  BY DEF GiveUp
<1>3. calls[m].taken = calls[m].unsure /\ MaxAttempts \in 0..MaxAttempts
  BY <1>1, <1>2, MailAssumption DEF Tallied
<1>4. /\ log' \in [Mails -> MailLogs] /\ \A n \in Mails : n # m => log'[n] = log[n]
      /\ log'[m].status = "failed"
  BY <1>1, <1>2, <1>3, LogOne
<1> QED
  BY <1>2, <1>3, <1>4, FailedKeeps

LEMMA QueueKeeps == ASSUME MailInv, NEW m \in Mails, Queue(m) PROVE MailInv'
<1>1. MailTyped /\ Tallied(task[m], log[m], calls[m])
  BY DEF MailInv
<1>2. /\ task[m].pc = "queue" /\ log' = [log EXCEPT ![m] = Log("queued", 0)]
      /\ task' = [task EXCEPT ![m] = MailAt("mark", 1)]
      /\ UNCHANGED <<about, ready, saved, calls, told>>
  BY DEF Queue
<1> DEFINE t == MailAt("mark", 1)
<1>3. t \in MailTasks /\ t.pc = "mark" /\ t.attempt = 1
  BY MailAssumption DEF MailAt, MailTasks, MailStages
<1> HIDE DEF t
<1>4. /\ task' \in [Mails -> MailTasks] /\ task'[m].pc = "mark" /\ task'[m].attempt = 1
      /\ \A n \in Mails : n # m => task'[n] = task[n]
  BY <1>1, <1>2, <1>3 DEF MailTyped, t
<1>5. /\ log' \in [Mails -> MailLogs] /\ log'[m].status = "queued"
      /\ \A n \in Mails : n # m => log'[n] = log[n]
  <2> 0 \in 0..MaxAttempts
    BY MailAssumption
  <2> QED
    BY <1>1, <1>2, LogOne
<1>6. Tallied(task'[m], log'[m], calls'[m])
  BY <1>1, <1>2, <1>4, <1>5 DEF Tallied
<1>7. calls' = calls /\ calls \in [Mails -> MailCalls] /\ calls[m].taken \in Nat
  BY <1>1, <1>2 DEF MailTyped, MailCalls
<1> QED
  BY <1>2, <1>4, <1>5, <1>6, <1>7, SendingKeeps

LEMMA MarkKeeps == ASSUME MailInv, NEW m \in Mails, Mark(m) PROVE MailInv'
<1>1. MailTyped /\ Tallied(task[m], log[m], calls[m])
  BY DEF MailInv
<1>2. /\ task[m].pc = "mark" /\ log' = [log EXCEPT ![m] = Log("sending", task[m].attempt - 1)]
      /\ Goto(m, "call") /\ UNCHANGED <<about, ready, saved, calls, told>>
  BY DEF Mark
<1>3. task[m].attempt \in 0..MaxAttempts /\ task[m].attempt >= 1
  BY <1>1, <1>2 DEF MailTyped, MailTasks, Tallied
<1>4. task[m].attempt - 1 \in 0..MaxAttempts
  BY <1>3, MailAssumption
<1>5. /\ task' \in [Mails -> MailTasks] /\ task'[m].pc = "call"
      /\ task'[m].attempt = task[m].attempt
      /\ \A n \in Mails : n # m => task'[n] = task[n]
  BY <1>1, <1>2, GotoOne DEF MailStages
<1>6. /\ log' \in [Mails -> MailLogs] /\ log'[m].status = "sending"
      /\ \A n \in Mails : n # m => log'[n] = log[n]
  BY <1>1, <1>2, <1>4, LogOne
<1>7. Tallied(task'[m], log'[m], calls'[m])
  BY <1>1, <1>2, <1>3, <1>5, <1>6 DEF Tallied
<1>8. calls' = calls /\ calls \in [Mails -> MailCalls] /\ calls[m].taken \in Nat
  BY <1>1, <1>2 DEF MailTyped, MailCalls
<1> QED
  BY <1>2, <1>5, <1>6, <1>7, <1>8, SendingKeeps

LEMMA CallKeeps == ASSUME MailInv, NEW m \in Mails, Call(m) PROVE MailInv'
<1>1. MailTyped /\ Tallied(task[m], log[m], calls[m])
  BY DEF MailInv
<1>2. task[m].pc = "call" /\ UNCHANGED <<about, ready, saved, log, told>>
  BY DEF Call
<1>3. /\ calls[m] \in MailCalls /\ calls[m].taken = calls[m].unsure
      /\ calls[m].taken \in Nat /\ calls[m].unsure \in Nat
      /\ task[m].attempt >= 1 /\ log[m].status = "sending"
  BY <1>1, <1>2 DEF MailTyped, MailCalls, Tallied
<1>4. log' = log /\ log \in [Mails -> MailLogs]
  BY <1>1, <1>2 DEF MailTyped
<1>5. CASE calls' = [calls EXCEPT ![m].taken = @ + 1] /\ Goto(m, "record")
  <2> DEFINE c == [calls[m] EXCEPT !.taken = @ + 1]
  <2>1. c \in MailCalls /\ c.taken = calls[m].taken + 1 /\ c.unsure = calls[m].unsure
    BY <1>3 DEF MailCalls
  <2>2. calls' = [calls EXCEPT ![m] = c]
    BY <1>5
  <2> HIDE DEF c
  <2>3. /\ calls' \in [Mails -> MailCalls] /\ calls'[m] = c
        /\ \A n \in Mails : n # m => calls'[n] = calls[n]
    BY <1>1, <2>1, <2>2 DEF MailTyped
  <2>4. /\ task' \in [Mails -> MailTasks] /\ task'[m].pc = "record"
        /\ task'[m].attempt = task[m].attempt
        /\ \A n \in Mails : n # m => task'[n] = task[n]
    BY <1>1, <1>5, GotoOne DEF MailStages
  <2>5. Tallied(task'[m], log'[m], calls'[m])
    BY <1>2, <1>3, <2>1, <2>3, <2>4 DEF Tallied
  <2> QED
    BY <1>2, <1>3, <1>4, <2>1, <2>3, <2>4, <2>5, SendingKeeps
<1>6. CASE /\ calls' = [calls EXCEPT ![m] = [taken |-> @.taken + 1, unsure |-> @.unsure + 1]]
           /\ Retry(m)
  <2> DEFINE c == [taken |-> calls[m].taken + 1, unsure |-> calls[m].unsure + 1]
  <2>1. c \in MailCalls /\ c.taken = calls[m].taken + 1 /\ c.unsure = calls[m].unsure + 1
    BY <1>3 DEF MailCalls
  <2>2. calls' = [calls EXCEPT ![m] = c]
    BY <1>6
  <2> HIDE DEF c
  <2>3. /\ calls' \in [Mails -> MailCalls] /\ calls'[m] = c
        /\ \A n \in Mails : n # m => calls'[n] = calls[n]
    BY <1>1, <2>1, <2>2 DEF MailTyped
  <2>4. /\ task' \in [Mails -> MailTasks] /\ task'[m].pc \in {"mark", "giveUp"}
        /\ task'[m].attempt >= 1 /\ \A n \in Mails : n # m => task'[n] = task[n]
    BY <1>1, <1>3, <1>6, RetryOne
  <2>5. Tallied(task'[m], log'[m], calls'[m])
    BY <1>2, <1>3, <2>1, <2>3, <2>4 DEF Tallied
  <2> QED
    BY <1>2, <1>3, <1>4, <2>1, <2>3, <2>4, <2>5, SendingKeeps
<1>7. CASE calls' = calls /\ Retry(m)
  <2>1. /\ task' \in [Mails -> MailTasks] /\ task'[m].pc \in {"mark", "giveUp"}
        /\ task'[m].attempt >= 1 /\ \A n \in Mails : n # m => task'[n] = task[n]
    BY <1>1, <1>3, <1>7, RetryOne
  <2>2. Tallied(task'[m], log'[m], calls'[m])
    BY <1>2, <1>3, <1>7, <2>1 DEF Tallied
  <2>3. calls' \in [Mails -> MailCalls]
    BY <1>1, <1>7 DEF MailTyped
  <2> QED
    BY <1>2, <1>3, <1>4, <1>7, <2>1, <2>2, <2>3, SendingKeeps
<1> QED
  BY <1>5, <1>6, <1>7 DEF Call

LEMMA RecordKeeps == ASSUME MailInv, NEW m \in Mails, Record(m) PROVE MailInv'
<1>1. MailTyped /\ Tallied(task[m], log[m], calls[m])
  BY DEF MailInv
<1>2. /\ task[m].pc = "record" /\ log' = [log EXCEPT ![m] = Log("sent", task[m].attempt - 1)]
      /\ Sent(m) /\ UNCHANGED <<about, ready, saved, calls>>
  BY DEF Record
<1>3. /\ task[m].attempt \in 0..MaxAttempts /\ task[m].attempt >= 1
      /\ calls[m].taken = calls[m].unsure + 1
      /\ calls[m].taken \in Nat /\ calls[m].unsure \in Nat
  BY <1>1, <1>2 DEF MailTyped, MailTasks, MailCalls, Tallied
<1>4. task[m].attempt - 1 \in 0..MaxAttempts /\ 0 \in 0..MaxAttempts
  BY <1>3, MailAssumption
<1>5. /\ log' \in [Mails -> MailLogs] /\ log'[m].status = "sent"
      /\ \A n \in Mails : n # m => log'[n] = log[n]
  BY <1>1, <1>2, <1>4, LogOne
<1> DEFINE over == MailAt("done", task[m].attempt)
           next == MailAt(IF ready THEN "queue" ELSE "refuse", 0)
<1>6. /\ over \in MailTasks /\ over.pc = "done"
      /\ next \in MailTasks /\ next.pc \in {"queue", "refuse"}
  BY <1>3, <1>4 DEF MailAt, MailTasks, MailStages
<1>7. task' = [n \in Mails |-> IF n = m THEN over
                ELSE IF m = First(n[1]) /\ Follows(m[1]) THEN next ELSE task[n]]
  BY <1>2 DEF Sent
<1> HIDE DEF over, next
<1>8. task' \in [Mails -> MailTasks] /\ task'[m].pc = "done"
  BY <1>1, <1>6, <1>7 DEF MailTyped
<1>9. ASSUME NEW n \in Mails, n # m PROVE task'[n] = task[n] \/ Begins(m, n)
  <2>1. CASE m = First(n[1])
    <3>1. n[1] \in Occasions /\ n = Second(n[1]) /\ m[1] = n[1]
      BY <1>9, <2>1, MailsOf
    <3>2. task'[n] = task[n] \/ task'[n] = next
      BY <1>7, <1>9
    <3> QED
      BY <1>5, <1>6, <1>8, <2>1, <3>1, <3>2 DEF Begins
  <2>2. CASE m # First(n[1])
    BY <1>7, <1>9, <2>2
  <2> QED
    BY <2>1, <2>2
<1>10. Tallied(task'[m], log'[m], calls'[m])
  BY <1>2, <1>3, <1>5, <1>8 DEF Tallied
<1>11. calls' = calls /\ calls \in [Mails -> MailCalls]
  BY <1>1, <1>2 DEF MailTyped
<1>12. told' = told \/ (m = First(m[1]) /\ told' = [told EXCEPT ![m[1]] = "ok"])
  BY <1>2, MailsOf DEF Sent
<1> QED
  BY <1>2, <1>3, <1>5, <1>8, <1>9, <1>10, <1>11, <1>12, SendingKeeps

LEMMA MailKept == MailInv /\ [MailNext]_mailVars => MailInv'
<1> SUFFICES ASSUME MailInv, [MailNext]_mailVars PROVE MailInv'
  OBVIOUS
<1>1. ASSUME NEW o \in Occasions, Save(o) PROVE MailInv'
  BY <1>1, SaveKeeps
<1>2. ASSUME NEW m \in Mails, Sending(m) PROVE MailInv'
  BY <1>2, RefuseKeeps, LogFailsKeeps, QueueKeeps, MarkKeeps, CallKeeps, RecordKeeps,
     GiveUpKeeps DEF Sending
<1>3. CASE Die
  BY <1>3, DieKeeps
<1>4. CASE UNCHANGED mailVars
  BY <1>4 DEF mailVars, MailInv, MailTyped, Ordered, Deserved
<1> QED
  BY <1>1, <1>2, <1>3, <1>4 DEF MailNext

(* However often the provider, the database and the process fail: a mail   *)
(* is sent once more only for every answer that was lost, the log is       *)
(* honest, the second mail follows the first, and no client is thanked for *)
(* what was not received.                                                  *)
THEOREM MailHolds == MailSpec => []MailCorrect
<1>1. MailInv => MailCorrect
  <2> SUFFICES ASSUME MailInv PROVE MailCorrect
    OBVIOUS
  <2>1. MailTyped /\ \A m \in Mails : Tallied(task[m], log[m], calls[m])
    BY DEF MailInv
  <2>2. MailTypeOK
    BY <2>1 DEF MailTyped, MailTypeOK, MailTasks, MailStages, MailLogs, Answers
  <2>3. \A m \in Mails : calls[m].taken \in Nat /\ calls[m].unsure \in Nat
    BY <2>1 DEF MailTyped, MailCalls
  <2>4. CopiesWereUnsure /\ LogIsHonest
    BY <2>1, <2>3 DEF Tallied, CopiesWereUnsure, LogIsHonest
  <2>5. SecondAfterFirst /\ ThanksAreDeserved
    BY DEF MailInv, Ordered, Deserved, SecondAfterFirst, ThanksAreDeserved
  <2> QED
    BY <2>2, <2>4, <2>5 DEF MailCorrect
<1> QED
  BY MailStart, MailKept, <1>1, PTL DEF MailSpec

(***************************************************************************)
(* GATEWAY                                                                 *)
(***************************************************************************)

LEMMA LeastRoute ==
  ASSUME NEW T, T \subseteq Nat, T # {}
  PROVE  \E k \in T : \A j \in T : k <= j
<1> DEFINE R == OpToRel(<, Nat)
<1>1. IsWellFoundedOn(R, Nat)
  BY NatLessThanWellFounded
<1>2. \A i, j \in Nat : i < j => <<i, j>> \in R
  BY DEF OpToRel
<1> HIDE DEF R
<1>3. PICK k \in T : \A j \in T : ~ (<<j, k>> \in R)
  BY <1>1, WFMin, Zenon
<1>4. ASSUME NEW j \in T PROVE k <= j
  <2>1. k \in Nat /\ j \in Nat /\ ~ (j < k)
    BY <1>2, <1>3
  <2>2. QED
    BY <2>1
<1>5. QED
  BY <1>4

LEMMA RouteAt ==
  /\ DOMAIN AllRoutes = 1 .. Len(AllRoutes) /\ Len(AllRoutes) \in Nat
  /\ \A r \in DOMAIN AllRoutes :
       /\ AllRoutes[r].path \in Seq(STRING)
       /\ AllRoutes[r].method \in STRING /\ AllRoutes[r].needs \in STRING
<1> DEFINE Paths == Seq(STRING)
           Rs == [method : STRING, path : Paths, needs : STRING]
<1>1. AllRoutes \in Seq(Rs)
  BY RoutesTyped
<1>2. \A r \in Rs : r.path \in Paths /\ r.method \in STRING /\ r.needs \in STRING
  <2> HIDE DEF Paths
  <2>1. QED
    OBVIOUS
<1> HIDE DEF Rs
<1>3. DOMAIN AllRoutes = 1 .. Len(AllRoutes) /\ Len(AllRoutes) \in Nat
  BY <1>1
<1>4. \A r \in DOMAIN AllRoutes : AllRoutes[r] \in Rs
  BY <1>1, <1>3
<1>5. QED
  BY <1>2, <1>3, <1>4

(* A filled-in path is as long as the one it fills in, and agrees with it   *)
(* where that names a segment.                                              *)
LEMMA FilledIn ==
  ASSUME NEW named \in Seq(STRING), NEW path \in Fillings(named)
  PROVE  /\ path \in Seq(STRING \cup Segments)
         /\ DOMAIN path = 1 .. Len(named) /\ Len(path) = Len(named)
         /\ \A i \in 1 .. Len(named) : named[i] = "*" \/ path[i] = named[i]
<1> DEFINE open == {i \in DOMAIN named : named[i] = "*"}
<1>1. PICK filling \in [open -> Segments] :
        path = [i \in DOMAIN named |-> IF named[i] = "*" THEN filling[i] ELSE named[i]]
  BY DEF Fillings
<1>2. DOMAIN named = 1 .. Len(named) /\ Len(named) \in Nat
  OBVIOUS
<1>3. ASSUME NEW i \in 1 .. Len(named)
      PROVE  /\ path[i] \in STRING \cup Segments
             /\ named[i] = "*" \/ path[i] = named[i]
  BY <1>1, <1>2
<1>4. path = [i \in 1 .. Len(named) |-> path[i]]
  BY <1>1, <1>2
<1>5. path \in [1 .. Len(named) -> STRING \cup Segments]
  BY <1>3, <1>4
<1>6. path \in Seq(STRING \cup Segments)
  BY <1>2, <1>5
<1>7. DOMAIN path = 1 .. Len(named)
  BY <1>4
<1>8. Len(path) = Len(named)
  BY <1>2, <1>6, <1>7
<1>9. QED
  BY <1>3, <1>6, <1>7, <1>8

(* So the route it was filled in from matches it. *)
LEMMA FilledMatches ==
  ASSUME NEW r \in DOMAIN AllRoutes, NEW path \in Fillings(AllRoutes[r].path)
  PROVE  Matches(AllRoutes[r], AllRoutes[r].method, path)
<1>1. AllRoutes[r].path \in Seq(STRING)
  BY RouteAt
<1>2. QED
  BY <1>1, FilledIn DEF Matches

(* The route that is served: the first that matches. *)
Found(h, method, path) ==
  /\ h \in DOMAIN AllRoutes /\ Matches(AllRoutes[h], method, path)
  /\ \A q \in DOMAIN AllRoutes : Matches(AllRoutes[q], method, path) => h <= q

LEMMA ResolveFinds ==
  ASSUME NEW method, NEW path, NEW r \in DOMAIN AllRoutes, Matches(AllRoutes[r], method, path)
  PROVE  Found(Resolve(method, path), method, path)
<1> DEFINE Hits == {i \in 1 .. Len(AllRoutes) : Matches(AllRoutes[i], method, path)}
<1>1. Hits # {} /\ Hits \subseteq Nat
  BY RouteAt
<1>2. Resolve(method, path) = Min(Hits)
  BY <1>1 DEF Resolve, SelectInSeq
<1>3. PICK k \in Hits : \A j \in Hits : k <= j
  BY <1>1, LeastRoute
<1>4. Min(Hits) \in Hits /\ \A j \in Hits : Min(Hits) <= j
  BY <1>3 DEF Min
<1>5. QED
  BY <1>2, <1>4, RouteAt DEF Found

-----------------------------------------------------------------------------
Stages == {"length", "maintenance", "rate", "route", "authorize", "tooLarge", "closed",
           "tooMany", "unavailable", "error", "refused", "handled"}

(* What a stage tells of the request that has reached it. *)
Passed(c, pc) ==
  /\ pc \in Stages
  /\ pc \in {"authorize", "handled"} => c.handler # 0
  /\ pc = "handled" => Allowed(c.caller, AllRoutes[c.handler].needs)
  /\ pc = "closed" => ~ Exempt(c.path)

Underway(c) ==
  /\ c = [pc |-> c.pc, route |-> c.route, path |-> c.path, caller |-> c.caller,
          handler |-> c.handler]
  /\ c.route \in DOMAIN AllRoutes /\ c.path \in Fillings(AllRoutes[c.route].path)
  /\ c.caller \in Callers
  /\ c.handler = 0 \/ Found(c.handler, AllRoutes[c.route].method, c.path)
  /\ Passed(c, c.pc)

GatewayInv ==
  /\ redisUp \in BOOLEAN /\ closed \in BOOLEAN
  /\ call = NoCall \/ Underway(call)

LEMMA NotWaiting ==
  ASSUME GatewayInv, call.pc # "none"
  PROVE  Underway(call)
  BY DEF GatewayInv, NoCall

LEMMA PassKeeps ==
  ASSUME NEW c, Underway(c), NEW pc, Passed(c, pc)
  PROVE  Underway([c EXCEPT !.pc = pc])
<1> DEFINE d == [c EXCEPT !.pc = pc]
<1>1. d = [pc |-> pc, route |-> c.route, path |-> c.path, caller |-> c.caller,
           handler |-> c.handler]
  BY DEF Underway
<1>2. /\ d.pc = pc /\ d.route = c.route /\ d.path = c.path /\ d.caller = c.caller
      /\ d.handler = c.handler
  BY <1>1
<1> HIDE DEF d
<1>3. Passed(d, d.pc)
  BY <1>2 DEF Passed
<1>4. Underway(d)
  BY <1>1, <1>2, <1>3 DEF Underway
<1>5. QED
  BY <1>4 DEF d

LEMMA PassStep ==
  ASSUME GatewayInv, call.pc # "none", NEW pc, Passed(call, pc), Pass(pc)
  PROVE  GatewayInv'
<1>1. Underway(call)
  BY NotWaiting
<1>2. Underway([call EXCEPT !.pc = pc])
  BY <1>1, PassKeeps
<1>3. QED
  BY <1>2 DEF Pass, GatewayInv

LEMMA ReceiveKeeps == ASSUME GatewayInv, Receive PROVE GatewayInv'
<1>1. PICK r \in DOMAIN AllRoutes, caller \in Callers :
        \E path \in Fillings(AllRoutes[r].path) :
          call' = [pc |-> "length", route |-> r, path |-> path, caller |-> caller, handler |-> 0]
  BY DEF Receive
<1> PICK path \in Fillings(AllRoutes[r].path) :
      call' = [pc |-> "length", route |-> r, path |-> path, caller |-> caller, handler |-> 0]
  BY <1>1
<1>2. Underway(call')
  BY DEF Underway, Passed, Stages
<1>3. UNCHANGED <<redisUp, closed>>
  BY DEF Receive
<1>4. QED
  BY <1>2, <1>3 DEF GatewayInv

LEMMA FindRouteKeeps == ASSUME GatewayInv, FindRoute PROVE GatewayInv'
<1> DEFINE h == Resolve(Method, call.path)
<1>1. Underway(call) /\ call' = [call EXCEPT !.pc = "authorize", !.handler = h]
  BY NotWaiting DEF FindRoute
<1>2. Found(h, AllRoutes[call.route].method, call.path)
  BY <1>1, FilledMatches, ResolveFinds DEF Underway, Method
<1>3. h # 0
  BY <1>2, RouteAt DEF Found
<1> HIDE DEF h
<1>4. call' = [pc |-> "authorize", route |-> call.route, path |-> call.path,
               caller |-> call.caller, handler |-> h]
  BY <1>1 DEF Underway
<1>5. Underway(call')
  BY <1>1, <1>2, <1>3, <1>4 DEF Underway, Passed, Stages
<1>6. UNCHANGED <<redisUp, closed>>
  BY DEF FindRoute
<1>7. QED
  BY <1>5, <1>6 DEF GatewayInv

LEMMA AuthorizeKeeps == ASSUME GatewayInv, Authorize PROVE GatewayInv'
<1> DEFINE needs == AllRoutes[call.handler].needs
           pc == IF ~redisUp /\ needs # "anyone" THEN "error"
                 ELSE IF Allowed(call.caller, needs) THEN "handled" ELSE "refused"
<1>1. call.pc = "authorize" /\ Pass(pc)
  BY DEF Authorize
<1>2. Underway(call)
  BY <1>1, NotWaiting
<1>3. Passed(call, pc)
  BY <1>1, <1>2 DEF Underway, Passed, Stages
<1> HIDE DEF pc
<1>4. QED
  BY <1>1, <1>3, PassStep

LEMMA GatewayKept == GatewayInv /\ [GatewayNext]_gatewayVars => GatewayInv'
<1> SUFFICES ASSUME GatewayInv, [GatewayNext]_gatewayVars
             PROVE  GatewayInv'
  OBVIOUS
<1>1. CASE CheckLength
  <2>1. Passed(call, "maintenance") /\ Passed(call, "tooLarge")
    BY DEF Passed, Stages
  <2>2. QED
    BY <1>1, <2>1, PassStep DEF CheckLength
<1>2. CASE CheckMaintenance
  <2> DEFINE pc == IF closed /\ redisUp /\ ~ Exempt(call.path) THEN "closed" ELSE "rate"
  <2>1. Passed(call, pc)
    BY DEF Passed, Stages
  <2> HIDE DEF pc
  <2>2. call.pc = "maintenance" /\ Pass(pc)
    BY <1>2 DEF CheckMaintenance, pc
  <2>3. QED
    BY <2>1, <2>2, PassStep
<1>3. CASE CheckRate
  <2>1. Passed(call, "route") /\ Passed(call, "tooMany") /\ Passed(call, "unavailable")
    BY DEF Passed, Stages
  <2>2. call.pc = "rate" /\ (Pass("route") \/ Pass("tooMany") \/ Pass("unavailable"))
    BY <1>3 DEF CheckRate
  <2>3. QED
    BY <2>1, <2>2, PassStep
<1>4. CASE Answer
  BY <1>4 DEF Answer, GatewayInv
<1>5. CASE Change
  BY <1>5 DEF Change, GatewayInv
<1>6. CASE UNCHANGED gatewayVars
  BY <1>6 DEF gatewayVars, GatewayInv
<1>7. QED
  BY <1>1, <1>2, <1>3, <1>4, <1>5, <1>6, ReceiveKeeps, FindRouteKeeps, AuthorizeKeeps
     DEF GatewayNext

LEMMA GatewayStart == GatewayInit => GatewayInv
  BY DEF GatewayInit, GatewayInv

-----------------------------------------------------------------------------
(* What is known of a request under way, for the promises. *)

LEMMA HandlerOf ==
  ASSUME GatewayInv, call.handler # 0
  PROVE  /\ Underway(call)
         /\ Found(call.handler, Method, call.path)
         /\ AllRoutes[call.handler].method = Method
<1>1. Underway(call)
  BY DEF GatewayInv, NoCall
<1>2. Found(call.handler, Method, call.path)
  BY <1>1 DEF Underway, Method
<1>3. QED
  BY <1>1, <1>2 DEF Found, Matches

LEMMA TypesHold == GatewayInv => GatewayTypeOK
<1> SUFFICES ASSUME GatewayInv
             PROVE  GatewayTypeOK
  OBVIOUS
<1>1. CASE call = NoCall
  BY <1>1, RouteAt DEF NoCall, GatewayInv, GatewayTypeOK, Callers
<1>2. CASE Underway(call)
  <2>1. call.route \in 0 .. Len(AllRoutes) /\ call.handler \in 0 .. Len(AllRoutes)
    BY <1>2, RouteAt DEF Underway, Found
  <2>2. call.pc \in {"authorize", "handled"} => call.handler > 0
    BY <1>2, <2>1, RouteAt DEF Underway, Passed
  <2>3. QED
    BY <1>2, <2>1, <2>2 DEF GatewayInv, GatewayTypeOK, Underway
<1>3. QED
  BY <1>1, <1>2 DEF GatewayInv

(* Two routes that match one path overlap, so the facts about the order in  *)
(* which they are registered apply to whatever the path is filled in with.  *)
LEMMA MatchingOverlap ==
  ASSUME NEW p \in DOMAIN AllRoutes, NEW q \in DOMAIN AllRoutes, NEW method, NEW path,
         Matches(AllRoutes[p], method, path), Matches(AllRoutes[q], method, path),
         DOMAIN path = 1 .. Len(path)
  PROVE  Overlap(AllRoutes[p], AllRoutes[q]) /\ DOMAIN AllRoutes[p].path = DOMAIN path
<1>1. DOMAIN AllRoutes[p].path = 1 .. Len(AllRoutes[p].path)
  BY RouteAt
<1>2. DOMAIN AllRoutes[p].path = DOMAIN path
  BY <1>1 DEF Matches
<1>3. QED
  BY <1>2 DEF Matches, Overlap

LEMMA PathOf ==
  ASSUME NEW c, Underway(c)
  PROVE  /\ c.path \in Seq(STRING \cup Segments)
         /\ DOMAIN c.path = 1 .. Len(c.path) /\ Len(c.path) \in Nat
         /\ Len(c.path) = Len(AllRoutes[c.route].path)
         /\ \A i \in 1 .. Len(c.path) :
              AllRoutes[c.route].path[i] = "*" \/ c.path[i] = AllRoutes[c.route].path[i]
<1>1. c.route \in DOMAIN AllRoutes /\ c.path \in Fillings(AllRoutes[c.route].path)
  BY DEF Underway
<1>2. AllRoutes[c.route].path \in Seq(STRING)
  BY <1>1, RouteAt
<1>3. Len(AllRoutes[c.route].path) \in Nat
  BY <1>2
<1>4. QED
  BY <1>1, <1>2, <1>3, FilledIn

LEMMA NamedWin == GatewayInv => NamedRoutesWin
<1> SUFFICES ASSUME GatewayInv, call.handler > 0, NEW q \in DOMAIN AllRoutes,
                    Matches(AllRoutes[q], Method, call.path), NEW i \in DOMAIN call.path,
                    AllRoutes[call.handler].path[i] = "*"
             PROVE  AllRoutes[q].path[i] = "*"
  BY DEF NamedRoutesWin
<1> DEFINE h == call.handler
<1>1. Underway(call) /\ Found(h, Method, call.path)
  <2>1. call.handler # 0
    OBVIOUS
  <2>2. QED
    BY <2>1, HandlerOf
<1>2. h \in DOMAIN AllRoutes /\ Matches(AllRoutes[h], Method, call.path) /\ h <= q
  BY <1>1 DEF Found
<1>3. DOMAIN call.path = 1 .. Len(call.path)
  BY <1>1, PathOf
<1>4. Overlap(AllRoutes[h], AllRoutes[q]) /\ i \in DOMAIN AllRoutes[h].path
  BY <1>2, <1>3, MatchingOverlap
<1>5. CASE h = q
  BY <1>5
<1>6. CASE h < q
  BY <1>2, <1>4, <1>6, NamedBeforeOpen
<1>7. h = q \/ h < q
  BY <1>2, RouteAt
<1>8. QED
  BY <1>5, <1>6, <1>7

(* What a route names is in every path it matches. *)
LEMMA NamedIsThere ==
  ASSUME NEW r \in DOMAIN AllRoutes, NEW method, NEW path, NEW word, word # "*",
         Matches(AllRoutes[r], method, path), path \in Seq(STRING \cup Segments),
         Names(AllRoutes[r], word)
  PROVE  Has(path, word)
<1>1. PICK i \in DOMAIN AllRoutes[r].path : AllRoutes[r].path[i] = word
  BY DEF Names
<1>2. i \in 1 .. Len(path)
  BY RouteAt DEF Matches
<1>3. path[i] = word
  BY <1>1, <1>2 DEF Matches
<1>4. QED
  BY <1>2, <1>3 DEF Has, ToSet

LEMMA HandledBy ==
  ASSUME GatewayInv, call.pc = "handled"
  PROVE  /\ call.handler \in DOMAIN AllRoutes /\ call.handler # 0
         /\ call.caller \in Callers
         /\ Allowed(call.caller, AllRoutes[call.handler].needs)
         /\ AllRoutes[call.handler].method = Method
         /\ Matches(AllRoutes[call.handler], Method, call.path)
         /\ call.path \in Seq(STRING \cup Segments)
<1>1. Underway(call)
  BY NotWaiting
<1>2. call.handler # 0 /\ Allowed(call.caller, AllRoutes[call.handler].needs)
  BY <1>1 DEF Underway, Passed
<1>3. call.caller \in Callers
  BY <1>1 DEF Underway
<1>4. Found(call.handler, Method, call.path) /\ AllRoutes[call.handler].method = Method
  BY <1>2, HandlerOf
<1>5. call.path \in Seq(STRING \cup Segments)
  BY <1>1, PathOf
<1>6. QED
  BY <1>2, <1>3, <1>4, <1>5 DEF Found

LEMMA StaffChanges == GatewayInv => StaffChange
<1> SUFFICES ASSUME GatewayInv, call.pc = "handled", Method # "GET",
                    StaffArea(AllRoutes[call.handler].path)
             PROVE  call.caller = "chef"
  BY DEF StaffChange
<1> DEFINE h == call.handler
<1>1. h \in DOMAIN AllRoutes /\ call.caller \in Callers
  BY HandledBy
<1>2. Allowed(call.caller, AllRoutes[h].needs) /\ Changes(AllRoutes[h])
  BY HandledBy DEF Changes
<1>3. AllRoutes[h].path \in Seq(STRING)
  BY <1>1, RouteAt
<1>4. PICK area \in {"admin", "kitchen", "chef"} : Has(AllRoutes[h].path, area)
  BY DEF StaffArea
<1>5. Names(AllRoutes[h], area)
  BY <1>3, <1>4 DEF Names, Has, ToSet
<1>6. QED
  BY <1>1, <1>2, <1>4, <1>5, WhoMayChange

LEMMA StrangersAsk == GatewayInv => StrangersOnlyAsk
<1> SUFFICES ASSUME GatewayInv, call.pc = "handled", Method # "GET",
                    call.caller \notin {"customer", "chef"}
             PROVE  \E way \in {"auth", "contact", "contacts"} : Has(call.path, way)
  BY DEF StrangersOnlyAsk
<1> DEFINE h == call.handler
<1>1. h \in DOMAIN AllRoutes /\ call.caller \in Callers
  BY HandledBy
<1>2. Allowed(call.caller, AllRoutes[h].needs) /\ Changes(AllRoutes[h])
  BY HandledBy DEF Changes
<1>3. PICK way \in {"auth", "contact", "contacts"} : Names(AllRoutes[h], way)
  BY <1>1, <1>2, WhoMayChange
<1>4. Matches(AllRoutes[h], Method, call.path) /\ call.path \in Seq(STRING \cup Segments)
  BY HandledBy
<1>5. way # "*"
  OBVIOUS
<1>6. Has(call.path, way)
  BY <1>1, <1>3, <1>4, <1>5, NamedIsThere
<1>7. QED
  BY <1>6

(* A path filled in from one that is below an area is below it too. *)
LEMMA BelowStays ==
  ASSUME NEW c, Underway(c), NEW area, area # "*",
         \E i \in 1 .. Len(AllRoutes[c.route].path) - 1 : AllRoutes[c.route].path[i] = area
  PROVE  Inside(c.path, area)
<1>1. PICK i \in 1 .. Len(AllRoutes[c.route].path) - 1 : AllRoutes[c.route].path[i] = area
  OBVIOUS
<1>2. Len(c.path) \in Nat /\ Len(c.path) = Len(AllRoutes[c.route].path)
  BY PathOf
<1>3. i \in 1 .. Len(c.path) - 1 /\ i \in 1 .. Len(c.path)
  BY <1>1, <1>2
<1>4. c.path[i] = area
  BY <1>1, <1>3, PathOf
<1>5. QED
  BY <1>3, <1>4 DEF Inside

LEMMA WaysStayOpen == GatewayInv => WayOut
<1> SUFFICES ASSUME GatewayInv, call.pc = "closed"
             PROVE  /\ ~ Has(AllRoutes[call.route].path, "login")
                    /\ ~ (Method = "PUT" /\ Has(AllRoutes[call.route].path, "settings"))
  BY DEF WayOut
<1>1. Underway(call)
  BY NotWaiting
<1>2. ~ Exempt(call.path) /\ call.route \in DOMAIN AllRoutes
  BY <1>1 DEF Underway, Passed
<1>3. ~ Inside(call.path, "auth") /\ ~ Inside(call.path, "admin")
  BY <1>2 DEF Exempt
<1>4. AllRoutes[call.route].path \in Seq(STRING)
  BY <1>2, RouteAt
<1>5. ASSUME NEW word, Has(AllRoutes[call.route].path, word)
      PROVE  Names(AllRoutes[call.route], word)
  BY <1>4, <1>5 DEF Names, Has, ToSet
<1>6. ASSUME Has(AllRoutes[call.route].path, "login")
      PROVE  FALSE
  <2>1. \E i \in 1 .. Len(AllRoutes[call.route].path) - 1 : AllRoutes[call.route].path[i] = "auth"
    BY <1>2, <1>5, <1>6, WaysBackIn
  <2>2. Inside(call.path, "auth")
    BY <1>1, <2>1, BelowStays
  <2>3. QED
    BY <1>3, <2>2
<1>7. ASSUME Method = "PUT", Has(AllRoutes[call.route].path, "settings")
      PROVE  FALSE
  <2>1. \E i \in 1 .. Len(AllRoutes[call.route].path) - 1 : AllRoutes[call.route].path[i] = "admin"
    BY <1>2, <1>5, <1>7, WaysBackIn DEF Method
  <2>2. Inside(call.path, "admin")
    BY <1>1, <2>1, BelowStays
  <2>3. QED
    BY <1>3, <2>2
<1>8. QED
  BY <1>6, <1>7

(* An order is rated as one, whatever else is on the way to it. *)
LEMMA OrdersAreRated == Policy("POST", <<"api", "v1", "orders">>) = "orders"
<1> DEFINE path == <<"api", "v1", "orders">>
<1>1. Len(path) = 3 /\ path[1] = "api" /\ path[2] = "v1" /\ path[3] = "orders"
  OBVIOUS
<1>2. ToSet(path) = {"api", "v1", "orders"}
  BY DEF ToSet
<1>3. ~ Inside(path, "auth") /\ ~ Inside(path, "admin")
  BY <1>1 DEF Inside
<1>4. path \notin {<<"">>, <<"api", "v1">>, <<"api", "v1", "">>}
  OBVIOUS
<1>5. ~ Has(path, "checkout") /\ Has(path, "orders")
  BY <1>2 DEF Has
<1>6. path[1] # "health"
  BY <1>1
<1> HIDE DEF path
<1>7. Policy("POST", path) = "orders"
  <2>1. ~ (path[1] = "health" \/ path \in {<<"">>, <<"api", "v1">>, <<"api", "v1", "">>})
    BY <1>4, <1>6
  <2>2. QED
    BY <1>3, <1>5, <2>1 DEF Policy
<1>8. QED
  BY <1>7 DEF path

LEMMA NotBlind ==
  ASSUME GatewayInv, [GatewayNext]_gatewayVars, call.pc = "rate", call'.pc = "route", ~ redisUp
  PROVE  AllRoutes[call.route] # Route("POST", <<"api", "v1", "orders">>, "order.create")
<1> SUFFICES ASSUME AllRoutes[call.route] = Route("POST", <<"api", "v1", "orders">>, "order.create")
             PROVE  FALSE
  OBVIOUS
<1> DEFINE order == <<"api", "v1", "orders">>
<1>1. Underway(call)
  BY NotWaiting
<1>2. Method = "POST" /\ AllRoutes[call.route].path = order
  BY DEF Method, Route
<1>3. call.path = order
  <2>1. /\ call.path \in Seq(STRING \cup Segments) /\ Len(call.path) = 3
        /\ \A i \in 1 .. 3 : order[i] = "*" \/ call.path[i] = order[i]
    BY <1>1, <1>2, PathOf
  <2>2. call.path[1] = "api" /\ call.path[2] = "v1" /\ call.path[3] = "orders"
    BY <2>1
  <2>3. QED
    BY <2>1, <2>2
<1>4. CheckRate
  BY DEF GatewayNext, gatewayVars, Receive, CheckLength, CheckMaintenance, FindRoute, Authorize,
         Answer, Change, NoCall
<1>5. Policy(Method, call.path) \in FailClosedPolicies
  BY <1>2, <1>3, OrdersAreRated, OrdersFailClosed
<1>6. Pass("unavailable")
  BY <1>4, <1>5 DEF CheckRate
<1>7. call'.pc = "unavailable"
  BY <1>1, <1>6 DEF Pass, Underway
<1>8. QED
  BY <1>7

(* The route named is the route served, staff alone change the shop,        *)
(* strangers only read and ask, maintenance can be ended from outside, and  *)
(* nothing is ordered while Redis is down: whatever requests fill paths in  *)
(* with, and however the switch and Redis change under way.                 *)
THEOREM GatewayHolds == GatewaySpec => GatewayCorrect
<1>1. GatewayInit => GatewayInv
  BY GatewayStart
<1>2. GatewayInv /\ [GatewayNext]_gatewayVars => GatewayInv'
  BY GatewayKept
<1>3. GatewayInv => /\ GatewayTypeOK
                    /\ NamedRoutesWin
                    /\ StaffChange
                    /\ StrangersOnlyAsk
                    /\ WayOut
  BY TypesHold, NamedWin, StaffChanges, StrangersAsk, WaysStayOpen
<1>4. GatewayInv /\ [GatewayNext]_gatewayVars
      => [call.pc = "rate" /\ call'.pc = "route" /\ ~redisUp
          => AllRoutes[call.route] # Route("POST", <<"api", "v1", "orders">>, "order.create")]_gatewayVars
  BY NotBlind
<1>5. QED
  BY <1>1, <1>2, <1>3, <1>4, PTL DEF GatewaySpec, GatewayCorrect, NoBlindOrders

=============================================================================
