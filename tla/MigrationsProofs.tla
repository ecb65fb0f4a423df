--------------------------- MODULE MigrationsProofs ---------------------------
(***************************************************************************)
(* What Migrations promises, for every number of users, jobs, names and    *)
(* providers.  Upgraded, Downgraded and the schema are functions defined   *)
(* by recursion over revisions; InductionLemmas!Recursion says that there  *)
(* are such functions, and UpTo carries a fact from one revision to the    *)
(* next.                                                                   *)
(***************************************************************************)
EXTENDS Migrations, InductionLemmas

(* --- the schema ------------------------------------------------------------ *)
(* The tables at each revision, as in SchemaFollowsRevision.                *)
SchemaAt == CHOOSE at : at = [r \in 0 .. Head |->
                IF r = 0 THEN {} ELSE (at[r - 1] \ Drops(r)) \cup Adds[r]]

(* All columns and keys that a revision adds.                               *)
AllColumns == UNION {Adds[r] : r \in 1 .. Head}

LEMMA AddsIsSet ==
    ASSUME NEW r \in 1 .. Head
    PROVE  Adds[r] \subseteq AllColumns
BY DEF AllColumns

LEMMA SchemaAtByRevision ==
    SchemaAt = [r \in 0 .. Head |->
        IF r = 0 THEN {} ELSE (SchemaAt[r - 1] \ Drops(r)) \cup Adds[r]]
<1> DEFINE V == SUBSET AllColumns
           step == [p \in V \X (1 .. Head) |-> (p[1] \ Drops(p[2])) \cup Adds[p[2]]]
<1>1. step \in [V \X (0 + 1 .. Head) -> V]
  <2>1. ASSUME NEW p \in V \X (1 .. Head) PROVE (p[1] \ Drops(p[2])) \cup Adds[p[2]] \in V
    BY AddsIsSet
  <2>2. 0 + 1 = 1  OBVIOUS
  <2> QED  BY <2>1, <2>2
<1>2. {} \in V /\ 0 \in Int /\ Head \in Int /\ 0 <= Head  BY DEF Head
<1> HIDE DEF V
<1>3. PICK g \in [0 .. Head -> V] :
         \A r \in 0 .. Head : g[r] = IF r = 0 THEN {} ELSE step[g[r - 1], r]
  <2> DEFINE a == 0
             c == {}
  <2>1. step \in [V \X (a + 1 .. Head) -> V]  BY <1>1
  <2>2. c \in V /\ a \in Int /\ Head \in Int /\ a <= Head  BY <1>2
  <2> HIDE DEF step, a, c, V
  <2>3. \E g \in [a .. Head -> V] : Unfolds(g, c, a, Head, step)
    BY <2>1, <2>2, Recursion
  <2> QED  BY <2>3 DEF a, c, Unfolds
<1>4. ASSUME NEW r \in 0 .. Head, r # 0
      PROVE  step[g[r - 1], r] = (g[r - 1] \ Drops(r)) \cup Adds[r]
  <2>1. r - 1 \in 0 .. Head /\ r \in 1 .. Head  BY <1>2, <1>4
  <2>2. <<g[r - 1], r>> \in V \X (1 .. Head)  BY <2>1
  <2> QED  BY <2>2
<1> HIDE DEF step
<1>5. g = [r \in 0 .. Head |-> IF r = 0 THEN {} ELSE (g[r - 1] \ Drops(r)) \cup Adds[r]]
  BY <1>3, <1>4
<1> QED  BY <1>5 DEF SchemaAt
LEMMA SchemaAtSteps ==
    /\ SchemaAt[0] = {}
    /\ \A r \in 1 .. Head : SchemaAt[r] = (SchemaAt[r - 1] \ Drops(r)) \cup Adds[r]
<1>1. \A r \in 1 .. Head : r \in 0 .. Head /\ r # 0  OBVIOUS
<1>2. 0 \in 0 .. Head  BY DEF Head
<1> QED  BY <1>1, <1>2, SchemaAtByRevision

(* No revision adds a column that an earlier one added.                     *)
LEMMA AddsAnew ==
    /\ UsersTable \cap (InitialTables) = {}
    /\ UserNames \cap (InitialTables \cup UsersTable) = {}
    /\ SettingsTables \cap (InitialTables \cup UsersTable \cup UserNames) = {}
    /\ JsonbContent \cap (InitialTables \cup UsersTable \cup UserNames \cup SettingsTables)
          = {}
    /\ SeedUrls \cap (InitialTables \cup UsersTable \cup UserNames \cup SettingsTables \cup
          JsonbContent) = {}
    /\ JobOwners \cap (InitialTables \cup UsersTable \cup UserNames \cup SettingsTables \cup
          JsonbContent \cup SeedUrls) = {}
    /\ SettingsOwners \cap (InitialTables \cup UsersTable \cup UserNames \cup SettingsTables
          \cup JsonbContent \cup SeedUrls \cup JobOwners) = {}
    /\ SessionsTable \cap (InitialTables \cup UsersTable \cup UserNames \cup SettingsTables
          \cup JsonbContent \cup SeedUrls \cup JobOwners \cup SettingsOwners) = {}
<1>1. UsersTable \cap (InitialTables) = {}
  BY DEF Cols, InitialTables, UsersTable
<1>2. UserNames \cap (InitialTables \cup UsersTable) = {}
  BY DEF Cols, InitialTables, UsersTable, UserNames
<1>3. SettingsTables \cap (InitialTables \cup UsersTable \cup UserNames) = {}
  BY DEF Cols, InitialTables, UsersTable, UserNames, SettingsTables
<1>4. JsonbContent \cap (InitialTables \cup UsersTable \cup UserNames \cup SettingsTables) =
        {}
  BY DEF Cols, InitialTables, UsersTable, UserNames, SettingsTables, JsonbContent
<1>5. SeedUrls \cap (InitialTables \cup UsersTable \cup UserNames \cup SettingsTables \cup
        JsonbContent) = {}
  BY DEF Cols, InitialTables, UsersTable, UserNames, SettingsTables, JsonbContent, SeedUrls
<1>6. JobOwners \cap (InitialTables \cup UsersTable \cup UserNames \cup SettingsTables \cup
        JsonbContent \cup SeedUrls) = {}
  BY ZenonT(90) DEF Cols, InitialTables, UsersTable, UserNames, SettingsTables,
         JsonbContent, SeedUrls, JobOwners
<1>7. SettingsOwners \cap (InitialTables \cup UsersTable \cup UserNames \cup SettingsTables
        \cup JsonbContent \cup SeedUrls \cup JobOwners) = {}
  BY ZenonT(90) DEF Cols, InitialTables, UsersTable, UserNames, SettingsTables,
         JsonbContent, SeedUrls, JobOwners, SettingsOwners
<1>8. SessionsTable \cap (InitialTables \cup UsersTable \cup UserNames \cup SettingsTables
        \cup JsonbContent \cup SeedUrls \cup JobOwners \cup SettingsOwners) = {}
  BY DEF Cols, InitialTables, UsersTable, UserNames, SettingsTables, JsonbContent, SeedUrls,
         JobOwners, SettingsOwners, SessionsTable
<1> QED  BY <1>1, <1>2, <1>3, <1>4, <1>5, <1>6, <1>7, <1>8

(* What 0005 and 0008 drop was there.                                       *)
LEMMA DropsKnown == TextContent \subseteq InitialTables /\ SharedSettings \subseteq SettingsTables
<1>1. TextContent \subseteq InitialTables
  BY DEF Cols, InitialTables, TextContent
<1>2. SharedSettings \subseteq SettingsTables
  BY DEF Cols, SettingsTables, SharedSettings
<1> QED  BY <1>1, <1>2

LEMMA SchemaAtEach ==
    /\ SchemaAt[0] = {}
    /\ SchemaAt[1] = InitialTables
    /\ SchemaAt[2] = SchemaAt[1] \cup UsersTable
    /\ SchemaAt[3] = SchemaAt[2] \cup UserNames
    /\ SchemaAt[4] = SchemaAt[3] \cup SettingsTables
    /\ SchemaAt[5] = (SchemaAt[4] \ TextContent) \cup JsonbContent
    /\ SchemaAt[6] = SchemaAt[5] \cup SeedUrls
    /\ SchemaAt[7] = SchemaAt[6] \cup JobOwners
    /\ SchemaAt[8] = (SchemaAt[7] \ SharedSettings) \cup SettingsOwners
    /\ SchemaAt[9] = SchemaAt[8] \cup SessionsTable
<1>1. /\ Adds[1] = InitialTables /\ Adds[2] = UsersTable /\ Adds[3] = UserNames
      /\ Adds[4] = SettingsTables /\ Adds[5] = JsonbContent /\ Adds[6] = SeedUrls
      /\ Adds[7] = JobOwners /\ Adds[8] = SettingsOwners /\ Adds[9] = SessionsTable
  BY DEF Adds
<1>2. Drops(5) = TextContent /\ Drops(8) = SharedSettings
  BY DEF Drops
<1>3. \A r \in 1 .. 9 : r # 5 /\ r # 8 => Drops(r) = {}
  BY DEF Drops
<1>4. \A r \in 1 .. 9 : SchemaAt[r] = (SchemaAt[r - 1] \ Drops(r)) \cup Adds[r]
  BY SchemaAtSteps DEF Head
<1>5. ASSUME NEW q \in 0 .. 8
      PROVE  SchemaAt[q + 1] = (SchemaAt[q] \ Drops(q + 1)) \cup Adds[q + 1]
  <2>1. q + 1 \in 1 .. 9 /\ (q + 1) - 1 = q  OBVIOUS
  <2> QED  BY <1>4, <2>1
<1>6. Drops(1) = {} /\ Drops(2) = {} /\ Drops(3) = {} /\ Drops(4) = {} /\ Drops(6) = {}
      /\ Drops(7) = {} /\ Drops(9) = {}
  BY <1>3
<1>7. /\ SchemaAt[1] = (SchemaAt[0] \ Drops(1)) \cup Adds[1]
      /\ SchemaAt[2] = (SchemaAt[1] \ Drops(2)) \cup Adds[2]
      /\ SchemaAt[3] = (SchemaAt[2] \ Drops(3)) \cup Adds[3]
      /\ SchemaAt[4] = (SchemaAt[3] \ Drops(4)) \cup Adds[4]
      /\ SchemaAt[5] = (SchemaAt[4] \ Drops(5)) \cup Adds[5]
      /\ SchemaAt[6] = (SchemaAt[5] \ Drops(6)) \cup Adds[6]
      /\ SchemaAt[7] = (SchemaAt[6] \ Drops(7)) \cup Adds[7]
      /\ SchemaAt[8] = (SchemaAt[7] \ Drops(8)) \cup Adds[8]
      /\ SchemaAt[9] = (SchemaAt[8] \ Drops(9)) \cup Adds[9]
  BY <1>5
<1> QED
  BY <1>1, <1>2, <1>6, <1>7, SchemaAtSteps

(* A revision adds only what is new and drops only what is there.           *)
LEMMA AddsAndDrops ==
    ASSUME NEW r \in 1 .. Head
    PROVE  Adds[r] \cap SchemaAt[r - 1] = {} /\ Drops(r) \subseteq SchemaAt[r - 1]
<1>1. r \in {1, 2, 3, 4, 5, 6, 7, 8, 9}  BY DEF Head
<1>2. Drops(5) = TextContent /\ Drops(8) = SharedSettings
  BY DEF Drops
<1>3. r # 5 /\ r # 8 => Drops(r) = {}
  BY DEF Drops
<1>4. CASE r = 1
  BY <1>4, <1>3, SchemaAtEach
<1>5. CASE r = 2
  BY <1>5, <1>3, SchemaAtEach, AddsAnew DEF Adds
<1>6. CASE r = 3
  BY <1>6, <1>3, SchemaAtEach, AddsAnew DEF Adds
<1>7. CASE r = 4
  BY <1>7, <1>3, SchemaAtEach, AddsAnew DEF Adds
<1>8. CASE r = 5
  BY <1>8, <1>2, SchemaAtEach, AddsAnew, DropsKnown DEF Adds
<1>9. CASE r = 6
  BY <1>9, <1>3, SchemaAtEach, AddsAnew DEF Adds
<1>10. CASE r = 7
  BY <1>10, <1>3, SchemaAtEach, AddsAnew DEF Adds
<1>11. CASE r = 8
  BY <1>11, <1>2, SchemaAtEach, AddsAnew, DropsKnown DEF Adds
<1>12. CASE r = 9
  BY <1>12, <1>3, SchemaAtEach, AddsAnew DEF Adds
<1> QED
  BY <1>1, <1>4, <1>5, <1>6, <1>7, <1>8, <1>9, <1>10, <1>11, <1>12

(* The tables of the head, and those of models.py.                          *)
LEMMA HeadTables == SchemaAt[Head] = Models \cup Cols("users", {"check user_type"})
<1> DEFINE M == Models \cup Cols("users", {"check user_type"})
           H == (InitialTables \ TextContent) \cup UsersTable \cup UserNames
                \cup (SettingsTables \ SharedSettings) \cup JsonbContent \cup SeedUrls
                \cup JobOwners \cup SettingsOwners \cup SessionsTable
<1>1. InitialTables \ TextContent \subseteq M
  BY DEF Cols, Models, InitialTables, TextContent
<1>2. UsersTable \cup UserNames \subseteq M
  BY DEF Cols, Models, UsersTable, UserNames
<1>3. SettingsTables \ SharedSettings \subseteq M
  BY DEF Cols, Models, SettingsTables, SharedSettings
<1>4. JsonbContent \cup SeedUrls \cup JobOwners \subseteq M
  BY DEF Cols, Models, JsonbContent, SeedUrls, JobOwners
<1>5. SettingsOwners \cup SessionsTable \subseteq M
  BY DEF Cols, Models, SettingsOwners, SessionsTable
<1>6. M \subseteq H
  BY ZenonT(90) DEF Cols, Models, InitialTables, UsersTable, UserNames, SettingsTables,
     JsonbContent, SeedUrls, JobOwners, SettingsOwners, SessionsTable, TextContent, SharedSettings
<1>7. H = M
  <2> HIDE DEF M
  <2> QED  BY <1>1, <1>2, <1>3, <1>4, <1>5, <1>6
<1> HIDE DEF M
<1>8. SchemaAt[9] = H
  BY SchemaAtEach, AddsAnew, DropsKnown
<1> QED  BY <1>7, <1>8 DEF Head, M
(* An upgrade yields the tables of its target...                            *)
LEMMA UpgradeSchema ==
    ASSUME rev \in 0 .. Head, NEW n \in 0 .. Head, schema = SchemaAt[rev], Upgrade(n)
    PROVE  schema' = SchemaAt[rev']
<1> DEFINE E(f) == f = [r \in rev .. n |-> IF r = rev THEN schema
                                            ELSE (f[r - 1] \ Drops(r)) \cup Adds[r]]
           g == [r \in rev .. n |-> SchemaAt[r]]
           after == CHOOSE f : E(f)
           T == {r \in rev .. n : after[r] = SchemaAt[r]}
<1>1. n > rev /\ rev' = n /\ schema' = after[n]
  BY DEF Upgrade
<1>2. ASSUME NEW r \in rev .. n, r # rev
      PROVE  r \in 1 .. Head /\ r - 1 \in rev .. n
  BY <1>2 DEF Head
<1>3. E(g)
  <2>1. ASSUME NEW r \in rev .. n, r # rev
        PROVE  SchemaAt[r] = (g[r - 1] \ Drops(r)) \cup Adds[r]
    <3>1. g[r - 1] = SchemaAt[r - 1]  BY <1>2, <2>1
    <3> QED  BY <1>2, <2>1, <3>1, SchemaAtSteps
  <2> QED  BY <2>1
<1> HIDE DEF g
<1>4. E(after)  BY <1>3
<1> HIDE DEF after
<1>5. rev \in T
  BY <1>1, <1>4
<1>6. ASSUME NEW r \in rev .. n - 1, r \in T PROVE r + 1 \in T
  <2>1. r + 1 \in rev .. n /\ r + 1 # rev /\ (r + 1) - 1 = r  BY <1>1
  <2>2. after[r + 1] = (after[r] \ Drops(r + 1)) \cup Adds[r + 1]  BY <1>4, <2>1
  <2>3. SchemaAt[r + 1] = (SchemaAt[r] \ Drops(r + 1)) \cup Adds[r + 1]
    BY <1>2, <2>1, SchemaAtSteps
  <2> QED  BY <1>6, <2>1, <2>2, <2>3
<1>7. n \in rev .. n /\ rev \in Int /\ n \in Int  BY <1>1
<1>8. n \in T
  <2> HIDE DEF T
  <2> QED  BY <1>5, <1>6, <1>7, UpTo
<1> QED  BY <1>1, <1>8

(* The tables that the revisions touch.                                     *)
JobTables == {"log_lines", "crawl_result_items", "discovered_urls", "crawl_jobs"}
SettingTables == {"provider_api_keys", "crawl_settings_templates"}

LEMMA TablesOf ==
    /\ \A c \in InitialTables \cup JsonbContent \cup SeedUrls \cup JobOwners : c[1] \in JobTables
    /\ \A c \in UsersTable \cup UserNames : c[1] = "users"
    /\ \A c \in SettingsTables \cup SettingsOwners : c[1] \in SettingTables
    /\ \A c \in SessionsTable : c[1] = "refresh_sessions"
<1>1. \A c \in InitialTables \cup JsonbContent \cup SeedUrls \cup JobOwners : c[1] \in JobTables
  BY DEF Cols, InitialTables, JsonbContent, SeedUrls, JobOwners, JobTables
<1>2. \A c \in UsersTable \cup UserNames : c[1] = "users"
  BY DEF Cols, UsersTable, UserNames
<1>3. \A c \in SettingsTables \cup SettingsOwners : c[1] \in SettingTables
  BY DEF Cols, SettingsTables, SettingsOwners, SettingTables
<1>4. \A c \in SessionsTable : c[1] = "refresh_sessions"
  BY DEF Cols, SessionsTable
<1> QED  BY <1>1, <1>2, <1>3, <1>4

LEMMA TablesApart ==
    /\ "users" \notin JobTables \cup SettingTables
    /\ "refresh_sessions" \notin JobTables \cup SettingTables
    /\ "refresh_sessions" # "users"
    /\ JobTables \cap SettingTables = {}
BY DEF JobTables, SettingTables

(* Each downgrade is written out on its own, and undoes its upgrade.        *)
LEMMA ColumnsUndone ==
    ASSUME NEW s
    PROVE  /\ Undo0003(s) = s \ UserNames
           /\ Undo0005(s) = (s \ JsonbContent) \cup TextContent
           /\ Undo0006(s) = s \ SeedUrls
           /\ Undo0007(s) = s \ JobOwners
           /\ Undo0008(s) = (s \ SettingsOwners) \cup SharedSettings
<1>1. UserNames = Cols("users", {"check user_type", "name"})
  BY DEF UserNames
<1>2. SharedSettings = Cols("provider_api_keys", {"key provider"})
                         \cup Cols("crawl_settings_templates", {"unique name"})
  BY DEF SharedSettings
<1>3. SettingsOwners = Cols("provider_api_keys", {"user_id>users", "key user_id, provider"})
        \cup Cols("crawl_settings_templates", {"user_id>users", "unique user_id, name"})
  BY DEF SettingsOwners
<1>4. Undo0008(s) = (s \ SettingsOwners) \cup SharedSettings
  BY <1>2, <1>3 DEF Undo0008
<1> QED  BY <1>1, <1>4 DEF Undo0003, Undo0005, Undo0006, Undo0007, JsonbContent, TextContent,
             SeedUrls, JobOwners

(* ... and so does a downgrade: undoing a revision restores what was there. *)
LEMMA UndoneRestores ==
    ASSUME NEW r \in 1 .. Head
    PROVE  Undone(r, SchemaAt[r]) = SchemaAt[r - 1]
<1>1. r \in {1, 2, 3, 4, 5, 6, 7, 8, 9}  BY DEF Head
<1>2. \A c \in SchemaAt[1] : c[1] \in JobTables  BY SchemaAtEach, TablesOf
<1>3. \A c \in SchemaAt[3] : c[1] \in JobTables \/ c[1] = "users"
  BY <1>2, SchemaAtEach, TablesOf
<1>4. \A c \in SchemaAt[8] : c[1] \in JobTables \cup SettingTables \/ c[1] = "users"
  BY <1>3, SchemaAtEach, TablesOf, DropsKnown
<1>5. Drops(5) = TextContent /\ Drops(8) = SharedSettings
  BY DEF Drops
<1>6. CASE r = 1
  <2>1. Undo0001(SchemaAt[1]) = DropTables(SchemaAt[1], JobTables)  BY DEF Undo0001, JobTables
  <2>2. Undone(1, SchemaAt[1]) = Undo0001(SchemaAt[1])  BY DEF Undone
  <2>3. DropTables(SchemaAt[1], JobTables) = {}  BY <1>2 DEF DropTables
  <2>4. Undone(1, SchemaAt[1]) = SchemaAt[0]
    BY <2>1, <2>2, <2>3, SchemaAtEach
  <2>5. r - 1 = 0 /\ r = 1  BY <1>6
  <2> QED  BY <2>4, <2>5, Zenon
<1>7. CASE r = 2
  <2>1. \A c \in SchemaAt[1] : c[1] # "users"  BY <1>2, TablesApart
  <2>2. \A c \in UsersTable : c[1] = "users"  BY TablesOf
  <2>3. DropTables(SchemaAt[1] \cup UsersTable, {"users"}) = SchemaAt[1]
    BY <2>1, <2>2 DEF DropTables
  <2>4. Undone(2, SchemaAt[2]) = DropTables(SchemaAt[2], {"users"})  BY DEF Undone, Undo0002
  <2>5. Undone(2, SchemaAt[2]) = SchemaAt[1]
    BY <2>3, <2>4, SchemaAtEach
  <2>6. r - 1 = 1 /\ r = 2  BY <1>7
  <2> QED  BY <2>5, <2>6, Zenon
<1>8. CASE r = 3
  <2>1. Undone(3, SchemaAt[3]) = SchemaAt[3] \ UserNames  BY ColumnsUndone DEF Undone
  <2>2. UserNames \cap SchemaAt[2] = {}  BY <1>8, AddsAndDrops DEF Adds
  <2>3. Undone(3, SchemaAt[3]) = SchemaAt[2]
    BY <2>1, <2>2, SchemaAtEach
  <2>4. r - 1 = 2 /\ r = 3  BY <1>8
  <2> QED  BY <2>3, <2>4, Zenon
<1>9. CASE r = 4
  <2>1. \A c \in SchemaAt[3] : c[1] \notin SettingTables  BY <1>3, TablesApart
  <2>2. \A c \in SettingsTables : c[1] \in SettingTables  BY TablesOf
  <2>3. DropTables(SchemaAt[3] \cup SettingsTables, SettingTables) = SchemaAt[3]
    BY <2>1, <2>2 DEF DropTables
  <2>4. Undone(4, SchemaAt[4]) = Undo0004(SchemaAt[4])  BY DEF Undone
  <2>5. Undo0004(SchemaAt[4]) = DropTables(SchemaAt[4], SettingTables)
    BY DEF Undo0004, SettingTables
  <2>6. Undone(4, SchemaAt[4]) = SchemaAt[3]
    BY <2>3, <2>4, <2>5, SchemaAtEach
  <2>7. r - 1 = 3 /\ r = 4  BY <1>9
  <2> QED  BY <2>6, <2>7, Zenon
<1>10. CASE r = 5
  <2>1. Undone(5, SchemaAt[5]) = (SchemaAt[5] \ JsonbContent) \cup TextContent
    BY ColumnsUndone DEF Undone
  <2>2. JsonbContent \cap SchemaAt[4] = {} /\ TextContent \subseteq SchemaAt[4]
    BY <1>5, <1>10, AddsAndDrops DEF Adds
  <2>3. Undone(5, SchemaAt[5]) = SchemaAt[4]
    BY <2>1, <2>2, SchemaAtEach
  <2>4. r - 1 = 4 /\ r = 5  BY <1>10
  <2> QED  BY <2>3, <2>4, Zenon
<1>11. CASE r = 6
  <2>1. Undone(6, SchemaAt[6]) = SchemaAt[6] \ SeedUrls  BY ColumnsUndone DEF Undone
  <2>2. SeedUrls \cap SchemaAt[5] = {}  BY <1>11, AddsAndDrops DEF Adds
  <2>3. Undone(6, SchemaAt[6]) = SchemaAt[5]
    BY <2>1, <2>2, SchemaAtEach
  <2>4. r - 1 = 5 /\ r = 6  BY <1>11
  <2> QED  BY <2>3, <2>4, Zenon
<1>12. CASE r = 7
  <2>1. Undone(7, SchemaAt[7]) = SchemaAt[7] \ JobOwners  BY ColumnsUndone DEF Undone
  <2>2. JobOwners \cap SchemaAt[6] = {}  BY <1>12, AddsAndDrops DEF Adds
  <2>3. Undone(7, SchemaAt[7]) = SchemaAt[6]
    BY <2>1, <2>2, SchemaAtEach
  <2>4. r - 1 = 6 /\ r = 7  BY <1>12
  <2> QED  BY <2>3, <2>4, Zenon
<1>13. CASE r = 8
  <2>1. Undone(8, SchemaAt[8]) = (SchemaAt[8] \ SettingsOwners) \cup SharedSettings
    BY ColumnsUndone DEF Undone
  <2>2. SettingsOwners \cap SchemaAt[7] = {} /\ SharedSettings \subseteq SchemaAt[7]
    BY <1>5, <1>13, AddsAndDrops DEF Adds
  <2>3. Undone(8, SchemaAt[8]) = SchemaAt[7]
    BY <2>1, <2>2, SchemaAtEach
  <2>4. r - 1 = 7 /\ r = 8  BY <1>13
  <2> QED  BY <2>3, <2>4, Zenon
<1>14. CASE r = 9
  <2>1. \A c \in SchemaAt[8] : c[1] # "refresh_sessions"  BY <1>4, TablesApart
  <2>2. \A c \in SessionsTable : c[1] = "refresh_sessions"  BY TablesOf
  <2>3. DropTables(SchemaAt[8] \cup SessionsTable, {"refresh_sessions"}) = SchemaAt[8]
    BY <2>1, <2>2 DEF DropTables
  <2>4. Undone(9, SchemaAt[9]) = DropTables(SchemaAt[9], {"refresh_sessions"})
    BY DEF Undone, Undo0009
  <2>5. Undone(9, SchemaAt[9]) = SchemaAt[8]
    BY <2>3, <2>4, SchemaAtEach
  <2>6. r - 1 = 8 /\ r = 9  BY <1>14
  <2> QED  BY <2>5, <2>6, Zenon
<1> QED
  BY <1>1, <1>6, <1>7, <1>8, <1>9, <1>10, <1>11, <1>12, <1>13, <1>14

LEMMA DowngradeSchema ==
    ASSUME rev \in 0 .. Head, NEW n \in 0 .. Head, schema = SchemaAt[rev], Downgrade(n)
    PROVE  schema' = SchemaAt[rev']
<1> DEFINE E(f) == f = [i \in 0 .. rev - n |-> IF i = 0 THEN schema
                                            ELSE Undone(rev - i + 1, f[i - 1])]
           g == [i \in 0 .. rev - n |-> SchemaAt[rev - i]]
           undone == CHOOSE f : E(f)
           T == {i \in 0 .. rev - n : undone[i] = SchemaAt[rev - i]}
<1>1. n < rev /\ rev' = n /\ schema' = undone[rev - n] /\ rev - (rev - n) = n
  BY DEF Downgrade, Head
<1>2. ASSUME NEW i \in 0 .. rev - n, i # 0
      PROVE  /\ i - 1 \in 0 .. rev - n /\ rev - i + 1 \in 1 .. Head
             /\ rev - (i - 1) = rev - i + 1 /\ (rev - i + 1) - 1 = rev - i
  BY <1>2 DEF Head
<1>a. ASSUME NEW i \in 0 .. rev - n, i # 0
      PROVE  Undone(rev - i + 1, SchemaAt[rev - (i - 1)]) = SchemaAt[rev - i]
  BY <1>2, <1>a, UndoneRestores
<1>3. E(g)
  <2>1. ASSUME NEW i \in 0 .. rev - n, i # 0
        PROVE  SchemaAt[rev - i] = Undone(rev - i + 1, g[i - 1])
    <3>1. g[i - 1] = SchemaAt[rev - (i - 1)]  BY <1>2, <2>1
    <3> QED  BY <1>a, <2>1, <3>1
  <2>2. rev - 0 = rev  BY DEF Head
  <2> QED  BY <2>1, <2>2
<1> HIDE DEF g
<1>4. E(undone)  BY <1>3
<1> HIDE DEF undone
<1>5. 0 \in T
  <2>1. 0 \in 0 .. rev - n /\ rev - 0 = rev  BY <1>1 DEF Head
  <2> QED  BY <1>4, <2>1
<1>6. ASSUME NEW i \in 0 .. (rev - n) - 1, i \in T PROVE i + 1 \in T
  <2>1. i + 1 \in 0 .. rev - n /\ i + 1 # 0 /\ (i + 1) - 1 = i  BY DEF Head
  <2>2. undone[i + 1] = Undone(rev - (i + 1) + 1, undone[i])  BY <1>4, <2>1
  <2>3. undone[i] = SchemaAt[rev - i]  BY <1>6
  <2> QED  BY <1>a, <2>1, <2>2, <2>3
<1>7. rev - n \in 0 .. rev - n /\ 0 \in Int /\ rev - n \in Int  BY <1>1 DEF Head
<1>8. rev - n \in T
  <2> HIDE DEF T
  <2> QED  BY <1>5, <1>6, <1>7, UpTo
<1> QED  BY <1>1, <1>8

LEMMA SchemaFollows ==
    SchemaFollowsRevision <=> /\ schema = SchemaAt[rev]
                              /\ rev = Head => schema = Models \cup Cols("users", {"check user_type"})
BY DEF SchemaFollowsRevision, SchemaAt

(* --- the rows -------------------------------------------------------------- *)
(* What holds of the rows at a revision: TypeOK, OwnersKnown and            *)
(* WrappedOnce, of any revision and any rows, since a command passes        *)
(* through revisions where no state stops.                                  *)
Fit(r, rs) ==
    /\ rs \in Rows
    /\ r < 1 => rs.jobs = {}
    /\ r < 2 => rs.users = {}
    /\ r < 4 => rs.templates = {} /\ rs.keys = {}
    /\ r < 9 => rs.sessions = {}
    /\ r >= 7 => \A x \in rs.jobs : x.owner \in rs.users
    /\ r >= 8 => \A x \in rs.templates \cup rs.keys : x.owner \in rs.users
    /\ rs.sessions \subseteq rs.users
    /\ \A j \in rs.jobs :
         /\ j.content.wraps <= IF j.content.kind = "plain" THEN 1 ELSE 0
         /\ j.content.kind = "plain" /\ r >= 5 => j.content.wraps = 1

LEMMA FitsNow == rev \in 0 .. Head /\ Fit(rev, rows) <=> TypeOK /\ OwnersKnown /\ WrappedOnce
BY DEF Fit, TypeOK, OwnersKnown, WrappedOnce

(* The same jobs and the same rows in the other tables.                     *)
Kept(rs, new) ==
    /\ {j.id : j \in new.jobs} = {j.id : j \in rs.jobs}
    /\ [new EXCEPT !.jobs = {}] = [rs EXCEPT !.jobs = {}]

Content == [kind : Kinds, wraps : Nat]
JobRows == [id : JobIds, owner : Owner, content : Content]

LEMMA RowsAre ==
    ASSUME NEW rs \in Rows
    PROVE  /\ rs.users \in SUBSET Users /\ rs.jobs \in SUBSET JobRows
           /\ rs.templates \in SUBSET [owner : Owner, name : Names]
           /\ rs.keys \in SUBSET [owner : Owner, provider : Providers]
           /\ rs.sessions \in SUBSET Users
           /\ rs = [users |-> rs.users, jobs |-> rs.jobs, templates |-> rs.templates,
                    keys |-> rs.keys, sessions |-> rs.sessions]
BY DEF Rows, JobRows, Content

LEMMA UpRowsKeep ==
    ASSUME NEW rs \in Rows, NEW r \in 1 .. Head
    PROVE  /\ UpRows(r, rs) \in Rows
           /\ Kept(rs, UpRows(r, rs))
           /\ UpRows(r, rs).jobs = IF r = 5 THEN {[j EXCEPT !.content = ToJsonb(@)] : j \in rs.jobs}
                                   ELSE rs.jobs
<1> DEFINE conv == {[j EXCEPT !.content = ToJsonb(@)] : j \in rs.jobs}
<1>1. ASSUME NEW j \in JobRows
      PROVE  [j EXCEPT !.content = ToJsonb(@)] \in JobRows /\ [j EXCEPT !.content = ToJsonb(@)].id = j.id
  BY DEF JobRows, Content, ToJsonb
<1>2. rs.jobs \subseteq JobRows  BY RowsAre
<1>3. conv \subseteq JobRows /\ {j.id : j \in conv} = {j.id : j \in rs.jobs}
  BY <1>1, <1>2
<1> HIDE DEF conv
<1>4. CASE r = 5
  <2>1. UpRows(r, rs) = [rs EXCEPT !.jobs = conv]  BY <1>4 DEF UpRows, conv
  <2> QED  BY <1>3, <1>4, <2>1 DEF Rows, JobRows, Content, Kept, conv
<1>5. CASE r # 5
  BY <1>5 DEF UpRows, Kept
<1> QED  BY <1>4, <1>5

LEMMA UpFits ==
    ASSUME NEW r \in 1 .. Head, NEW rs, Fit(r - 1, rs), ~UpFails(r, rs)
    PROVE  Fit(r, UpRows(r, rs))
<1> DEFINE new == UpRows(r, rs)
<1>1. rs \in Rows /\ new \in Rows  BY UpRowsKeep DEF Fit
<1>2. /\ new.users = rs.users /\ new.templates = rs.templates
      /\ new.keys = rs.keys /\ new.sessions = rs.sessions
  BY <1>1 DEF UpRows, Rows
<1>3. rs.jobs \subseteq JobRows  BY <1>1, RowsAre
<1>4. new.jobs = IF r = 5 THEN {[j EXCEPT !.content = ToJsonb(@)] : j \in rs.jobs}
                 ELSE rs.jobs
  BY <1>1, UpRowsKeep
<1>5. r \in Int /\ r - 1 \in Int /\ r >= 1  BY DEF Head
<1> HIDE DEF new
<1>6. /\ r < 1 => new.jobs = {}
      /\ r < 2 => new.users = {}
      /\ r < 4 => new.templates = {} /\ new.keys = {}
      /\ r < 9 => new.sessions = {}
      /\ new.sessions \subseteq new.users
  BY <1>2, <1>5 DEF Fit
<1>7. r >= 7 => \A x \in new.jobs : x.owner \in new.users
  <2>1. CASE r = 7  BY <1>4, <2>1 DEF UpFails
  <2>2. CASE r >= 8  BY <1>2, <1>4, <2>2 DEF Fit
  <2> QED  BY <1>5, <2>1, <2>2
<1>8. r >= 8 => \A x \in new.templates \cup new.keys : x.owner \in new.users
  <2>1. CASE r = 8  BY <1>2, <2>1 DEF UpFails
  <2>2. CASE r >= 9  BY <1>2, <2>2 DEF Fit
  <2> QED  BY <1>5, <2>1, <2>2
<1>9. ASSUME NEW j \in new.jobs
      PROVE  /\ j.content.wraps <= IF j.content.kind = "plain" THEN 1 ELSE 0
             /\ j.content.kind = "plain" /\ r >= 5 => j.content.wraps = 1
  <2>1. CASE r = 5
    <3>1. PICK k \in rs.jobs : j = [k EXCEPT !.content = ToJsonb(@)]  BY <1>4, <2>1
    <3>2. k \in JobRows /\ j.content = ToJsonb(k.content) /\ k.content \in Content
      BY <1>3, <3>1 DEF JobRows
    <3>3. k.content.wraps \in Nat /\ k.content.wraps <= IF k.content.kind = "plain" THEN 1 ELSE 0
      BY <3>2 DEF Fit, Content
    <3> QED  BY <3>2, <3>3 DEF ToJsonb, Content
  <2>2. CASE r # 5  BY <1>4, <1>5, <2>2 DEF Fit
  <2> QED  BY <2>1, <2>2
<1> QED  BY <1>1, <1>6, <1>7, <1>8, <1>9 DEF Fit, new

LEMMA DisownedIsSet ==
    /\ \A S \in SUBSET JobRows : Disowned(S) \in SUBSET JobRows
    /\ \A S \in SUBSET [owner : Owner, name : Names] : Disowned(S) \in SUBSET [owner : Owner, name : Names]
    /\ \A S \in SUBSET [owner : Owner, provider : Providers] :
          Disowned(S) \in SUBSET [owner : Owner, provider : Providers]
BY DEF Disowned, JobRows, Owner

LEMMA DownFits ==
    ASSUME NEW r \in 1 .. Head, NEW rs, Fit(r, rs)
    PROVE  Fit(r - 1, DownRows(r, rs))
<1> DEFINE new == DownRows(r, rs)
<1>1. r \in {1, 2, 3, 4, 5, 6, 7, 8, 9}  BY DEF Head
<1>2. rs \in Rows /\ rs.jobs \subseteq JobRows  BY RowsAre DEF Fit
<1>3. /\ Disowned(rs.jobs) \in SUBSET JobRows
      /\ Disowned(rs.templates) \in SUBSET [owner : Owner, name : Names]
      /\ Disowned(rs.keys) \in SUBSET [owner : Owner, provider : Providers]
  BY <1>2, RowsAre, DisownedIsSet
<1>4. new \in Rows
  BY <1>2, <1>3, <1>1 DEF Rows, DownRows, JobRows, Content
<1>5. /\ new.jobs = IF r = 1 THEN {} ELSE IF r = 7 THEN Disowned(rs.jobs) ELSE rs.jobs
      /\ new.users = IF r = 2 THEN {} ELSE rs.users
      /\ new.templates = IF r = 4 THEN {} ELSE IF r = 8 THEN Disowned(rs.templates) ELSE rs.templates
      /\ new.keys = IF r = 4 THEN {} ELSE IF r = 8 THEN Disowned(rs.keys) ELSE rs.keys
      /\ new.sessions = IF r = 9 THEN {} ELSE rs.sessions
  BY <1>1, <1>2 DEF DownRows, Rows
<1> HIDE DEF new
<1>6. /\ r - 1 < 1 => new.jobs = {}
      /\ r - 1 < 2 => new.users = {}
      /\ r - 1 < 4 => new.templates = {} /\ new.keys = {}
      /\ r - 1 < 9 => new.sessions = {}
  <2>1. CASE r = 8
    BY <1>5, <2>1 DEF Fit
  <2>2. CASE r # 8
    BY <1>1, <1>5, <2>2 DEF Fit
  <2> QED  BY <2>1, <2>2
<1>7. r - 1 >= 7 => \A x \in new.jobs : x.owner \in new.users
  BY <1>1, <1>5 DEF Fit
<1>8. r - 1 >= 8 => \A x \in new.templates \cup new.keys : x.owner \in new.users
  BY <1>1, <1>5 DEF Fit
<1>9. new.sessions \subseteq new.users
  BY <1>1, <1>5 DEF Fit
<1>10. ASSUME NEW j \in new.jobs
       PROVE  /\ j.content.wraps <= IF j.content.kind = "plain" THEN 1 ELSE 0
              /\ j.content.kind = "plain" /\ r - 1 >= 5 => j.content.wraps = 1
  <2>1. CASE r = 7
    <3>1. PICK k \in rs.jobs : j = [k EXCEPT !.owner = Nothing]  BY <1>5, <2>1 DEF Disowned
    <3>2. j.content = k.content  BY <1>2, <3>1 DEF JobRows
    <3> QED  BY <2>1, <3>2 DEF Fit
  <2>2. CASE r # 7  BY <1>1, <1>5, <2>2 DEF Fit
  <2> QED  BY <2>1, <2>2
<1> QED  BY <1>4, <1>6, <1>7, <1>8, <1>9, <1>10 DEF Fit, new

(* --- the commands ---------------------------------------------------------- *)
(* An upgrade that does not fail passes through rows that fit each revision. *)
LEMMA UpgradedIs ==
    ASSUME rev \in 0 .. Head, Fit(rev, rows), NEW n \in rev + 1 .. Head
    PROVE  Upgraded(n) # Failed => Fit(n, Upgraded(n)) /\ Kept(rows, Upgraded(n))
<1> DEFINE E(f) == f = [r \in rev .. n |->
                          IF r = rev THEN rows
                          ELSE IF f[r - 1] = Failed \/ UpFails(r, f[r - 1]) THEN Failed
                          ELSE UpRows(r, f[r - 1])]
           V == Rows \cup {Failed}
           step == [p \in V \X (rev + 1 .. n) |->
                      IF p[1] = Failed \/ UpFails(p[2], p[1]) THEN Failed ELSE UpRows(p[2], p[1])]
           after == CHOOSE f : E(f)
           Good(r) == after[r] # Failed => Fit(r, after[r]) /\ Kept(rows, after[r])
           T == {r \in rev .. n : Good(r)}
<1>1. /\ Upgraded(n) = after[n] /\ rev \in Int /\ n \in Int /\ rev < n
      /\ n \in rev .. n /\ rev \in rev .. n
  BY DEF Upgraded, Head
<1>2. ASSUME NEW r \in rev .. n, r # rev
      PROVE  r \in 1 .. Head /\ r - 1 \in rev .. n /\ r \in rev + 1 .. n
  BY <1>2 DEF Head
<1>3. \E g : E(g)
  <2>1. ASSUME NEW v \in V, NEW r \in rev + 1 .. n
        PROVE  (IF v = Failed \/ UpFails(r, v) THEN Failed ELSE UpRows(r, v)) \in V
    <3>1. r \in 1 .. Head  BY DEF Head
    <3> QED  BY <3>1, UpRowsKeep
  <2>2. step \in [V \X (rev + 1 .. n) -> V]
    <3> HIDE DEF V
    <3> QED  BY <2>1
  <2>3. rows \in V /\ rev \in Int /\ n \in Int /\ rev <= n  BY <1>1 DEF Fit
  <2>4. PICK g \in [rev .. n -> V] : Unfolds(g, rows, rev, n, step)
    <3> HIDE DEF V, step
    <3> QED  BY <2>2, <2>3, Recursion
  <2>5. ASSUME NEW r \in rev .. n, r # rev
        PROVE  step[g[r - 1], r] = IF g[r - 1] = Failed \/ UpFails(r, g[r - 1]) THEN Failed
                                   ELSE UpRows(r, g[r - 1])
    <3>1. <<g[r - 1], r>> \in V \X (rev + 1 .. n)  BY <1>2, <2>5
    <3> HIDE DEF V
    <3> QED  BY <3>1
  <2> HIDE DEF step
  <2>6. E(g)  BY <2>4, <2>5 DEF Unfolds
  <2> QED  BY <2>6
<1>4. E(after)  BY <1>3
<1> HIDE DEF after
<1>5. rev \in T
  <2>1. after[rev] = rows  BY <1>1, <1>4
  <2> QED  BY <1>1, <2>1 DEF Kept
<1>6. ASSUME NEW r \in rev .. n - 1, r \in T PROVE r + 1 \in T
  <2>1. r + 1 \in rev .. n /\ r + 1 # rev /\ (r + 1) - 1 = r /\ r + 1 \in 1 .. Head
    BY <1>2
  <2>2. after[r + 1] = IF after[r] = Failed \/ UpFails(r + 1, after[r]) THEN Failed
                       ELSE UpRows(r + 1, after[r])
    BY <1>4, <2>1
  <2>3. CASE after[r] = Failed
    BY <2>1, <2>2, <2>3
  <2>4. CASE after[r] # Failed
    <3>1. Fit(r, after[r]) /\ Kept(rows, after[r])  BY <1>6, <2>4
    <3>2. ~UpFails(r + 1, after[r]) => /\ Fit(r + 1, UpRows(r + 1, after[r]))
                                       /\ Kept(after[r], UpRows(r + 1, after[r]))
      <4>1. Fit((r + 1) - 1, after[r]) /\ after[r] \in Rows  BY <2>1, <3>1 DEF Fit
      <4> QED  BY <2>1, <4>1, UpFits, UpRowsKeep
    <3>3. ~UpFails(r + 1, after[r]) => Kept(rows, UpRows(r + 1, after[r]))
      BY <3>1, <3>2 DEF Kept
    <3> QED  BY <2>1, <2>2, <2>4, <3>2, <3>3
  <2> QED  BY <2>3, <2>4
<1>8. n \in T
  <2> HIDE DEF T
  <2> QED  BY <1>1, <1>5, <1>6, UpTo
<1> QED  BY <1>1, <1>8

LEMMA DownRowsType ==
    ASSUME NEW r \in 1 .. Head, NEW rs \in Rows
    PROVE  DownRows(r, rs) \in Rows
<1>1. /\ Disowned(rs.jobs) \in SUBSET JobRows
      /\ Disowned(rs.templates) \in SUBSET [owner : Owner, name : Names]
      /\ Disowned(rs.keys) \in SUBSET [owner : Owner, provider : Providers]
  BY RowsAre, DisownedIsSet
<1> QED  BY <1>1 DEF Rows, DownRows, JobRows, Content

(* The step of DowngradesLoseOnlyOwners, down to revision r.                *)
KeptDown(r, rs, new) ==
    /\ r >= 1 => Disowned(new.jobs) = Disowned(rs.jobs)
    /\ r >= 2 => new.users = rs.users
    /\ r >= 4 => SameUnowned(new.templates, rs.templates) /\ SameUnowned(new.keys, rs.keys)
    /\ r >= 7 => new.jobs = rs.jobs
    /\ r >= 8 => new.templates = rs.templates /\ new.keys = rs.keys

LEMMA DisownedTwice ==
    ASSUME NEW S, \A x \in S : x = [x EXCEPT !.owner = x.owner]
    PROVE  Disowned(Disowned(S)) = Disowned(S)
<1> DEFINE D(x) == [x EXCEPT !.owner = Nothing]
<1>1. \A x \in S : D(D(x)) = D(x)  OBVIOUS
<1>2. Disowned(Disowned(S)) = {D(x) : x \in {D(x) : x \in S}}  BY DEF Disowned
<1>3. Disowned(S) = {D(x) : x \in S}  BY DEF Disowned
<1> HIDE DEF D
<1> QED  BY <1>1, <1>2, <1>3

LEMMA UnownedSame ==
    ASSUME NEW rs \in Rows
    PROVE  /\ Disowned(Disowned(rs.jobs)) = Disowned(rs.jobs)
           /\ ~Clash(rs.templates) => SameUnowned(Disowned(rs.templates), rs.templates)
           /\ ~Clash(rs.keys) => SameUnowned(Disowned(rs.keys), rs.keys)
<1>1. \A x \in rs.jobs \cup rs.templates \cup rs.keys : x = [x EXCEPT !.owner = x.owner]
  BY RowsAre DEF JobRows
<1>2. /\ Disowned(Disowned(rs.jobs)) = Disowned(rs.jobs)
      /\ Disowned(Disowned(rs.templates)) = Disowned(rs.templates)
      /\ Disowned(Disowned(rs.keys)) = Disowned(rs.keys)
  BY <1>1, DisownedTwice
<1> QED  BY <1>2 DEF SameUnowned, Clash

LEMMA DownRowsKeep ==
    ASSUME NEW r \in 1 .. Head, NEW rs \in Rows, ~DownFails(r, rs)
    PROVE  KeptDown(r - 1, rs, DownRows(r, rs))
<1> DEFINE new == DownRows(r, rs)
<1>1. r \in {1, 2, 3, 4, 5, 6, 7, 8, 9}  BY DEF Head
<1>2. /\ new.jobs = IF r = 1 THEN {} ELSE IF r = 7 THEN Disowned(rs.jobs) ELSE rs.jobs
      /\ new.users = IF r = 2 THEN {} ELSE rs.users
      /\ new.templates = IF r = 4 THEN {} ELSE IF r = 8 THEN Disowned(rs.templates) ELSE rs.templates
      /\ new.keys = IF r = 4 THEN {} ELSE IF r = 8 THEN Disowned(rs.keys) ELSE rs.keys
  BY <1>1 DEF DownRows, Rows
<1> HIDE DEF new
<1>3. r = 8 => SameUnowned(new.templates, rs.templates) /\ SameUnowned(new.keys, rs.keys)
  BY <1>2, UnownedSame DEF DownFails
<1>4. r > 4 => SameUnowned(new.templates, rs.templates) /\ SameUnowned(new.keys, rs.keys)
  <2>1. r # 4 /\ r # 8 => new.templates = rs.templates /\ new.keys = rs.keys  BY <1>2
  <2> QED  BY <1>1, <1>3, <2>1 DEF SameUnowned
<1>5. r > 1 => Disowned(new.jobs) = Disowned(rs.jobs)
  BY <1>2, UnownedSame
<1> QED  BY <1>1, <1>2, <1>4, <1>5 DEF KeptDown, new

LEMMA KeptDownAgain ==
    ASSUME NEW r \in 1 .. Head, NEW a, NEW b, NEW c, KeptDown(r, a, b), KeptDown(r - 1, b, c)
    PROVE  KeptDown(r - 1, a, c)
BY DEF KeptDown, SameUnowned, Head

(* A downgrade that does not fail passes through rows that fit too, and     *)
(* loses nothing but owners and tables.                                     *)
LEMMA DowngradedFits ==
    ASSUME rev \in 0 .. Head, Fit(rev, rows), NEW n \in 0 .. rev - 1
    PROVE  Downgraded(n) # Failed =>
             Fit(n, Downgraded(n)) /\ KeptDown(n, rows, Downgraded(n))
<1> DEFINE E(f) == f = [i \in 0 .. rev - n |->
                          IF i = 0 THEN rows
                          ELSE IF f[i - 1] = Failed \/ DownFails(rev - i + 1, f[i - 1]) THEN Failed
                          ELSE DownRows(rev - i + 1, f[i - 1])]
           V == Rows \cup {Failed}
           step == [p \in V \X (0 + 1 .. rev - n) |->
                      IF p[1] = Failed \/ DownFails(rev - p[2] + 1, p[1]) THEN Failed
                      ELSE DownRows(rev - p[2] + 1, p[1])]
           undone == CHOOSE f : E(f)
           Good(i) == undone[i] # Failed => /\ Fit(rev - i, undone[i])
                                            /\ KeptDown(rev - i, rows, undone[i])
           T == {i \in 0 .. rev - n : Good(i)}
<1>1. Downgraded(n) = undone[rev - n]  BY DEF Downgraded
<1>2. /\ rev - n \in Int /\ 0 <= rev - n /\ rev - (rev - n) = n
      /\ rev - n \in 0 .. rev - n /\ 0 \in 0 .. rev - n /\ rev - 0 = rev
  BY DEF Head
<1>3. ASSUME NEW i \in 0 .. rev - n, i # 0
      PROVE  /\ i \in 0 + 1 .. rev - n /\ i - 1 \in 0 .. rev - n
             /\ rev - i + 1 \in 1 .. Head /\ (rev - i + 1) - 1 = rev - i
             /\ rev - (i - 1) = rev - i + 1
  BY <1>3 DEF Head
<1>4. \E g : E(g)
  <2>1. ASSUME NEW v \in V, NEW i \in 0 + 1 .. rev - n
        PROVE  (IF v = Failed \/ DownFails(rev - i + 1, v) THEN Failed
                ELSE DownRows(rev - i + 1, v)) \in V
    <3>1. rev - i + 1 \in 1 .. Head  BY DEF Head
    <3> QED  BY <3>1, DownRowsType
  <2>2. step \in [V \X (0 + 1 .. rev - n) -> V]
    <3> HIDE DEF V
    <3> QED  BY <2>1
  <2> DEFINE a == 0
             b == rev - n
  <2>3. rows \in V /\ a \in Int /\ b \in Int /\ a <= b  BY <1>2 DEF Fit
  <2>4. step \in [V \X (a + 1 .. b) -> V]  BY <2>2
  <2>5. PICK g \in [a .. b -> V] : Unfolds(g, rows, a, b, step)
    <3> HIDE DEF V, step, a, b
    <3> QED  BY <2>3, <2>4, Recursion
  <2>6. ASSUME NEW i \in 0 .. rev - n, i # 0
        PROVE  step[g[i - 1], i] =
                 IF g[i - 1] = Failed \/ DownFails(rev - i + 1, g[i - 1]) THEN Failed
                 ELSE DownRows(rev - i + 1, g[i - 1])
    <3>1. <<g[i - 1], i>> \in V \X (0 + 1 .. rev - n)  BY <1>3, <2>6
    <3> HIDE DEF V
    <3> QED  BY <3>1
  <2> HIDE DEF step
  <2>7. E(g)  BY <2>5, <2>6 DEF Unfolds
  <2> QED  BY <2>7
<1>5. E(undone)  BY <1>4
<1> HIDE DEF undone
<1>6. 0 \in T
  BY <1>2, <1>5 DEF KeptDown, SameUnowned
<1>7. ASSUME NEW i \in 0 .. (rev - n) - 1, i \in T PROVE i + 1 \in T
  <2>1. i + 1 \in 0 .. rev - n /\ i + 1 # 0 /\ (i + 1) - 1 = i  BY <1>2
  <2>2. /\ rev - (i + 1) + 1 = rev - i /\ rev - i \in 1 .. Head
        /\ rev - (i + 1) = (rev - i) - 1
    BY <1>2 DEF Head
  <2>3. undone[i + 1] = IF undone[i] = Failed \/ DownFails(rev - i, undone[i]) THEN Failed
                        ELSE DownRows(rev - i, undone[i])
    BY <1>5, <2>1, <2>2
  <2>4. undone[i + 1] # Failed => Fit(rev - (i + 1), undone[i + 1])
    BY <1>7, <2>2, <2>3, DownFits
  <2>5. undone[i + 1] # Failed => KeptDown(rev - (i + 1), rows, undone[i + 1])
    <3>1. SUFFICES ASSUME undone[i + 1] # Failed
                   PROVE  KeptDown(rev - (i + 1), rows, undone[i + 1])
      OBVIOUS
    <3>2. /\ undone[i] # Failed /\ ~DownFails(rev - i, undone[i])
          /\ undone[i + 1] = DownRows(rev - i, undone[i])
      BY <2>3, <3>1
    <3>3. undone[i] \in Rows /\ KeptDown(rev - i, rows, undone[i])
      BY <1>7, <3>2 DEF Fit
    <3>4. KeptDown((rev - i) - 1, undone[i], undone[i + 1])
      BY <2>2, <3>2, <3>3, DownRowsKeep
    <3> QED  BY <2>2, <3>3, <3>4, KeptDownAgain
  <2> QED  BY <2>1, <2>4, <2>5
<1>8. rev - n \in T
  <2> DEFINE a == 0
             b == rev - n
  <2>1. a \in Int /\ b \in Int /\ a \in T /\ b \in a .. b  BY <1>2, <1>6
  <2>2. \A i \in a .. b - 1 : i \in T => i + 1 \in T  BY <1>7
  <2>3. b \in T
    <3> HIDE DEF T, a, b
    <3> QED  BY <2>1, <2>2, UpTo
  <2> QED  BY <2>3
<1> QED  BY <1>1, <1>2, <1>8

(* --- the steps ------------------------------------------------------------- *)
IInv == /\ TypeOK /\ OwnersKnown /\ WrappedOnce
        /\ schema = SchemaAt[rev]

LEMMA InitIInv == Init => IInv
<1> SUFFICES ASSUME Init PROVE IInv  OBVIOUS
<1>1. Empty \in Rows  BY DEF Empty, Rows
<1> QED  BY <1>1, SchemaAtSteps DEF Init, IInv, TypeOK, OwnersKnown, WrappedOnce, Empty, Head

(* A write changes one table.                                               *)
LEMMA WriteFits ==
    ASSUME rev \in 0 .. Head, Fit(rev, rows), NEW rs, Write(rs), Fit(rev, rs),
           schema = SchemaAt[rev]
    PROVE  IInv'
<1>1. rows' = rs /\ rev' = rev /\ schema' = schema  BY DEF Write
<1>2. Fit(rev', rows') /\ rev' \in 0 .. Head  BY <1>1
<1>3. (TypeOK /\ OwnersKnown /\ WrappedOnce)'
  BY <1>2 DEF Fit, TypeOK, OwnersKnown, WrappedOnce
<1> QED  BY <1>1, <1>3 DEF IInv

LEMMA NextIInv == IInv /\ [Next]_vars => IInv'
<1> SUFFICES ASSUME IInv, [Next]_vars PROVE IInv'  OBVIOUS
<1>1. rev \in 0 .. Head /\ Fit(rev, rows) /\ schema = SchemaAt[rev] /\ rows \in Rows
  BY FitsNow DEF IInv, TypeOK
<1>2. ASSUME rev' \in 0 .. Head, Fit(rev', rows'), schema' = SchemaAt[rev'] PROVE IInv'
  BY <1>2 DEF Fit, IInv, TypeOK, OwnersKnown, WrappedOnce
<1>3. ASSUME NEW n \in 0 .. Head, Upgrade(n) PROVE IInv'
  <2>1. n \in rev + 1 .. Head /\ rev' = n /\ rows' = Upgraded(n) /\ Upgraded(n) # Failed
    BY <1>1, <1>3 DEF Upgrade, Head
  <2>2. Fit(n, Upgraded(n))  BY <1>1, <2>1, UpgradedIs
  <2>3. schema' = SchemaAt[rev']  BY <1>1, <1>3, UpgradeSchema
  <2> QED  BY <1>2, <2>1, <2>2, <2>3
<1>4. ASSUME NEW n \in 0 .. Head, Downgrade(n) PROVE IInv'
  <2>1. n \in 0 .. rev - 1 /\ rev' = n /\ rows' = Downgraded(n) /\ Downgraded(n) # Failed
    BY <1>1, <1>4 DEF Downgrade, Head
  <2>2. Fit(n, Downgraded(n))  BY <1>1, <2>1, DowngradedFits
  <2>3. schema' = SchemaAt[rev']  BY <1>1, <1>4, DowngradeSchema
  <2> QED  BY <1>2, <2>1, <2>2, <2>3
<1>5. ASSUME NEW u \in Users, AddUser(u) PROVE IInv'
  <2>1. Fit(rev, [rows EXCEPT !.users = @ \cup {u}])
    BY <1>1, <1>5 DEF Fit, AddUser, Rows, Head
  <2> QED  BY <1>1, <1>5, <2>1, WriteFits DEF AddUser
<1>6. ASSUME NEW u \in Users, AddSession(u) PROVE IInv'
  <2>1. Fit(rev, [rows EXCEPT !.sessions = @ \cup {u}])
    BY <1>1, <1>6 DEF Fit, AddSession, Rows, Head
  <2> QED  BY <1>1, <1>6, <2>1, WriteFits DEF AddSession
<1>7. ASSUME NEW j \in JobIds, NEW o \in Owner, NEW k \in Kinds, AddJob(j, o, k) PROVE IInv'
  <2> DEFINE new == JobRow(j, o, k)
             rs == [rows EXCEPT !.jobs = @ \cup {new}]
  <2>1. /\ new \in [id : JobIds, owner : Owner, content : [kind : Kinds, wraps : Nat]]
        /\ new.owner = o /\ new.content.wraps = 0 /\ new.content.kind = k
    BY DEF JobRow
  <2>2. /\ rs \in Rows /\ rs.jobs = rows.jobs \cup {new} /\ rs.users = rows.users
        /\ rs.templates = rows.templates /\ rs.keys = rows.keys /\ rs.sessions = rows.sessions
    <3> HIDE DEF new
    <3> QED  BY <1>1, <2>1 DEF Rows
  <2>3. /\ rev >= 1
        /\ rev >= 7 => o \in rows.users
        /\ rev >= 5 => k = "object"
    BY <1>7 DEF AddJob, Owners
  <2>4. Write(rs)  BY <1>7 DEF AddJob
  <2> HIDE DEF new, rs
  <2>5. Fit(rev, rs)
    BY <1>1, <2>1, <2>2, <2>3 DEF Fit, Head
  <2> QED  BY <1>1, <2>4, <2>5, WriteFits
<1>8. ASSUME NEW o \in Owner, NEW n \in Names, AddTemplate(o, n) PROVE IInv'
  <2>1. Fit(rev, [rows EXCEPT !.templates = @ \cup {[owner |-> o, name |-> n]}])
    BY <1>1, <1>8 DEF Fit, AddTemplate, Owners, Rows, Head
  <2> QED  BY <1>1, <1>8, <2>1, WriteFits DEF AddTemplate
<1>9. ASSUME NEW o \in Owner, NEW p \in Providers, AddKey(o, p) PROVE IInv'
  <2>1. Fit(rev, [rows EXCEPT !.keys = @ \cup {[owner |-> o, provider |-> p]}])
    BY <1>1, <1>9 DEF Fit, AddKey, Owners, Rows, Head
  <2> QED  BY <1>1, <1>9, <2>1, WriteFits DEF AddKey
<1>10. ASSUME Truncate PROVE IInv'
  <2>1. Fit(rev, [rows EXCEPT !.jobs = {}])
    BY <1>1 DEF Fit, Rows
  <2>2. Fit(rev, [rows EXCEPT !.templates = {}, !.keys = {}])
    BY <1>1 DEF Fit, Rows
  <2> QED  BY <1>1, <1>10, <2>1, <2>2, WriteFits DEF Truncate
<1>11. ASSUME UNCHANGED vars PROVE IInv'
  BY <1>1, <1>2, <1>11 DEF vars
<1> QED
  BY <1>3, <1>4, <1>5, <1>6, <1>7, <1>8, <1>9, <1>10, <1>11 DEF Next, Owner

LEMMA IInvAlways == Spec => []IInv
BY InitIInv, NextIInv, PTL DEF Spec

(* --- theorems -------------------------------------------------------------- *)
(* Rows have the columns of their table, and a table that a revision does   *)
(* not have yet holds none.                                                 *)
THEOREM TypeCorrect == Spec => []TypeOK
<1>1. IInv => TypeOK  BY DEF IInv
<1> QED  BY <1>1, IInvAlways, PTL

(* Whatever upgrades and downgrades were run, the tables are those of the   *)
(* revision; at the head, those of db/models.py and one check more.         *)
THEOREM SchemaIsTheRevisions == Spec => []SchemaFollowsRevision
<1>1. IInv => SchemaFollowsRevision  BY HeadTables, SchemaFollows DEF IInv
<1> QED  BY <1>1, IInvAlways, PTL

(* No job, template or key is without an owner once there are owners.       *)
THEOREM OwnersAreKnown == Spec => []OwnersKnown
<1>1. IInv => OwnersKnown  BY DEF IInv
<1> QED  BY <1>1, IInvAlways, PTL

(* Content that is no JSON is wrapped once, by however many conversions.    *)
THEOREM ContentWrappedOnce == Spec => []WrappedOnce
<1>1. IInv => WrappedOnce  BY DEF IInv
<1> QED  BY <1>1, IInvAlways, PTL

(* An upgrade that does not fail loses no row.                              *)
THEOREM UpgradesLoseNothing == Spec => UpgradesKeepRows
<1>1. ASSUME IInv, [Next]_vars, rev' > rev PROVE Kept(rows, rows')
  <2>1. rev \in 0 .. Head /\ Fit(rev, rows)  BY <1>1, FitsNow DEF IInv
  <2>2. ASSUME NEW n \in 0 .. Head, Upgrade(n) PROVE Kept(rows, rows')
    <3>1. n \in rev + 1 .. Head /\ rows' = Upgraded(n) /\ Upgraded(n) # Failed
      BY <2>1, <2>2 DEF Upgrade, Head
    <3> QED  BY <2>1, <3>1, UpgradedIs
  <2>3. ASSUME NEW n \in 0 .. Head, Downgrade(n) PROVE FALSE
    BY <1>1, <2>1, <2>3 DEF Downgrade, Head
  <2>4. rev' # rev  BY <1>1, <2>1 DEF Head
  <2> QED
    BY <1>1, <2>2, <2>3, <2>4 DEF Next, vars, AddUser, AddSession, AddJob, AddTemplate, AddKey,
       Truncate, Write
<1>2. IInv /\ [Next]_vars =>
        [rev' > rev => /\ {j.id : j \in rows'.jobs} = {j.id : j \in rows.jobs}
                       /\ [rows' EXCEPT !.jobs = {}] = [rows EXCEPT !.jobs = {}]]_vars
  BY <1>1 DEF Kept
<1> QED  BY <1>2, IInvAlways, PTL DEF Spec, UpgradesKeepRows

(* A downgrade loses the tables it drops, and of other rows the owners only; *)
(* one that would make two rows the same fails.                             *)
THEOREM DowngradesLoseOwnersAlone == Spec => DowngradesLoseOnlyOwners
<1>1. ASSUME IInv, [Next]_vars, rev' < rev PROVE KeptDown(rev', rows, rows')
  <2>1. rev \in 0 .. Head /\ Fit(rev, rows)  BY <1>1, FitsNow DEF IInv
  <2>2. ASSUME NEW n \in 0 .. Head, Downgrade(n) PROVE KeptDown(rev', rows, rows')
    <3>1. n \in 0 .. rev - 1 /\ rev' = n /\ rows' = Downgraded(n) /\ Downgraded(n) # Failed
      BY <2>1, <2>2 DEF Downgrade, Head
    <3> QED  BY <2>1, <3>1, DowngradedFits
  <2>3. ASSUME NEW n \in 0 .. Head, Upgrade(n) PROVE FALSE
    BY <1>1, <2>1, <2>3 DEF Upgrade, Head
  <2>4. rev' # rev  BY <1>1, <2>1 DEF Head
  <2> QED
    BY <1>1, <2>2, <2>3, <2>4 DEF Next, vars, AddUser, AddSession, AddJob, AddTemplate, AddKey,
       Truncate, Write
<1>2. IInv /\ [Next]_vars => [rev' < rev =>
    /\ rev' >= 1 => Disowned(rows'.jobs) = Disowned(rows.jobs)
    /\ rev' >= 2 => rows'.users = rows.users
    /\ rev' >= 4 => /\ SameUnowned(rows'.templates, rows.templates)
                    /\ SameUnowned(rows'.keys, rows.keys)
    /\ rev' >= 7 => rows'.jobs = rows.jobs
    /\ rev' >= 8 => rows'.templates = rows.templates /\ rows'.keys = rows.keys]_vars
  BY <1>1 DEF KeptDown
<1> QED  BY <1>2, IInvAlways, PTL DEF Spec, DowngradesLoseOnlyOwners
=============================================================================
