----------------------------- MODULE Migrations -----------------------------
(***************************************************************************)
(* The schema revisions 0001 to 0009 (src/alembic/versions) over a         *)
(* database in use.  Each alembic command is one transaction (env.py): all *)
(* its revisions are applied or none.  Between commands the application    *)
(* writes rows that the schema of the day admits.                          *)
(*                                                                         *)
(* A table is the set of its columns and keys: "x?" may be null, "x>t"     *)
(* refers to table t.  Types are left out but for the one that changes,    *)
(* server defaults and plain indexes altogether.                           *)
(***************************************************************************)
EXTENDS Naturals, FiniteSets

CONSTANTS Users, JobIds, Names, Providers,
          Nothing   \* no owner

VARIABLES rev,      \* alembic_version
          schema,   \* pairs of a table and a column or key
          rows      \* what the tables hold

vars == <<rev, schema, rows>>
Head == 9

Cols(t, cs) == {t} \X cs

(* --- what each revision's upgrade adds and drops -------------------------- *)
InitialTables ==
       Cols("crawl_jobs", {"id", "target_url", "mode", "status", "settings", "filters?",
         "error?", "created_at", "started_at?", "finished_at?", "urls_discovered",
         "urls_scraped", "urls_failed", "url_limit"})
  \cup Cols("discovered_urls", {"id", "job_id>crawl_jobs", "url", "discovered_at", "status"})
  \cup Cols("crawl_result_items", {"id", "job_id>crawl_jobs", "url", "title", "word_count",
         "format", "extracted_at", "preview", "content text"})
  \cup Cols("log_lines", {"id", "job_id>crawl_jobs", "timestamp", "level", "message"})
UsersTable == Cols("users", {"id", "email", "unique email", "hashed_password",
                "is_active", "user_type"})
UserNames == Cols("users", {"name", "check user_type"})
SettingsTables ==
       Cols("crawl_settings_templates", {"id", "name", "unique name", "settings", "filters?",
         "created_at", "updated_at"})
  \cup Cols("provider_api_keys", {"provider", "key provider", "api_key", "updated_at"})
JsonbContent == Cols("crawl_result_items", {"content jsonb"})
SeedUrls == Cols("crawl_jobs", {"seed_urls?"})
JobOwners == Cols("crawl_jobs", {"user_id>users"})
SettingsOwners ==
       Cols("crawl_settings_templates", {"user_id>users", "unique user_id, name"})
  \cup Cols("provider_api_keys", {"user_id>users", "key user_id, provider"})
SessionsTable == Cols("refresh_sessions", {"jti", "user_id>users", "created_at",
                   "expires_at", "revoked_at?"})

(* The chain of down_revision.                                              *)
Adds == <<InitialTables, UsersTable, UserNames, SettingsTables, JsonbContent,
          SeedUrls, JobOwners, SettingsOwners, SessionsTable>>

TextContent == Cols("crawl_result_items", {"content text"})
SharedSettings == Cols("crawl_settings_templates", {"unique name"})
             \cup Cols("provider_api_keys", {"key provider"})
Drops(r) == CASE r = 5 -> TextContent [] r = 8 -> SharedSettings [] OTHER -> {}

(* db/models.py, which the application of this revision runs with.          *)
Models == Cols("users", {"id", "name", "email", "unique email", "hashed_password",
            "is_active", "user_type"})
     \cup Cols("refresh_sessions", {"jti", "user_id>users", "created_at", "expires_at",
            "revoked_at?"})
     \cup Cols("crawl_jobs", {"id", "user_id>users", "target_url", "mode", "status",
            "settings", "filters?", "seed_urls?", "error?", "created_at", "started_at?",
            "finished_at?", "urls_discovered", "urls_scraped", "urls_failed", "url_limit"})
     \cup Cols("discovered_urls", {"id", "job_id>crawl_jobs", "url", "discovered_at", "status"})
     \cup Cols("crawl_result_items", {"id", "job_id>crawl_jobs", "url", "title",
            "word_count", "format", "extracted_at", "preview", "content jsonb"})
     \cup Cols("log_lines", {"id", "job_id>crawl_jobs", "timestamp", "level", "message"})
     \cup Cols("crawl_settings_templates", {"id", "user_id>users", "unique user_id, name",
            "name", "settings", "filters?", "created_at", "updated_at"})
     \cup Cols("provider_api_keys", {"user_id>users", "provider", "key user_id, provider",
            "api_key", "updated_at"})

(* --- rows ------------------------------------------------------------------ *)
(* A job has one result.  Its content is text that is a JSON object, another *)
(* JSON value or no JSON, and so often wrapped in an object {"text": ...}.  *)
Kinds == {"object", "scalar", "plain"}
Empty == [users |-> {}, jobs |-> {}, templates |-> {}, keys |-> {}, sessions |-> {}]
JobRow(j, owner, kind) == [id |-> j, owner |-> owner, content |-> [kind |-> kind, wraps |-> 0]]

(* Mutant: whatever is not an object by itself is wrapped, again each time. *)
WrapsAlways(c) == [c EXCEPT !.wraps = IF c.kind = "object" THEN 0 ELSE @ + 1]

(* 0005: value::jsonb, or a wrapped value if that raises.                   *)
ToJsonb(c) == IF c.kind = "plain" /\ c.wraps = 0 THEN [c EXCEPT !.wraps = 1] ELSE c

(* Mutant: 0005 drops what does not parse.                                  *)
UpRowsDropping(r, rs) ==
    IF r = 5 THEN [rs EXCEPT !.jobs = {j \in @ : j.content.kind # "plain"}] ELSE rs

(* What an upgrade makes of the rows.                                       *)
UpRows(r, rs) == IF r = 5 THEN [rs EXCEPT !.jobs = {[j EXCEPT !.content = ToJsonb(@)] : j \in @}]
                 ELSE rs

(* Mutant: 0008 looks at the templates alone.                               *)
UpFailsOnTemplates(r, rs) == (r = 7 /\ rs.jobs # {}) \/ (r = 8 /\ rs.templates # {})

(* A NOT NULL column without a default cannot be added to a table with rows. *)
UpFails(r, rs) == \/ r = 7 /\ rs.jobs # {}
                  \/ r = 8 /\ rs.templates \cup rs.keys # {}

(* A downgrade drops tables, and the owners of rows with their column.      *)
Disowned(S) == {[x EXCEPT !.owner = Nothing] : x \in S}
DownRows(r, rs) == CASE
     r = 1 -> [rs EXCEPT !.jobs = {}]
  [] r = 2 -> [rs EXCEPT !.users = {}]
  [] r = 4 -> [rs EXCEPT !.templates = {}, !.keys = {}]
  [] r = 7 -> [rs EXCEPT !.jobs = Disowned(@)]
  [] r = 8 -> [rs EXCEPT !.templates = Disowned(@), !.keys = Disowned(@)]
  [] r = 9 -> [rs EXCEPT !.sessions = {}]
  [] OTHER -> rs

(* 0008: names and providers must be unique again without their owners.     *)
Clash(S) == Cardinality(Disowned(S)) # Cardinality(S)

(* Mutant: 0008 makes the names unique again and not the providers.         *)
DownFailsOnTemplates(r, rs) == r = 8 /\ Clash(rs.templates)

DownFails(r, rs) == r = 8 /\ (Clash(rs.templates) \/ Clash(rs.keys))

(* --- commands -------------------------------------------------------------- *)
Failed == [jobs |-> "failed"]

(* The rows after revisions rev + 1 to n, in turn.                          *)
Upgraded(n) ==
    LET after[r \in rev .. n] ==
          IF r = rev THEN rows
          ELSE IF after[r - 1] = Failed \/ UpFails(r, after[r - 1]) THEN Failed
          ELSE UpRows(r, after[r - 1])
    IN after[n]

(* The rows after undoing revisions rev to n + 1.                           *)
Downgraded(n) ==
    LET undone[i \in 0 .. rev - n] ==
          IF i = 0 THEN rows
          ELSE IF undone[i - 1] = Failed \/ DownFails(rev - i + 1, undone[i - 1]) THEN Failed
          ELSE DownRows(rev - i + 1, undone[i - 1])
    IN undone[rev - n]

Upgrade(n) == /\ n > rev /\ Upgraded(n) # Failed
              /\ rev' = n /\ rows' = Upgraded(n)
              /\ schema' = LET after[r \in rev .. n] == IF r = rev THEN schema
                                 ELSE (after[r - 1] \ Drops(r)) \cup Adds[r]
                           IN after[n]

(* --- what each revision's downgrade does to the tables -------------------- *)
DropTables(s, ts) == {c \in s : c[1] \notin ts}

Undo0001(s) == DropTables(s, {"log_lines", "crawl_result_items", "discovered_urls", "crawl_jobs"})
Undo0002(s) == DropTables(s, {"users"})
Undo0003(s) == s \ Cols("users", {"check user_type", "name"})
Undo0004(s) == DropTables(s, {"provider_api_keys", "crawl_settings_templates"})
Undo0005(s) == (s \ Cols("crawl_result_items", {"content jsonb"}))
                 \cup Cols("crawl_result_items", {"content text"})
Undo0006(s) == s \ Cols("crawl_jobs", {"seed_urls?"})
Undo0007(s) == s \ Cols("crawl_jobs", {"user_id>users"})

(* Mutant: the names are not made unique again.                             *)
Undo0008Forgetting(s) ==
    (s \ (Cols("provider_api_keys", {"user_id>users", "key user_id, provider"})
            \cup Cols("crawl_settings_templates", {"user_id>users", "unique user_id, name"})))
      \cup Cols("provider_api_keys", {"key provider"})

Undo0008(s) ==
    (s \ (Cols("provider_api_keys", {"user_id>users", "key user_id, provider"})
            \cup Cols("crawl_settings_templates", {"user_id>users", "unique user_id, name"})))
      \cup Cols("provider_api_keys", {"key provider"})
      \cup Cols("crawl_settings_templates", {"unique name"})

Undo0009(s) == DropTables(s, {"refresh_sessions"})

Undone(r, s) == CASE r = 1 -> Undo0001(s) [] r = 2 -> Undo0002(s) [] r = 3 -> Undo0003(s)
                  [] r = 4 -> Undo0004(s) [] r = 5 -> Undo0005(s) [] r = 6 -> Undo0006(s)
                  [] r = 7 -> Undo0007(s) [] r = 8 -> Undo0008(s) [] r = 9 -> Undo0009(s)

Downgrade(n) == /\ n < rev /\ Downgraded(n) # Failed
                /\ rev' = n /\ rows' = Downgraded(n)
                /\ schema' = LET undone[i \in 0 .. rev - n] == IF i = 0 THEN schema
                                   ELSE Undone(rev - i + 1, undone[i - 1])
                             IN undone[rev - n]

(* --- the application, and whoever truncates a table ------------------------ *)
Owners(r) == IF rev >= r THEN rows.users ELSE {Nothing}

Write(rs) == rows' = rs /\ UNCHANGED <<rev, schema>>

AddUser(u) == /\ rev >= 2 /\ u \notin rows.users
              /\ Write([rows EXCEPT !.users = @ \cup {u}])

AddJob(j, o, kind) ==
    /\ rev >= 1 /\ o \in Owners(7) /\ \A x \in rows.jobs : x.id # j
    /\ rev >= 5 => kind = "object"         \* content is a dict
    /\ Write([rows EXCEPT !.jobs = @ \cup {JobRow(j, o, kind)}])

AddTemplate(o, n) ==
    /\ rev >= 4 /\ o \in Owners(8) /\ [owner |-> o, name |-> n] \notin rows.templates
    /\ Write([rows EXCEPT !.templates = @ \cup {[owner |-> o, name |-> n]}])

AddKey(o, p) ==
    /\ rev >= 4 /\ o \in Owners(8) /\ [owner |-> o, provider |-> p] \notin rows.keys
    /\ Write([rows EXCEPT !.keys = @ \cup {[owner |-> o, provider |-> p]}])

AddSession(u) == /\ rev >= 9 /\ u \in rows.users \ rows.sessions
                 /\ Write([rows EXCEPT !.sessions = @ \cup {u}])

Truncate == \/ rows.jobs # {} /\ Write([rows EXCEPT !.jobs = {}])
            \/ rows.templates \cup rows.keys # {}
                 /\ Write([rows EXCEPT !.templates = {}, !.keys = {}])

Init == rev = 0 /\ schema = {} /\ rows = Empty

Next == \/ \E n \in 0 .. Head : Upgrade(n) \/ Downgrade(n)
        \/ \E u \in Users : AddUser(u) \/ AddSession(u)
        \/ \E j \in JobIds, o \in Users \cup {Nothing}, k \in Kinds : AddJob(j, o, k)
        \/ \E o \in Users \cup {Nothing}, n \in Names : AddTemplate(o, n)
        \/ \E o \in Users \cup {Nothing}, p \in Providers : AddKey(o, p)
        \/ Truncate

Spec == Init /\ [][Next]_vars
-----------------------------------------------------------------------------
Owner == Users \cup {Nothing}
Rows == [users : SUBSET Users,
         jobs : SUBSET [id : JobIds, owner : Owner, content : [kind : Kinds, wraps : Nat]],
         templates : SUBSET [owner : Owner, name : Names],
         keys : SUBSET [owner : Owner, provider : Providers],
         sessions : SUBSET Users]

(* Rows have the columns of their table, and there are none while their     *)
(* table is not there.                                                      *)
TypeOK ==
    /\ rev \in 0 .. Head /\ rows \in Rows
    /\ rev < 1 => rows.jobs = {}
    /\ rev < 2 => rows.users = {}
    /\ rev < 4 => rows.templates = {} /\ rows.keys = {}
    /\ rev < 9 => rows.sessions = {}

(* The tables are those that the upgrades alone yield, whatever upgrades    *)
(* and downgrades led there; at the head, those of db/models.py and a check *)
(* that models.py does not know.                                            *)
SchemaFollowsRevision ==
    LET at[r \in 0 .. Head] == IF r = 0 THEN {} ELSE (at[r - 1] \ Drops(r)) \cup Adds[r] IN
    /\ schema = at[rev]
    /\ rev = Head => schema = Models \cup Cols("users", {"check user_type"})

(* From 0007 on every job has an owner that exists, from 0008 on every      *)
(* template and key: none is left behind from before the column was there.  *)
OwnersKnown ==
    /\ rev >= 7 => \A x \in rows.jobs : x.owner \in rows.users
    /\ rev >= 8 => \A x \in rows.templates \cup rows.keys : x.owner \in rows.users
    /\ rows.sessions \subseteq rows.users

(* An upgrade loses no row.                                                 *)
UpgradesKeepRows == [][rev' > rev =>
    /\ {j.id : j \in rows'.jobs} = {j.id : j \in rows.jobs}
    /\ [rows' EXCEPT !.jobs = {}] = [rows EXCEPT !.jobs = {}]]_vars

(* A downgrade drops whole tables, and of the rows of the others nothing    *)
(* but the owner: no two rows become one, and no owner goes before its      *)
(* column does.  When two users have a template of the same name or a key   *)
(* of the same provider, there is no way below 0008.                        *)
SameUnowned(S, T) == Disowned(S) = Disowned(T) /\ Cardinality(S) = Cardinality(T)
DowngradesLoseOnlyOwners == [][rev' < rev =>
    /\ rev' >= 1 => Disowned(rows'.jobs) = Disowned(rows.jobs)
    /\ rev' >= 2 => rows'.users = rows.users
    /\ rev' >= 4 => /\ SameUnowned(rows'.templates, rows.templates)
                    /\ SameUnowned(rows'.keys, rows.keys)
    /\ rev' >= 7 => rows'.jobs = rows.jobs
    /\ rev' >= 8 => rows'.templates = rows.templates /\ rows'.keys = rows.keys]_vars

(* Only text that is no JSON is wrapped, and only once, however often the   *)
(* column is converted to text and back.                                    *)
WrappedOnce == \A j \in rows.jobs :
    /\ j.content.wraps <= IF j.content.kind = "plain" THEN 1 ELSE 0
    /\ j.content.kind = "plain" /\ rev >= 5 => j.content.wraps = 1

(* "every row ends up a valid jsonb object" (0005).                         *)
ContentIsObject == rev >= 5 => \A j \in rows.jobs :
    j.content.kind = "object" \/ j.content.wraps > 0
=============================================================================
