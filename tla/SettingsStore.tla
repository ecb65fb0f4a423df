--------------------------- MODULE SettingsStore ---------------------------
(***************************************************************************)
(* Settings templates and provider keys (src/src/api/v1/settings/router.py *)
(* over crawl_settings_templates and provider_api_keys in db/models.py).   *)
(* A handler that reads a row and then writes it is two actions.  The      *)
(* session of SQLAlchemy writes what it changed since it loaded the row,   *)
(* not what differs from the table, and raises if an UPDATE finds no row.  *)
(* updated_at changes with every PUT, so there is always an UPDATE; times  *)
(* are otherwise left out, and so is what the answers show.  What a client *)
(* is told of a key it set or cleared is kept: KeyRegister speaks of it.   *)
(***************************************************************************)
EXTENDS Naturals, FiniteSets

CONSTANTS Users, Providers,
          Templates,   \* ids that uuid4 yields
          Names,       \* of templates
          Bodies,      \* payloads of settings and of filters
          Secrets,     \* a key is <<u, k>>: secret k, as user u sent it
          Handlers,    \* requests served at one time
          Nothing      \* JSON null, an absent row

ASSUME StoreAssumption == Nothing \notin Users \X Secrets

VARIABLES template,    \* template[t]: the row, or one that is not there
          key,         \* key[u][p]: the api_key of that row, or Nothing
          req          \* req[h]: what request h still has to do

vars == <<template, key, req>>

Columns == [name : Names, settings : Bodies, filters : Bodies \cup {Nothing}]
Missing(state) == [state |-> state, owner |-> Nothing, cols |-> Nothing]

(* No request; the last one for a key was told this.                        *)
Free(answer) == [op |-> "free", told |-> answer]

Init == /\ template = [t \in Templates |-> Missing("unborn")]
        /\ key = [u \in Users |-> [p \in Providers |-> Nothing]]
        /\ req = [h \in Handlers |-> Free(Nothing)]

Holds(h, op) == req[h].op = op
Becomes(h, r) == req' = [req EXCEPT ![h] = r]
Ends(h) == Becomes(h, Free(Nothing))
Tells(h, answer) == Becomes(h, Free(answer))

Row(t) == template[t].state = "row"
SendsKeys(u) == {u} \X Secrets
KeysOf(u) == SendsKeys(u) \cup {Nothing}

KeyOps == {"set-key", "clear-key", "refresh-key"}
KeyRequests(u) ==
         [op : {"set-key", "refresh-key"}, user : {u}, provider : Providers,
          loaded : KeysOf(u), sent : SendsKeys(u)]
    \cup [op : {"clear-key"}, user : {u}, provider : Providers,
          loaded : KeysOf(u), sent : {Nothing}]
Requests == [op : {"free"}, told : {Nothing, "ok", "refused"}]
    \cup [op : {"update"}, id : Templates, loaded : Columns, sent : Columns]
    \cup [op : {"delete"}, id : Templates]
    \cup UNION {KeyRequests(u) : u \in Users}

(* Mutant: unique per id.                                                   *)
NameFreeAnyway(u, n, t) == u \in Users /\ n \in Names /\ t \in Templates

(* uq_crawl_settings_templates_user_id_name, for template t of user u.      *)
NameFree(u, n, t) ==
    \A o \in Templates \ {t} : Row(o) /\ template[o].owner = u
                                 => template[o].cols.name # n

(* POST /templates: one INSERT; the unique constraint is its only check.    *)
CreateTemplate(h, u, c) ==
    /\ Holds(h, "free")
    /\ \E t \in Templates :
         /\ template[t].state = "unborn" /\ NameFree(u, c.name, t)
         /\ template' = [template EXCEPT ![t] = [state |-> "row", owner |-> u, cols |-> c]]
    /\ UNCHANGED <<key, req>>

(* PUT and DELETE /templates/{t} begin with the user's own row, or a 404.   *)
ReadTemplate(h, r) ==
    /\ Holds(h, "free") /\ Row(r.id)
    /\ Becomes(h, r)
    /\ UNCHANGED <<template, key>>

PutTemplate(h, t, c) ==
    ReadTemplate(h, [op |-> "update", id |-> t, loaded |-> template[t].cols, sent |-> c])

DeleteTemplate(h, t) == ReadTemplate(h, [op |-> "delete", id |-> t])

(* Mutant: a column that is null in the request is left alone.              *)
WrittenUnlessNull(row, loaded, sent) ==
    [f \in DOMAIN row |-> IF sent[f] \notin {loaded[f], Nothing} THEN sent[f] ELSE row[f]]

(* What the UPDATE leaves in a row: the columns that the request changed,   *)
(* on top of what the row holds by then.                                    *)
Written(row, loaded, sent) ==
    [f \in DOMAIN row |-> IF sent[f] # loaded[f] THEN sent[f] ELSE row[f]]

(* Mutant: the row is merged, and inserted if it is gone.                   *)
MergeCommit(h) == LET r == req[h] IN
    /\ Holds(h, "update") /\ NameFree(template[r.id].owner, r.sent.name, r.id)
    /\ template' = [template EXCEPT ![r.id].state = "row", ![r.id].cols = r.sent]
    /\ Ends(h)
    /\ UNCHANGED key

UpdateCommit(h) == LET r == req[h] t == template[r.id] IN
    /\ Holds(h, "update") /\ Row(r.id)
    /\ LET c == Written(t.cols, r.loaded, r.sent) IN
         /\ NameFree(t.owner, c.name, r.id)
         /\ template' = [template EXCEPT ![r.id].cols = c]
    /\ Ends(h)
    /\ UNCHANGED key

(* A 409: the name is taken.  A 500: the row is gone, StaleDataError.       *)
UpdateFails(h) == LET r == req[h] t == template[r.id] IN
    /\ Holds(h, "update")
    /\ Row(r.id) => ~NameFree(t.owner, Written(t.cols, r.loaded, r.sent).name, r.id)
    /\ Ends(h)
    /\ UNCHANGED <<template, key>>

(* A DELETE that finds no row any more is only a warning.                   *)
DeleteCommit(h) ==
    /\ Holds(h, "delete")
    /\ template' = [template EXCEPT ![req[h].id] = Missing("gone")]
    /\ Ends(h)
    /\ UNCHANGED key

(* PUT and DELETE /api-keys/{p}, for a provider that exists.                *)
ReadKey(h, op, u, p, k) ==
    /\ Holds(h, "free")
    /\ Becomes(h, [op |-> op, user |-> u, provider |-> p, loaded |-> key[u][p], sent |-> k])
    /\ UNCHANGED <<template, key>>

(* No row was loaded: an INSERT; else an UPDATE, of api_key if it differs.  *)
KeyWriteFits(r) == (r.loaded = Nothing) <=> (key[r.user][r.provider] = Nothing)

(* Mutant: the INSERT does nothing if the row is there.                     *)
KeyCommitOrIgnored(h) == LET r == req[h] IN
    /\ Holds(h, "set-key")
    /\ key' = IF KeyWriteFits(r) THEN [key EXCEPT ![r.user][r.provider] = r.sent] ELSE key
    /\ Becomes(h, [r EXCEPT !.op = "refresh-key"])
    /\ UNCHANGED template

KeyCommit(h) == LET r == req[h] IN
    /\ Holds(h, "set-key") /\ KeyWriteFits(r)
    /\ key' = IF r.sent = r.loaded THEN key
              ELSE [key EXCEPT ![r.user][r.provider] = r.sent]
    /\ Becomes(h, [r EXCEPT !.op = "refresh-key"])
    /\ UNCHANGED template

(* The row is read once more for the answer.                                *)
KeyRefresh(h) == /\ Holds(h, "refresh-key") /\ key[req[h].user][req[h].provider] # Nothing
                 /\ Tells(h, "ok")
                 /\ UNCHANGED <<template, key>>

(* The primary key or StaleDataError at the commit, InvalidRequestError at  *)
(* the refresh if the row is gone by then: nobody catches them, a 500.      *)
KeyRaises(h) == LET r == req[h] IN
    /\ \/ Holds(h, "set-key") /\ ~KeyWriteFits(r)
       \/ Holds(h, "refresh-key") /\ key[r.user][r.provider] = Nothing
    /\ Tells(h, "refused")
    /\ UNCHANGED <<template, key>>

(* No row was loaded: nothing to do; a DELETE that finds none is a warning. *)
ClearCommit(h) == LET r == req[h] IN
    /\ Holds(h, "clear-key")
    /\ key' = IF r.loaded = Nothing THEN key
              ELSE [key EXCEPT ![r.user][r.provider] = Nothing]
    /\ Tells(h, "ok")
    /\ UNCHANGED template

(* Any other failure, before the COMMIT or between it and the answer.       *)
Dies(h) == ~Holds(h, "free") /\ Ends(h) /\ UNCHANGED <<template, key>>

TemplateStep(h) ==
    \/ \E u \in Users, c \in Columns : CreateTemplate(h, u, c)
    \/ \E t \in Templates, c \in Columns : PutTemplate(h, t, c)
    \/ \E t \in Templates : DeleteTemplate(h, t)
    \/ UpdateCommit(h) \/ UpdateFails(h) \/ DeleteCommit(h)

KeyStep(h) ==
    \/ \E u \in Users, p \in Providers, k \in Secrets : ReadKey(h, "set-key", u, p, <<u, k>>)
    \/ \E u \in Users, p \in Providers : ReadKey(h, "clear-key", u, p, Nothing)
    \/ KeyCommit(h) \/ KeyRefresh(h) \/ KeyRaises(h) \/ ClearCommit(h)

Next == \E h \in Handlers : TemplateStep(h) \/ KeyStep(h) \/ Dies(h)

Spec == Init /\ [][Next]_vars
-----------------------------------------------------------------------------
TypeOK ==
    /\ template \in [Templates ->
         [state : {"row"}, owner : Users, cols : Columns]
           \cup {Missing("unborn"), Missing("gone")}]
    /\ DOMAIN key = Users /\ \A u \in Users : key[u] \in [Providers -> KeysOf(u)]
    /\ req \in [Handlers -> Requests]
    /\ \A h \in Handlers : Holds(h, "update") \/ Holds(h, "delete")
                             => template[req[h].id].state # "unborn"

(* A user's templates have different names, whatever creates and renames    *)
(* overlap; no handler looks for the name first.                            *)
NamesUnique == \A t, o \in Templates :
    Row(t) /\ Row(o) /\ t # o /\ template[t].owner = template[o].owner
      => template[t].cols.name # template[o].cols.name

(* A PUT that succeeds, and whose row nobody changed since it was read,     *)
(* leaves exactly what it sent.  (If somebody did, the row may end with     *)
(* columns of both requests, which neither of them sent.)                   *)
QuietPutSticks == [][\A h \in Handlers : LET r == req[h] IN
    UpdateCommit(h) /\ template[r.id].cols = r.loaded
      => template'[r.id].cols = r.sent]_vars

(* A deleted template does not come back, though an update that had read it *)
(* may commit later.                                                        *)
DeletedStays == [][\A t \in Templates :
    template[t].state = "gone" => template'[t].state = "gone"]_vars

(* --- the keys as registers ------------------------------------------------- *)
(* A request that asks for what it read needs no write of the key.          *)
Taken(r) == r.op = "refresh-key" \/ r.sent = r.loaded

CallOf(r) == IF r.op \notin KeyOps
             THEN [told |-> IF r.op = "free" THEN r.told ELSE Nothing]
             ELSE [user |-> r.user, provider |-> r.provider, value |-> r.sent,
                   was |-> r.loaded, taken |-> Taken(r)]

Register == INSTANCE KeyRegister WITH
    Values <- UNION {KeysOf(u) : u \in Users},
    call <- [h \in Handlers |-> CallOf(req[h])]

(* Sets and clears of one key that overlap behave as if each answered one   *)
(* had been made at one moment; one that is answered by an error because of *)
(* another has changed nothing, or is already undone by it.                 *)
RefinesKeyRegister == Register!Spec
=============================================================================
