------------------------- MODULE SettingsStoreProofs -------------------------
(* Theorems about SettingsStore, for every value of its constants.           *)
EXTENDS SettingsStore, TLAPS

Rows == [state : {"row"}, owner : Users, cols : Columns]
          \cup {Missing("unborn"), Missing("gone")}

LEMMA InitTypeOK == Init => TypeOK
BY DEF Init, TypeOK, Rows, Missing, KeysOf, Requests, Holds, Free

(* A row is where its template says it is.                                   *)
LEMMA RowIsTyped ==
    ASSUME TypeOK, NEW t \in Templates, Row(t)
    PROVE  /\ template[t] \in [state : {"row"}, owner : Users, cols : Columns]
           /\ template[t].owner \in Users /\ template[t].cols \in Columns
BY DEF TypeOK, Row, Missing

(* What a request that has read a row or a key has to do.                    *)
LEMMA UpdateIsTyped ==
    ASSUME TypeOK, NEW h \in Handlers, Holds(h, "update")
    PROVE  req[h] \in [op : {"update"}, id : Templates, loaded : Columns, sent : Columns]
BY DEF TypeOK, Requests, KeyRequests, Holds

LEMMA DeleteIsTyped ==
    ASSUME TypeOK, NEW h \in Handlers, Holds(h, "delete")
    PROVE  req[h].id \in Templates
BY DEF TypeOK, Requests, KeyRequests, Holds

LEMMA KeyRequestIsTyped ==
    ASSUME TypeOK, NEW h \in Handlers, req[h].op \in KeyOps
    PROVE  LET r == req[h] IN
           /\ r.user \in Users /\ r.provider \in Providers
           /\ r.loaded \in KeysOf(r.user) /\ r.sent \in KeysOf(r.user)
           /\ r.op = "clear-key" <=> r.sent = Nothing
           /\ r.op # "clear-key" => [r EXCEPT !.op = "refresh-key"] \in Requests
<1>1. PICK u \in Users : req[h] \in KeyRequests(u)
  BY DEF TypeOK, Requests, KeyOps
<1>2. Nothing \notin SendsKeys(u)  BY StoreAssumption DEF SendsKeys
<1>3. req[h].op # "clear-key" => [req[h] EXCEPT !.op = "refresh-key"] \in KeyRequests(u)
  BY <1>1 DEF KeyRequests
<1> QED  BY <1>1, <1>2, <1>3 DEF KeyRequests, KeysOf, Requests

(* The columns that an UPDATE leaves are columns, each from one of the two.  *)
LEMMA WrittenColumns ==
    ASSUME NEW row \in Columns, NEW loaded \in Columns, NEW sent \in Columns
    PROVE  /\ Written(row, loaded, sent) \in Columns
           /\ Written(row, row, sent) = sent
<1> DEFINE w(l) == Written(row, l, sent)
<1>1. DOMAIN row = {"name", "settings", "filters"}  BY DEF Columns
<1>2. ASSUME NEW l \in Columns
      PROVE  w(l) = [name |-> IF sent.name # l.name THEN sent.name ELSE row.name,
                     settings |-> IF sent.settings # l.settings THEN sent.settings
                                                                 ELSE row.settings,
                     filters |-> IF sent.filters # l.filters THEN sent.filters
                                                              ELSE row.filters]
  BY <1>1 DEF Written
<1>3. w(loaded) \in Columns  BY <1>2 DEF Columns
<1>4. w(row) = sent
  <2>1. w(row) = [name |-> sent.name, settings |-> sent.settings, filters |-> sent.filters]
    BY <1>2
  <2> QED  BY <2>1 DEF Columns
<1> QED  BY <1>3, <1>4
-----------------------------------------------------------------------------
(* Ending a request, whatever becomes of the tables, keeps its type.         *)
LEMMA EndsTypeOK ==
    ASSUME TypeOK, NEW h \in Handlers, NEW r \in Requests, r.op \notin {"update", "delete"},
           Becomes(h, r)
    PROVE  /\ req' \in [Handlers -> Requests]
           /\ \A g \in Handlers : \A op \in {"update", "delete"} :
                Holds(g, op)' => Holds(g, op) /\ req'[g] = req[g]
BY DEF TypeOK, Becomes, Holds

LEMMA EndsFree ==
    ASSUME NEW h \in Handlers, NEW answer \in {Nothing, "ok", "refused"},
           Ends(h) \/ Tells(h, answer)
    PROVE  \E r \in Requests : r.op \notin {"update", "delete"} /\ Becomes(h, r)
BY DEF Ends, Tells, Free, Requests

LEMMA TemplateStepTypeOK ==
    ASSUME TypeOK, NEW h \in Handlers, TemplateStep(h)
    PROVE  TypeOK'
<1>1. ASSUME NEW u \in Users, NEW c \in Columns, CreateTemplate(h, u, c) PROVE TypeOK'
  BY <1>1 DEF TypeOK, CreateTemplate, Missing, Holds
<1>2. ASSUME NEW t \in Templates, NEW r \in Requests, r.id = t, ReadTemplate(h, r)
      PROVE  TypeOK'
  BY <1>2 DEF TypeOK, ReadTemplate, Becomes, Holds, Row
<1>3. ASSUME NEW t \in Templates, NEW c \in Columns, PutTemplate(h, t, c) PROVE TypeOK'
  <2>1. template[t].cols \in Columns  BY <1>3, RowIsTyped DEF PutTemplate, ReadTemplate
  <2> QED  BY <1>2, <1>3, <2>1 DEF PutTemplate, Requests
<1>4. ASSUME NEW t \in Templates, DeleteTemplate(h, t) PROVE TypeOK'
  BY <1>2, <1>4 DEF DeleteTemplate, Requests
<1>5. CASE UpdateCommit(h)
  <2> DEFINE r == req[h]
             c == Written(template[r.id].cols, r.loaded, r.sent)
  <2>1. /\ r.id \in Templates /\ r.loaded \in Columns /\ r.sent \in Columns /\ Row(r.id)
    BY <1>5, UpdateIsTyped DEF UpdateCommit
  <2>2. c \in Columns  BY <2>1, RowIsTyped, WrittenColumns
  <2>3. template' = [template EXCEPT ![r.id].cols = c]  BY <1>5 DEF UpdateCommit
  <2> HIDE DEF c
  <2>4. [template[r.id] EXCEPT !.cols = c]
          \in [state : {"row"}, owner : Users, cols : Columns]
    BY <2>1, <2>2, RowIsTyped
  <2>5. template' \in [Templates -> Rows]  BY <2>1, <2>3, <2>4 DEF TypeOK, Rows
  <2>6. \A t \in Templates : template'[t].state = template[t].state
    BY <2>1, <2>3 DEF TypeOK
  <2>7. Ends(h) /\ UNCHANGED key  BY <1>5 DEF UpdateCommit
  <2> QED
    BY <2>5, <2>6, <2>7, EndsFree, EndsTypeOK, UpdateIsTyped, DeleteIsTyped DEF TypeOK, Rows, Holds
<1>6. CASE UpdateFails(h)
  BY <1>6, EndsFree, EndsTypeOK DEF UpdateFails, TypeOK, Holds
<1>7. CASE DeleteCommit(h)
  BY <1>7, EndsFree, EndsTypeOK, DeleteIsTyped, UpdateIsTyped DEF DeleteCommit, TypeOK, Holds, Missing
<1> QED  BY <1>1, <1>3, <1>4, <1>5, <1>6, <1>7 DEF TemplateStep

LEMMA KeyStepTypeOK ==
    ASSUME TypeOK, NEW h \in Handlers, KeyStep(h)
    PROVE  TypeOK'
<1>1. ASSUME NEW r \in Requests, Becomes(h, r), r.op \in KeyOps, UNCHANGED <<template, key>>
      PROVE  TypeOK'
  BY <1>1, EndsTypeOK DEF TypeOK, Holds, KeyOps
<1>2. ASSUME NEW u \in Users, NEW p \in Providers, NEW k \in Secrets,
             ReadKey(h, "set-key", u, p, <<u, k>>)
      PROVE  TypeOK'
  <2> DEFINE r == [op |-> "set-key", user |-> u, provider |-> p, loaded |-> key[u][p],
                   sent |-> <<u, k>>]
  <2>1. key[u][p] \in KeysOf(u) /\ <<u, k>> \in SendsKeys(u)  BY DEF TypeOK, SendsKeys
  <2>2. r \in KeyRequests(u)  BY <2>1 DEF KeyRequests
  <2>3. r \in Requests /\ r.op \in KeyOps  BY <2>2 DEF Requests, KeyOps
  <2> QED  BY <1>1, <1>2, <2>3 DEF ReadKey
<1>3. ASSUME NEW u \in Users, NEW p \in Providers, ReadKey(h, "clear-key", u, p, Nothing)
      PROVE  TypeOK'
  <2> DEFINE r == [op |-> "clear-key", user |-> u, provider |-> p, loaded |-> key[u][p],
                   sent |-> Nothing]
  <2>1. key[u][p] \in KeysOf(u)  BY DEF TypeOK
  <2>2. r \in KeyRequests(u)  BY <2>1 DEF KeyRequests
  <2>3. r \in Requests /\ r.op \in KeyOps  BY <2>2 DEF Requests, KeyOps
  <2> QED  BY <1>1, <1>3, <2>3 DEF ReadKey
<1>4. ASSUME NEW u \in Users, NEW p \in Providers, NEW k \in KeysOf(u),
             \/ key' = [key EXCEPT ![u][p] = k]
             \/ UNCHANGED key,
             NEW r \in Requests, r.op \notin {"update", "delete"}, Becomes(h, r),
             UNCHANGED template
      PROVE  TypeOK'
  BY <1>4, EndsTypeOK DEF TypeOK, Holds
<1>5. ASSUME UNCHANGED <<template, key>>, NEW answer \in {Nothing, "ok", "refused"},
             Tells(h, answer)
      PROVE  TypeOK'
  BY <1>5, EndsFree, EndsTypeOK DEF TypeOK, Holds
<1>6. CASE KeyCommit(h)
  <2> DEFINE r == req[h]
             s == [r EXCEPT !.op = "refresh-key"]
  <2>1. r.op = "set-key" /\ r.op \in KeyOps  BY <1>6 DEF KeyCommit, Holds, KeyOps
  <2>2. /\ r.user \in Users /\ r.provider \in Providers /\ r.sent \in KeysOf(r.user)
        /\ s \in Requests
    BY <2>1, KeyRequestIsTyped
  <2>3. s.op \notin {"update", "delete"}
    <3>1. \E u \in Users : r \in KeyRequests(u)  BY <2>1 DEF TypeOK, Requests, KeyOps
    <3> QED  BY <3>1 DEF KeyRequests
  <2>4. /\ \/ key' = [key EXCEPT ![r.user][r.provider] = r.sent]
           \/ UNCHANGED key
        /\ Becomes(h, s) /\ UNCHANGED template
    BY <1>6 DEF KeyCommit
  <2> HIDE DEF r, s
  <2> QED  BY <1>4, <2>2, <2>3, <2>4
<1>7. CASE ClearCommit(h)
  <2>1. req[h].op \in KeyOps  BY <1>7 DEF ClearCommit, Holds, KeyOps
  <2>2. Nothing \in KeysOf(req[h].user)  BY DEF KeysOf
  <2> QED  BY <1>4, <1>7, <2>1, <2>2, EndsFree, KeyRequestIsTyped DEF ClearCommit
<1>8. CASE KeyRefresh(h) \/ KeyRaises(h)  BY <1>5, <1>8 DEF KeyRefresh, KeyRaises
<1> QED  BY <1>2, <1>3, <1>6, <1>7, <1>8 DEF KeyStep

LEMMA NextTypeOK == TypeOK /\ [Next]_vars => TypeOK'
<1> SUFFICES ASSUME TypeOK, [Next]_vars PROVE TypeOK'  OBVIOUS
<1>1. CASE UNCHANGED vars  BY <1>1 DEF vars, TypeOK, Holds, Row
<1>2. ASSUME NEW h \in Handlers, Dies(h) PROVE TypeOK'
  BY <1>2, EndsFree, EndsTypeOK DEF Dies, TypeOK, Holds
<1> QED  BY <1>1, <1>2, TemplateStepTypeOK, KeyStepTypeOK DEF Next

(* Every reachable state is well typed: a key is one that its own user sent, *)
(* and a request that changes or deletes a template has read a row of it.    *)
THEOREM TypeCorrect == Spec => []TypeOK
BY InitTypeOK, NextTypeOK, PTL DEF Spec
-----------------------------------------------------------------------------
(* A step that writes a row leaves its owner's names apart.                  *)
LEMMA RowWritten ==
    ASSUME TypeOK, NamesUnique, NEW t \in Templates, NEW u \in Users, NEW c \in Columns,
           NameFree(u, c.name, t),
           template' = [template EXCEPT ![t] = [state |-> "row", owner |-> u, cols |-> c]]
    PROVE  NamesUnique'
BY DEF TypeOK, NamesUnique, NameFree, Row

LEMMA NextNamesUnique == TypeOK /\ NamesUnique /\ [Next]_vars => NamesUnique'
<1> SUFFICES ASSUME TypeOK, NamesUnique, [Next]_vars PROVE NamesUnique'  OBVIOUS
<1>1. CASE UNCHANGED template  BY <1>1 DEF NamesUnique, Row
<1>2. ASSUME NEW h \in Handlers, NEW u \in Users, NEW c \in Columns, CreateTemplate(h, u, c)
      PROVE  NamesUnique'
  BY <1>2, RowWritten DEF CreateTemplate
<1>3. ASSUME NEW h \in Handlers, UpdateCommit(h) PROVE NamesUnique'
  <2> DEFINE r == req[h]
             t == template[r.id]
             c == Written(t.cols, r.loaded, r.sent)
  <2>1. /\ r.id \in Templates /\ r.loaded \in Columns /\ r.sent \in Columns /\ Row(r.id)
    BY <1>3, UpdateIsTyped DEF UpdateCommit
  <2>2. c \in Columns  BY <2>1, RowIsTyped, WrittenColumns
  <2>3. NameFree(t.owner, c.name, r.id) /\ template' = [template EXCEPT ![r.id].cols = c]
    BY <1>3 DEF UpdateCommit
  <2>4. t \in [state : {"row"}, owner : Users, cols : Columns]  BY <2>1, RowIsTyped
  <2> HIDE DEF c, t
  <2>5. [t EXCEPT !.cols = c] = [state |-> "row", owner |-> t.owner, cols |-> c]
    BY <2>2, <2>4
  <2>6. template' = [template EXCEPT ![r.id] =
                       [state |-> "row", owner |-> t.owner, cols |-> c]]
    BY <2>3, <2>5 DEF t
  <2>7. t.owner \in Users  BY <2>4
  <2> QED  BY <2>1, <2>2, <2>3, <2>6, <2>7, RowWritten
<1>4. ASSUME NEW h \in Handlers, DeleteCommit(h) PROVE NamesUnique'
  BY <1>4, DeleteIsTyped DEF DeleteCommit, NamesUnique, Row, Missing, TypeOK
<1> QED
  BY <1>1, <1>2, <1>3, <1>4
     DEF vars, Next, TemplateStep, KeyStep, Dies, PutTemplate, DeleteTemplate, ReadTemplate,
         UpdateFails, ReadKey, KeyCommit, KeyRefresh, KeyRaises,
           ClearCommit

(* No interleaving of creates, renames and deletes gives a user two          *)
(* templates of one name (the unique constraint is the only check).          *)
THEOREM NamesApart == Spec => []NamesUnique
<1>1. Init => NamesUnique  BY DEF Init, NamesUnique, Row, Missing
<1> QED  BY <1>1, NextNamesUnique, TypeCorrect, PTL DEF Spec
-----------------------------------------------------------------------------
(* A template that is gone stays gone: an UPDATE needs its row.              *)
THEOREM DeletedForGood == Spec => DeletedStays
<1>1. TypeOK /\ [Next]_vars => [\A t \in Templates :
        template[t].state = "gone" => template'[t].state = "gone"]_vars
  <2> SUFFICES ASSUME TypeOK, [Next]_vars, NEW t \in Templates, template[t].state = "gone"
               PROVE  template'[t].state = "gone"
    OBVIOUS
  <2>1. CASE UNCHANGED template  BY <2>1
  <2>2. ASSUME NEW h \in Handlers, NEW u \in Users, NEW c \in Columns,
               CreateTemplate(h, u, c)
        PROVE  template'[t].state = "gone"
    BY <2>2 DEF CreateTemplate, TypeOK
  <2>3. ASSUME NEW h \in Handlers, UpdateCommit(h) PROVE template'[t].state = "gone"
    BY <2>3 DEF UpdateCommit, Row, TypeOK
  <2>4. ASSUME NEW h \in Handlers, DeleteCommit(h) PROVE template'[t].state = "gone"
    BY <2>4 DEF DeleteCommit, Missing, TypeOK
  <2> QED
    BY <2>1, <2>2, <2>3, <2>4
       DEF vars, Next, TemplateStep, KeyStep, Dies, PutTemplate, DeleteTemplate, ReadTemplate,
           UpdateFails, ReadKey, KeyCommit, KeyRefresh, KeyRaises,
           ClearCommit
<1> QED  BY <1>1, TypeCorrect, PTL DEF Spec, DeletedStays

(* A PUT of a template whose row nobody changed since it was read leaves     *)
(* what it sent, all columns of it.                                          *)
THEOREM QuietPut == Spec => QuietPutSticks
<1>1. TypeOK => [\A h \in Handlers : LET r == req[h] IN
        UpdateCommit(h) /\ template[r.id].cols = r.loaded
          => template'[r.id].cols = r.sent]_vars
  <2> SUFFICES ASSUME TypeOK, NEW h \in Handlers, UpdateCommit(h),
                      template[req[h].id].cols = req[h].loaded
               PROVE  template'[req[h].id].cols = req[h].sent
    OBVIOUS
  <2>1. /\ req[h].id \in Templates /\ req[h].loaded \in Columns
        /\ req[h].sent \in Columns /\ Row(req[h].id)
    BY UpdateIsTyped DEF UpdateCommit
  <2>2. Written(template[req[h].id].cols, req[h].loaded, req[h].sent) = req[h].sent
    BY <2>1, WrittenColumns
  <2>3. template[req[h].id] \in [state : {"row"}, owner : Users, cols : Columns]
    BY <2>1, RowIsTyped
  <2> QED  BY <2>1, <2>2, <2>3 DEF UpdateCommit, TypeOK
<1> QED  BY <1>1, TypeCorrect, PTL DEF Spec, QuietPutSticks
-----------------------------------------------------------------------------
(* --- the keys as registers -------------------------------------------------- *)
Values == UNION {KeysOf(u) : u \in Users}
calls == [h \in Handlers |-> CallOf(req[h])]

(* Only a request for a key is a call.                                       *)
LEMMA CallIsTyped ==
    ASSUME TypeOK, NEW h \in Handlers, req[h].op \in KeyOps
    PROVE  CallOf(req[h]) \in Register!Calls
<1>1. /\ req[h].user \in Users /\ req[h].provider \in Providers
      /\ req[h].sent \in Values /\ req[h].loaded \in Values
  BY KeyRequestIsTyped DEF Values
<1>2. Taken(req[h]) \in BOOLEAN  BY DEF Taken
<1> QED  BY <1>1, <1>2 DEF CallOf, Register!Calls, Values

LEMMA OtherIsNoCall ==
    ASSUME NEW r, r.op \notin KeyOps
    PROVE  CallOf(r) \notin Register!Calls
<1>1. DOMAIN CallOf(r) = {"told"}  BY DEF CallOf
<1>2. \A c \in Register!Calls : "user" \in DOMAIN c  BY DEF Register!Calls
<1> QED  BY <1>1, <1>2

LEMMA CallBecomes ==
    ASSUME TypeOK, NEW h \in Handlers, NEW r, Becomes(h, r)
    PROVE  calls' = [calls EXCEPT ![h] = CallOf(r)]
BY DEF TypeOK, Becomes, calls

LEMMA FreeIsIdle ==
    ASSUME TypeOK, NEW h \in Handlers, NEW answer, Tells(h, answer)
    PROVE  calls' = [calls EXCEPT ![h] = Register!Idle(answer)]
<1>1. CallOf(Free(answer)) = [told |-> answer]  BY DEF CallOf, Free, KeyOps
<1> QED  BY <1>1, CallBecomes DEF Tells, Register!Idle

(* A request for a template is no call: what was told before is forgotten.   *)
LEMMA TemplateStepIsLoss ==
    ASSUME TypeOK, NEW h \in Handlers, TemplateStep(h)
    PROVE  UNCHANGED <<key, calls>> \/ Register!Lose(h)
<1>1. UNCHANGED key
  BY DEF TemplateStep, CreateTemplate, PutTemplate, DeleteTemplate, ReadTemplate, UpdateCommit,
         UpdateFails, DeleteCommit
<1>2. ASSUME NEW r, Becomes(h, r), r.op \in {"update", "delete"} \/ r = Free(Nothing)
      PROVE  Register!Lose(h)
  <2>1. CallOf(r) = [told |-> Nothing]  BY <1>2 DEF CallOf, Free, KeyOps
  <2> QED  BY <1>1, <1>2, <2>1, CallBecomes DEF Register!Lose, Register!Becomes, Register!Idle,
                                                calls
<1> QED
  BY <1>1, <1>2 DEF TemplateStep, CreateTemplate, PutTemplate, DeleteTemplate, ReadTemplate,
     UpdateCommit, UpdateFails, DeleteCommit, Ends, calls

LEMMA AskIsAsk ==
    ASSUME TypeOK, NEW h \in Handlers, NEW op \in {"set-key", "clear-key"},
           NEW u \in Users, NEW p \in Providers, NEW k, ReadKey(h, op, u, p, k)
    PROVE  Register!Ask(h, u, p, k)
<1> DEFINE r == [op |-> op, user |-> u, provider |-> p, loaded |-> key[u][p], sent |-> k]
<1>1. CallOf(r) = [user |-> u, provider |-> p, value |-> k, was |-> key[u][p],
                   taken |-> k = key[u][p]]
  BY DEF CallOf, Taken, KeyOps
<1>2. calls' = [calls EXCEPT ![h] = CallOf(r)]
  <2> HIDE DEF r
  <2>1. Becomes(h, r)  BY DEF ReadKey, r
  <2> QED  BY <2>1, CallBecomes
<1>3. req[h].op \notin KeyOps  BY DEF ReadKey, Holds, KeyOps
<1>4. calls[h] \notin Register!Calls  BY <1>3, OtherIsNoCall DEF calls
<1>5. UNCHANGED key  BY DEF ReadKey
<1> QED
  BY <1>1, <1>2, <1>4, <1>5 DEF Register!Ask, Register!Pending, Register!Becomes, calls

(* What the register sees of a request that has read its key.                *)
LEMMA CallSeen ==
    ASSUME TypeOK, NEW h \in Handlers, req[h].op \in KeyOps
    PROVE  LET r == req[h] IN
           /\ Register!Pending(h)
           /\ Register!Now(h) = key[r.user][r.provider]
           /\ Register!Alone(h) = IF Taken(r) THEN r.sent ELSE r.loaded
           /\ calls[h].user = r.user /\ calls[h].provider = r.provider
           /\ calls[h].value = r.sent
           /\ calls[h].taken <=> Taken(r)
<1> DEFINE r == req[h]
<1>1. /\ calls[h] = [user |-> r.user, provider |-> r.provider, value |-> r.sent,
                     was |-> r.loaded, taken |-> Taken(r)]
      /\ Register!Pending(h)
  BY CallIsTyped DEF CallOf, calls, Register!Pending
<1>2. Taken(r) \in BOOLEAN  BY DEF Taken
<1> HIDE DEF r
<1>3. /\ calls[h].user = r.user /\ calls[h].provider = r.provider
      /\ calls[h].value = r.sent /\ calls[h].was = r.loaded
  BY <1>1
<1>4. calls[h].taken = Taken(r)  BY <1>1
<1>5. calls[h].taken <=> Taken(r)  BY <1>2, <1>4
<1>6. Register!Now(h) = key[r.user][r.provider]  BY <1>3 DEF Register!Now, calls
<1>7. Register!Alone(h) = IF calls[h].taken THEN r.sent ELSE r.loaded
  BY <1>3 DEF Register!Alone, calls
<1> QED  BY <1>1, <1>3, <1>5, <1>6, <1>7 DEF r

LEMMA CommitIsTake ==
    ASSUME TypeOK, NEW h \in Handlers, KeyCommit(h)
    PROVE  UNCHANGED <<key, calls>> \/ Register!Take(h)
<1> DEFINE r == req[h]
           s == [r EXCEPT !.op = "refresh-key"]
<1>1. r.op = "set-key" /\ r.op \in KeyOps /\ Becomes(h, s)
  BY DEF KeyCommit, Holds, KeyOps
<1>2. ASSUME NEW b \in BOOLEAN, NEW q \in {r, s}, Taken(q) <=> b
      PROVE  CallOf(q) = [user |-> r.user, provider |-> r.provider, value |-> r.sent,
                          was |-> r.loaded, taken |-> b]
  <2>1. /\ s.op = "refresh-key" /\ s.user = r.user /\ s.provider = r.provider
        /\ s.sent = r.sent /\ s.loaded = r.loaded
    BY <1>1, KeyRequestIsTyped DEF TypeOK, Requests, KeyOps
  <2>2. r.op \in KeyOps /\ s.op \in KeyOps  BY <1>1, <2>1 DEF KeyOps
  <2>3. Taken(q) \in BOOLEAN  BY DEF Taken
  <2>4. Taken(q) = b  BY <1>2, <2>3
  <2> HIDE DEF r, s, Taken
  <2>5. CallOf(q) = [user |-> q.user, provider |-> q.provider, value |-> q.sent,
                     was |-> q.loaded, taken |-> Taken(q)]
    BY <2>2 DEF CallOf
  <2> QED  BY <2>1, <2>4, <2>5
<1>3. calls' = [calls EXCEPT ![h] = CallOf(s)] /\ calls[h] = CallOf(r)
  <2> HIDE DEF s
  <2> QED  BY <1>1, CallBecomes DEF calls
<1>4. CallOf(s) = [user |-> r.user, provider |-> r.provider, value |-> r.sent,
                   was |-> r.loaded, taken |-> TRUE]
  <2>1. Taken(s)  BY <1>1, KeyRequestIsTyped DEF Taken, TypeOK, Requests
  <2> QED  BY <1>2, <2>1
<1>5. CASE r.sent = r.loaded
  <2>1. UNCHANGED key  BY <1>5 DEF KeyCommit
  <2>2. Taken(r)  BY <1>5 DEF Taken
  <2>3. CallOf(s) = CallOf(r)  BY <1>2, <1>4, <2>2
  <2>4. calls' = calls  BY <1>3, <2>3 DEF calls
  <2> QED  BY <2>1, <2>4
<1>6. CASE r.sent # r.loaded
  <2>1. key' = [key EXCEPT ![r.user][r.provider] = r.sent]  BY <1>6 DEF KeyCommit
  <2>2. ~Taken(r)  BY <1>1, <1>6 DEF Taken
  <2>3. CallOf(r) = [user |-> r.user, provider |-> r.provider, value |-> r.sent,
                     was |-> r.loaded, taken |-> FALSE]
    BY <1>2, <2>2
  <2>4. CallOf(s) = [calls[h] EXCEPT !.taken = TRUE]
    <3>1. ASSUME NEW a \in BOOLEAN, NEW b \in BOOLEAN
          PROVE  [user |-> r.user, provider |-> r.provider, value |-> r.sent,
                  was |-> r.loaded, taken |-> b]
                   = [[user |-> r.user, provider |-> r.provider, value |-> r.sent,
                       was |-> r.loaded, taken |-> a] EXCEPT !.taken = b]
      OBVIOUS
    <3> HIDE DEF r, s
    <3> QED  BY <1>3, <1>4, <2>3, <3>1
  <2>5. /\ ~calls[h].taken /\ calls[h].user = r.user /\ calls[h].provider = r.provider
        /\ calls[h].value = r.sent
    BY <1>3, <2>3
  <2>6. Register!Pending(h)  BY <1>1, CallSeen
  <2> HIDE DEF r, s
  <2>7. Register!Takes(h)  BY <2>1, <2>5, <2>6 DEF Register!Takes, calls
  <2> QED  BY <1>3, <2>4, <2>7 DEF Register!Take, Register!Becomes, calls
<1> QED  BY <1>5, <1>6

LEMMA RefreshIsAnswer ==
    ASSUME TypeOK, NEW h \in Handlers, KeyRefresh(h)
    PROVE  Register!Answer(h)
<1>1. req[h].op = "refresh-key" /\ req[h].op \in KeyOps  BY DEF KeyRefresh, Holds, KeyOps
<1>2. calls[h].taken
  <2>1. Taken(req[h])  BY <1>1 DEF Taken
  <2> QED  BY <1>1, <2>1, CallSeen
<1>3. calls' = [calls EXCEPT ![h] = Register!Idle("ok")] /\ UNCHANGED key
  BY FreeIsIdle DEF KeyRefresh
<1> QED  BY <1>1, <1>2, <1>3, CallSeen DEF Register!Answer, Register!Becomes, calls

LEMMA RaiseIsRefusal ==
    ASSUME TypeOK, NEW h \in Handlers, KeyRaises(h)
    PROVE  Register!Refuse(h)
<1>1. req[h].op \in {"set-key", "refresh-key"} /\ req[h].op \in KeyOps
  BY DEF KeyRaises, Holds, KeyOps
<1>2. req[h].sent # Nothing  BY <1>1, KeyRequestIsTyped
<1>3. Register!Now(h) # Register!Alone(h)
  BY <1>1, <1>2, CallSeen DEF KeyRaises, Holds, KeyWriteFits, Taken
<1>4. calls' = [calls EXCEPT ![h] = Register!Idle("refused")] /\ UNCHANGED key
  BY FreeIsIdle DEF KeyRaises
<1> QED  BY <1>1, <1>3, <1>4, CallSeen DEF Register!Refuse, Register!Becomes, calls

LEMMA ClearIsAnswer ==
    ASSUME TypeOK, NEW h \in Handlers, ClearCommit(h)
    PROVE  Register!Answer(h)
<1>1. req[h].op = "clear-key" /\ req[h].op \in KeyOps  BY DEF ClearCommit, Holds, KeyOps
<1>2. req[h].sent = Nothing  BY <1>1, KeyRequestIsTyped
<1>3. calls' = [calls EXCEPT ![h] = Register!Idle("ok")]  BY FreeIsIdle DEF ClearCommit
<1>4. calls[h].taken <=> req[h].loaded = Nothing
  <2>1. Taken(req[h]) <=> req[h].loaded = Nothing  BY <1>1, <1>2 DEF Taken
  <2> QED  BY <1>1, <2>1, CallSeen
<1>5. /\ calls[h].user = req[h].user /\ calls[h].provider = req[h].provider
      /\ calls[h].value = Nothing /\ Register!Pending(h)
  BY <1>1, <1>2, CallSeen
<1>6. key' = IF req[h].loaded = Nothing THEN key
             ELSE [key EXCEPT ![req[h].user][req[h].provider] = Nothing]
  BY DEF ClearCommit
<1>7. \/ calls[h].taken /\ UNCHANGED key
      \/ Register!Takes(h)
  BY <1>4, <1>5, <1>6 DEF Register!Takes, calls
<1> QED  BY <1>3, <1>5, <1>7 DEF Register!Answer, Register!Becomes, calls

LEMMA DeathIsLoss ==
    ASSUME TypeOK, NEW h \in Handlers, Dies(h)
    PROVE  Register!Lose(h)
<1>1. Tells(h, Nothing)  BY DEF Dies, Ends, Tells
<1> QED  BY <1>1, FreeIsIdle DEF Dies, Register!Lose, Register!Becomes, calls

(* Sets and clears of keys are calls of a register: an answered one took     *)
(* effect once, at one moment while it ran, and one that an overlapping      *)
(* request made fail did not, or is undone.                                  *)
THEOREM KeysAreRegisters == Spec => RefinesKeyRegister
<1>1. Init => Register!Init
  BY DEF Init, Register!Init, Register!Idle, CallOf, Free, KeyOps
<1>2. TypeOK /\ [Next]_vars => [Register!Next]_<<key, calls>>
  <2> SUFFICES ASSUME TypeOK, [Next]_vars PROVE Register!Next \/ UNCHANGED <<key, calls>>
    OBVIOUS
  <2>1. CASE UNCHANGED vars  BY <2>1 DEF vars, calls
  <2>2. ASSUME NEW h \in Handlers, TemplateStep(h)
        PROVE  Register!Next \/ UNCHANGED <<key, calls>>
    BY <2>2, TemplateStepIsLoss DEF Register!Next
  <2>3. ASSUME NEW h \in Handlers, Dies(h) PROVE Register!Next
    BY <2>3, DeathIsLoss DEF Register!Next
  <2>4. ASSUME NEW h \in Handlers, NEW u \in Users, NEW p \in Providers, NEW k \in KeysOf(u),
               NEW op \in {"set-key", "clear-key"}, ReadKey(h, op, u, p, k)
        PROVE  Register!Next
    <3>1. k \in UNION {KeysOf(v) : v \in Users}  OBVIOUS
    <3> QED  BY <2>4, <3>1, AskIsAsk DEF Register!Next
  <2>5. ASSUME NEW h \in Handlers, KeyStep(h)
        PROVE  Register!Next \/ UNCHANGED <<key, calls>>
    <3>1. ASSUME NEW u \in Users, NEW p \in Providers, NEW k \in Secrets,
                 ReadKey(h, "set-key", u, p, <<u, k>>)
          PROVE  Register!Next
      <4>1. <<u, k>> \in KeysOf(u)  BY DEF KeysOf, SendsKeys
      <4> QED  BY <2>4, <3>1, <4>1
    <3>2. ASSUME NEW u \in Users, NEW p \in Providers, ReadKey(h, "clear-key", u, p, Nothing)
          PROVE  Register!Next
      <4>1. Nothing \in KeysOf(u)  BY DEF KeysOf
      <4> QED  BY <2>4, <3>2, <4>1
    <3>3. CASE KeyCommit(h)  BY <3>3, CommitIsTake DEF Register!Next
    <3>4. CASE KeyRefresh(h)  BY <3>4, RefreshIsAnswer DEF Register!Next
    <3>5. CASE KeyRaises(h)  BY <3>5, RaiseIsRefusal DEF Register!Next
    <3>6. CASE ClearCommit(h)  BY <3>6, ClearIsAnswer DEF Register!Next
    <3> QED  BY <2>5, <3>1, <3>2, <3>3, <3>4, <3>5, <3>6 DEF KeyStep
  <2> QED  BY <2>1, <2>2, <2>3, <2>5 DEF Next
<1> QED  BY <1>1, <1>2, TypeCorrect, PTL DEF Spec, Register!Spec, RefinesKeyRegister, calls
=============================================================================
