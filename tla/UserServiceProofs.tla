-------------------------- MODULE UserServiceProofs --------------------------
(* Theorems about UserService, for every value of its constants.             *)
EXTENDS UserService, TLAPS

Session == [state : {"live", "revoked"}, owner : Users, at : Times, born : 0 .. MaxSweeps]
UserRow == [email : Emails \cup {Nothing}, admin : BOOLEAN]

LEMMA InitTypeOK == Init => TypeOK
BY BoundsAssumption
   DEF Init, StoreInit, TypeOK, NoUser, NoSession, Free, Requests, Times, NamesIssued
-----------------------------------------------------------------------------
(* What a request holds, by its kind.                                        *)
LEMMA LoginIsTyped ==
    ASSUME TypeOK, NEW h \in Handlers, Holds(h, "login")
    PROVE  req[h].user \in Users
BY DEF TypeOK, Requests, Free, Holds

LEMMA RotateIsTyped ==
    ASSUME TypeOK, NEW h \in Handlers, Holds(h, "rotate")
    PROVE  req[h].from \in Jtis /\ Issued(req[h].from)
BY DEF TypeOK, Requests, Free, Holds, NamesIssued, Tokens

LEMMA LogoutIsTyped ==
    ASSUME TypeOK, NEW h \in Handlers, Holds(h, "logout") \/ Holds(h, "logout-session")
    PROVE  /\ req[h] \in [op : {"logout", "logout-session"}, by : Jtis,
                          token : Jtis \cup {Nothing}]
           /\ req[h].by \in Tokens /\ req[h].token \in Tokens \cup {Nothing}
BY DEF TypeOK, Requests, Free, Holds, NamesIssued

LEMMA RevokeIsTyped ==
    ASSUME TypeOK, NEW h \in Handlers, Holds(h, "revoke")
    PROVE  req[h].by \in Tokens /\ req[h].token \in Tokens
<1>1. req[h].token \in Jtis  BY DEF TypeOK, Requests, Free, Holds
<1> QED  BY <1>1, NothingAssumption DEF TypeOK, Holds, NamesIssued

LEMMA ByIsTyped ==
    ASSUME TypeOK, NEW h \in Handlers,
           req[h].op \in {"revoke-all", "password", "name", "email"}
    PROVE  req[h].by \in Tokens
BY DEF TypeOK, NamesIssued

LEMMA SweepingIsTyped ==
    ASSUME TypeOK, NEW h \in Handlers, Holds(h, "sweeping")
    PROVE  /\ req[h].user \in Users /\ req[h].rows \subseteq Jtis
           /\ req[h].rows \subseteq Tokens /\ req[h].ticket \in Nat
BY DEF TypeOK, Requests, Free, Holds, NamesIssued

LEMMA EmailIsTyped ==
    ASSUME TypeOK, NEW h \in Handlers
    PROVE  /\ Holds(h, "register") => req[h].email \in Emails
           /\ Holds(h, "email") => req[h].email \in Emails
           /\ Holds(h, "email-write") => req[h].user \in Users /\ req[h].email \in Emails
           /\ Holds(h, "password-write") => req[h].user \in Users
BY DEF TypeOK, Requests, Free, Holds

(* An issued session has an owner and a time.                                *)
LEMMA IssuedIsTyped ==
    ASSUME TypeOK, NEW s \in Jtis, Issued(s)
    PROVE  session[s] \in Session /\ Owner(s) \in Users
BY DEF TypeOK, Issued, NoSession, Session, Owner

LEMMA NewSessionIsTyped ==
    ASSUME TypeOK, NEW u \in Users
    PROVE  NewSession(u) \in Session
BY DEF TypeOK, NewSession, Session
-----------------------------------------------------------------------------
(* Revocation and insertion: a session that is issued stays issued, with its *)
(* owner and its times, and is not live again once it was revoked.           *)
Kept(s) == session'[s] = session[s] \/ session'[s] = [session[s] EXCEPT !.state = "revoked"]
Inserted(s, u) == ~Issued(s) /\ session'[s] = NewSession(u)

SessionMoves ==
    /\ session' \in [Jtis -> Session \cup {NoSession}]
    /\ \A s \in Jtis : Issued(s) => Kept(s)
    /\ \A s \in Jtis : ~Issued(s) => \/ session'[s] = session[s]
                                     \/ \E u \in Users : Inserted(s, u)

LEMMA RevokedRow ==
    ASSUME NEW r \in Session
    PROVE  [r EXCEPT !.state = "revoked"] \in Session
BY DEF Session

LEMMA LoginMoves ==
    ASSUME TypeOK, NEW h \in Handlers, NEW s \in Jtis, LoginCommit(h, s)
    PROVE  SessionMoves
<1>1. req[h].user \in Users  BY LoginIsTyped DEF LoginCommit
<1>2. NewSession(req[h].user) \in Session  BY <1>1, NewSessionIsTyped
<1>3. session \in [Jtis -> Session \cup {NoSession}]  BY DEF TypeOK, Session
<1> QED  BY <1>1, <1>2, <1>3 DEF LoginCommit, SessionMoves, Kept, Inserted, FreshJti

LEMMA RefreshMoves ==
    ASSUME TypeOK, NEW h \in Handlers, NEW s \in Jtis, RefreshCommit(h, s)
    PROVE  SessionMoves
<1> DEFINE from == req[h].from
           ended == [session[from] EXCEPT !.state = "revoked"]
           new == NewSession(Owner(from))
<1>1. from \in Jtis /\ Issued(from)  BY RotateIsTyped DEF RefreshCommit
<1>2. Owner(from) \in Users /\ session[from] \in Session  BY <1>1, IssuedIsTyped
<1>3. new \in Session /\ ended \in Session  BY <1>2, NewSessionIsTyped, RevokedRow
<1>4. session \in [Jtis -> Session \cup {NoSession}]  BY DEF TypeOK, Session
<1>5. ~Issued(s) /\ s # from  BY <1>1 DEF RefreshCommit, FreshJti
<1>6. session' = [session EXCEPT ![from].state = "revoked", ![s] = new]
  BY DEF RefreshCommit
<1> HIDE DEF new
<1>7. session' = [t \in Jtis |-> IF t = s THEN new
                                 ELSE IF t = from THEN ended ELSE session[t]]
  BY <1>1, <1>4, <1>5, <1>6
<1> HIDE DEF ended
<1>8. session' \in [Jtis -> Session \cup {NoSession}]  BY <1>3, <1>4, <1>7
<1> QED  BY <1>1, <1>2, <1>5, <1>7, <1>8 DEF SessionMoves, Kept, Inserted, new, ended

LEMMA RevokeMoves ==
    ASSUME TypeOK, NEW S \in SUBSET Tokens,
           session' = [s \in Jtis |-> IF s \in S THEN [session[s] EXCEPT !.state = "revoked"]
                                      ELSE session[s]]
    PROVE  SessionMoves
<1>1. \A s \in S : s \in Jtis /\ Issued(s) /\ session[s] \in Session
  BY IssuedIsTyped DEF Tokens
<1>2. \A s \in S : [session[s] EXCEPT !.state = "revoked"] \in Session
  BY <1>1, RevokedRow
<1>3. session \in [Jtis -> Session \cup {NoSession}]  BY DEF TypeOK, Session
<1>4. session' \in [Jtis -> Session \cup {NoSession}]  BY <1>2, <1>3
<1> QED  BY <1>1, <1>4 DEF SessionMoves, Kept

(* LogoutSession, RevokeOne and SweepCommit revoke a set of sessions.        *)
Revokes(S) == session' = [s \in Jtis |-> IF s \in S
                                         THEN [session[s] EXCEPT !.state = "revoked"]
                                         ELSE session[s]]
Revoked(h) == CASE Holds(h, "sweeping") -> req[h].rows
                [] Holds(h, "revoke") -> {req[h].token}
                [] OTHER -> IF LogoutRevokes(h) THEN {req[h].token} ELSE {}

LEMMA RevokesItsOwn ==
    ASSUME TypeOK, NEW h \in Handlers, LogoutSession(h) \/ RevokeOne(h) \/ SweepCommit(h)
    PROVE  Revoked(h) \in SUBSET Tokens /\ Revokes(Revoked(h))
<1>1. session \in [Jtis -> Session \cup {NoSession}]  BY DEF TypeOK, Session
<1>2. CASE LogoutSession(h)
  <2>1. ~Holds(h, "sweeping") /\ ~Holds(h, "revoke")  BY <1>2 DEF LogoutSession, Holds
  <2>2. LogoutRevokes(h) => req[h].token \in Tokens
    BY <1>2, LogoutIsTyped DEF LogoutSession, LogoutRevokes
  <2>3. Revoked(h) = IF LogoutRevokes(h) THEN {req[h].token} ELSE {}  BY <2>1 DEF Revoked
  <2>4. CASE LogoutRevokes(h)
    <3>1. session' = [session EXCEPT ![req[h].token].state = "revoked"]
      BY <1>2, <2>4 DEF LogoutSession
    <3>2. req[h].token \in Jtis  BY <2>2, <2>4 DEF Tokens
    <3> QED  BY <1>1, <2>2, <2>3, <2>4, <3>1, <3>2 DEF Revokes
  <2>5. CASE ~LogoutRevokes(h)
    <3>1. session' = session  BY <1>2, <2>5 DEF LogoutSession
    <3> QED  BY <1>1, <2>3, <2>5, <3>1 DEF Revokes
  <2> QED  BY <2>4, <2>5
<1>3. CASE RevokeOne(h)
  <2>1. Holds(h, "revoke") /\ ~Holds(h, "sweeping")  BY <1>3 DEF RevokeOne, Holds
  <2>2. req[h].token \in Tokens /\ req[h].token \in Jtis
    BY <2>1, RevokeIsTyped DEF Tokens
  <2>3. Revoked(h) = {req[h].token}  BY <2>1 DEF Revoked
  <2>4. session' = [session EXCEPT ![req[h].token].state = "revoked"]
    BY <1>3 DEF RevokeOne
  <2> QED  BY <1>1, <2>2, <2>3, <2>4 DEF Revokes
<1>4. CASE SweepCommit(h)
  <2>1. Holds(h, "sweeping")  BY <1>4 DEF SweepCommit
  <2>2. Revoked(h) = req[h].rows  BY <2>1 DEF Revoked, Holds
  <2> QED  BY <1>4, <2>1, <2>2, SweepingIsTyped DEF SweepCommit, Revokes
<1> QED  BY <1>2, <1>3, <1>4
-----------------------------------------------------------------------------
(* Which actions write which table.                                          *)
WritesSession ==
    \/ UNCHANGED session
    \/ \E h \in Handlers, s \in Jtis : LoginCommit(h, s) \/ RefreshCommit(h, s)
    \/ \E h \in Handlers : LogoutSession(h) \/ RevokeOne(h) \/ SweepCommit(h)

WritesUser ==
    \/ UNCHANGED user
    \/ \E h \in Handlers, u \in Users : RegisterCommit(h, u)
    \/ \E h \in Handlers : EmailCommit(h)
    \/ \E p \in Processes, u \in Users : Seed(p, u)

WritesSweeps ==
    \/ UNCHANGED sweeps
    \/ \E h \in Handlers : RevokeAll(h) \/ PasswordSweep(h) \/ SweepCommit(h)

WritesBlock == UNCHANGED block \/ \E h \in Handlers : LogoutBlock(h)
WritesAnswered == UNCHANGED answered \/ \E h \in Handlers : LogoutSession(h)
WritesNow == UNCHANGED now \/ Tick
WritesApi ==
    \/ UNCHANGED api
    \/ \E p \in Processes : Boot(p) \/ SeedRaises(p) \/ Stops(p)
    \/ \E p \in Processes, u \in Users : Seed(p, u)

Writes == /\ WritesSession /\ WritesUser /\ WritesSweeps /\ WritesBlock
          /\ WritesAnswered /\ WritesNow /\ WritesApi

LEMMA RequestWrites ==
    ASSUME NEW h \in Handlers, Request(h)
    PROVE  UNCHANGED <<user, session, block, now, sweeps, answered, api>>
BY DEF Request, LoginRead, RefreshRead, RegisterRead, Authorise, account

LEMMA SessionStepWrites ==
    ASSUME NEW h \in Handlers, SessionStep(h)
    PROVE  Writes
<1> USE DEF Writes, WritesSession, WritesUser, WritesSweeps, WritesBlock, WritesAnswered,
            WritesNow, WritesApi
<1>1. CASE \E s \in Jtis : LoginCommit(h, s) /\ UNCHANGED <<now, api>>
  BY <1>1 DEF LoginCommit
<1>2. CASE \E s \in Jtis : RefreshCommit(h, s) /\ UNCHANGED <<now, api>>
  BY <1>2 DEF RefreshCommit
<1>3. CASE LogoutBlock(h) /\ UNCHANGED <<now, api>>  BY <1>3 DEF LogoutBlock
<1>4. CASE LogoutSession(h) /\ UNCHANGED <<now, api>>  BY <1>4 DEF LogoutSession
<1>5. CASE RevokeOne(h) /\ UNCHANGED <<now, api>>  BY <1>5 DEF RevokeOne
<1>6. CASE RevokeAll(h) /\ UNCHANGED <<now, api>>  BY <1>6 DEF RevokeAll, Sweep
<1>7. CASE SweepCommit(h) /\ UNCHANGED <<now, api>>  BY <1>7 DEF SweepCommit
<1> QED  BY <1>1, <1>2, <1>3, <1>4, <1>5, <1>6, <1>7 DEF SessionStep

LEMMA AccountStepWrites ==
    ASSUME NEW h \in Handlers, AccountStep(h)
    PROVE  Writes
<1> USE DEF Writes, WritesSession, WritesUser, WritesSweeps, WritesBlock, WritesAnswered,
            WritesNow, WritesApi, account
<1>1. CASE \E u \in Users : RegisterCommit(h, u) /\ UNCHANGED now
  BY <1>1 DEF RegisterCommit
<1>2. CASE RegisterRaises(h) /\ UNCHANGED now  BY <1>2 DEF RegisterRaises
<1>3. CASE EmailRead(h) /\ UNCHANGED now  BY <1>3 DEF EmailRead
<1>4. CASE EmailTaken(h) /\ UNCHANGED now  BY <1>4 DEF EmailTaken
<1>5. CASE EmailCommit(h) /\ UNCHANGED now  BY <1>5 DEF EmailCommit
<1>6. CASE EmailRaises(h) /\ UNCHANGED now  BY <1>6 DEF EmailRaises
<1>7. CASE Rename(h) /\ UNCHANGED now  BY <1>7 DEF Rename
<1>8. CASE PasswordRead(h) /\ UNCHANGED now  BY <1>8 DEF PasswordRead
<1>9. CASE PasswordSweep(h) /\ UNCHANGED now  BY <1>9 DEF PasswordSweep, Sweep
<1> QED  BY <1>1, <1>2, <1>3, <1>4, <1>5, <1>6, <1>7, <1>8, <1>9 DEF AccountStep

LEMMA StepWrites == [Next]_vars => Writes
<1> SUFFICES ASSUME [Next]_vars PROVE Writes  OBVIOUS
<1> USE DEF Writes, WritesSession, WritesUser, WritesSweeps, WritesBlock, WritesAnswered,
            WritesNow, WritesApi
<1>1. CASE UNCHANGED vars  BY <1>1 DEF vars
<1>2. ASSUME NEW h \in Handlers, Request(h) PROVE Writes  BY <1>2, RequestWrites
<1>3. ASSUME NEW h \in Handlers, HandlerDies(h) PROVE Writes  BY <1>3 DEF HandlerDies
<1>4. ASSUME NEW p \in Processes, Process(p) PROVE Writes
  BY <1>4 DEF Process, Boot, Seed, SeedRaises, Stops
<1>5. CASE Tick  BY <1>5 DEF Tick
<1> QED
  BY <1>1, <1>2, <1>3, <1>4, <1>5, SessionStepWrites, AccountStepWrites DEF Next

LEMMA StepMovesSessions ==
    ASSUME TypeOK, [Next]_vars
    PROVE  SessionMoves /\ Tokens \subseteq Tokens'
<1>1. ASSUME UNCHANGED session PROVE SessionMoves
  <2>1. session \in [Jtis -> Session \cup {NoSession}]  BY DEF TypeOK, Session
  <2> QED  BY <1>1, <2>1 DEF SessionMoves, Kept
<1>2. ASSUME NEW h \in Handlers, LogoutSession(h) \/ RevokeOne(h) \/ SweepCommit(h)
      PROVE  SessionMoves
  BY <1>2, RevokesItsOwn, RevokeMoves DEF Revokes
<1>3. SessionMoves
  BY <1>1, <1>2, LoginMoves, RefreshMoves, StepWrites DEF Writes, WritesSession
<1>4. ASSUME NEW s \in Jtis, Issued(s) PROVE Issued(s)'
  BY <1>3, <1>4, IssuedIsTyped DEF SessionMoves, Kept, Issued, Session
<1> QED  BY <1>3, <1>4 DEF Tokens
-----------------------------------------------------------------------------
(* A step changes one request at most, to one of a known kind that names     *)
(* issued sessions.                                                          *)
ReqMoves == \/ UNCHANGED req
            \/ \E h \in Handlers, r \in Requests : Becomes(h, r) /\ NamesIssued(r)

LEMMA FreeMoves ==
    ASSUME NEW h \in Handlers, Becomes(h, Free)
    PROVE  ReqMoves
<1>1. Free \in Requests /\ NamesIssued(Free)  BY DEF Requests, NamesIssued, Free
<1> QED  BY <1>1 DEF ReqMoves

LEMMA AuthoriseMoves ==
    ASSUME TypeOK, NEW h \in Handlers, NEW s \in Tokens, NEW r \in AuthRequests(s),
           Authorise(h, s, r)
    PROVE  ReqMoves
<1>1. s \in Jtis  BY DEF Tokens
<1>2. CASE \E t \in Tokens \cup {Nothing} : r = [op |-> "logout", by |-> s, token |-> t]
  <2>1. r \in Requests  BY <1>1, <1>2 DEF Requests, Tokens
  <2>2. NamesIssued(r)  BY <1>2 DEF NamesIssued
  <2> QED  BY <2>1, <2>2 DEF Authorise, ReqMoves
<1>3. CASE \E t \in Tokens : r = [op |-> "revoke", by |-> s, token |-> t]
  <2>1. r \in Requests  BY <1>1, <1>3 DEF Requests, Tokens
  <2>2. NamesIssued(r)  BY <1>3 DEF NamesIssued
  <2> QED  BY <2>1, <2>2 DEF Authorise, ReqMoves
<1>4. CASE \E e \in Emails : r = [op |-> "email", by |-> s, email |-> e]
  <2>1. r \in Requests  BY <1>1, <1>4 DEF Requests
  <2>2. NamesIssued(r)  BY <1>4 DEF NamesIssued
  <2> QED  BY <2>1, <2>2 DEF Authorise, ReqMoves
<1>5. CASE \E o \in {"revoke-all", "password", "name"} : r = [op |-> o, by |-> s]
  <2>1. r \in Requests  BY <1>1, <1>5 DEF Requests
  <2>2. NamesIssued(r)  BY <1>5 DEF NamesIssued
  <2> QED  BY <2>1, <2>2 DEF Authorise, ReqMoves
<1> QED  BY <1>2, <1>3, <1>4, <1>5 DEF AuthRequests

LEMMA RequestMoves ==
    ASSUME TypeOK, NEW h \in Handlers, Request(h)
    PROVE  ReqMoves
<1>1. ASSUME NEW u \in Users, LoginRead(h, u) PROVE ReqMoves
  <2> DEFINE r == [op |-> "login", user |-> u]
  <2>1. r \in Requests /\ NamesIssued(r)  BY DEF Requests, NamesIssued
  <2> QED  BY <1>1, <2>1 DEF LoginRead, ReqMoves
<1>2. ASSUME NEW s \in Jtis, RefreshRead(h, s) PROVE ReqMoves
  <2> DEFINE r == [op |-> "rotate", from |-> s]
  <2>1. Issued(s)  BY <1>2 DEF RefreshRead, Refreshable, Live, Issued
  <2>2. r \in Requests /\ NamesIssued(r)  BY <2>1 DEF Requests, NamesIssued, Tokens
  <2> QED  BY <1>2, <2>2 DEF RefreshRead, ReqMoves
<1>3. ASSUME NEW e \in Emails, RegisterRead(h, e) PROVE ReqMoves
  <2> DEFINE r == [op |-> "register", email |-> e]
  <2>1. r \in Requests /\ NamesIssued(r)  BY DEF Requests, NamesIssued
  <2> QED  BY <1>3, <2>1 DEF RegisterRead, ReqMoves
<1> QED  BY <1>1, <1>2, <1>3, AuthoriseMoves DEF Request

LEMMA SweepMoves ==
    ASSUME TypeOK, NEW h \in Handlers, NEW u \in Users, NEW p \in BOOLEAN, Sweep(h, u, p)
    PROVE  ReqMoves
<1> DEFINE r == [op |-> "sweeping", user |-> u, rows |-> LiveRows(u),
                 password |-> p, ticket |-> sweeps[u].begun + 1]
<1>1. LiveRows(u) \subseteq Tokens  BY DEF LiveRows, Live, Tokens, Issued
<1>2. sweeps[u].begun + 1 \in Nat  BY BoundsAssumption DEF TypeOK
<1>3. r \in Requests  BY <1>1, <1>2 DEF Requests, Tokens
<1>4. NamesIssued(r)  BY <1>1 DEF NamesIssued
<1> QED  BY <1>3, <1>4 DEF Sweep, ReqMoves

LEMMA SessionStepMoves ==
    ASSUME TypeOK, NEW h \in Handlers, SessionStep(h)
    PROVE  ReqMoves
<1>1. ASSUME LogoutBlock(h) PROVE ReqMoves
  <2> DEFINE r == [req[h] EXCEPT !.op = "logout-session"]
  <2>1. Holds(h, "logout") /\ Becomes(h, r)  BY <1>1 DEF LogoutBlock
  <2>2. r.op = "logout-session" /\ r.by = req[h].by /\ r.token = req[h].token
        /\ r \in [op : {"logout", "logout-session"}, by : Jtis, token : Jtis \cup {Nothing}]
    BY <2>1, LogoutIsTyped
  <2>3. NamesIssued(r)  BY <2>1, <2>2, LogoutIsTyped DEF NamesIssued
  <2> HIDE DEF r
  <2>4. r \in Requests  BY <2>2 DEF Requests
  <2> QED  BY <2>1, <2>3, <2>4 DEF ReqMoves
<1>2. ASSUME RevokeAll(h) PROVE ReqMoves
  <2>1. req[h].by \in Tokens  BY <1>2, ByIsTyped DEF RevokeAll, Holds
  <2> QED  BY <1>2, <2>1, SweepMoves, IssuedIsTyped DEF RevokeAll, Tokens
<1>3. ASSUME NEW s \in Jtis, LoginCommit(h, s) \/ RefreshCommit(h, s) PROVE Becomes(h, Free)
  BY <1>3 DEF LoginCommit, RefreshCommit
<1>4. ASSUME LogoutSession(h) \/ RevokeOne(h) \/ SweepCommit(h) PROVE Becomes(h, Free)
  BY <1>4 DEF LogoutSession, RevokeOne, SweepCommit
<1> QED  BY <1>1, <1>2, <1>3, <1>4, FreeMoves DEF SessionStep

LEMMA AccountStepMoves ==
    ASSUME TypeOK, NEW h \in Handlers, AccountStep(h)
    PROVE  ReqMoves
<1>1. ASSUME EmailRead(h) PROVE ReqMoves
  <2> DEFINE u == Owner(req[h].by)
             r == [op |-> "email-write", user |-> u, email |-> req[h].email,
                   old |-> user[u].email]
  <2>1. u \in Users  BY <1>1, ByIsTyped, IssuedIsTyped DEF EmailRead, Holds, Tokens
  <2>2. req[h].email \in Emails  BY <1>1, EmailIsTyped DEF EmailRead
  <2>3. user[u].email \in Emails \cup {Nothing}  BY <2>1 DEF TypeOK
  <2>4. r \in Requests /\ NamesIssued(r)
    BY <2>1, <2>2, <2>3 DEF Requests, NamesIssued
  <2> QED  BY <1>1, <2>4 DEF EmailRead, ReqMoves
<1>2. ASSUME PasswordRead(h) PROVE ReqMoves
  <2> DEFINE r == [op |-> "password-write", user |-> Owner(req[h].by)]
  <2>1. Owner(req[h].by) \in Users
    BY <1>2, ByIsTyped, IssuedIsTyped DEF PasswordRead, Holds, Tokens
  <2>2. r \in Requests /\ NamesIssued(r)  BY <2>1 DEF Requests, NamesIssued
  <2> QED  BY <1>2, <2>2 DEF PasswordRead, ReqMoves
<1>3. ASSUME PasswordSweep(h) PROVE ReqMoves
  BY <1>3, SweepMoves, EmailIsTyped DEF PasswordSweep
<1>4. ASSUME RegisterRaises(h) \/ EmailTaken(h) \/ EmailCommit(h) \/ EmailRaises(h) \/ Rename(h)
      PROVE  Becomes(h, Free)
  BY <1>4 DEF RegisterRaises, EmailTaken, EmailCommit, EmailRaises, Rename
<1>5. ASSUME NEW u \in Users, RegisterCommit(h, u) PROVE Becomes(h, Free)
  BY <1>5 DEF RegisterCommit
<1> QED  BY <1>1, <1>2, <1>3, <1>4, <1>5, FreeMoves DEF AccountStep

LEMMA StepMovesRequest ==
    ASSUME TypeOK, [Next]_vars
    PROVE  ReqMoves
<1>1. ASSUME NEW h \in Handlers, HandlerDies(h) PROVE ReqMoves
  BY <1>1, FreeMoves DEF HandlerDies
<1>2. ASSUME NEW p \in Processes, Process(p) PROVE UNCHANGED req
  BY <1>2 DEF Process, Boot, Seed, SeedRaises, Stops
<1>3. CASE Tick  BY <1>3 DEF Tick, ReqMoves
<1>4. CASE UNCHANGED vars  BY <1>4 DEF vars, ReqMoves
<1> QED
  BY <1>1, <1>2, <1>3, <1>4, RequestMoves, SessionStepMoves, AccountStepMoves
  DEF Next, ReqMoves
-----------------------------------------------------------------------------
(* The conjuncts of TypeOK, each from the actions that write its table.      *)
LEMMA UserStaysTyped ==
    ASSUME TypeOK, [Next]_vars
    PROVE  user' \in [Users -> UserRow]
<1>1. user \in [Users -> UserRow]  BY DEF TypeOK, UserRow
<1>2. ASSUME NEW h \in Handlers, NEW u \in Users, RegisterCommit(h, u)
      PROVE  user' \in [Users -> UserRow]
  BY <1>1, <1>2, EmailIsTyped DEF RegisterCommit, UserRow
<1>3. ASSUME NEW h \in Handlers, EmailCommit(h) PROVE user' \in [Users -> UserRow]
  BY <1>1, <1>3, EmailIsTyped DEF EmailCommit, UserRow
<1>4. ASSUME NEW p \in Processes, NEW u \in Users, Seed(p, u)
      PROVE  user' \in [Users -> UserRow]
  BY <1>1, <1>4, AdminAssumption DEF Seed, UserRow
<1> QED  BY <1>1, <1>2, <1>3, <1>4, StepWrites DEF Writes, WritesUser

LEMMA SweepsStayTyped ==
    ASSUME TypeOK, [Next]_vars
    PROVE  sweeps' \in [Users -> [begun : 0 .. MaxSweeps, done : Nat]]
<1> DEFINE Row == [begun : 0 .. MaxSweeps, done : Nat]
<1>1. sweeps \in [Users -> Row]  BY DEF TypeOK
<1>2. ASSUME NEW h \in Handlers, NEW u \in Users, NEW p \in BOOLEAN, Sweep(h, u, p)
      PROVE  sweeps' \in [Users -> Row]
  BY <1>1, <1>2, BoundsAssumption DEF Sweep
<1>3. ASSUME NEW h \in Handlers, RevokeAll(h) PROVE sweeps' \in [Users -> Row]
  <2>1. req[h].by \in Tokens  BY <1>3, ByIsTyped DEF RevokeAll, Holds
  <2> QED  BY <1>2, <1>3, <2>1, IssuedIsTyped DEF RevokeAll, Tokens
<1>4. ASSUME NEW h \in Handlers, PasswordSweep(h) PROVE sweeps' \in [Users -> Row]
  BY <1>2, <1>4, EmailIsTyped DEF PasswordSweep
<1>5. ASSUME NEW h \in Handlers, SweepCommit(h) PROVE sweeps' \in [Users -> Row]
  BY <1>1, <1>5, SweepingIsTyped DEF SweepCommit
<1> QED  BY <1>1, <1>3, <1>4, <1>5, StepWrites DEF Writes, WritesSweeps

LEMMA BlockStaysTyped ==
    ASSUME TypeOK, [Next]_vars
    PROVE  block' \in [Jtis -> Nat] /\ now' \in Times
<1>1. block \in [Jtis -> Nat] /\ now \in Nat  BY DEF TypeOK, Times
<1>2. ASSUME NEW h \in Handlers, LogoutBlock(h) PROVE block' \in [Jtis -> Nat]
  <2>1. req[h].by \in Jtis  BY <1>2, LogoutIsTyped DEF LogoutBlock
  <2>2. session[req[h].by] \in Session
    BY <1>2, <2>1, LogoutIsTyped, IssuedIsTyped DEF LogoutBlock, Tokens
  <2>3. session[req[h].by].at \in Nat  BY <2>2 DEF Session, Times
  <2>4. AccessExp(req[h].by) - Seconds(now) \in Int
    BY <1>1, <2>3, LifetimeAssumption DEF AccessExp, Seconds
  <2>5. BlockTtl(req[h].by) \in Nat  BY <2>4 DEF BlockTtl, AtLeast1
  <2>6. now + 2 * BlockTtl(req[h].by) \in Nat  BY <1>1, <2>5
  <2> QED  BY <1>1, <1>2, <2>6 DEF LogoutBlock
<1>3. now' \in Times  BY StepWrites, BoundsAssumption DEF Writes, WritesNow, Tick, TypeOK, Times
<1> QED  BY <1>1, <1>2, <1>3, StepWrites DEF Writes, WritesBlock

LEMMA AnsweredStaysTyped ==
    ASSUME TypeOK, [Next]_vars
    PROVE  answered' \in [access : SUBSET Tokens', refresh : SUBSET Tokens']
<1>1. answered \in [access : SUBSET Tokens, refresh : SUBSET Tokens]  BY DEF TypeOK
<1>2. Tokens \subseteq Tokens'  BY StepMovesSessions
<1>3. CASE UNCHANGED answered  BY <1>1, <1>2, <1>3
<1>4. ASSUME NEW h \in Handlers, LogoutSession(h)
      PROVE  answered' \in [access : SUBSET Tokens', refresh : SUBSET Tokens']
  <2> DEFINE r == req[h].token
             given == {t \in {r} : t # Nothing /\ Owner(t) = Owner(req[h].by)}
  <2>1. req[h].by \in Tokens /\ given \subseteq Tokens
    BY <1>4, LogoutIsTyped DEF LogoutSession
  <2>2. answered' = [access |-> answered.access \cup {req[h].by},
                     refresh |-> answered.refresh \cup given]
    BY <1>4 DEF LogoutSession
  <2> HIDE DEF given
  <2> QED  BY <1>1, <1>2, <2>1, <2>2
<1> QED  BY <1>3, <1>4, StepWrites DEF Writes, WritesAnswered

LEMMA RequestsStayTyped ==
    ASSUME TypeOK, [Next]_vars
    PROVE  req' \in [Handlers -> Requests] /\ \A h \in Handlers : NamesIssued(req[h])'
<1>1. Tokens \subseteq Tokens'  BY StepMovesSessions
<1>2. ASSUME NEW h \in Handlers, NEW r \in Requests, NamesIssued(r), req'[h] = r
      PROVE  NamesIssued(req[h])'
  BY <1>1, <1>2 DEF NamesIssued
<1>3. req \in [Handlers -> Requests] /\ \A h \in Handlers : NamesIssued(req[h])
  BY DEF TypeOK
<1>4. CASE UNCHANGED req  BY <1>2, <1>3, <1>4
<1>5. ASSUME NEW g \in Handlers, NEW r \in Requests, Becomes(g, r), NamesIssued(r)
      PROVE  req' \in [Handlers -> Requests] /\ \A h \in Handlers : NamesIssued(req[h])'
  BY <1>2, <1>3, <1>5 DEF Becomes
<1> QED  BY <1>4, <1>5, StepMovesRequest DEF ReqMoves

LEMMA ApiStaysTyped ==
    ASSUME TypeOK, [Next]_vars
    PROVE  api' \in [Processes -> {"down", "seeding", "up"}]
BY StepWrites DEF Writes, WritesApi, Boot, Seed, SeedRaises, Stops, TypeOK

LEMMA StepTypeOK == TypeOK /\ [Next]_vars => TypeOK'
<1> SUFFICES ASSUME TypeOK, [Next]_vars PROVE TypeOK'  OBVIOUS
<1>1. session' \in [Jtis -> Session \cup {NoSession}]
  BY StepMovesSessions DEF SessionMoves
<1> QED
  BY <1>1, UserStaysTyped, SweepsStayTyped, BlockStaysTyped, AnsweredStaysTyped,
     RequestsStayTyped, ApiStaysTyped
  DEF TypeOK, Session, UserRow

(* Every table, request and process keeps to its type: what a request names  *)
(* was issued, and a session has an owner and a time from its INSERT on.     *)
THEOREM TypeCorrect == Spec => []TypeOK
BY InitTypeOK, StepTypeOK, PTL DEF Spec
-----------------------------------------------------------------------------
(* POST /refresh compares whole seconds with exp and milliseconds with       *)
(* expires_at; the list compares milliseconds alone: the first is never the  *)
(* more lenient.                                                             *)
LEMMA RefreshableIsListed == TypeOK => UsableIsListed
<1> SUFFICES ASSUME TypeOK, NEW s \in Jtis, Refreshable(s) PROVE s \in Listed(Owner(s))
  BY DEF UsableIsListed
<1>1. session[s] \in Session  BY IssuedIsTyped DEF Refreshable, Live, Issued
<1>2. session[s].at \in Nat /\ now \in Nat  BY <1>1 DEF Session, Times, TypeOK
<1>3. 2 * (session[s].at \div 2) <= session[s].at  BY <1>2
<1>4. session[s].at \div 2 \in Int  BY <1>2
<1>5. ExpiresAt(s) > now
  BY <1>2, <1>3, <1>4, LifetimeAssumption
  DEF Refreshable, Decodes, RefreshExp, Seconds, ExpiresAt
<1> QED  BY <1>5 DEF Refreshable, Listed

(* Every token that a refresh would accept is listed to its owner, for every *)
(* lifetime of the tokens.                                                   *)
THEOREM UsableListed == Spec => []UsableIsListed
BY TypeCorrect, RefreshableIsListed, PTL
-----------------------------------------------------------------------------
(* The three writes of users.email all meet the constraint.                  *)
LEMMA InitEmails == Init => EmailsUnique
BY DEF Init, StoreInit, NoUser, EmailsUnique, Registered

LEMMA StepEmails == TypeOK /\ EmailsUnique /\ [Next]_vars => EmailsUnique'
<1> SUFFICES ASSUME TypeOK, EmailsUnique, [Next]_vars PROVE EmailsUnique'  OBVIOUS
<1>1. user \in [Users -> UserRow]  BY DEF TypeOK, UserRow
<1>2. ASSUME NEW u \in Users, NEW e \in Emails, Unclaimed(e, u), user'[u].email = e,
             \A v \in Users \ {u} : user'[v] = user[v]
      PROVE  EmailsUnique'
  BY <1>2, NothingAssumption DEF EmailsUnique, Unclaimed, AddressOf, Registered
<1>3. CASE UNCHANGED user  BY <1>3 DEF EmailsUnique, Registered
<1>4. ASSUME NEW h \in Handlers, NEW u \in Users, RegisterCommit(h, u) PROVE EmailsUnique'
  BY <1>1, <1>2, <1>4, EmailIsTyped DEF RegisterCommit, UserRow
<1>5. ASSUME NEW h \in Handlers, EmailCommit(h) PROVE EmailsUnique'
  <2>1. CASE ~Updates(req[h])  BY <1>3, <1>5, <2>1 DEF EmailCommit
  <2>2. CASE Updates(req[h])
    BY <1>1, <1>2, <1>5, <2>2, EmailIsTyped DEF EmailCommit, UserRow
  <2> QED  BY <2>1, <2>2
<1>6. ASSUME NEW p \in Processes, NEW u \in Users, Seed(p, u) PROVE EmailsUnique'
  BY <1>1, <1>2, <1>6, AdminAssumption DEF Seed, UserRow
<1> QED  BY <1>3, <1>4, <1>5, <1>6, StepWrites DEF Writes, WritesUser

(* No two accounts share an address, whatever the handlers found before they *)
(* wrote.                                                                    *)
THEOREM EmailsApart == Spec => []EmailsUnique
<1>1. TypeOK /\ EmailsUnique /\ [Next]_vars => EmailsUnique'  BY StepEmails
<1> QED  BY <1>1, InitEmails, TypeCorrect, PTL DEF Spec
-----------------------------------------------------------------------------
(* An admin is never lost, and nothing is registered or served before there  *)
(* is one: a process comes up only when the address of the admin is taken,   *)
(* and the first to take it is the seed.                                     *)
HasAdmin == \E u \in Users : user[u].admin
Used == \/ \E u \in Users : Registered(u)
        \/ \E p \in Processes : api[p] = "up"
        \/ \E h \in Handlers : ~Holds(h, "free")
AdminFirst == /\ \A u \in Users : user[u].admin => Registered(u)
              /\ Used => HasAdmin

LEMMA InitAdmin == Init => AdminFirst
BY DEF Init, StoreInit, AdminFirst, Used, Registered, NoUser, Holds, Free

LEMMA AdminStays ==
    ASSUME TypeOK, AdminFirst, [Next]_vars
    PROVE  /\ \A u \in Users : user'[u].admin => Registered(u)'
           /\ HasAdmin => HasAdmin'
<1>1. user \in [Users -> UserRow]  BY DEF TypeOK, UserRow
<1> USE NothingAssumption DEF AdminFirst, HasAdmin, Registered
<1>2. CASE UNCHANGED user  BY <1>2
<1>3. ASSUME NEW h \in Handlers, NEW u \in Users, RegisterCommit(h, u)
      PROVE  /\ \A v \in Users : user'[v].admin => Registered(v)'
             /\ HasAdmin => HasAdmin'
  BY <1>1, <1>3 DEF RegisterCommit, FreshUser
<1>4. ASSUME NEW h \in Handlers, EmailCommit(h)
      PROVE  /\ \A u \in Users : user'[u].admin => Registered(u)'
             /\ HasAdmin => HasAdmin'
  BY <1>1, <1>4, EmailIsTyped DEF EmailCommit, UserRow
<1>5. ASSUME NEW p \in Processes, NEW u \in Users, Seed(p, u)
      PROVE  /\ \A v \in Users : user'[v].admin => Registered(v)'
             /\ HasAdmin => HasAdmin'
  BY <1>1, <1>5, AdminAssumption DEF Seed
<1> QED  BY <1>2, <1>3, <1>4, <1>5, StepWrites DEF Writes, WritesUser

LEMMA StepAdmin == TypeOK /\ AdminFirst /\ [Next]_vars => AdminFirst'
<1> SUFFICES ASSUME TypeOK, AdminFirst, [Next]_vars, Used' PROVE HasAdmin'
  BY AdminStays DEF AdminFirst
<1>1. CASE HasAdmin  BY <1>1, AdminStays
<1>2. CASE ~HasAdmin
  <2>1. ~Used  BY <1>2 DEF AdminFirst
  <2>2. ASSUME NEW h \in Handlers PROVE ~Request(h)  BY <2>1 DEF Request, Used
  <2>3. ASSUME NEW h \in Handlers PROVE ~SessionStep(h) /\ ~AccountStep(h) /\ ~HandlerDies(h)
    BY <2>1 DEF Used, SessionStep, AccountStep, HandlerDies, Holds, LoginCommit,
       RefreshCommit, LogoutBlock, LogoutSession, RevokeOne, RevokeAll, SweepCommit,
       RegisterCommit, RegisterRaises, EmailRead, EmailTaken, EmailCommit, EmailRaises,
       Rename, PasswordRead, PasswordSweep
  <2>4. ASSUME NEW p \in Processes, NEW u \in Users, Seed(p, u) PROVE HasAdmin'
    <3>1. user' = [user EXCEPT ![u] = [email |-> AdminEmail, admin |-> TRUE]]
      BY <2>4 DEF Seed
    <3> QED  BY <3>1 DEF HasAdmin, TypeOK
  <2>5. ASSUME NEW p \in Processes, Boot(p) \/ SeedRaises(p) \/ Stops(p)
        PROVE  ~Used'
    <3>1. api' \in {[api EXCEPT ![p] = "seeding"], [api EXCEPT ![p] = "down"]}
          /\ UNCHANGED <<user, req>>
      BY <2>1, <2>5, AdminAssumption, NothingAssumption
      DEF Boot, SeedRaises, Stops, AddressOf, Used, Registered
    <3> QED  BY <2>1, <3>1 DEF Used, Registered, Holds, TypeOK
  <2>6. CASE Tick  BY <2>1, <2>6 DEF Tick, Used, Registered, Holds
  <2>7. CASE UNCHANGED vars  BY <2>1, <2>7 DEF vars, Used, Registered, Holds
  <2> QED  BY <2>2, <2>3, <2>4, <2>5, <2>6, <2>7 DEF Next, Process
<1> QED  BY <1>1, <1>2

(* While any process serves there is an admin, however many processes start  *)
(* together and fail.                                                        *)
THEOREM AdminServed == Spec => []AdminExists
<1>1. TypeOK /\ AdminFirst /\ [Next]_vars => AdminFirst'  BY StepAdmin
<1>2. AdminFirst => AdminExists  BY DEF AdminFirst, AdminExists, Used, HasAdmin
<1> QED  BY <1>1, <1>2, InitAdmin, TypeCorrect, PTL DEF Spec
-----------------------------------------------------------------------------
(* What a step leaves of a session that was issued.                          *)
LEMMA IssuedKeeps ==
    ASSUME TypeOK, [Next]_vars, NEW s \in Jtis, Issued(s)
    PROVE  /\ Issued(s)' /\ (Live(s)' => Live(s)) /\ session'[s].at = session[s].at
           /\ Owner(s)' = Owner(s) /\ session'[s].born = session[s].born
<1>1. Kept(s) /\ session[s] \in Session  BY StepMovesSessions, IssuedIsTyped DEF SessionMoves
<1> QED  BY <1>1 DEF Kept, Issued, Live, Owner, Session

(* A session that a step brings to life is born after every sweep begun.     *)
LEMMA LiveIsOldOrNew ==
    ASSUME TypeOK, [Next]_vars, NEW s \in Jtis, Live(s)'
    PROVE  \/ /\ Live(s) /\ Owner(s)' = Owner(s) /\ session'[s].born = session[s].born
           \/ Owner(s)' \in Users /\ session'[s].born = sweeps[Owner(s)'].begun
<1>1. CASE Issued(s)  BY <1>1, IssuedKeeps
<1>2. CASE ~Issued(s)
  <2>1. session'[s] # session[s]  BY <1>2 DEF Live, Issued
  <2>2. PICK u \in Users : session'[s] = NewSession(u)
    BY <1>2, <2>1, StepMovesSessions DEF SessionMoves, Inserted
  <2> QED  BY <2>1, <2>2 DEF NewSession, Owner
<1> QED  BY <1>1, <1>2

(* A sweep in flight holds every live session of its user that was there     *)
(* when its UPDATE ran; no ticket is above the number of sweeps begun.       *)
HoldsAll(h) == LET r == req[h] IN
    Holds(h, "sweeping") =>
      /\ r.ticket <= sweeps[r.user].begun
      /\ \A s \in Jtis : Live(s) /\ Owner(s) = r.user /\ session[s].born < r.ticket
                       => s \in r.rows
SweptInv == /\ \A h \in Handlers : HoldsAll(h)
            /\ \A u \in Users : sweeps[u].done <= sweeps[u].begun
            /\ LiveAfterSweep

LEMMA InitSwept == Init => SweptInv
BY DEF Init, StoreInit, SweptInv, HoldsAll, Holds, Free, LiveAfterSweep, Live, NoSession

(* How the history of sweeps changes.                                        *)
LEMMA SweepsMove ==
    ASSUME TypeOK, SweptInv, [Next]_vars, NEW u \in Users
    PROVE  /\ sweeps'[u].begun >= sweeps[u].begun
           /\ sweeps'[u].done <= sweeps'[u].begun
           /\ \/ sweeps'[u].done = sweeps[u].done
              \/ \E h \in Handlers : /\ SweepCommit(h) /\ req[h].user = u
                                     /\ sweeps'[u].done = req[h].ticket
<1> DEFINE Goal == /\ sweeps'[u].begun >= sweeps[u].begun
                   /\ sweeps'[u].done <= sweeps'[u].begun
                   /\ \/ sweeps'[u].done = sweeps[u].done
                      \/ \E h \in Handlers : /\ SweepCommit(h) /\ req[h].user = u
                                             /\ sweeps'[u].done = req[h].ticket
<1>1. sweeps \in [Users -> [begun : 0 .. MaxSweeps, done : Nat]]  BY DEF TypeOK
<1>2. sweeps[u].done <= sweeps[u].begun /\ sweeps[u].begun \in Int /\ sweeps[u].done \in Int
  BY <1>1 DEF SweptInv
<1>3. CASE UNCHANGED sweeps  BY <1>2, <1>3
<1>4. ASSUME NEW h \in Handlers, NEW v, NEW p, Sweep(h, v, p) PROVE Goal
  BY <1>1, <1>2, <1>4 DEF Sweep
<1>5. ASSUME NEW h \in Handlers, SweepCommit(h) PROVE Goal
  <2>1. req[h].ticket <= sweeps[req[h].user].begun
    BY <1>5 DEF SweptInv, HoldsAll, SweepCommit
  <2>2. req[h].user \in Users /\ req[h].ticket \in Nat
    BY <1>5, SweepingIsTyped DEF SweepCommit
  <2>3. sweeps' = [sweeps EXCEPT ![req[h].user].done =
                     IF @ < req[h].ticket THEN req[h].ticket ELSE @]
    BY <1>5 DEF SweepCommit
  <2>4. CASE req[h].user # u
    <3>1. sweeps'[u] = sweeps[u]  BY <1>1, <2>3, <2>4
    <3> QED  BY <1>2, <3>1
  <2>5. CASE req[h].user = u
    <3>1. sweeps'[u].begun = sweeps[u].begun  BY <1>1, <2>2, <2>3, <2>5
    <3>2. sweeps'[u].done = IF sweeps[u].done < req[h].ticket THEN req[h].ticket
                                                              ELSE sweeps[u].done
      BY <1>1, <2>2, <2>3, <2>5
    <3> QED  BY <1>2, <1>5, <2>1, <2>2, <2>5, <3>1, <3>2
  <2> QED  BY <2>4, <2>5
<1> QED
  BY <1>3, <1>4, <1>5, StepWrites DEF Writes, WritesSweeps, RevokeAll, PasswordSweep

(* How a request comes to sweep, to rotate or to end a session on logout.    *)
Starts(g) == \E r : Becomes(g, r) /\ r.op \notin {"sweeping", "rotate", "logout-session"}
StartsWell ==
    \/ UNCHANGED req
    \/ \E g \in Handlers : Starts(g) \/ LogoutBlock(g)
    \/ \E g \in Handlers, s \in Jtis : RefreshRead(g, s)
    \/ \E g \in Handlers, u \in Users, p \in BOOLEAN : Sweep(g, u, p)

LEMMA RequestStarts ==
    ASSUME TypeOK, NEW h \in Handlers, Request(h)
    PROVE  StartsWell
<1>1. ASSUME NEW u \in Users, LoginRead(h, u) PROVE Starts(h)  BY <1>1 DEF LoginRead, Starts
<1>2. ASSUME NEW e \in Emails, RegisterRead(h, e) PROVE Starts(h)
  BY <1>2 DEF RegisterRead, Starts
<1>3. ASSUME NEW s \in Tokens, NEW r \in AuthRequests(s), Authorise(h, s, r) PROVE Starts(h)
  <2>1. r.op \notin {"sweeping", "rotate", "logout-session"}  BY DEF AuthRequests
  <2> QED  BY <1>3, <2>1 DEF Authorise, Starts
<1> QED  BY <1>1, <1>2, <1>3 DEF Request, StartsWell

LEMMA StepStarts ==
    ASSUME TypeOK, [Next]_vars
    PROVE  StartsWell
<1>1. ASSUME NEW h \in Handlers, Becomes(h, Free) PROVE StartsWell
  BY <1>1 DEF Free, Starts, StartsWell
<1>2. ASSUME NEW h \in Handlers, SessionStep(h) PROVE StartsWell
  <2>1. ASSUME RevokeAll(h) PROVE StartsWell
    BY <2>1, ByIsTyped, IssuedIsTyped DEF RevokeAll, Holds, Tokens, StartsWell
  <2>2. ASSUME NEW s \in Jtis, LoginCommit(h, s) \/ RefreshCommit(h, s)
        PROVE  Becomes(h, Free)
    BY <2>2 DEF LoginCommit, RefreshCommit
  <2>3. ASSUME LogoutSession(h) \/ RevokeOne(h) \/ SweepCommit(h) PROVE Becomes(h, Free)
    BY <2>3 DEF LogoutSession, RevokeOne, SweepCommit
  <2>4. LogoutBlock(h) => StartsWell  BY DEF StartsWell
  <2> QED  BY <1>1, <1>2, <2>1, <2>2, <2>3, <2>4 DEF SessionStep
<1>3. ASSUME NEW h \in Handlers, AccountStep(h) PROVE StartsWell
  <2>1. ASSUME PasswordSweep(h) PROVE StartsWell
    <3>1. req[h].user \in Users /\ Sweep(h, req[h].user, TRUE)
      BY <2>1, EmailIsTyped DEF PasswordSweep
    <3>2. \E u \in Users, p \in BOOLEAN : Sweep(h, u, p)  BY <3>1
    <3>3. \E g \in Handlers, u \in Users, p \in BOOLEAN : Sweep(g, u, p)  BY <3>2
    <3> QED  BY <3>3 DEF StartsWell
  <2>2. ASSUME PasswordRead(h) \/ EmailRead(h) PROVE Starts(h)
    BY <2>2 DEF PasswordRead, EmailRead, Starts
  <2>3. ASSUME \/ RegisterRaises(h) \/ EmailTaken(h) \/ EmailCommit(h) \/ EmailRaises(h)
               \/ Rename(h) \/ \E u \in Users : RegisterCommit(h, u)
        PROVE  Becomes(h, Free)
    BY <2>3 DEF RegisterRaises, EmailTaken, EmailCommit, EmailRaises, Rename, RegisterCommit
  <2> QED  BY <1>1, <1>3, <2>1, <2>2, <2>3 DEF AccountStep, StartsWell
<1>4. ASSUME NEW h \in Handlers, HandlerDies(h) PROVE StartsWell  BY <1>1, <1>4 DEF HandlerDies
<1>5. ASSUME NEW p \in Processes, Process(p) PROVE UNCHANGED req
  BY <1>5 DEF Process, Boot, Seed, SeedRaises, Stops
<1>6. CASE Tick  BY <1>6 DEF Tick, StartsWell
<1>7. CASE UNCHANGED vars  BY <1>7 DEF vars, StartsWell
<1> QED
  BY <1>2, <1>3, <1>4, <1>5, <1>6, <1>7, RequestStarts DEF Next, StartsWell

(* A request that sweeps after a step swept before it, or begins to.         *)
LEMMA SweepIsOldOrNew ==
    ASSUME TypeOK, [Next]_vars, NEW h \in Handlers, Holds(h, "sweeping")'
    PROVE  \/ Holds(h, "sweeping") /\ req'[h] = req[h]
           \/ \E u \in Users, p \in BOOLEAN : Sweep(h, u, p)
<1>1. req \in [Handlers -> Requests]  BY DEF TypeOK
<1>2. CASE UNCHANGED req  BY <1>2 DEF Holds
<1>3. ASSUME NEW g \in Handlers, NEW r, Becomes(g, r)
      PROVE  req'[g] = r /\ \A k \in Handlers \ {g} : req'[k] = req[k]
  BY <1>1, <1>3 DEF Becomes
<1>4. ASSUME NEW g \in Handlers, NEW r, Becomes(g, r), r.op # "sweeping"
      PROVE  Holds(h, "sweeping") /\ req'[h] = req[h]
  BY <1>3, <1>4 DEF Holds
<1>5. ASSUME NEW g \in Handlers, LogoutBlock(g)
      PROVE  Holds(h, "sweeping") /\ req'[h] = req[h]
  <2>1. [req[g] EXCEPT !.op = "logout-session"].op # "sweeping"
    BY <1>5, LogoutIsTyped DEF LogoutBlock
  <2> QED  BY <1>4, <1>5, <2>1 DEF LogoutBlock
<1>6. ASSUME NEW g \in Handlers, NEW s \in Jtis, RefreshRead(g, s)
      PROVE  Holds(h, "sweeping") /\ req'[h] = req[h]
  BY <1>4, <1>6 DEF RefreshRead
<1>7. ASSUME NEW g \in Handlers, NEW u \in Users, NEW p \in BOOLEAN, Sweep(g, u, p), g # h
      PROVE  Holds(h, "sweeping") /\ req'[h] = req[h]
  BY <1>3, <1>7 DEF Sweep, Holds
<1> QED
  BY <1>2, <1>4, <1>5, <1>6, <1>7, StepStarts DEF StartsWell, Starts

LEMMA StepSwept == TypeOK /\ SweptInv /\ [Next]_vars => SweptInv'
<1> SUFFICES ASSUME TypeOK, SweptInv, [Next]_vars PROVE SweptInv'  OBVIOUS
<1>1. ASSUME NEW h \in Handlers PROVE HoldsAll(h)'
  <2> SUFFICES ASSUME Holds(h, "sweeping")' PROVE HoldsAll(h)'  BY DEF HoldsAll
  <2>1. CASE Holds(h, "sweeping") /\ req'[h] = req[h]
    <3> DEFINE r == req[h]
    <3>1. r.user \in Users /\ r.ticket \in Nat  BY <2>1, SweepingIsTyped
    <3>2. sweeps'[r.user].begun \in Int /\ sweeps[r.user].begun \in Int
      BY <3>1, StepTypeOK DEF TypeOK
    <3>3. r.ticket <= sweeps'[r.user].begun
      BY <2>1, <3>1, <3>2, SweepsMove DEF SweptInv, HoldsAll
    <3>4. ASSUME NEW s \in Jtis, Live(s)', Owner(s)' = r.user, session'[s].born < r.ticket
          PROVE  s \in r.rows
      BY <2>1, <3>1, <3>2, <3>4, LiveIsOldOrNew DEF SweptInv, HoldsAll
    <3> QED  BY <2>1, <3>3, <3>4 DEF HoldsAll
  <2>2. ASSUME NEW u \in Users, NEW p \in BOOLEAN, Sweep(h, u, p) PROVE HoldsAll(h)'
    <3>1. req'[h] = [op |-> "sweeping", user |-> u, rows |-> LiveRows(u),
                     password |-> p, ticket |-> sweeps[u].begun + 1]
      BY <2>2 DEF Sweep, Becomes, TypeOK
    <3>2. sweeps'[u].begun = sweeps[u].begun + 1 /\ sweeps[u].begun \in Int /\ session' = session
      BY <2>2 DEF Sweep, TypeOK
    <3> QED  BY <3>1, <3>2 DEF HoldsAll, LiveRows, Live, Owner
  <2> QED  BY <2>1, <2>2, SweepIsOldOrNew
<1>2. ASSUME NEW s \in Jtis, Live(s)' PROVE session'[s].born >= sweeps'[Owner(s)'].done
  <2> DEFINE u == Owner(s)'
  <2>1. u \in Users /\ session'[s] \in Session
    BY <1>2, StepTypeOK, StepMovesSessions DEF SessionMoves, Session, NoSession, Live, Owner
  <2>2. sweeps'[u].done \in Int /\ sweeps[u].begun \in Int /\ sweeps[u].done \in Int
        /\ session'[s].born \in Int
    BY <2>1, StepTypeOK DEF TypeOK, Session
  <2>3. CASE sweeps'[u].done = sweeps[u].done
    BY <1>2, <2>1, <2>2, <2>3, LiveIsOldOrNew DEF SweptInv, LiveAfterSweep
  <2>4. ASSUME NEW h \in Handlers, SweepCommit(h), req[h].user = u,
               sweeps'[u].done = req[h].ticket
        PROVE  session'[s].born >= sweeps'[u].done
    <3>1. Holds(h, "sweeping") /\ req[h].ticket \in Nat /\ req[h].ticket <= sweeps[u].begun
      BY <2>4, SweepingIsTyped DEF SweepCommit, SweptInv, HoldsAll
    <3>2. CASE /\ Live(s) /\ Owner(s)' = Owner(s) /\ session'[s].born = session[s].born
      <4>1. s \notin req[h].rows
        BY <1>2, <2>4, <3>2 DEF SweepCommit, Live, TypeOK
      <4> QED  BY <2>2, <2>4, <3>1, <3>2, <4>1 DEF SweptInv, HoldsAll
    <3>3. CASE session'[s].born = sweeps[u].begun  BY <2>2, <2>4, <3>1, <3>3
    <3> QED  BY <1>2, <3>2, <3>3, LiveIsOldOrNew
  <2> QED  BY <2>1, <2>3, <2>4, SweepsMove
<1> QED  BY <1>1, <1>2, SweepsMove DEF SweptInv, LiveAfterSweep

(* No session from before a committed revocation of all survives it, for any *)
(* number of overlapping logins, refreshes and revocations.                  *)
THEOREM SweptStayDead == Spec => []LiveAfterSweep
<1>1. TypeOK /\ SweptInv /\ [Next]_vars => SweptInv'  BY StepSwept
<1>2. SweptInv => LiveAfterSweep  BY DEF SweptInv
<1> QED  BY <1>1, <1>2, InitSwept, TypeCorrect, PTL DEF Spec
-----------------------------------------------------------------------------
(* A logout blocks its token up to its exp at least, whatever the rounding;  *)
(* it leaves the refresh session revoked or past its own exp.                *)
Blocked(s) == block[s] >= 2 * AccessExp(s)
Ended(r) == ~Live(r) \/ ~Decodes(RefreshExp(r))
LogoutInv ==
    /\ \A s \in answered.access : Blocked(s)
    /\ \A h \in Handlers : Holds(h, "logout-session") => Blocked(req[h].by)
    /\ \A r \in answered.refresh : Ended(r)

LEMMA InitLogout == Init => LogoutInv
BY DEF Init, StoreInit, LogoutInv, Holds, Free

LEMMA BlocksEnough ==
    ASSUME TypeOK, NEW h \in Handlers, LogoutBlock(h)
    PROVE  block'[req[h].by] >= 2 * AccessExp(req[h].by)
<1> DEFINE s == req[h].by
<1>1. s \in Tokens /\ s \in Jtis  BY LogoutIsTyped DEF LogoutBlock, Tokens
<1>2. session[s] \in Session  BY <1>1, IssuedIsTyped DEF Tokens
<1>3. now \in Nat /\ session[s].at \in Nat  BY <1>2 DEF TypeOK, Session, Times
<1>4. 2 * (now \div 2) <= now /\ now \div 2 \in Int  BY <1>3
<1>5. AccessExp(s) \in Int  BY <1>3, LifetimeAssumption DEF AccessExp, Seconds
<1>6. BlockTtl(s) >= AccessExp(s) - now \div 2 /\ BlockTtl(s) \in Int
  BY <1>4, <1>5 DEF BlockTtl, AtLeast1, Seconds
<1>7. block'[s] = now + 2 * BlockTtl(s)  BY <1>1 DEF LogoutBlock, TypeOK
<1> QED  BY <1>3, <1>4, <1>5, <1>6, <1>7

LEMMA BlockedStays ==
    ASSUME TypeOK, [Next]_vars, NEW s \in Tokens, Blocked(s)
    PROVE  Blocked(s)'
<1>1. s \in Jtis /\ Issued(s)  BY DEF Tokens
<1>2. AccessExp(s)' = AccessExp(s)  BY <1>1, IssuedKeeps DEF AccessExp
<1>3. CASE UNCHANGED block  BY <1>2, <1>3 DEF Blocked
<1>4. ASSUME NEW h \in Handlers, LogoutBlock(h) PROVE Blocked(s)'
  <2>1. CASE req[h].by = s  BY <1>2, <1>4, <2>1, BlocksEnough DEF Blocked
  <2>2. CASE req[h].by # s
    <3>1. block'[s] = block[s]  BY <1>1, <1>4, <2>2 DEF LogoutBlock, TypeOK
    <3> QED  BY <1>2, <3>1 DEF Blocked
  <2> QED  BY <2>1, <2>2
<1> QED  BY <1>3, <1>4, StepWrites DEF Writes, WritesBlock

LEMMA EndedStays ==
    ASSUME TypeOK, [Next]_vars, NEW r \in Tokens, Ended(r)
    PROVE  Ended(r)'
<1>1. r \in Jtis /\ Issued(r) /\ session[r] \in Session  BY IssuedIsTyped DEF Tokens
<1>2. RefreshExp(r)' = RefreshExp(r) /\ (Live(r)' => Live(r))
  BY <1>1, IssuedKeeps DEF RefreshExp
<1>3. RefreshExp(r) \in Int
  BY <1>1, LifetimeAssumption DEF RefreshExp, Seconds, Session, Times
<1>4. now \in Int /\ now' >= now
  BY StepWrites DEF Writes, WritesNow, Tick, TypeOK, Times
<1>5. now' \in Int  BY BlockStaysTyped DEF Times
<1> QED  BY <1>2, <1>3, <1>4, <1>5 DEF Ended, Decodes

LEMMA StepLogout == TypeOK /\ LogoutInv /\ [Next]_vars => LogoutInv'
<1> SUFFICES ASSUME TypeOK, LogoutInv, [Next]_vars PROVE LogoutInv'  OBVIOUS
<1>1. answered.access \subseteq Tokens /\ answered.refresh \subseteq Tokens  BY DEF TypeOK
<1>2. ASSUME UNCHANGED answered
      PROVE  /\ \A s \in answered'.access : Blocked(s)'
             /\ \A r \in answered'.refresh : Ended(r)'
  BY <1>1, <1>2, BlockedStays, EndedStays DEF LogoutInv
<1>3. ASSUME NEW h \in Handlers, LogoutSession(h)
      PROVE  /\ \A s \in answered'.access : Blocked(s)'
             /\ \A r \in answered'.refresh : Ended(r)'
  <2>0. PICK t : t = req[h].token  OBVIOUS
  <2> DEFINE given == {r \in {t} : r # Nothing /\ Owner(r) = Owner(req[h].by)}
  <2>1. Holds(h, "logout-session") /\ req[h].by \in Tokens /\ t \in Tokens \cup {Nothing}
    BY <1>3, <2>0, LogoutIsTyped DEF LogoutSession
  <2>2. answered' = [access |-> answered.access \cup {req[h].by},
                     refresh |-> answered.refresh \cup given]
    BY <1>3, <2>0 DEF LogoutSession
  <2>3. \A s \in answered'.access : Blocked(s)'
    BY <1>1, <2>1, <2>2, BlockedStays DEF LogoutInv
  <2>4. ASSUME t \in given PROVE t \in Jtis /\ Ended(t)'
    <3>1. t \in Tokens /\ t \in Jtis  BY <2>1, <2>4 DEF Tokens
    <3>2. CASE Decodes(RefreshExp(t))
      <4>1. session' = [session EXCEPT ![t].state = "revoked"]
        BY <1>3, <2>0, <2>4, <3>2 DEF LogoutSession, LogoutRevokes
      <4>2. session'[t].state = "revoked"
        BY <3>1, <4>1, IssuedIsTyped DEF TypeOK, Tokens, Session
      <4> QED  BY <3>1, <4>2 DEF Ended, Live
    <3>3. CASE ~Decodes(RefreshExp(t))  BY <3>1, <3>3, EndedStays DEF Ended
    <3> QED  BY <3>2, <3>3
  <2>5. \A r \in answered.refresh : Ended(r)'
    BY <1>1, EndedStays DEF LogoutInv
  <2>6. PICK more : more = given  OBVIOUS
  <2>7. \A r \in more : Ended(r)'  BY <2>4, <2>6
  <2>8. answered'.refresh = answered.refresh \cup more  BY <2>2, <2>6
  <2> QED  BY <2>3, <2>5, <2>7, <2>8
<1>4. ASSUME NEW h \in Handlers, Holds(h, "logout-session")' PROVE Blocked(req[h].by)'
  <2>1. req \in [Handlers -> Requests]  BY DEF TypeOK
  <2>2. ASSUME req'[h] = req[h] PROVE Blocked(req[h].by)'
    BY <1>4, <2>2, LogoutIsTyped, BlockedStays DEF LogoutInv, Holds
  <2>3. ASSUME LogoutBlock(h) PROVE Blocked(req[h].by)'
    <3>0. PICK s : s = req[h].by  OBVIOUS
    <3>1. s \in Jtis /\ Issued(s)  BY <2>3, <3>0, LogoutIsTyped DEF LogoutBlock, Tokens
    <3>2. req'[h] = [req[h] EXCEPT !.op = "logout-session"]
      BY <2>1, <2>3 DEF LogoutBlock, Becomes
    <3>3. req'[h].by = s  BY <2>3, <3>0, <3>2, LogoutIsTyped DEF LogoutBlock
    <3>4. AccessExp(s)' = AccessExp(s)  BY <3>1, IssuedKeeps DEF AccessExp
    <3>5. block'[s] >= 2 * AccessExp(s)  BY <2>3, <3>0, BlocksEnough
    <3> QED  BY <3>3, <3>4, <3>5 DEF Blocked
  <2>4. ASSUME NEW g \in Handlers, NEW r, Becomes(g, r), g # h PROVE req'[h] = req[h]
    BY <2>1, <2>4 DEF Becomes
  <2>5. ASSUME NEW r, Becomes(h, r) PROVE r.op = "logout-session"
    BY <1>4, <2>1, <2>5 DEF Becomes, Holds
  <2>6. CASE req'[h] = req[h]  BY <2>2, <2>6
  <2>7. CASE req'[h] # req[h]
    <3>1. ~Starts(h) /\ \A g \in Handlers \ {h} : ~Starts(g) /\ ~LogoutBlock(g)
      BY <2>4, <2>5, <2>7 DEF Starts, LogoutBlock
    <3>2. ASSUME NEW g \in Handlers, NEW s \in Jtis PROVE ~RefreshRead(g, s)
      BY <2>4, <2>5, <2>7 DEF RefreshRead
    <3>3. ASSUME NEW g \in Handlers, NEW u \in Users, NEW p \in BOOLEAN PROVE ~Sweep(g, u, p)
      BY <2>4, <2>5, <2>7 DEF Sweep
    <3>4. LogoutBlock(h)  BY <2>7, <3>1, <3>2, <3>3, StepStarts DEF StartsWell
    <3> QED  BY <2>3, <3>4
  <2> QED  BY <2>6, <2>7
<1> QED  BY <1>2, <1>3, <1>4, StepWrites DEF LogoutInv, Writes, WritesAnswered

(* A logout that was answered is complete, for every lifetime of the tokens  *)
(* and every moment within a second.                                         *)
THEOREM LogoutCompletes == Spec => []LogoutIsComplete
<1>1. TypeOK /\ LogoutInv /\ [Next]_vars => LogoutInv'  BY StepLogout
<1>2. TypeOK /\ LogoutInv => LogoutIsComplete
  <2> SUFFICES ASSUME TypeOK, LogoutInv PROVE LogoutIsComplete  OBVIOUS
  <2>1. ASSUME NEW s \in answered.access PROVE ~Authorised(s)
    <3>1. s \in Jtis /\ Issued(s) /\ session[s] \in Session
      BY IssuedIsTyped DEF TypeOK, Tokens
    <3>2. AccessExp(s) \in Int /\ block[s] \in Int /\ now \in Int
      BY <3>1, LifetimeAssumption DEF AccessExp, Seconds, Session, Times, TypeOK
    <3> QED  BY <3>2 DEF LogoutInv, Blocked, Authorised, Decodes
  <2>2. ASSUME NEW r \in answered.refresh PROVE ~Refreshable(r)
    BY DEF LogoutInv, Ended, Refreshable
  <2> QED  BY <2>1, <2>2 DEF LogoutIsComplete
<1> QED  BY <1>1, <1>2, InitLogout, TypeCorrect, PTL DEF Spec
-----------------------------------------------------------------------------
(* The refinement mapping of Life, and its steps under it.                   *)
LifeMap == [s \in Jtis |-> session[s].state]
UsingMap == [h \in Handlers |-> IF Holds(h, "rotate") THEN {req[h].from} ELSE {}]

LifeIssue(s) == /\ LifeMap[s] = "none"
                /\ LifeMap' = [LifeMap EXCEPT ![s] = "live"]
                /\ UNCHANGED UsingMap
LifeUse(c, s) == /\ UsingMap[c] = {} /\ LifeMap[s] = "live"
                 /\ UsingMap' = [UsingMap EXCEPT ![c] = {s}]
                 /\ UNCHANGED LifeMap
LifeRotate(c, s, t) == /\ s \in UsingMap[c] /\ LifeMap[t] = "none"
                       /\ LifeMap' = [LifeMap EXCEPT ![s] = "revoked", ![t] = "live"]
                       /\ UsingMap' = [UsingMap EXCEPT ![c] = {}]
LifeAbandon(c) == /\ UsingMap' = [UsingMap EXCEPT ![c] = {}]
                  /\ UNCHANGED LifeMap
LifeRevoke(S) == /\ \A s \in S : LifeMap[s] # "none"
                 /\ LifeMap' = [s \in Jtis |-> IF s \in S THEN "revoked" ELSE LifeMap[s]]
                 /\ UNCHANGED UsingMap
LifeNext == \/ \E s \in Jtis : LifeIssue(s)
            \/ \E c \in Handlers, s \in Jtis : LifeUse(c, s)
            \/ \E c \in Handlers, s, t \in Jtis : LifeRotate(c, s, t)
            \/ \E c \in Handlers : LifeAbandon(c)
            \/ \E S \in SUBSET Jtis : LifeRevoke(S)
            \/ UNCHANGED <<LifeMap, UsingMap>>

LEMMA MapsAreTyped ==
    ASSUME TypeOK
    PROVE  /\ LifeMap \in [Jtis -> {"none", "live", "revoked"}]
           /\ UsingMap \in [Handlers -> SUBSET Jtis]
<1>1. session \in [Jtis -> Session \cup {NoSession}]  BY DEF TypeOK, Session
<1> QED  BY <1>1, RotateIsTyped DEF LifeMap, UsingMap, Session, NoSession

(* A request that ends gives up what it used; one that does not rotate never *)
(* changes it.                                                               *)
LEMMA UsingEnds ==
    ASSUME TypeOK, NEW h \in Handlers, NEW r, Becomes(h, r), r.op # "rotate"
    PROVE  /\ UsingMap' = [UsingMap EXCEPT ![h] = {}]
           /\ ~Holds(h, "rotate") => UNCHANGED UsingMap
<1>1. req' = [req EXCEPT ![h] = r] /\ req \in [Handlers -> Requests]
  BY DEF Becomes, TypeOK
<1>2. req' = [g \in Handlers |-> IF g = h THEN r ELSE req[g]]  BY <1>1
<1>3. UsingMap' = [g \in Handlers |-> IF g = h THEN {} ELSE UsingMap[g]]
  BY <1>2 DEF UsingMap, Holds
<1>4. UsingMap = [g \in Handlers |-> UsingMap[g]]  BY DEF UsingMap
<1>5. ~Holds(h, "rotate") => UsingMap[h] = {}  BY DEF UsingMap
<1> QED  BY <1>3, <1>4, <1>5

LEMMA LoginIssues ==
    ASSUME TypeOK, NEW h \in Handlers, NEW s \in Jtis, LoginCommit(h, s)
    PROVE  LifeIssue(s)
<1>1. session \in [Jtis -> Session \cup {NoSession}]  BY DEF TypeOK, Session
<1>2. LifeMap' = [t \in Jtis |-> IF t = s THEN "live" ELSE LifeMap[t]]
  BY <1>1 DEF LoginCommit, NewSession, LifeMap
<1>3. UNCHANGED UsingMap  BY UsingEnds DEF LoginCommit, Holds, Free
<1>4. LifeMap[s] = "none"  BY DEF LoginCommit, FreshJti, Issued, LifeMap
<1>5. LifeMap' = [LifeMap EXCEPT ![s] = "live"]  BY <1>2 DEF LifeMap
<1> QED  BY <1>3, <1>4, <1>5 DEF LifeIssue

LEMMA RefreshUses ==
    ASSUME TypeOK, NEW h \in Handlers, NEW s \in Jtis, RefreshRead(h, s)
    PROVE  LifeUse(h, s)
<1>1. /\ req' = [req EXCEPT ![h] = [op |-> "rotate", from |-> s]]
      /\ req \in [Handlers -> Requests]
  BY DEF RefreshRead, Becomes, TypeOK
<1>2. UsingMap' = [g \in Handlers |-> IF g = h THEN {s} ELSE UsingMap[g]]
  BY <1>1 DEF UsingMap, Holds
<1>3. UsingMap' = [UsingMap EXCEPT ![h] = {s}]  BY <1>2 DEF UsingMap
<1>4. UsingMap[h] = {}  BY DEF RefreshRead, UsingMap, Holds
<1>5. LifeMap[s] = "live" /\ UNCHANGED LifeMap
  BY DEF RefreshRead, Refreshable, Live, LifeMap
<1> QED  BY <1>3, <1>4, <1>5 DEF LifeUse

LEMMA RefreshRotates ==
    ASSUME TypeOK, NEW h \in Handlers, NEW t \in Jtis, RefreshCommit(h, t)
    PROVE  \E s \in Jtis : LifeRotate(h, s, t)
<1>0. PICK s : s = req[h].from  OBVIOUS
<1>1. s \in Jtis /\ Issued(s) /\ Holds(h, "rotate")
  BY <1>0, RotateIsTyped DEF RefreshCommit
<1>2. session \in [Jtis -> Session \cup {NoSession}] /\ session[s] \in Session
  BY <1>1, IssuedIsTyped DEF TypeOK, Session
<1>3. ~Issued(t) /\ s # t  BY <1>1 DEF RefreshCommit, FreshJti
<1>4. PICK new : new = NewSession(Owner(s))  OBVIOUS
<1>5. session' = [session EXCEPT ![s].state = "revoked", ![t] = new]
  BY <1>0, <1>4 DEF RefreshCommit
<1>6. PICK ended : ended = [session[s] EXCEPT !.state = "revoked"]  OBVIOUS
<1>7. session' = [x \in Jtis |-> IF x = t THEN new ELSE IF x = s THEN ended ELSE session[x]]
  BY <1>1, <1>2, <1>3, <1>5, <1>6
<1>8. new.state = "live" /\ ended.state = "revoked"
  BY <1>2, <1>4, <1>6 DEF NewSession, Session
<1>9. LifeMap' = [x \in Jtis |-> IF x = t THEN "live" ELSE IF x = s THEN "revoked"
                                  ELSE LifeMap[x]]
  BY <1>7, <1>8 DEF LifeMap
<1>10. LifeMap' = [LifeMap EXCEPT ![s] = "revoked", ![t] = "live"]
  BY <1>3, <1>9 DEF LifeMap
<1>11. s \in UsingMap[h] /\ LifeMap[t] = "none"
  BY <1>0, <1>1, <1>3 DEF UsingMap, LifeMap, Issued
<1>12. UsingMap' = [UsingMap EXCEPT ![h] = {}]  BY UsingEnds DEF RefreshCommit, Free
<1> QED  BY <1>1, <1>10, <1>11, <1>12 DEF LifeRotate

LEMMA RevocationRevokes ==
    ASSUME TypeOK, NEW h \in Handlers, LogoutSession(h) \/ RevokeOne(h) \/ SweepCommit(h)
    PROVE  \E S \in SUBSET Jtis : LifeRevoke(S)
<1>1. PICK S : S = Revoked(h)  OBVIOUS
<1>2. S \subseteq Tokens /\ Revokes(S)  BY <1>1, RevokesItsOwn
<1>3. \A s \in S : s \in Jtis /\ Issued(s) /\ session[s] \in Session
  BY <1>2, IssuedIsTyped DEF Tokens
<1>4. \A s \in S : session'[s].state = "revoked"
  BY <1>2, <1>3 DEF Revokes, Session
<1>5. \A s \in Jtis \ S : session'[s] = session[s]  BY <1>2 DEF Revokes
<1>6. LifeMap' = [s \in Jtis |-> IF s \in S THEN "revoked" ELSE LifeMap[s]]
  BY <1>4, <1>5 DEF LifeMap
<1>7. \A s \in S : LifeMap[s] # "none"  BY <1>3 DEF LifeMap, Issued
<1>8. Becomes(h, Free) /\ ~Holds(h, "rotate")
  BY DEF LogoutSession, RevokeOne, SweepCommit, Holds
<1>9. UNCHANGED UsingMap  BY <1>8, UsingEnds DEF Free
<1> QED  BY <1>3, <1>6, <1>7, <1>9 DEF LifeRevoke

LEMMA QuietSteps ==
    ASSUME TypeOK, [Next]_vars, UNCHANGED session
    PROVE  LifeNext
<1>1. UNCHANGED LifeMap  BY DEF LifeMap
<1>2. ASSUME NEW h \in Handlers, NEW r, Becomes(h, r), r.op # "rotate" PROVE LifeAbandon(h)
  BY <1>1, <1>2, UsingEnds DEF LifeAbandon
<1>3. CASE UNCHANGED req
  <2>1. UNCHANGED UsingMap  BY <1>3 DEF UsingMap, Holds
  <2> QED  BY <1>1, <2>1 DEF LifeNext
<1>4. ASSUME NEW h \in Handlers, Starts(h) PROVE LifeAbandon(h)  BY <1>2, <1>4 DEF Starts
<1>5. ASSUME NEW h \in Handlers, LogoutBlock(h) PROVE LifeAbandon(h)
  <2>1. [req[h] EXCEPT !.op = "logout-session"].op # "rotate"
    BY <1>5, LogoutIsTyped DEF LogoutBlock
  <2> QED  BY <1>2, <1>5, <2>1 DEF LogoutBlock
<1>6. ASSUME NEW h \in Handlers, NEW u \in Users, NEW p \in BOOLEAN, Sweep(h, u, p)
      PROVE  LifeAbandon(h)
  BY <1>2, <1>6 DEF Sweep
<1>7. ASSUME NEW h \in Handlers, NEW s \in Jtis, RefreshRead(h, s) PROVE LifeUse(h, s)
  BY <1>7, RefreshUses
<1> QED  BY <1>3, <1>4, <1>5, <1>6, <1>7, StepStarts DEF StartsWell, LifeNext

LEMMA NextLifts == TypeOK /\ [Next]_vars => LifeNext
<1> SUFFICES ASSUME TypeOK, [Next]_vars PROVE LifeNext  OBVIOUS
<1>1. CASE UNCHANGED session  BY <1>1, QuietSteps
<1>2. ASSUME NEW h \in Handlers, NEW s \in Jtis, LoginCommit(h, s) PROVE LifeNext
  BY <1>2, LoginIssues DEF LifeNext
<1>3. ASSUME NEW h \in Handlers, NEW s \in Jtis, RefreshCommit(h, s) PROVE LifeNext
  BY <1>3, RefreshRotates DEF LifeNext
<1>4. ASSUME NEW h \in Handlers, LogoutSession(h) \/ RevokeOne(h) \/ SweepCommit(h)
      PROVE  LifeNext
  BY <1>4, RevocationRevokes DEF LifeNext
<1> QED  BY <1>1, <1>2, <1>3, <1>4, StepWrites DEF Writes, WritesSession

(* Sessions live once and are revoked for good, and a token is rotated only  *)
(* by a request that saw its session live: every step of the API is one of   *)
(* SessionLife, or leaves sessions as they are.                              *)
THEOREM ImplementsSessionLife == Spec => RefinesSessionLife
<1>1. Init => Life!Init
  BY DEF Init, StoreInit, NoSession, Holds, Free, Life!Init
<1>2. TypeOK /\ [Next]_vars => [Life!Next]_<<LifeMap, UsingMap>>
  BY NextLifts
  DEF LifeNext, LifeIssue, LifeUse, LifeRotate, LifeAbandon, LifeRevoke, LifeMap, UsingMap,
      Life!Next, Life!Issue, Life!Use, Life!Rotate, Life!Abandon, Life!Revoke
<1>3. TypeOK /\ [Next]_vars
        => [Life!Next]_<<[s \in Jtis |-> session[s].state],
                         [h \in Handlers |-> IF Holds(h, "rotate") THEN {req[h].from} ELSE {}]>>
  BY <1>2 DEF LifeMap, UsingMap
<1> QED  BY <1>1, <1>3, TypeCorrect, PTL DEF Spec, RefinesSessionLife, Life!Spec
=============================================================================
