----------------------------- MODULE UserStore -----------------------------
(***************************************************************************)
(* What the handlers under src/src/api/users share: the tables users and   *)
(* refresh_sessions (src/src/db/models.py), the blocklist in Redis, the    *)
(* clock, and the requests in flight.                                      *)
(*                                                                         *)
(* A login or a refresh issues an access token together with a session: s  *)
(* names both.  Passwords and names are not kept: a wrong password ends a  *)
(* request at once, and no property tells two names apart.  Nothing        *)
(* deletes a user or clears is_active, and no session row is deleted.      *)
(***************************************************************************)
EXTENDS Integers, FiniteSets

CONSTANTS Users,        \* ids of accounts
          Emails,       \* addresses
          Jtis,         \* ids of refresh tokens, and of the access tokens with them
          Handlers,     \* requests served at one time
          AccessSecs,   \* ACCESS_TOKEN_EXPIRE_MINUTES, in seconds
          RefreshSecs,  \* REFRESH_TOKEN_EXPIRE_DAYS, in seconds
          Nothing       \* no address, no owner, no token

ASSUME NothingAssumption == Nothing \notin Users \cup Emails \cup Jtis
ASSUME LifetimeAssumption == AccessSecs \in Nat \ {0} /\ RefreshSecs \in Nat \ {0}

VARIABLES user,         \* user[u]: the row of users
          session,      \* session[s]: the row of refresh_sessions
          block,        \* block[s]: when the key blocklist:s expires in Redis
          now,          \* the time, in half seconds
          req,          \* req[h]: what request h still has to do
          sweeps        \* history, per user: sweeps begun, and the last done

Free == [op |-> "free"]
Requests == {Free}
    \cup [op : {"login"}, user : Users] \cup [op : {"rotate"}, from : Jtis]
    \cup [op : {"logout", "logout-session"}, by : Jtis, token : Jtis \cup {Nothing}]
    \cup [op : {"revoke"}, by : Jtis, token : Jtis]
    \cup [op : {"revoke-all", "password", "name"}, by : Jtis]
    \cup [op : {"sweeping"}, user : Users, rows : SUBSET Jtis, password : BOOLEAN,
         ticket : Nat]
    \cup [op : {"register"}, email : Emails] \cup [op : {"email"}, by : Jtis, email : Emails]
    \cup [op : {"email-write"}, user : Users, email : Emails, old : Emails \cup {Nothing}]
    \cup [op : {"password-write"}, user : Users]
Holds(h, op) == req[h].op = op
Becomes(h, r) == req' = [req EXCEPT ![h] = r]

NoUser == [email |-> Nothing, admin |-> FALSE]
NoSession == [state |-> "none", owner |-> Nothing, at |-> 0, born |-> 0]

Registered(u) == user[u].email # Nothing
AddressOf(e) == {u \in Users : user[u].email = e}

Live(s) == session[s].state = "live"
Issued(s) == session[s].state # "none"
Owner(s) == session[s].owner

(* int(time.time()), and a JWT's exp, are whole seconds.                    *)
Seconds(t) == t \div 2
AccessExp(s) == Seconds(session[s].at) + AccessSecs
RefreshExp(s) == Seconds(session[s].at) + RefreshSecs

(* jwt.decode raises from exp on; expires_at keeps the milliseconds.        *)
Decodes(exp) == now < 2 * exp
ExpiresAt(s) == session[s].at + 2 * RefreshSecs

(* A revocation of several rows is one UPDATE, which finds the rows, and a  *)
(* COMMIT; other writers of these rows wait in between.                     *)
Sweeping == {h \in Handlers : Holds(h, "sweeping")}
RowFree(s) == \A h \in Sweeping : s \notin req[h].rows

(* get_current_user: the token decodes and is not in the blocklist.         *)
Authorised(s) == Issued(s) /\ Decodes(AccessExp(s)) /\ block[s] <= now

(* The users row whose change waits for the COMMIT of a password change.    *)
UserFree(u) == \A h \in Sweeping : req[h].password => req[h].user # u

(* INSERT INTO refresh_sessions, at most once per id.                       *)
NewSession(u) == [state |-> "live", owner |-> u, at |-> now, born |-> sweeps[u].begun]
FreshJti(s) == ~Issued(s)

StoreInit == /\ user = [u \in Users |-> NoUser]
             /\ session = [s \in Jtis |-> NoSession]
             /\ block = [s \in Jtis |-> 0]
             /\ now = 0
             /\ req = [h \in Handlers |-> Free]
             /\ sweeps = [u \in Users |-> [begun |-> 0, done |-> 0]]
=============================================================================
