------------------------------ MODULE Sessions ------------------------------
(***************************************************************************)
(* Login, refresh, logout and the session list (src/src/api/users/login,   *)
(* refresh, logout, sessions; src/src/core/sessions.py and security.py;    *)
(* src/src/api/security/dependencies.py).  Each handler is split where     *)
(* another may act: after the check of its token, and between the read of  *)
(* a row and the commit that depends on it.                                *)
(***************************************************************************)
EXTENDS UserStore

CONSTANT MaxSweeps   \* revocations of all sessions, per user

VARIABLE answered    \* history: tokens of logouts answered, access and refresh

(* POST /login: the row is read by address and the password verified ...    *)
LoginRead(h, u) == /\ Holds(h, "free") /\ Registered(u)
                   /\ Becomes(h, [op |-> "login", user |-> u])
                   /\ UNCHANGED <<user, session, block, sweeps, answered>>

(* ... and a session is recorded for the row as it was read.                *)
LoginCommit(h, s) == /\ Holds(h, "login") /\ FreshJti(s)
                     /\ session' = [session EXCEPT ![s] = NewSession(req[h].user)]
                     /\ Becomes(h, Free)
                     /\ UNCHANGED <<user, block, sweeps, answered>>

(* Mutant: a revoked session is not turned away.                            *)
RefreshableOrRevoked(s) == Issued(s) /\ Decodes(RefreshExp(s))

(* POST /refresh accepts a token that decodes and whose row is not revoked  *)
(* and has not expired ...                                                  *)
Refreshable(s) == Live(s) /\ Decodes(RefreshExp(s)) /\ ExpiresAt(s) >= now

RefreshRead(h, s) == /\ Holds(h, "free") /\ Refreshable(s)
                     /\ Becomes(h, [op |-> "rotate", from |-> s])
                     /\ UNCHANGED <<user, session, block, sweeps, answered>>

(* ... and, in one transaction, revokes that session and inserts the next   *)
(* one.  The session is not read again: db.get finds it in the identity map *)
(* as it was, so the UPDATE does not depend on what the row says by then.   *)
RefreshCommit(h, s) == LET from == req[h].from IN
    /\ Holds(h, "rotate") /\ FreshJti(s) /\ RowFree(from)
    /\ session' = [session EXCEPT ![from].state = "revoked",
                                  ![s] = NewSession(Owner(from))]
    /\ Becomes(h, Free)
    /\ UNCHANGED <<user, block, sweeps, answered>>

(* Every other request depends on get_current_user first.                   *)
Authorise(h, s, r) == /\ Holds(h, "free") /\ Authorised(s)
                      /\ Becomes(h, r)
                      /\ UNCHANGED <<user, session, block, sweeps, answered>>

AtLeast1(n) == IF n < 1 THEN 1 ELSE n

(* Mutant: the present second is rounded up.                                *)
BlockTtlRounded(s) == AtLeast1(AccessExp(s) - Seconds(now + 1))

(* POST /logout blocks the access token for the rest of its life, a second  *)
(* at least ...                                                             *)
BlockTtl(s) == AtLeast1(AccessExp(s) - Seconds(now))

LogoutBlock(h) == LET s == req[h].by IN
    /\ Holds(h, "logout")
    /\ block' = [block EXCEPT ![s] = now + 2 * BlockTtl(s)]
    /\ Becomes(h, [req[h] EXCEPT !.op = "logout-session"])
    /\ UNCHANGED <<user, session, sweeps, answered>>

(* ... then revokes the session of the refresh token it was given, if that  *)
(* decodes and is the user's own.  Reading the row and committing are one   *)
(* step: what is revoked stays so, whatever comes in between.               *)
LogoutRevokes(h) == LET r == req[h].token IN
    r # Nothing /\ Decodes(RefreshExp(r)) /\ Owner(r) = Owner(req[h].by)

LogoutSession(h) == LET r == req[h].token IN
    /\ Holds(h, "logout-session") /\ (LogoutRevokes(h) => RowFree(r))
    /\ session' = IF LogoutRevokes(h) THEN [session EXCEPT ![r].state = "revoked"]
                                      ELSE session
    /\ answered' = [access |-> answered.access \cup {req[h].by},
                    refresh |-> answered.refresh
                      \cup {t \in {r} : t # Nothing /\ Owner(t) = Owner(req[h].by)}]
    /\ Becomes(h, Free)
    /\ UNCHANGED <<user, block, sweeps>>

(* Mutant: the list ends with the access token.                             *)
ListedByAccess(u) == {s \in Jtis : Live(s) /\ Owner(s) = u /\ 2 * AccessExp(s) > now}

(* GET /me/sessions.                                                        *)
Listed(u) == {s \in Jtis : Live(s) /\ Owner(s) = u /\ ExpiresAt(s) > now}

(* Mutant: the row is deleted.                                              *)
RevokeOneDeletes(h) == /\ Holds(h, "revoke") /\ Owner(req[h].token) = Owner(req[h].by)
                       /\ session' = [session EXCEPT ![req[h].token] = NoSession]
                       /\ Becomes(h, Free)
                       /\ UNCHANGED <<user, block, sweeps, answered>>

(* DELETE /me/sessions/{r}: 404 unless it is the user's; one step, as above. *)
RevokeOne(h) == LET r == req[h].token IN
    /\ Holds(h, "revoke") /\ Owner(r) = Owner(req[h].by) /\ RowFree(r)
    /\ session' = [session EXCEPT ![r].state = "revoked"]
    /\ Becomes(h, Free)
    /\ UNCHANGED <<user, block, sweeps, answered>>

(* Mutant: revoked_at.is_not(None).                                         *)
LiveRowsNot(u) == {s \in Jtis : Issued(s) /\ ~Live(s) /\ Owner(s) = u}

(* POST /me/sessions/revoke-all, and the end of a password change: the      *)
(* UPDATE finds the rows that are live when it runs ...                     *)
LiveRows(u) == {s \in Jtis : Live(s) /\ Owner(s) = u}

Sweep(h, u, password) ==
    /\ sweeps[u].begun < MaxSweeps
    /\ sweeps' = [sweeps EXCEPT ![u].begun = @ + 1]
    /\ Becomes(h, [op |-> "sweeping", user |-> u, rows |-> LiveRows(u),
                   password |-> password, ticket |-> sweeps[u].begun + 1])
    /\ UNCHANGED <<user, session, block, answered>>

RevokeAll(h) == Holds(h, "revoke-all") /\ Sweep(h, Owner(req[h].by), FALSE)

(* ... waits for an UPDATE that holds some of them, and commits.            *)
SweepCommit(h) == LET r == req[h] IN
    /\ Holds(h, "sweeping")
    /\ \A g \in Sweeping : req[g].ticket < r.ticket => req[g].rows \cap r.rows = {}
    /\ session' = [s \in Jtis |-> IF s \in r.rows
                                  THEN [session[s] EXCEPT !.state = "revoked"]
                                  ELSE session[s]]
    /\ sweeps' = [sweeps EXCEPT ![r.user].done = IF @ < r.ticket THEN r.ticket ELSE @]
    /\ Becomes(h, Free)
    /\ UNCHANGED <<user, block, answered>>
=============================================================================
