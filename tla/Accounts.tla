------------------------------ MODULE Accounts ------------------------------
(***************************************************************************)
(* Registration and the account page (src/src/api/users/register and       *)
(* account), and the admin that an API process seeds when it starts        *)
(* (main.py).  Addresses are tested first and written later; the unique    *)
(* constraint of users.email decides, and nobody catches its error.        *)
(***************************************************************************)
EXTENDS Sessions

CONSTANTS Processes,   \* API processes
          AdminEmail   \* DEFAULT_ADMIN_EMAIL

ASSUME AdminAssumption == AdminEmail \in Emails

VARIABLE api           \* api[p]: "down", "seeding" or "up"

account == <<session, block, sweeps, answered, api>>

(* Mutant: users.email without its unique constraint.                       *)
UnclaimedOrNot(e, u) == e \in Emails /\ u \in Users

(* The unique constraint, as a commit meets it for user u.                  *)
Unclaimed(e, u) == AddressOf(e) \subseteq {u}

FreshUser(u) == ~Registered(u)

(* POST /register: 409 if the address is taken when it is looked up ...     *)
RegisterRead(h, e) == /\ Holds(h, "free") /\ AddressOf(e) = {}
                      /\ Becomes(h, [op |-> "register", email |-> e])
                      /\ UNCHANGED <<user, account>>

(* ... else an INSERT, or an IntegrityError that becomes a 500.             *)
RegisterCommit(h, u) ==
    /\ Holds(h, "register") /\ FreshUser(u) /\ Unclaimed(req[h].email, u)
    /\ user' = [user EXCEPT ![u] = [email |-> req[h].email, admin |-> FALSE]]
    /\ Becomes(h, Free)
    /\ UNCHANGED account

RegisterRaises(h) == /\ Holds(h, "register") /\ AddressOf(req[h].email) # {}
                     /\ Becomes(h, Free)
                     /\ UNCHANGED <<user, account>>

(* PATCH /me/email: the password is verified and the address looked up; the *)
(* user's own is no conflict.  Two reads, but only the second is acted on.  *)
EmailRead(h) == LET u == Owner(req[h].by) IN
    /\ Holds(h, "email") /\ AddressOf(req[h].email) \subseteq {u}
    /\ Becomes(h, [op |-> "email-write", user |-> u,
                   email |-> req[h].email, old |-> user[u].email])
    /\ UNCHANGED <<user, account>>

EmailTaken(h) == /\ Holds(h, "email")
                 /\ ~(AddressOf(req[h].email) \subseteq {Owner(req[h].by)})
                 /\ Becomes(h, Free)
                 /\ UNCHANGED <<user, account>>

(* Asking for the address that was read leaves nothing to update.           *)
Updates(r) == r.email # r.old

EmailCommit(h) == LET r == req[h] IN
    /\ Holds(h, "email-write")
    /\ Updates(r) => UserFree(r.user) /\ Unclaimed(r.email, r.user)
    /\ user' = IF Updates(r) THEN [user EXCEPT ![r.user].email = r.email] ELSE user
    /\ Becomes(h, Free)
    /\ UNCHANGED account

EmailRaises(h) == LET r == req[h] IN
    /\ Holds(h, "email-write") /\ Updates(r) /\ UserFree(r.user)
    /\ ~Unclaimed(r.email, r.user)
    /\ Becomes(h, Free)
    /\ UNCHANGED <<user, account>>

(* PATCH /me/name: an UPDATE of the name alone.                             *)
Rename(h) == /\ Holds(h, "name") /\ UserFree(Owner(req[h].by))
             /\ Becomes(h, Free)
             /\ UNCHANGED <<user, account>>

(* PATCH /me/password: the current password is verified against the row as  *)
(* it is read ...                                                           *)
PasswordRead(h) == /\ Holds(h, "password")
                   /\ Becomes(h, [op |-> "password-write", user |-> Owner(req[h].by)])
                   /\ UNCHANGED <<user, account>>

(* ... the UPDATE of users is flushed before that of refresh_sessions, and  *)
(* SweepCommit commits both.                                                *)
PasswordSweep(h) == /\ Holds(h, "password-write") /\ UserFree(req[h].user)
                    /\ Sweep(h, req[h].user, TRUE)
                    /\ UNCHANGED api

(* main.py lifespan: the admin is looked up before the process serves ...   *)
Boot(p) == /\ api[p] = "down"
           /\ api' = [api EXCEPT ![p] = IF AddressOf(AdminEmail) = {}
                                        THEN "seeding" ELSE "up"]
           /\ UNCHANGED <<user, session, block, sweeps, answered, req>>

(* ... and inserted if nobody has that address.                             *)
Seed(p, u) == /\ api[p] = "seeding" /\ FreshUser(u) /\ Unclaimed(AdminEmail, u)
              /\ user' = [user EXCEPT ![u] = [email |-> AdminEmail, admin |-> TRUE]]
              /\ api' = [api EXCEPT ![p] = "up"]
              /\ UNCHANGED <<session, block, sweeps, answered, req>>

(* Mutant: any error of the INSERT is swallowed.                            *)
SeedRaisesUnnoticed(p) == /\ api[p] = "seeding"
                          /\ api' = [api EXCEPT ![p] = "up"]
                          /\ UNCHANGED <<user, session, block, sweeps, answered, req>>

(* The other process was first: the start-up fails and compose restarts it. *)
SeedRaises(p) == /\ api[p] = "seeding" /\ AddressOf(AdminEmail) # {}
                 /\ api' = [api EXCEPT ![p] = "down"]
                 /\ UNCHANGED <<user, session, block, sweeps, answered, req>>

(* A process that stops has answered its requests, or HandlerDies.          *)
Stops(p) == /\ api[p] = "up"
            /\ \/ \E q \in Processes \ {p} : api[q] = "up"
               \/ \A h \in Handlers : Holds(h, "free")
            /\ api' = [api EXCEPT ![p] = "down"]
            /\ UNCHANGED <<user, session, block, sweeps, answered, req>>
=============================================================================
