---------------------------- MODULE UserService ----------------------------
(***************************************************************************)
(* The user side of the API: accounts, their sessions, and the processes   *)
(* that serve them.  Handlers meet only in PostgreSQL and Redis.           *)
(***************************************************************************)
EXTENDS Accounts

CONSTANTS MaxNow,   \* half seconds that pass
          Ops       \* kinds of requests that are made

ASSUME BoundsAssumption == MaxNow \in Nat /\ MaxSweeps \in Nat

vars == <<user, session, block, now, req, sweeps, answered, api>>

Init == /\ StoreInit
        /\ answered = [access |-> {}, refresh |-> {}]
        /\ api = [p \in Processes |-> "down"]

Tick == /\ now < MaxNow
        /\ now' = now + 1
        /\ UNCHANGED <<user, session, block, req, sweeps, answered, api>>

(* A request arrives at a process that serves, and is turned away at once   *)
(* or passes its first check; s is the session its access token came with.  *)
Tokens == {s \in Jtis : Issued(s)}

AuthRequests(s) ==
    {[op |-> "logout", by |-> s, token |-> r] : r \in Tokens \cup {Nothing}}
      \cup {[op |-> "revoke", by |-> s, token |-> r] : r \in Tokens}
      \cup {[op |-> "email", by |-> s, email |-> e] : e \in Emails}
      \cup {[op |-> o, by |-> s] : o \in {"revoke-all", "password", "name"}}

Request(h) ==
    /\ \E p \in Processes : api[p] = "up"
    /\ \/ \E u \in Users : LoginRead(h, u) /\ UNCHANGED <<now, api>>
       \/ \E s \in Jtis : RefreshRead(h, s) /\ UNCHANGED <<now, api>>
       \/ \E e \in Emails : RegisterRead(h, e) /\ UNCHANGED now
       \/ \E s \in Tokens : \E r \in AuthRequests(s) :
            Authorise(h, s, r) /\ UNCHANGED <<now, api>>
    /\ req'[h].op \in Ops

SessionStep(h) ==
    \/ \E s \in Jtis : LoginCommit(h, s) /\ UNCHANGED <<now, api>>
    \/ \E s \in Jtis : RefreshCommit(h, s) /\ UNCHANGED <<now, api>>
    \/ LogoutBlock(h) /\ UNCHANGED <<now, api>>
    \/ LogoutSession(h) /\ UNCHANGED <<now, api>>
    \/ RevokeOne(h) /\ UNCHANGED <<now, api>>
    \/ RevokeAll(h) /\ UNCHANGED <<now, api>>
    \/ SweepCommit(h) /\ UNCHANGED <<now, api>>

AccountStep(h) ==
    \/ \E u \in Users : RegisterCommit(h, u) /\ UNCHANGED now
    \/ RegisterRaises(h) /\ UNCHANGED now
    \/ EmailRead(h) /\ UNCHANGED now
    \/ EmailTaken(h) /\ UNCHANGED now
    \/ EmailCommit(h) /\ UNCHANGED now
    \/ EmailRaises(h) /\ UNCHANGED now
    \/ Rename(h) /\ UNCHANGED now
    \/ PasswordRead(h) /\ UNCHANGED now
    \/ PasswordSweep(h) /\ UNCHANGED now

(* The request fails: a 404 or 409 after its check, a crash of its process, *)
(* an error of Redis or PostgreSQL.  Its transaction is rolled back.        *)
HandlerDies(h) == /\ ~Holds(h, "free")
                  /\ Becomes(h, Free)
                  /\ UNCHANGED <<user, session, block, now, sweeps, answered, api>>

Process(p) == \/ Boot(p) /\ UNCHANGED now
              \/ \E u \in Users : Seed(p, u) /\ UNCHANGED now
              \/ SeedRaises(p) /\ UNCHANGED now
              \/ Stops(p) /\ UNCHANGED now

Next == \/ \E h \in Handlers : Request(h)
        \/ \E h \in Handlers : SessionStep(h)
        \/ \E h \in Handlers : AccountStep(h)
        \/ \E h \in Handlers : HandlerDies(h)
        \/ \E p \in Processes : Process(p)
        \/ Tick

Spec == Init /\ [][Next]_vars
-----------------------------------------------------------------------------
Times == 0 .. MaxNow

(* The sessions that a request names are issued.                            *)
NamesIssued(r) ==
    /\ r.op = "rotate" => r.from \in Tokens
    /\ r.op = "sweeping" => r.rows \subseteq Tokens
    /\ r.op \in {"logout", "logout-session", "revoke", "revoke-all",
                "password", "name", "email"} => r.by \in Tokens
    /\ r.op \in {"logout", "logout-session", "revoke"} => r.token \in Tokens \cup {Nothing}

TypeOK ==
    /\ user \in [Users -> [email : Emails \cup {Nothing}, admin : BOOLEAN]]
    /\ session \in [Jtis -> {NoSession} \cup
         [state : {"live", "revoked"}, owner : Users, at : Times, born : 0 .. MaxSweeps]]
    /\ block \in [Jtis -> Nat] /\ now \in Times
    /\ req \in [Handlers -> Requests]
    /\ \A h \in Handlers : NamesIssued(req[h])
    /\ sweeps \in [Users -> [begun : 0 .. MaxSweeps, done : Nat]]
    /\ answered \in [access : SUBSET Tokens, refresh : SUBSET Tokens]
    /\ api \in [Processes -> {"down", "seeding", "up"}]

(* A session comes to life once, is revoked for good, and is rotated only   *)
(* by requests that saw it live, however refreshes, logouts, revocations    *)
(* and password changes of one user overlap.                                *)
Life == INSTANCE SessionLife WITH
    Ids <- Jtis, Clients <- Handlers,
    life <- [s \in Jtis |-> session[s].state],
    using <- [h \in Handlers |-> IF Holds(h, "rotate") THEN {req[h].from} ELSE {}]

RefinesSessionLife == Life!Spec

(* After a password change or a revoke-all has committed, the sessions that *)
(* live were inserted after its UPDATE ran: no session from before survives *)
(* it, and the only ones it can miss are those that a request in flight     *)
(* inserts behind it.                                                       *)
LiveAfterSweep ==
    \A s \in Jtis : Live(s) => session[s].born >= sweeps[Owner(s)].done

(* A logout that was answered is complete: the access token is refused      *)
(* until it expires by itself, whatever the rounding of the time to live,   *)
(* and the user's refresh token given with it cannot be refreshed.          *)
LogoutIsComplete == /\ \A s \in answered.access : ~Authorised(s)
                    /\ \A r \in answered.refresh : ~Refreshable(r)

(* Every token that POST /refresh would accept is in its owner's list of    *)
(* sessions, where it can be revoked: the list and the refresh compare      *)
(* other clocks, in seconds and in milliseconds, and not the same way.      *)
UsableIsListed == \A s \in Jtis : Refreshable(s) => s \in Listed(Owner(s))

(* No two accounts share an address, though every handler tests it in one   *)
(* statement and writes it in another.                                      *)
EmailsUnique ==
    \A u, v \in Users : Registered(u) /\ u # v => user[u].email # user[v].email

(* While a process serves there is an admin, however the processes that     *)
(* start together race to seed it and whatever became of its address.       *)
AdminExists == (\E p \in Processes : api[p] = "up") => \E u \in Users : user[u].admin
=============================================================================
