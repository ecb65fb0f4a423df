---------------------------- MODULE SessionLife ----------------------------
(***************************************************************************)
(* What refresh_sessions promises, whoever runs concurrently: a session is *)
(* live once, from its INSERT until it is revoked, and a refresh token     *)
(* yields a new session only to a request that saw its session live.  It   *)
(* does not promise that a token is used once: requests that overlap may   *)
(* all see it live.                                                        *)
(***************************************************************************)
CONSTANTS Ids,       \* jtis of refresh tokens
          Clients    \* requests in flight

VARIABLES life,      \* life[s]: "none", "live" or "revoked"
          using      \* using[c]: sessions that request c saw live and rotates

TypeOK == /\ life \in [Ids -> {"none", "live", "revoked"}]
          /\ using \in [Clients -> SUBSET Ids]

Init == /\ life = [s \in Ids |-> "none"]
        /\ using = [c \in Clients |-> {}]

(* A login inserts a session.                                               *)
Issue(s) == /\ life[s] = "none"
            /\ life' = [life EXCEPT ![s] = "live"]
            /\ UNCHANGED using

(* A refresh begins: its token's session is live.                           *)
Use(c, s) == /\ using[c] = {} /\ life[s] = "live"
             /\ using' = [using EXCEPT ![c] = {s}]
             /\ UNCHANGED life

(* It rotates the token: the old session is revoked, if it was not revoked  *)
(* meanwhile, and a new one comes to life, in one transaction.              *)
Rotate(c, s, t) == /\ s \in using[c] /\ life[t] = "none"
                   /\ life' = [life EXCEPT ![s] = "revoked", ![t] = "live"]
                   /\ using' = [using EXCEPT ![c] = {}]

Abandon(c) == /\ using' = [using EXCEPT ![c] = {}]
              /\ UNCHANGED life

(* A logout, a revocation or a change of password ends sessions for good.   *)
Revoke(S) == /\ \A s \in S : life[s] # "none"
             /\ life' = [s \in Ids |-> IF s \in S THEN "revoked" ELSE life[s]]
             /\ UNCHANGED using

Next == \/ \E s \in Ids : Issue(s)
        \/ \E c \in Clients, s \in Ids : Use(c, s)
        \/ \E c \in Clients, s, t \in Ids : Rotate(c, s, t)
        \/ \E c \in Clients : Abandon(c)
        \/ \E S \in SUBSET Ids : Revoke(S)

Spec == Init /\ [][Next]_<<life, using>>
=============================================================================
