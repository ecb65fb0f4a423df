---------------------------- MODULE KeyRegister ----------------------------
(***************************************************************************)
(* What PUT and DELETE /api-keys promise to clients whose calls overlap: a *)
(* key is a register.  A call that is answered took effect at one moment   *)
(* between its arrival and its answer; no call takes effect twice.  A call *)
(* is refused only if another one came in between, and then it took no     *)
(* effect, or another one has already undone it; a call that is lost may   *)
(* have taken effect or not.  It does not promise that calls succeed.      *)
(***************************************************************************)
CONSTANTS Users, Providers,
          Values,      \* keys, and the value of a register without one
          Handlers,    \* calls served at one time
          Nothing      \* no key; no answer

VARIABLES key,         \* key[u][p]: the register
          call         \* call[h]: the call that h serves, or what it answered

Idle(answer) == [told |-> answer]
Answers == {Nothing, "ok", "refused"}

(* A call that wants value stored found was there, and has been taken or    *)
(* will be.                                                                 *)
Calls == [user : Users, provider : Providers, value : Values, was : Values, taken : BOOLEAN]

Pending(h) == call[h] \in Calls
Now(h) == key[call[h].user][call[h].provider]
Becomes(h, c) == call' = [call EXCEPT ![h] = c]

Init == /\ key = [u \in Users |-> [p \in Providers |-> Nothing]]
        /\ call = [h \in Handlers |-> Idle(Nothing)]

(* A call for what the register holds already is taken as it arrives.       *)
Ask(h, u, p, v) ==
    /\ ~Pending(h)
    /\ Becomes(h, [user |-> u, provider |-> p, value |-> v, was |-> key[u][p],
                   taken |-> v = key[u][p]])
    /\ UNCHANGED key

Takes(h) == /\ Pending(h) /\ ~call[h].taken
            /\ key' = [key EXCEPT ![call[h].user][call[h].provider] = call[h].value]

Take(h) == Takes(h) /\ Becomes(h, [call[h] EXCEPT !.taken = TRUE])

Answer(h) == /\ Becomes(h, Idle("ok"))
             /\ \/ Pending(h) /\ call[h].taken /\ UNCHANGED key
                \/ Takes(h)

(* What the register would hold if nobody else had come.                    *)
Alone(h) == IF call[h].taken THEN call[h].value ELSE call[h].was

Refuse(h) == /\ Pending(h) /\ Now(h) # Alone(h)
             /\ Becomes(h, Idle("refused"))
             /\ UNCHANGED key

Lose(h) == /\ Becomes(h, Idle(Nothing))
           /\ UNCHANGED key

Next == \E h \in Handlers :
    \/ \E u \in Users, p \in Providers, v \in Values : Ask(h, u, p, v)
    \/ Take(h) \/ Answer(h) \/ Refuse(h) \/ Lose(h)

Spec == Init /\ [][Next]_<<key, call>>
=============================================================================
