---------------------------- MODULE NonceDispenser ----------------------------
(***************************************************************************)
(* What callers of Client::fetch_nonce are promised, without cache, lock   *)
(* or RPC: a call is answered in one step, with an error or with a nonce   *)
(* that nobody has been given for that key since the key was last          *)
(* forgotten.  NonceCache implements this (Dispenser there).               *)
(***************************************************************************)
EXTENDS Naturals

CONSTANTS Task, Key

VARIABLES
    call,       \* "none", "pending", "ok" or "err" for each task
    want,       \* the key the task asks about
    answer,     \* the nonce the task was given; 0 unless its call is "ok"
    given       \* nonces given for a key since it was last forgotten

vars == <<call, want, answer, given>>

Init ==
    /\ call = [t \in Task |-> "none"]
    /\ want \in [Task -> Key]
    /\ answer = [t \in Task |-> 0]
    /\ given = [k \in Key |-> {}]

\* Leave t's last answer behind, for a new call or for good.
Restart(t, status) ==
    /\ call' = [call EXCEPT ![t] = status]
    /\ answer' = [answer EXCEPT ![t] = 0]

Ask(t, k) ==
    /\ call[t] # "pending"
    /\ Restart(t, "pending")
    /\ want' = [want EXCEPT ![t] = k]
    /\ UNCHANGED given

Give(t) ==
    /\ call[t] = "pending"
    /\ call' = [call EXCEPT ![t] = "ok"]
    /\ answer'[t] \in Nat \ given[want[t]]
    /\ answer' = [answer EXCEPT ![t] = answer'[t]]
    /\ given' = [given EXCEPT ![want[t]] = @ \union {answer'[t]}]
    /\ UNCHANGED want

Refuse(t) ==
    /\ call[t] = "pending"
    /\ Restart(t, "err")
    /\ UNCHANGED <<want, given>>

\* The caller drops its call, or turns to something else.
Leave(t, k) ==
    /\ Restart(t, "none")
    /\ want' = [want EXCEPT ![t] = k]
    /\ UNCHANGED given

Forget(k) ==
    /\ given' = [given EXCEPT ![k] = {}]
    /\ UNCHANGED <<call, want, answer>>

Next ==
    \/ \E t \in Task : Give(t) \/ Refuse(t)
    \/ \E t \in Task, k \in Key : Ask(t, k) \/ Leave(t, k)
    \/ \E k \in Key : Forget(k)

Spec == Init /\ [][Next]_vars
===============================================================================
