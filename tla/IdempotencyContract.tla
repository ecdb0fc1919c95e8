------------------------ MODULE IdempotencyContract ------------------------
(***************************************************************************)
(* What the idempotency mechanism promises the services built on it, with  *)
(* no row, generation or clock in sight: every key is a slot that at most  *)
(* one request holds at a time, that a failed holder may give back, that a *)
(* dying holder may leave locked, and whose answer is settled once and for *)
(* all.                                                                    *)
(***************************************************************************)
CONSTANTS Keys, Workers, Responses,
          Nobody,        \* no request holds the slot
          Null           \* no answer yet

VARIABLES slot,          \* Keys -> {"FREE", "HELD", "SETTLED", "REFUSED"}
          holder,        \* Keys -> Workers \cup {Nobody}
          answer         \* Keys -> Responses \cup {Null}

vars == <<slot, holder, answer>>

Init ==
    /\ slot = [k \in Keys |-> "FREE"]
    /\ holder = [k \in Keys |-> Nobody]
    /\ answer = [k \in Keys |-> Null]

\* A request becomes the one that executes the operation of this key.
Acquire(k, w) ==
    /\ slot[k] = "FREE" /\ holder[k] = Nobody
    /\ slot' = [slot EXCEPT ![k] = "HELD"]
    /\ holder' = [holder EXCEPT ![k] = w]
    /\ UNCHANGED answer

\* The holder reports success: the answer is fixed.  It may still be busy
\* (the acknowledgement of the write may be lost).
Settle(k, w, r) ==
    /\ slot[k] = "HELD" /\ holder[k] = w
    /\ slot' = [slot EXCEPT ![k] = "SETTLED"]
    /\ answer' = [answer EXCEPT ![k] = r]
    /\ holder' \in {holder, [holder EXCEPT ![k] = Nobody]}

\* The holder reports failure: the key can be tried again, or never again.
GiveBack(k, w) ==
    /\ slot[k] = "HELD" /\ holder[k] = w
    /\ \E s \in {"FREE", "REFUSED"} : slot' = [slot EXCEPT ![k] = s]
    /\ holder' = [holder EXCEPT ![k] = Nobody]
    /\ UNCHANGED answer

\* The holder is gone without a word; nobody else is let in.
Leave(k, w) ==
    /\ holder[k] = w
    /\ holder' = [holder EXCEPT ![k] = Nobody]
    /\ UNCHANGED <<slot, answer>>

Next ==
    \E k \in Keys, w \in Workers :
        \/ Acquire(k, w)
        \/ \E r \in Responses : Settle(k, w, r)
        \/ GiveBack(k, w)
        \/ Leave(k, w)

Spec == Init /\ [][Next]_vars
=============================================================================
