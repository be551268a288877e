--------------------------- MODULE BillingContract --------------------------
(***************************************************************************)
(* What billing promises for a request, with no mention of how: while the  *)
(* request is open its hold may move freely; it ends either charged, with  *)
(* the same final price on its funding source and on its token, or void,   *)
(* with nothing held; and an ended request is never touched again.  A      *)
(* request that meets a database error or a panic leaves the contract; one *)
(* that has been charged can meet none any more.                           *)
(***************************************************************************)
EXTENDS Integers

CONSTANTS
    Requests,
    Prices          \* quota a request may finally cost

VARIABLES
    status,         \* per request: "open", "charged", "void" or "exception"
    held            \* per request: quota taken from funding source and token

vars == <<status, held>>

Hold == [funding : Int, token : Int]
Zero == [funding |-> 0, token |-> 0]

Init ==
    /\ status = [r \in Requests |-> "open"]
    /\ held = [r \in Requests |-> Zero]

\* Only r's status and hold change, to st and h.
Becomes(r, st, h) ==
    /\ status' = [status EXCEPT ![r] = st]
    /\ held' = [held EXCEPT ![r] = h]

\* A token-less request (the playground) is charged on its funding source only.
Charge(r) ==
    \E price \in Prices, token \in BOOLEAN :
        /\ status[r] = "open"
        /\ Becomes(r, "charged",
                   [funding |-> price, token |-> IF token THEN price ELSE 0])

Void(r) == status[r] = "open" /\ Becomes(r, "void", Zero)

Adjust(r) == status[r] = "open" /\ held'[r] \in Hold /\ Becomes(r, "open", held'[r])

\* A void request may still owe a violation fee: an error in charging it does
\* not touch the hold.
Escape(r) ==
    /\ status[r] # "charged"
    /\ held'[r] \in Hold
    /\ status[r] = "void" => held'[r] = held[r]
    /\ Becomes(r, "exception", held'[r])

Next == \E r \in Requests : Charge(r) \/ Void(r) \/ Adjust(r) \/ Escape(r)

Spec == Init /\ [][Next]_vars
=============================================================================
