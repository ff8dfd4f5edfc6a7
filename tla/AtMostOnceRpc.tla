---------------------------- MODULE AtMostOnceRpc ----------------------------
(***************************************************************************)
(* What libtropic promises the caller of a request to the chip: a remote   *)
(* call over an unreliable line that the chip executes at most once, and   *)
(* that returns LT_OK only when the chip has executed it.  A call that     *)
(* failed may or may not have been executed, and may still be executed     *)
(* later.  lt_l2_transfer keeps this promise for L2 Requests (L2Transfer), *)
(* the secure channel session for L3 Commands (SecureChannel).             *)
(***************************************************************************)
EXTENDS Naturals

CONSTANT MaxCalls

VARIABLES call,      \* number of the latest call
          busy,      \* is that call in progress?
          ok,        \* did the latest finished call return LT_OK?
          executed   \* how many times the chip executed each call

vars == <<call, busy, ok, executed>>

Init ==
    /\ call = 0
    /\ busy = FALSE
    /\ ok = FALSE
    /\ executed = [c \in 1..MaxCalls |-> 0]

Begin ==
    /\ ~busy
    /\ call < MaxCalls
    /\ call' = call + 1
    /\ busy' = TRUE
    /\ UNCHANGED <<ok, executed>>

Execute(c) ==
    /\ c <= call
    /\ executed[c] = 0
    /\ executed' = [executed EXCEPT ![c] = 1]
    /\ UNCHANGED <<call, busy, ok>>

Finish ==
    /\ busy
    /\ busy' = FALSE
    /\ ok' \in BOOLEAN
    /\ ok' => executed[call] = 1
    /\ UNCHANGED <<call, executed>>

Next == Begin \/ Finish \/ \E c \in 1..MaxCalls : Execute(c)

Spec == Init /\ [][Next]_vars
=============================================================================
