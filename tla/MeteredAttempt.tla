--------------------------- MODULE MeteredAttempt ---------------------------
(***************************************************************************)
(* What the step runner promises of a model attempt and of the budget that *)
(* pays for it, without the services, the ledgers and the transactions     *)
(* that keep the promise.                                                  *)
(*                                                                         *)
(* An attempt is opened, takes a purse (a budget reservation of its own),  *)
(* is sent, calls the model at most once while the purse is held, and is   *)
(* closed.  A sent attempt closes together with its purse, in one step,    *)
(* and that purse is spent, never freed.  An attempt that was never sent   *)
(* closes by freeing the purse it took; only one that never learnt that it *)
(* held a purse may close and leave it behind (Forget).                    *)
(***************************************************************************)
EXTENDS Naturals

CONSTANT Ids

VARIABLES phase,    \* "none", "open", "sent" or "closed", for each attempt
          purse,    \* "none", "held", "spent" or "freed", for each attempt
          calls     \* how often the attempt has called the model

vars == <<phase, purse, calls>>

Init ==
    /\ phase = [a \in Ids |-> "none"]
    /\ purse = [a \in Ids |-> "none"]
    /\ calls = [a \in Ids |-> 0]

Open(a) ==
    /\ phase[a] = "none"
    /\ phase' = [phase EXCEPT ![a] = "open"]
    /\ UNCHANGED <<purse, calls>>

Take(a) ==
    /\ phase[a] = "open"
    /\ purse[a] = "none"
    /\ purse' = [purse EXCEPT ![a] = "held"]
    /\ UNCHANGED <<phase, calls>>

Send(a) ==
    /\ phase[a] = "open"
    /\ purse[a] = "held"
    /\ phase' = [phase EXCEPT ![a] = "sent"]
    /\ UNCHANGED <<purse, calls>>

Call(a) ==
    /\ phase[a] = "sent"
    /\ purse[a] = "held"
    /\ calls[a] = 0
    /\ calls' = [calls EXCEPT ![a] = 1]
    /\ UNCHANGED <<phase, purse>>

Settle(a) ==
    /\ phase[a] = "sent"
    /\ purse[a] = "held"
    /\ calls[a] = 1
    /\ phase' = [phase EXCEPT ![a] = "closed"]
    /\ purse' = [purse EXCEPT ![a] = "spent"]
    /\ UNCHANGED calls

Abandon(a) ==
    /\ phase[a] = "open"
    /\ purse[a] = "held"
    /\ phase' = [phase EXCEPT ![a] = "closed"]
    /\ purse' = [purse EXCEPT ![a] = "freed"]
    /\ UNCHANGED calls

Forget(a) ==
    /\ phase[a] = "open"
    /\ phase' = [phase EXCEPT ![a] = "closed"]
    /\ UNCHANGED <<purse, calls>>

Next ==
    \E a \in Ids :
        \/ Open(a) \/ Take(a) \/ Send(a) \/ Call(a)
        \/ Settle(a) \/ Abandon(a) \/ Forget(a)

Spec == Init /\ [][Next]_vars

=============================================================================
