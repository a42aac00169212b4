------------------------------ MODULE Custody ------------------------------
(***************************************************************************)
(* What a custodial wallet promises its users, without handlers, tasks,    *)
(* node or tables: every payment hash moves money in an account at most    *)
(* once in each way.                                                       *)
(*                                                                         *)
(* A hash paid over the network is first held in the payer's account, then *)
(* either spent, for at most what was held, or returned in full.  A hash   *)
(* of the wallet's own is transferred between accounts at most once and    *)
(* received from the network at most once.  Nothing else touches an        *)
(* account, and no account goes below zero.                                *)
(***************************************************************************)
EXTENDS Integers

CONSTANTS Users, Hashes

VARIABLES
    available,  \* [Users -> Nat]: what an account can spend
    held,       \* [Hashes -> Nat]: what a pending payment holds
    payer,      \* [Hashes -> Users \cup {"none"}]
    paid,       \* how the hash was paid by an account
    received    \* [Hashes -> BOOLEAN]: the network's money has been credited

vars == <<available, held, payer, paid, received>>

Init ==
    /\ available \in [Users -> Nat]
    /\ held = [h \in Hashes |-> 0]
    /\ payer = [h \in Hashes |-> "none"]
    /\ paid = [h \in Hashes |-> "no"]
    /\ received = [h \in Hashes |-> FALSE]

Hold(u, h) ==
    /\ paid[h] = "no"
    /\ \E n \in 1..available[u] :
        /\ available' = [available EXCEPT ![u] = @ - n]
        /\ held' = [held EXCEPT ![h] = n]
    /\ payer' = [payer EXCEPT ![h] = u]
    /\ paid' = [paid EXCEPT ![h] = "held"]
    /\ UNCHANGED received

\* Settle a held payment: it cost nothing and is over, or it is spent.
Settle(h, outcome) ==
    /\ paid[h] = "held"
    /\ \E cost \in 0..held[h] :
        /\ outcome = "returned" => cost = 0
        /\ outcome = "spent" => cost > 0
        /\ available' = [available EXCEPT ![payer[h]] = @ + held[h] - cost]
    /\ held' = [held EXCEPT ![h] = 0]
    /\ paid' = [paid EXCEPT ![h] = outcome]
    /\ UNCHANGED <<payer, received>>

\* Pay another account; the wallet may keep a fee.
Transfer(u, v, h) ==
    /\ paid[h] = "no"
    /\ \E cost \in 1..available[u] : \E n \in 1..cost :
        available' = [[available EXCEPT ![u] = @ - cost] EXCEPT ![v] = @ + n]
    /\ payer' = [payer EXCEPT ![h] = u]
    /\ paid' = [paid EXCEPT ![h] = "transferred"]
    /\ UNCHANGED <<held, received>>

Receive(v, h) ==
    /\ ~received[h] /\ paid[h] \in {"no", "transferred"}
    /\ available'[v] > available[v]
    /\ available' = [available EXCEPT ![v] = available'[v]]
    /\ received' = [received EXCEPT ![h] = TRUE]
    /\ UNCHANGED <<held, payer, paid>>

Next ==
    \E h \in Hashes :
        \/ \E u \in Users : Hold(u, h) \/ Receive(u, h)
        \/ \E outcome \in {"returned", "spent"} : Settle(h, outcome)
        \/ \E u, v \in Users : Transfer(u, v, h)

Spec == Init /\ [][Next]_vars
============================================================================
