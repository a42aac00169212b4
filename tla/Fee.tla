-------------------------------- MODULE Fee --------------------------------
(***************************************************************************)
(* The fee schedule of satsbox (setting.rs, struct Fee): what a payment of *)
(* `msats` may cost the payer on top of the amount.                        *)
(*                                                                         *)
(* The percentages are f32 settings.  They are modelled as integers over   *)
(* PctUnit, so that pct(amount, p) = floor(amount * p / PctUnit).          *)
(***************************************************************************)
EXTENDS Integers

CONSTANTS
    PayLimitPct,       \* routing fee limit of an external payment
    SmallPayLimitPct,  \* the same for amounts up to SmallPay
    InternalPct,       \* fee of a payment between two users of this service
    ServicePct,        \* service fee of every payment
    PctUnit,           \* the whole: a percentage p stands for p / PctUnit
    SmallPay           \* 1_000_000 msats in the code

ASSUME FeeAssumption ==
    /\ PayLimitPct \in Nat /\ SmallPayLimitPct \in Nat
    /\ InternalPct \in Nat /\ ServicePct \in Nat
    /\ PctUnit \in Nat \ {0}
    /\ SmallPay \in Nat

pct(amount, p) == (amount * p) \div PctUnit

\* The most a route may cost: a larger share for small amounts.
MaxFee(msats) ==
    pct(msats, IF msats > SmallPay THEN PayLimitPct ELSE SmallPayLimitPct)

InternalFee(msats) == pct(msats, InternalPct)

ServiceFee(msats) == pct(msats, ServicePct)
============================================================================
