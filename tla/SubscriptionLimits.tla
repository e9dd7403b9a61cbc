------------------------- MODULE SubscriptionLimits -------------------------
(***************************************************************************)
(* src/service/stripe.go: the limits of a plan, from the names of the      *)
(* features of its Stripe product.                                         *)
(***************************************************************************)
EXTENDS Integers, Sequences

(* "4 GB RAM": the phrase that the name contains, and what Atoi makes of   *)
(* the rest, which may be no number.                                       *)
Amounts == {"GB RAM", "CPU Cores", "Backups", "Worlds"}
Upload  == "Existing World Upload"
Feature == [phrase : Amounts \cup {Upload, "other"}, isNumber : BOOLEAN, number : Int]

Limits == [MemoryLimit : Int, CpuLimit : Int, MaxBackups : Int, MaxWorlds : Int,
           ExistingWorldUpload : BOOLEAN]

NoLimits == [MemoryLimit |-> 0, CpuLimit |-> 0, MaxBackups |-> 0, MaxWorlds |-> 0,
             ExistingWorldUpload |-> FALSE]

(* The error of Atoi is ignored.                                           *)
Atoi(f) == IF f.isNumber THEN f.number ELSE 0

(* Mutation: the number of worlds is stored as the number of backups.      *)
WithWorldsAsBackups(l, f) ==
    CASE f.phrase = "GB RAM"    -> [l EXCEPT !.MemoryLimit = Atoi(f)]
      [] f.phrase = "CPU Cores" -> [l EXCEPT !.CpuLimit = Atoi(f)]
      [] f.phrase \in {"Backups", "Worlds"} -> [l EXCEPT !.MaxBackups = Atoi(f)]
      [] f.phrase = Upload -> [l EXCEPT !.ExistingWorldUpload = TRUE]
      [] OTHER -> l

(* One turn of the loop over the features                                  *)
With(l, f) ==
    CASE f.phrase = "GB RAM"    -> [l EXCEPT !.MemoryLimit = Atoi(f)]
      [] f.phrase = "CPU Cores" -> [l EXCEPT !.CpuLimit = Atoi(f)]
      [] f.phrase = "Backups"   -> [l EXCEPT !.MaxBackups = Atoi(f)]
      [] f.phrase = "Worlds"    -> [l EXCEPT !.MaxWorlds = Atoi(f)]
      [] f.phrase = Upload      -> [l EXCEPT !.ExistingWorldUpload = TRUE]
      [] OTHER -> l
=============================================================================
