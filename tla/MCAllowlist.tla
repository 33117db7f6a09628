------------------------------ MODULE MCAllowlist ------------------------------
(* Instances of Allowlist for TLC. *)
EXTENDS Allowlist, TLC

\* One number in two notations, an address, and a short code that is not valid.
Plus == [name |-> "+14155551234", digits |-> "4155551234", email |-> FALSE,
         group |-> FALSE, holds |-> {}]
Bare == [Plus EXCEPT !.name = "4155551234"]
Mail == [name |-> "ann@example.com", digits |-> NoDigits, email |-> TRUE,
         group |-> FALSE, holds |-> {}]
Code == [name |-> "72345", digits |-> NoDigits, email |-> FALSE,
         group |-> FALSE, holds |-> {}]

MCEntries == {Plus, Bare, Mail, Code}

AllowSymmetry == Permutations(Runs)
================================================================================
