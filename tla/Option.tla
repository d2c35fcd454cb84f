-------------------------------- MODULE Option --------------------------------
(* Rust's None where the value that is absent is a number or a record of    *)
(* numbers: one constant for the modules that are checked together.         *)
EXTENDS Integers

CONSTANT None

ASSUME NoneIsNoNumber == None \notin Int
=============================================================================
