------------------------------- MODULE Limits -------------------------------
(***************************************************************************)
(* Numbers kept within limits: max, min and clamp of Rust's integers.      *)
(***************************************************************************)
EXTENDS Integers

AtLeast(n, floor) == IF n < floor THEN floor ELSE n

AtMost(n, ceiling) == IF n > ceiling THEN ceiling ELSE n

Clamp(n, floor, ceiling) == AtMost(AtLeast(n, floor), ceiling)
=============================================================================
