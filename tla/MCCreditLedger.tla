-------------------------- MODULE MCCreditLedger --------------------------
(* TLC instance of CreditLedger: one account older than the bonus trigger   *)
(* and one that signs up.  Keys are interchangeable, so permuting them is a *)
(* sound symmetry for the safety properties checked here.                   *)
EXTENDS CreditLedger, TLC

KeySymmetry == Permutations(Keys)
===========================================================================
