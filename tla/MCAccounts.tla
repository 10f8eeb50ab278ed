----------------------------- MODULE MCAccounts -----------------------------
(***************************************************************************)
(* Small instances of Accounts.  What a device does after it went astray   *)
(* is cut off.                                                             *)
(***************************************************************************)
EXTENDS Accounts, TLC

NobodyAstray == astray = {}

\* One device, several accounts.
Symmetry == Permutations(Phones)

\* Several devices at one account.  Cut off as well: forms that are half
\* filled in, the reset of a password, answers to a State that is gone, the
\* address, and the pages outside the profile once a device has logged in.
DevicesRace ==
    /\ NobodyAstray
    /\ \A d \in Devices :
          /\ form[d].phone # Nobody <=> form[d].word # Nobody
          /\ check[d] # NoCheck => check[d].kind # "reset" /\ check[d].live
          /\ prefs[d].adress = Nobody
          /\ page[d] = "elsewhere" => shown[d] = "elsewhere" /\ prefs[d] = NoAccount

RaceSymmetry == Permutations(Devices)
=============================================================================
