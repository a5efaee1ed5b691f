------------------------------- MODULE MCAccess -------------------------------
(***************************************************************************)
(* Small instances of what hangs on one account: its sessions, an          *)
(* administrator's sign-in by code, a change of the phone number, and a    *)
(* client's stations.  A behaviour steps one of them: desk says which.     *)
(***************************************************************************)
EXTENDS LoginCodes, PhoneChange, StationRegister, TLC

CONSTANTS u1, u2, p1, p2

VARIABLE desk

accessVars == <<sessionVars, codeVars, phoneVars, stationVars, desk>>

TwoNumbers == (u1 :> p1) @@ (u2 :> p2)

AccessInit ==
    /\ SessionsInit /\ CodesInit /\ PhoneInit /\ StationInit
    /\ desk \in {"password", "code", "phone", "stations"}
    /\ desk # "password" => capped

AccessNext ==
    \/ desk = "password" /\ SessionsNext /\ UNCHANGED <<codeVars, phoneVars, stationVars, desk>>
    \/ desk = "code" /\ CodesNext /\ UNCHANGED <<phoneVars, stationVars, desk>>
    \/ desk = "phone" /\ PhoneNext /\ UNCHANGED <<sessionVars, codeVars, stationVars, desk>>
    \/ desk = "stations" /\ StationNext /\ UNCHANGED <<sessionVars, codeVars, phoneVars, desk>>

AccessSpec == AccessInit /\ [][AccessNext]_accessVars
=============================================================================
