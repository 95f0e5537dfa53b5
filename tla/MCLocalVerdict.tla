---------------------------- MODULE MCLocalVerdict ----------------------------
(* LocalVerdict on the small racks of MCMatch, and a comment of rules.ts. *)
EXTENDS LocalVerdict, MCMatch

(* rules.ts:3 - the local rules mirror the server's apply_rules for game-over  *)
(* detection: a browser that declares a winner is confirmed by the server.     *)
(* But it deals groups on the break, always to player 1, and has no exemption  *)
(* for the 8-ball on the break.                                                *)
Mirrors ==
    [][\A p \in Players :
         Judges(p) /\ shot' # NoShot /\ MayProcess(shot') /\ verdict'[p] # 0
            => verdict'[p] = ServerVerdict']_localVars
================================================================================
