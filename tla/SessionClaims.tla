---------------------------- MODULE SessionClaims ----------------------------
(***************************************************************************)
(* What the documentation says of a match, where Session, the model of the *)
(* page's code, does otherwise.                                            *)
(***************************************************************************)
EXTENDS Session

(* docs/INTEGRATION_TO_APP.md:7 - both players join the room of a match: no   *)
(* game has one player on both seats.  But "play again" connects before the   *)
(* old socket's onclose, which then sees no intentional close and connects a  *)
(* second time: the page joins its new room twice and plays alone.            *)
BothPlayersJoin == \A r \in Rooms : game[r] # "solo"
================================================================================
