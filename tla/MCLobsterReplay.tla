-------------------------- MODULE MCLobsterReplay --------------------------
(***************************************************************************)
(* Small instances of the replay: what may rest at a price at the start.   *)
(***************************************************************************)
EXTENDS LobsterReplay

MCOpeningSingle == {<<>>, <<1>>}
MCOpeningOne == {<<>>, <<1>>, <<2>>}
MCOpeningQueues == {<<>>, <<2, 1>>}
=============================================================================
