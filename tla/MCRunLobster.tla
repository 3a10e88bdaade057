---------------------------- MODULE MCRunLobster ----------------------------
(***************************************************************************)
(* Small instances of the command line: the modes, with words that the     *)
(* parsing could take for one another.                                     *)
(***************************************************************************)
EXTENDS RunLobster

MCOpening == {<<>>, <<1>>}

MCCommandLines ==
  {<<"--emit-features", "file", "file", "file", "--emit-features", "empty">>,
   <<"--recover", "file", "file", "--resync">>,
   <<"--published-features", "--emit-features", "file", "file", "file">>,
   <<"--emit-features", "--recover", "file", "file">>,
   <<"--emit-features", "file", "file">>,
   <<"file", "file", "--emit-features">>,
   <<"--unknown", "file", "file">>}

MCPublished == {<<"--published-features", "file", "file">>}
=============================================================================
