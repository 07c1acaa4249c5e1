------------------------------ MODULE MCSemver ------------------------------
(***************************************************************************)
(* An instance of SetupSemver: pre-releases on both sides of the step from *)
(* one digit to two, with and without a dot before the number, with a      *)
(* leading zero, and with identifiers of both kinds.                       *)
(***************************************************************************)
EXTENDS SetupSemver

LOCAL a == 11
LOCAL b == 12

MCPre == {<<>>, <<9>>, <<1, 0>>, <<0, 8>>, <<0, 7>>, <<a>>, <<b>>, <<a, 9>>, <<a, 1, 0>>,
          <<a, Dot, 9>>, <<a, Dot, 1, 0>>, <<a, Dot, b>>, <<a, Dot, 1, Dot, b>>,
          <<a, b, 9>>, <<b, Dot, 9, 9>>}

MCVersions ==
  [core : {<<0, 0, 0>>, <<0, 1, 9>>, <<0, 1, 10>>, <<1, 0, 0>>}, pre : MCPre,
   build : {FALSE}]

MCProtos == {<<>>, NoProto, <<a>>, <<a, Dot>>, <<b, Dot, Dot>>, <<a, Dot, Dot>>}
=============================================================================
