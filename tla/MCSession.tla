------------------------------ MODULE MCSession ------------------------------
(***************************************************************************)
(* Instances of Session for TLC.                                           *)
(***************************************************************************)
EXTENDS Session

(* Requests of the client, with a name that just fits the header, one that *)
(* does not, and the bytes of a registration; and what is no request.      *)
SomeRequests ==
  [verb : {"GET"}, line : {1, HeaderMax - 1, HeaderMax}, more : {0}]
    \cup [verb : {"DELETE"}, line : {1}, more : {0}]
    \cup [verb : {"LIST"}, line : {0}, more : {0}]
    \cup [verb : {"ADD_SERVER"}, line : {1}, more : Width..(Width + 7)]
    \cup [verb : {"V_UNKNOWN"}, line : {3, 12}, more : {0}]

(* Only the server's list().                                               *)
ListRequests == [verb : {"LIST"}, line : {0}, more : {0}]

(* Name lengths: none, one, a shorter name after a longer one and before   *)
(* it, names that just fit the doubled buffer, and one that does not.      *)
SomeDirs == {<<>>, <<2>>, <<2, 1>>, <<1, 3>>, <<2, 1, 1>>, <<1, 5>>}
=============================================================================
