---------------------------- MODULE ClusterClaims ----------------------------
(***************************************************************************)
(* What the README says of Pi-Share as a whole and the code does not do.   *)
(***************************************************************************)
EXTENDS Cluster

(* README: a PUT stores the file on the server, and a GET downloads it     *)
(* from there.  So a GET that begins when the last upload of its name is   *)
(* complete, and ends before the name is changed again, gets that upload.  *)
GetReturnsLatest ==
  \A c \in Clients :
    (/\ client[c].verb = "GET"
     /\ client[c].pc = "end"
     /\ client[c].expect \in Clients
     /\ client[c].expect = latest[client[c].name]) =>
      client[c].got = client[c].expect
=============================================================================
