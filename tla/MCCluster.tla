------------------------------ MODULE MCCluster ------------------------------
(***************************************************************************)
(* Instances of Cluster for TLC.                                           *)
(***************************************************************************)
EXTENDS ClusterClaims, TLC

CONSTANTS c1, c2, c3, n1, s1

Line(method, words) ==
  [words |-> words, port |-> TRUE, method |-> method, name |-> n1, local |-> TRUE]

(* Two uploads that may overlap, and a third command of any kind, or a     *)
(* line that is none.                                                      *)
SomeLines ==
  (c1 :> {Line("PUT", 4)}) @@
  (c2 :> {Line("PUT", 4), Line("DELETE", 3)}) @@
  (c3 :> {Line("GET", 4), Line("LIST", 2), Line("GET", 3), Line("OTHER", 4),
          [Line("PUT", 4) EXCEPT !.local = FALSE],
          [Line("LIST", 2) EXCEPT !.port = FALSE]})

(* The sub-server has an older copy before it registers. *)
SomeBefore == {(Main :> {}) @@ (s1 :> {n1})}
=============================================================================
