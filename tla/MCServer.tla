------------------------------ MODULE MCServer ------------------------------
(***************************************************************************)
(* Instances of Server for TLC: the requests the peers of a run may send.  *)
(***************************************************************************)
EXTENDS ServerClaims

CONSTANTS c1, c2, c3, f, s1, s2

Plain(v, n) == [verb |-> v, name |-> n, size |-> 0, len |-> 0, sub |-> None]
Upload(n, size, len) ==
  [verb |-> "PUT", name |-> n, size |-> size, len |-> len, sub |-> None]
Join(s) ==
  [verb |-> "ADD_SERVER", name |-> None, size |-> 0, len |-> 0, sub |-> s]

(* Uploads of one file, short, exact and empty, what else is done to it,
   and headers that are no requests. *)
OneFile == {Upload(f, 2, 2), Upload(f, 2, 1), Upload(f, 0, 0),
            Plain("GET", f), Plain("DELETE", f), Plain("LIST", None),
            Plain("GET", None), Plain("V_UNKNOWN", None)}

(* Two uploads and what meets them; one byte more than declared. *)
Overlap == {Upload(f, 2, 2), Upload(f, 1, 2), Plain("GET", f)}

(* Uploads of every kind, with what reads or removes the file. *)
AllOfOneFile == {Upload(f, 2, 2), Upload(f, 2, 1), Upload(f, 1, 2), Upload(f, 0, 0),
                 Plain("GET", f), Plain("DELETE", f)}

(* Uploads that end in every way, and what else ends. *)
Endings == {Upload(f, 2, 1), Upload(f, 1, 1), Plain("GET", f), Plain("GET", None),
            Plain("LIST", None), Plain("V_UNKNOWN", None)}

(* What goes through the routing tables. *)
Routed == {Join(s1), Join(s2), Upload(f, 0, 0), Plain("GET", f)}

(* No definition tells connections, or sub-servers, apart. *)
Symmetric == Permutations(Conns) \cup Permutations(Subs)
=============================================================================
