-------------------------------- MODULE Turns --------------------------------
(***************************************************************************)
(* What "round-robin PUT" (server.c) promises: between the main server and *)
(* the places of its sub-servers nobody is given a second upload before    *)
(* everybody had one; who registers joins the round that is under way.     *)
(***************************************************************************)
EXTENDS Naturals, Sequences

VARIABLES places,  \* places of sub-servers; 0 is the main server itself
          given,   \* who was given an upload in this round, in this order
          last     \* who was given the last one of all

vars == <<places, given, last>>

Members == 0..places
Had == {given[i] : i \in DOMAIN given}

Init == places = 0 /\ given = <<>> /\ last = 0

Upload ==
  \E m \in Members \ Had :
    /\ last' = m
    /\ given' = IF Len(given) = places THEN <<>> ELSE Append(given, m)
    /\ UNCHANGED places

Join == places' = places + 1 /\ UNCHANGED <<given, last>>

(* The main server ended, and with it what it knew. *)
Forget == places' = 0 /\ given' = <<>> /\ last' = 0

Next == Upload \/ Join \/ Forget

Spec == Init /\ [][Next]_vars
=============================================================================
