---------------------------- MODULE ListingProofs ----------------------------
(***************************************************************************)
(* What overruns the buffer of a list, for every directory.                *)
(***************************************************************************)
EXTENDS Listing, SequenceTheorems, TLAPS

(* While the buffer is whole: before the first doubling there is a byte to *)
(* spare, and afterwards it is twice what it was at first.                 *)
Roomy ==
  \/ buffer_size = ListStart /\ total_bytes < ListStart
  \/ buffer_size >= 2 * ListStart /\ total_bytes <= buffer_size

ListInv == ListTypeOK /\ (~overrun => Roomy)

LEMMA ListInvInit == ListInit => ListInv
<1> SUFFICES ASSUME ListInit PROVE ListInv  OBVIOUS
<1>1. names \in Seq(Nat \ {0})  BY DirsAssumption DEF ListInit
<1>2. copied = 0 /\ total_bytes = 0 /\ buffer_size = ListStart /\ overrun = FALSE
  BY DEF ListInit
<1>3. 0 \in 0..Len(names)  BY <1>1, LenProperties
<1>4. ListTypeOK
  <2> QED  BY <1>1, <1>2, <1>3, DirsAssumption DEF ListTypeOK
<1>5. Roomy  BY <1>2, DirsAssumption DEF Roomy
<1> QED  BY <1>4, <1>5 DEF ListInv

LEMMA NameCopied ==
  ASSUME ListInv, CopyName
  PROVE  /\ copied' = copied + 1 /\ copied' \in 1..Len(names)
         /\ names[copied'] \in Nat \ {0}
         /\ total_bytes' = total_bytes + names[copied'] + 1
         /\ buffer_size' = Grow(names[copied'])
         /\ overrun' = (overrun \/ total_bytes' > buffer_size')
<1>1. copied + 1 \in 1..Len(names)
  BY DEF CopyName, More, ListInv, ListTypeOK
<1>2. names[copied + 1] \in Nat \ {0}
  BY <1>1 DEF ListInv, ListTypeOK
<1> QED BY <1>1, <1>2 DEF CopyName

LEMMA ListInvStep == ListInv /\ [CopyName]_listVars => ListInv'
<1> SUFFICES ASSUME ListInv, [CopyName]_listVars
             PROVE  ListInv'
  OBVIOUS
<1> USE DirsAssumption
<1>1. CASE CopyName
  <2> DEFINE len == names[copied']
  <2>1. copied' \in 1..Len(names) /\ len \in Nat \ {0}
    BY <1>1, NameCopied
  <2>2. /\ total_bytes \in Nat /\ buffer_size \in Nat \ {0}
        /\ total_bytes' = total_bytes + len + 1
        /\ buffer_size' = Grow(len)
        /\ overrun' = (overrun \/ total_bytes' > buffer_size')
    BY <1>1, NameCopied DEF ListInv, ListTypeOK
  <2> HIDE DEF len
  <2>3. total_bytes' \in Nat /\ buffer_size' \in Nat \ {0}
    BY <2>1, <2>2 DEF Grow
  <2>4. ~overrun' => Roomy'
    <3> SUFFICES ASSUME ~overrun' PROVE Roomy'  OBVIOUS
    <3>1. ~overrun /\ ~(total_bytes' > buffer_size')  BY <2>2
    <3> QED  BY <2>1, <2>2, <2>3, <3>1 DEF ListInv, Roomy, Grow
  <2>5. /\ names' \in Seq(Nat \ {0}) /\ copied' \in 0..Len(names')
        /\ overrun' \in BOOLEAN
    BY <1>1, <2>1, <2>2 DEF CopyName, ListInv, ListTypeOK
  <2> QED BY <2>3, <2>4, <2>5 DEF ListInv, ListTypeOK
<1>2. CASE UNCHANGED listVars
  BY <1>2 DEF listVars, ListInv, ListTypeOK, Roomy
<1> QED BY <1>1, <1>2

LEMMA Overruns ==
  ASSUME ListInv, CopyName, overrun', ~overrun
  PROVE  /\ names[copied'] > ListStart
         /\ names[copied'] < 2 * ListStart => buffer_size = ListStart
<1> DEFINE len == names[copied']
<1>1. /\ total_bytes \in Nat /\ buffer_size \in Nat \ {0} /\ ListStart \in Nat \ {0}
      /\ len \in Nat \ {0} /\ total_bytes + len + 1 > Grow(len) /\ Roomy
  <2>1. overrun' = (overrun \/ total_bytes' > buffer_size')  BY NameCopied
  <2>2. total_bytes' > buffer_size'  BY <2>1
  <2> QED  BY <2>2, NameCopied, DirsAssumption DEF ListInv, ListTypeOK
<1> HIDE DEF len
<1>2. len > ListStart /\ (len < 2 * ListStart => buffer_size = ListStart)
  BY <1>1 DEF Grow, Roomy
<1> QED  BY <1>2 DEF len

(* list() of server.c and add_server() of client.c write behind their      *)
(* buffer for no directory but one with a name longer than the buffer is   *)
(* at first; names of Linux, less than twice as long, only at the first    *)
(* doubling.                                                               *)
THEOREM OnlyLongNamesOverrun == ListSpec => OverrunNeedsLongName
<1>1. ListInv /\ [CopyName]_listVars =>
        [overrun' /\ ~overrun =>
           /\ names[copied'] > ListStart
           /\ names[copied'] < 2 * ListStart => buffer_size = ListStart]_listVars
  BY Overruns
<1> QED BY ListInvInit, ListInvStep, <1>1, PTL DEF ListSpec, OverrunNeedsLongName
=============================================================================
