------------------------------- MODULE Listing -------------------------------
(***************************************************************************)
(* The text of a list of files, one name to a line, in a buffer that is    *)
(* doubled when it may not hold the next name: list() of server.c for its  *)
(* LIST answer, and add_server() of client.c for its registration.         *)
(***************************************************************************)
EXTENDS Naturals, Sequences

CONSTANTS Dirs,      \* directories, as the sequence of their name lengths
          ListStart  \* bytes of the buffer at first, 128

(* Names of any length: those of Linux have 1 to 255 bytes.                *)
ASSUME DirsAssumption ==
  /\ ListStart \in Nat \ {0}
  /\ Dirs \subseteq Seq(Nat \ {0})

VARIABLES names,        \* the directory
          copied,       \* names copied
          total_bytes,  \* bytes in the buffer
          buffer_size,  \* bytes of the buffer
  overrun       \* history: a byte was copied behind the buffer

listVars == <<names, copied, total_bytes, buffer_size, overrun>>

ListInit ==
  /\ names \in Dirs
  /\ copied = 0
  /\ total_bytes = 0
  /\ buffer_size = ListStart
  /\ overrun = FALSE

(* The buffer before a name of len bytes and its newline are copied: it is *)
(* doubled once, whatever the name needs.                                  *)
GrowForName(len) ==
  IF total_bytes + len > buffer_size THEN 2 * buffer_size ELSE buffer_size
Grow(len) ==
  IF total_bytes + len + 1 >= buffer_size THEN 2 * buffer_size ELSE buffer_size

MoreButOne == copied + 1 < Len(names)
More == copied < Len(names)

CopyName ==
  /\ More
  /\ copied' = copied + 1
  /\ buffer_size' = Grow(names[copied + 1])
  /\ total_bytes' = total_bytes + names[copied + 1] + 1
  /\ overrun' = (overrun \/ total_bytes' > buffer_size')
  /\ UNCHANGED names

ListSpec == ListInit /\ [][CopyName]_listVars

-----------------------------------------------------------------------------
ListTypeOK ==
  /\ names \in Seq(Nat \ {0})
  /\ copied \in 0..Len(names)
  /\ total_bytes \in Nat
  /\ buffer_size \in Nat \ {0}
  /\ overrun \in BOOLEAN

(* The list of a directory can be written: what is copied never leaves the *)
(* buffer.                                                                 *)
ListingFits == ~overrun

(* Doubling once per name is not enough for one name only: one longer than *)
(* the buffer was at first, and unless it is twice as long no name after   *)
(* the first doubling.  All names together may be as long as they like.    *)
OverrunNeedsLongName ==
  [][overrun' /\ ~overrun =>
       /\ names[copied'] > ListStart
       /\ names[copied'] < 2 * ListStart => buffer_size = ListStart]_listVars
=============================================================================
