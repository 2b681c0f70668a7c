------------------------------- MODULE MCExt2 -------------------------------
(***************************************************************************)
(* A small image: directory blocks that the third or fourth entry fills,   *)
(* files with an indirect block, fewer blocks than two of those take, and  *)
(* one name that begins with another.                                      *)
(***************************************************************************)
EXTENDS Ext2

MCName == {"a", "abcd"}
MCBeginsWith == {<<n, n>> : n \in MCName} \cup {<<"abcd", "a">>}
MCNameLen == [n \in MCName |-> IF n = "abcd" THEN 4 ELSE 1]
MCInode == {2} \cup 12 .. 14
MCBlock == {9} \cup 23 .. 28
=============================================================================
