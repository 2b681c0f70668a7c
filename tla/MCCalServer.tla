----------------------------- MODULE MCCalServer ----------------------------
(***************************************************************************)
(* Line is for one client with a buffer of six bytes: a line of five       *)
(* leaves some behind, and a user's name in one of six is too long for the *)
(* reply.  ShortLine is for several clients, whose turns are what matters  *)
(* then; "w" and "u" are what is left of "work" and "us" when they are cut. *)
(***************************************************************************)
EXTENDS CalServer

MCLine ==
    { [cmd |-> Incorrect, len |-> 3],
      [cmd |-> [op |-> "add_calendar", cal |-> "work"], len |-> 3],
      [cmd |-> [op |-> "add_user", user |-> "us"], len |-> 6],
      [cmd |-> [op |-> "add_event", cal |-> "work", time |-> 1], len |-> 5],
      [cmd |-> [op |-> "subscribe", user |-> "us", cal |-> "work"], len |-> 3],
      [cmd |-> [op |-> "quit"], len |-> 3] }
UserCut == {<<"us", "u">>}

CalNames == {"w", "work"}
ShortLine ==
    { [cmd |-> [op |-> "add_calendar", cal |-> "work"], len |-> 3],
      [cmd |-> Incorrect, len |-> 3],
      [cmd |-> [op |-> "quit"], len |-> 3] }
CalCut == {<<"work", "w">>}
=============================================================================
