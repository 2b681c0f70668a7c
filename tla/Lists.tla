------------------------------- MODULE Lists --------------------------------
(***************************************************************************)
(* The calendar and user lists of CSC209/Calendar Server (lists.c): linked *)
(* lists as sequences, an event as its time.  The functions return the     *)
(* code and the lists after the call.  What list_calendars, list_users and *)
(* list_events print is left out: they change nothing.                     *)
(***************************************************************************)
EXTENDS Integers, FiniteSets, Sequences, SequencesExt

(* Positions in the lists, 0 for NULL.                                       *)
find_calendar(cals, name) == SelectInSeq(cals, LAMBDA c : c.name = name)

find_user(users, name) == SelectInSeq(users, LAMBDA u : u.name = name)

(* At the front.                                                             *)
add_calendar(cals, name) ==
    IF find_calendar(cals, name) # 0 THEN [rc |-> -1, cals |-> cals]
    ELSE [rc |-> 0, cals |-> <<[name |-> name, events |-> <<>>]>> \o cals]

(* At the end.                                                               *)
add_user(users, name) ==
    IF find_user(users, name) # 0 THEN [rc |-> -1, users |-> users]
    ELSE [rc |-> 0, users |-> Append(users, [name |-> name, subscriptions |-> <<>>])]

subscribe(users, cals, user, cal) ==
    LET u == find_user(users, user)
        rc == IF u = 0 THEN -1
              ELSE IF find_calendar(cals, cal) = 0 THEN -2
              ELSE IF Contains(users[u].subscriptions, cal) THEN -3 ELSE 0
    IN  [rc |-> rc, users |-> IF rc # 0 THEN users
                              ELSE [users EXCEPT ![u].subscriptions = Append(@, cal)]]

\* Mutant: before all if the first is earlier.
InsertReversed(events, time) ==
    LET later == SelectInSubSeq(events, 2, Len(events), LAMBDA t : t >= time)
    IN  IF events = <<>> \/ events[1] < time THEN <<time>> \o events
        ELSE IF later = 0 THEN Append(events, time) ELSE InsertAt(events, later, time)

(* Before all if the first is later; else after the first and before the     *)
(* next that is not earlier.                                                 *)
Insert(events, time) ==
    LET later == SelectInSubSeq(events, 2, Len(events), LAMBDA t : t >= time)
    IN  IF events = <<>> \/ events[1] > time THEN <<time>> \o events
        ELSE IF later = 0 THEN Append(events, time) ELSE InsertAt(events, later, time)

add_event(cals, name, time) ==
    LET c == find_calendar(cals, name)
    IN  IF c = 0 THEN [rc |-> -1, cals |-> cals]
        ELSE [rc |-> 0, cals |-> [cals EXCEPT ![c].events = Insert(@, time)]]
=============================================================================
