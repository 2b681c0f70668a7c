------------------------------ MODULE Calendar ------------------------------
(***************************************************************************)
(* The single-user calendar program (calendar.c): one command after the    *)
(* other on the lists, each as the user typed it.  What the server must    *)
(* look like to anyone who sees only the lists.                            *)
(***************************************************************************)
EXTENDS Lists

CONSTANTS CalName, UserName, Time

VARIABLES calendar_list, user_list

lists == <<calendar_list, user_list>>

Init == calendar_list = <<>> /\ user_list = <<>>

AddCalendar(name) ==
    /\ calendar_list' = add_calendar(calendar_list, name).cals
    /\ UNCHANGED user_list

AddUser(name) ==
    /\ user_list' = add_user(user_list, name).users
    /\ UNCHANGED calendar_list

Subscribe(user, cal) ==
    /\ user_list' = subscribe(user_list, calendar_list, user, cal).users
    /\ UNCHANGED calendar_list

AddEvent(cal, time) ==
    /\ calendar_list' = add_event(calendar_list, cal, time).cals
    /\ UNCHANGED user_list

(* quit, the listings and wrong syntax change nothing.                       *)
Next ==
    \/ \E name \in CalName : AddCalendar(name)
    \/ \E name \in UserName : AddUser(name)
    \/ \E user \in UserName, cal \in CalName : Subscribe(user, cal)
    \/ \E cal \in CalName, time \in Time : AddEvent(cal, time)

Spec == Init /\ [][Next]_lists
=============================================================================
