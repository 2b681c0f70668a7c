-------------------------- MODULE CalServerProofs ---------------------------
(***************************************************************************)
(* For any number of clients, names, lines and bytes in a buffer, and      *)
(* however the network cuts and joins the lines: the server does to the    *)
(* lists what the single-user program does with one command at a time.     *)
(*                                                                         *)
(* What process_args gets is always made of the words that were sent; so   *)
(* all that has to be kept is what the sockets and client list hold.       *)
(***************************************************************************)
EXTENDS CalServer, SequenceTheorems, WellFoundedInduction, TLAPS

-----------------------------------------------------------------------------
(* What the functions of lists.c promise, for lists of any length: names     *)
(* stay unique, events stay in order, and a subscription is to a calendar    *)
(* that exists.                                                              *)

CalendarsOK(cals, Names, Times) ==
    /\ cals \in Seq([name : Names, events : Seq(Times)])
    /\ \A i, j \in 1 .. Len(cals) : cals[i].name = cals[j].name => i = j
    /\ \A i \in 1 .. Len(cals) : \A j, k \in 1 .. Len(cals[i].events) :
           j < k => cals[i].events[j] <= cals[i].events[k]

UsersOK(users, cals, Names, UserNames) ==
    /\ users \in Seq([name : UserNames, subscriptions : Seq(Names)])
    /\ \A i, j \in 1 .. Len(users) : users[i].name = users[j].name => i = j
    /\ \A i \in 1 .. Len(users) :
           /\ \A j, k \in 1 .. Len(users[i].subscriptions) :
                  users[i].subscriptions[j] = users[i].subscriptions[k] => j = k
           /\ \A j \in 1 .. Len(users[i].subscriptions) :
                  \E k \in 1 .. Len(cals) : cals[k].name = users[i].subscriptions[j]

-----------------------------------------------------------------------------
(* Searching a list.                                                         *)

LEMMA LeastIndex ==
    ASSUME NEW I \in SUBSET Nat, I # {}
    PROVE  Min(I) \in I /\ \A n \in I : Min(I) <= n
<1> DEFINE less == {ss \in Nat \X Nat : ss[1] < ss[2]}
<1>1. IsWellFoundedOn(less, Nat)
  BY NatLessThanWellFounded, Zenon DEF OpToRel
<1>2. PICK m \in I : \A n \in I : ~(<<n, m>> \in less)
  BY <1>1, WFMin
<1>3. \A a, b \in Nat : a < b => <<a, b>> \in less
  OBVIOUS
<1> HIDE DEF less
<1>4. ASSUME NEW n \in I PROVE m <= n
  <2>1. n \in Nat /\ m \in Nat
    OBVIOUS
  <2>2. ~(n < m)
    BY <1>2, <1>3, <2>1, Zenon
  <2> QED BY <2>1, <2>2
<1> QED BY <1>4 DEF Min

LEMMA FindCalendar ==
    ASSUME NEW S, NEW cals \in Seq(S), NEW name
    PROVE  LET c == find_calendar(cals, name)
           IN  IF c = 0 THEN \A i \in 1 .. Len(cals) : cals[i].name # name
               ELSE c \in 1 .. Len(cals) /\ cals[c].name = name
<1> DEFINE I == {i \in 1 .. Len(cals) : cals[i].name = name}
<1>1. find_calendar(cals, name) = IF I # {} THEN Min(I) ELSE 0
  BY DEF find_calendar, SelectInSeq
<1>2. I \in SUBSET Nat
  OBVIOUS
<1>3. I # {} => Min(I) \in I
  BY <1>2, LeastIndex
<1> QED BY <1>1, <1>3

LEMMA FindUser ==
    ASSUME NEW S, NEW users \in Seq(S), NEW name
    PROVE  LET u == find_user(users, name)
           IN  IF u = 0 THEN \A i \in 1 .. Len(users) : users[i].name # name
               ELSE u \in 1 .. Len(users) /\ users[u].name = name
<1> DEFINE I == {i \in 1 .. Len(users) : users[i].name = name}
<1>1. find_user(users, name) = IF I # {} THEN Min(I) ELSE 0
  BY DEF find_user, SelectInSeq
<1>2. I \in SUBSET Nat
  OBVIOUS
<1>3. I # {} => Min(I) \in I
  BY <1>2, LeastIndex
<1> QED BY <1>1, <1>3

-----------------------------------------------------------------------------
(* Inserting an event.                                                       *)

(* r is s with e put in as element m.                                        *)
IsInserted(r, s, m, e) ==
    /\ Len(r) = Len(s) + 1
    /\ \A i \in 1 .. Len(s) + 1 : r[i] = IF i < m THEN s[i] ELSE IF i = m THEN e ELSE s[i - 1]

LEMMA InsertAtIs ==
    ASSUME NEW S, NEW s \in Seq(S), NEW e \in S, NEW m \in 1 .. Len(s) + 1
    PROVE  InsertAt(s, m, e) \in Seq(S) /\ IsInserted(InsertAt(s, m, e), s, m, e)
<1> DEFINE n == Len(s)
           front == SubSeq(s, 1, m - 1)
           back == SubSeq(s, m, n)
           one == <<e>>
<1>1. n \in Nat /\ \A i \in 1 .. n : s[i] \in S
  BY LenProperties, ElementOfSeq
<1>2. front \in Seq(S) /\ Len(front) = m - 1 /\ \A i \in 1 .. m - 1 : front[i] = s[i]
  <2>1. \A i \in 1 .. m - 1 : s[i] \in S
    BY <1>1
  <2>2. front \in Seq(S) /\ Len(front) = (IF 1 <= m - 1 THEN m - 1 - 1 + 1 ELSE 0)
        /\ \A i \in 1 .. m - 1 - 1 + 1 : front[i] = s[1 + i - 1]
    BY <2>1, SubSeqProperties
  <2> HIDE DEF front
  <2> QED BY <2>2, <1>1
<1>3. back \in Seq(S) /\ Len(back) = n - m + 1 /\ \A i \in 1 .. n - m + 1 : back[i] = s[m + i - 1]
  <2>1. \A i \in m .. n : s[i] \in S
    BY <1>1
  <2>2. n \in Int /\ m \in Int
    BY <1>1
  <2>3. back \in Seq(S) /\ Len(back) = (IF m <= n THEN n - m + 1 ELSE 0)
        /\ \A i \in 1 .. n - m + 1 : back[i] = s[m + i - 1]
    <3> HIDE DEF n
    <3> QED BY <2>1, <2>2, SubSeqProperties
  <2> HIDE DEF back
  <2> QED BY <1>1, <2>3
<1>4. one \in Seq(S) /\ Len(one) = 1 /\ one[1] = e
  OBVIOUS
<1> DEFINE r1 == front \o one
           r == r1 \o back
<1> HIDE DEF one, front, back
<1>5. r1 \in Seq(S) /\ Len(r1) = m /\ \A i \in 1 .. m : r1[i] = IF i <= m - 1 THEN front[i] ELSE one[i - (m - 1)]
  <2>1. r1 \in Seq(S) /\ Len(r1) = Len(front) + Len(one)
        /\ \A i \in 1 .. Len(front) + Len(one) :
              r1[i] = IF i <= Len(front) THEN front[i] ELSE one[i - Len(front)]
    BY <1>2, <1>4, ConcatProperties
  <2> HIDE DEF r1
  <2> QED BY <1>1, <1>2, <1>4, <2>1
<1>6. \A i \in 1 .. m : r1[i] = IF i < m THEN s[i] ELSE e
  <2> HIDE DEF r1
  <2> QED BY <1>1, <1>2, <1>4, <1>5
<1> HIDE DEF r1
<1>7. r \in Seq(S) /\ Len(r) = m + (n - m + 1)
      /\ \A i \in 1 .. m + (n - m + 1) : r[i] = IF i <= m THEN r1[i] ELSE back[i - m]
  <2>1. r \in Seq(S) /\ Len(r) = Len(r1) + Len(back)
        /\ \A i \in 1 .. Len(r1) + Len(back) : r[i] = IF i <= Len(r1) THEN r1[i] ELSE back[i - Len(r1)]
    BY <1>3, <1>5, ConcatProperties
  <2> HIDE DEF r
  <2> QED BY <1>1, <1>3, <1>5, <2>1
<1>8. InsertAt(s, m, e) = r
  BY DEF InsertAt, r, r1, front, back, one
<1> HIDE DEF r
<1>9. \A i \in 1 .. n + 1 : r[i] = IF i < m THEN s[i] ELSE IF i = m THEN e ELSE s[i - 1]
  <2> SUFFICES ASSUME NEW i \in 1 .. n + 1
               PROVE  r[i] = IF i < m THEN s[i] ELSE IF i = m THEN e ELSE s[i - 1]
    OBVIOUS
  <2>1. CASE i <= m
    BY <1>1, <1>6, <1>7, <2>1
  <2>2. CASE i > m
    <3>1. i - m \in 1 .. n - m + 1 /\ m + (i - m) - 1 = i - 1
      BY <1>1, <2>2
    <3>2. r[i] = back[i - m]
      BY <1>1, <1>7, <2>2
    <3> QED BY <1>1, <1>3, <2>2, <3>1, <3>2
  <2> QED BY <1>1, <2>1, <2>2
<1> QED BY <1>1, <1>7, <1>8, <1>9 DEF IsInserted

(* Where Insert puts an event: behind all that are earlier. *)
LEMMA InsertPlace ==
    ASSUME NEW Times \in SUBSET Int, NEW events \in Seq(Times), NEW time \in Times,
           \A j, k \in 1 .. Len(events) : j < k => events[j] <= events[k]
    PROVE  /\ Insert(events, time) \in Seq(Times)
           /\ \E m \in 1 .. Len(events) + 1 :
                  /\ IsInserted(Insert(events, time), events, m, time)
                  /\ \A i \in 1 .. m - 1 : events[i] <= time
                  /\ \A i \in m .. Len(events) : time <= events[i]
<1> DEFINE n == Len(events)
           J == {i \in 2 .. n : events[i] >= time}
           later == IF J # {} THEN Min(J) ELSE 0
           r == Insert(events, time)
           first == events = <<>> \/ events[1] > time
<1>1. n \in Nat /\ \A i \in 1 .. n : events[i] \in Int
  BY LenProperties, ElementOfSeq
<1>2. J \in SUBSET Nat
  BY <1>1
<1>3. J # {} => Min(J) \in J /\ \A i \in J : Min(J) <= i
  BY <1>2, LeastIndex
<1>4. r = IF first THEN <<time>> \o events
          ELSE IF later = 0 THEN Append(events, time) ELSE InsertAt(events, later, time)
  BY Zenon DEF Insert, SelectInSubSeq
<1> HIDE DEF r, J
<1>5. CASE first
  <2>1. r = <<time>> \o events
    <3> HIDE DEF later, first
    <3> QED BY <1>4, <1>5, Zenon
  <2> DEFINE one == <<time>>
  <2>2. one \in Seq(Times) /\ Len(one) = 1 /\ one[1] = time
    OBVIOUS
  <2> HIDE DEF one
  <2>3. one \o events \in Seq(Times) /\ IsInserted(one \o events, events, 1, time)
    <3>1. /\ one \o events \in Seq(Times) /\ Len(one \o events) = Len(one) + n
          /\ \A i \in 1 .. Len(one) + n :
                (one \o events)[i] = IF i <= Len(one) THEN one[i] ELSE events[i - Len(one)]
      BY <2>2, ConcatProperties
    <3> DEFINE rr == one \o events
    <3> HIDE DEF rr
    <3>2. \A i \in 1 .. n + 1 : rr[i] = IF i < 1 THEN events[i] ELSE IF i = 1 THEN time ELSE events[i - 1]
      BY <1>1, <2>2, <3>1 DEF rr
    <3>3. Len(rr) = n + 1
      BY <1>1, <2>2, <3>1 DEF rr
    <3> QED BY <3>1, <3>2, <3>3 DEF IsInserted, rr
  <2>4. \A i \in 1 .. n : time <= events[i]
    <3> SUFFICES ASSUME NEW i \in 1 .. n PROVE time <= events[i]
      OBVIOUS
    <3>1. n > 0 /\ events[1] > time
      BY <1>1, <1>5
    <3>2. i = 1 \/ events[1] <= events[i]
      BY <1>1, <3>1
    <3> QED BY <1>1, <3>1, <3>2
  <2>5. 1 \in 1 .. n + 1 /\ \A i \in 1 .. 1 - 1 : events[i] <= time
    BY <1>1
  <2> QED BY <2>1, <2>3, <2>4, <2>5 DEF one, r
<1>6. CASE ~first /\ later = 0
  <2>1. r = Append(events, time)
    <3> HIDE DEF later, first
    <3> QED BY <1>4, <1>6, Zenon
  <2>2. /\ r \in Seq(Times) /\ Len(r) = n + 1
        /\ \A i \in 1 .. n : r[i] = events[i]
        /\ r[n + 1] = time
    BY <2>1, AppendProperties
  <2>3. J = {}
    <3>1. 0 \notin J
      BY DEF J
    <3> QED BY <1>3, <1>6, <3>1
  <2>4. \A i \in 1 .. n : events[i] <= time
    BY <1>1, <1>6, <2>3 DEF J
  <2>5. IsInserted(r, events, n + 1, time)
    BY <1>1, <2>2 DEF IsInserted
  <2>6. n + 1 \in 1 .. n + 1 /\ \A i \in n + 1 .. n : time <= events[i]
    BY <1>1
  <2> QED BY <1>1, <2>2, <2>4, <2>5, <2>6 DEF r
<1>7. CASE ~first /\ later # 0
  <2>1. r = InsertAt(events, later, time)
    <3> HIDE DEF later, first
    <3> QED BY <1>4, <1>7, Zenon
  <2>2. later \in J /\ \A i \in J : later <= i
    BY <1>3, <1>7
  <2> HIDE DEF later
  <2>3. later \in 1 .. n + 1 /\ events[later] >= time
    BY <1>1, <2>2 DEF J
  <2>4. \A i \in 1 .. later - 1 : events[i] <= time
    <3> SUFFICES ASSUME NEW i \in 1 .. later - 1 PROVE events[i] <= time
      OBVIOUS
    <3>1. CASE i = 1
      BY <1>1, <1>7, <2>2, <3>1 DEF J
    <3>2. CASE i # 1
      <4>1. i \in 2 .. n /\ i \notin J
        BY <1>1, <2>2, <2>3, <3>2
      <4> QED BY <1>1, <4>1 DEF J
    <3> QED BY <3>1, <3>2
  <2>5. \A i \in later .. n : time <= events[i]
    <3> SUFFICES ASSUME NEW i \in later .. n PROVE time <= events[i]
      OBVIOUS
    <3>1. i = later \/ events[later] <= events[i]
      BY <1>1, <2>3
    <3> QED BY <1>1, <2>3, <3>1
  <2>6. InsertAt(events, later, time) \in Seq(Times) /\ IsInserted(InsertAt(events, later, time), events, later, time)
    BY <2>3, InsertAtIs
  <2> QED BY <2>1, <2>3, <2>4, <2>5, <2>6 DEF r
<1> QED BY <1>5, <1>6, <1>7

LEMMA InsertSorted ==
    ASSUME NEW Times \in SUBSET Int, NEW events \in Seq(Times), NEW time \in Times,
           \A j, k \in 1 .. Len(events) : j < k => events[j] <= events[k]
    PROVE  /\ Insert(events, time) \in Seq(Times)
           /\ \A j, k \in 1 .. Len(Insert(events, time)) :
                  j < k => Insert(events, time)[j] <= Insert(events, time)[k]
<1> DEFINE r == Insert(events, time)
           n == Len(events)
<1>1. n \in Nat /\ time \in Int /\ \A i \in 1 .. n : events[i] \in Int
  BY LenProperties, ElementOfSeq
<1>2. PICK m \in 1 .. n + 1 :
          /\ IsInserted(r, events, m, time)
          /\ \A i \in 1 .. m - 1 : events[i] <= time
          /\ \A i \in m .. n : time <= events[i]
  BY InsertPlace
<1>3. r \in Seq(Times)
  BY InsertPlace
<1>4. Len(r) = n + 1
      /\ \A i \in 1 .. n + 1 : r[i] = IF i < m THEN events[i] ELSE IF i = m THEN time ELSE events[i - 1]
  BY <1>2 DEF IsInserted
<1> HIDE DEF r
<1>5. ASSUME NEW j \in 1 .. n + 1, NEW k \in 1 .. n + 1, j < k PROVE r[j] <= r[k]
  <2> HIDE DEF n
  <2>0. m \in 1 .. n + 1
    OBVIOUS
  <2>1. CASE k < m
    <3>1. r[j] = events[j] /\ r[k] = events[k] /\ j \in 1 .. n /\ k \in 1 .. n
      BY <1>1, <1>4, <1>5, <2>0, <2>1
    <3> QED BY <1>5, <3>1 DEF n
  <2>2. CASE k = m
    BY <1>1, <1>2, <1>4, <1>5, <2>2
  <2>3. CASE j < m /\ k > m
    <3>1. events[j] <= time /\ time <= events[k - 1] /\ events[j] \in Int /\ events[k - 1] \in Int
      BY <1>1, <1>2, <2>3
    <3> QED BY <1>1, <1>4, <1>5, <2>3, <3>1
  <2>4. CASE j = m
    BY <1>1, <1>2, <1>4, <1>5, <2>4
  <2>5. CASE j > m
    <3>1. r[j] = events[j - 1] /\ r[k] = events[k - 1] /\ j - 1 \in 1 .. n /\ k - 1 \in 1 .. n /\ j - 1 < k - 1
      BY <1>1, <1>4, <1>5, <2>0, <2>5
    <3> QED BY <3>1 DEF n
  <2> QED BY <2>1, <2>2, <2>3, <2>4, <2>5
<1> QED BY <1>3, <1>4, <1>5 DEF r

-----------------------------------------------------------------------------
(* The functions.                                                            *)

LEMMA AddCalendarOK ==
    ASSUME NEW Names, NEW Times, NEW UserNames, NEW cals, NEW users, NEW name \in Names,
           CalendarsOK(cals, Names, Times), UsersOK(users, cals, Names, UserNames)
    PROVE  LET r == add_calendar(cals, name).cals
           IN  CalendarsOK(r, Names, Times) /\ UsersOK(users, r, Names, UserNames)
<1>1. CASE find_calendar(cals, name) # 0
  BY <1>1 DEF add_calendar
<1>2. CASE find_calendar(cals, name) = 0
  <2> DEFINE new == [name |-> name, events |-> <<>>]
             r == <<new>> \o cals
  <2>1. add_calendar(cals, name).cals = r
    BY <1>2 DEF add_calendar
  <2>2. cals \in Seq([name : Names, events : Seq(Times)]) /\ \A i \in 1 .. Len(cals) : cals[i].name # name
    BY <1>2, FindCalendar DEF CalendarsOK
  <2>3. new \in [name : Names, events : Seq(Times)] /\ new.name = name /\ Len(new.events) = 0
    OBVIOUS
  <2> HIDE DEF new
  <2>4. /\ r \in Seq([name : Names, events : Seq(Times)]) /\ Len(r) = Len(cals) + 1
        /\ r[1] = new /\ \A i \in 1 .. Len(cals) : r[i + 1] = cals[i]
        /\ \A i \in 2 .. Len(r) : i - 1 \in 1 .. Len(cals) /\ r[i] = cals[i - 1]
    BY <2>2, <2>3
  <2> HIDE DEF r
  <2>5. ASSUME NEW i \in 1 .. Len(r), NEW j \in 1 .. Len(r), r[i].name = r[j].name PROVE i = j
    <3>1. CASE i = 1 /\ j = 1
      BY <3>1
    <3>2. CASE i = 1 /\ j # 1
      <4>1. j \in 2 .. Len(r)
        BY <3>2
      <4>2. r[j] = cals[j - 1] /\ cals[j - 1].name # name
        BY <2>2, <2>4, <4>1
      <4> QED BY <2>3, <2>4, <2>5, <3>2, <4>2
    <3>3. CASE i # 1 /\ j = 1
      <4>1. i \in 2 .. Len(r)
        BY <3>3
      <4>2. r[i] = cals[i - 1] /\ cals[i - 1].name # name
        BY <2>2, <2>4, <4>1
      <4> QED BY <2>3, <2>4, <2>5, <3>3, <4>2
    <3>4. CASE i # 1 /\ j # 1
      <4>1. i \in 2 .. Len(r) /\ j \in 2 .. Len(r)
        BY <3>4
      <4>2. cals[i - 1].name = cals[j - 1].name
        BY <2>4, <2>5, <4>1
      <4>3. i - 1 = j - 1
        BY <2>4, <4>1, <4>2 DEF CalendarsOK
      <4> QED BY <4>1, <4>3
    <3> QED BY <3>1, <3>2, <3>3, <3>4
  <2>6. ASSUME NEW i \in 1 .. Len(r), NEW j \in 1 .. Len(r[i].events), NEW k \in 1 .. Len(r[i].events), j < k
        PROVE  r[i].events[j] <= r[i].events[k]
    <3>1. i \in 2 .. Len(r)
      BY <2>3, <2>4, <2>6
    <3> QED BY <2>4, <2>6, <3>1 DEF CalendarsOK
  <2>7. CalendarsOK(r, Names, Times)
    BY <2>4, <2>5, <2>6 DEF CalendarsOK
  <2>8. UsersOK(users, r, Names, UserNames)
    <3>1. ASSUME NEW k \in 1 .. Len(cals) PROVE k + 1 \in 1 .. Len(r) /\ r[k + 1].name = cals[k].name
      BY <2>2, <2>4, LenProperties
    <3>2. ASSUME NEW x, \E k \in 1 .. Len(cals) : cals[k].name = x
          PROVE  \E k \in 1 .. Len(r) : r[k].name = x
      BY <3>1, <3>2
    <3> QED BY <3>2 DEF UsersOK
  <2> QED BY <2>1, <2>7, <2>8
<1> QED BY <1>1, <1>2

LEMMA AddEventOK ==
    ASSUME NEW Names, NEW Times \in SUBSET Int, NEW UserNames, NEW cals, NEW users,
           NEW name \in Names, NEW time \in Times,
           CalendarsOK(cals, Names, Times), UsersOK(users, cals, Names, UserNames)
    PROVE  LET r == add_event(cals, name, time).cals
           IN  CalendarsOK(r, Names, Times) /\ UsersOK(users, r, Names, UserNames)
<1> DEFINE c == find_calendar(cals, name)
<1>1. CASE c = 0
  BY <1>1 DEF add_event
<1>2. CASE c # 0
  <2> DEFINE r == [cals EXCEPT ![c].events = Insert(@, time)]
             inserted == Insert(cals[c].events, time)
  <2>1. add_event(cals, name, time).cals = r
    BY <1>2 DEF add_event
  <2>2. cals \in Seq([name : Names, events : Seq(Times)]) /\ c \in 1 .. Len(cals)
    BY <1>2, FindCalendar DEF CalendarsOK
  <2> HIDE DEF c
  <2>3. /\ inserted \in Seq(Times)
        /\ \A j, k \in 1 .. Len(inserted) : j < k => inserted[j] <= inserted[k]
    <3>1. cals[c].events \in Seq(Times)
      <4>1. cals[c] \in [name : Names, events : Seq(Times)]
        BY <2>2, ElementOfSeq
      <4> QED BY <4>1
    <3>2. \A j, k \in 1 .. Len(cals[c].events) : j < k => cals[c].events[j] <= cals[c].events[k]
      BY <2>2 DEF CalendarsOK
    <3> QED BY <3>1, <3>2, InsertSorted
  <2> HIDE DEF inserted
  <2>4. /\ r \in Seq([name : Names, events : Seq(Times)]) /\ Len(r) = Len(cals)
        /\ \A i \in 1 .. Len(cals) : /\ r[i].name = cals[i].name
                                     /\ r[i].events = IF i = c THEN inserted ELSE cals[i].events
    <3> DEFINE new == [cals[c] EXCEPT !.events = inserted]
    <3>1. r = [cals EXCEPT ![c] = new]
      BY DEF inserted
    <3>2. cals[c] \in [name : Names, events : Seq(Times)]
      BY <2>2, ElementOfSeq
    <3>3. new \in [name : Names, events : Seq(Times)] /\ new.name = cals[c].name /\ new.events = inserted
      BY <2>3, <3>2
    <3> HIDE DEF new, r
    <3> QED BY <2>2, <3>1, <3>3
  <2> HIDE DEF r
  <2>5. CalendarsOK(r, Names, Times)
    <3>1. ASSUME NEW i \in 1 .. Len(r), NEW j \in 1 .. Len(r), r[i].name = r[j].name PROVE i = j
      BY <2>2, <2>4, <3>1 DEF CalendarsOK
    <3>2. ASSUME NEW i \in 1 .. Len(r), NEW j \in 1 .. Len(r[i].events), NEW k \in 1 .. Len(r[i].events), j < k
          PROVE  r[i].events[j] <= r[i].events[k]
      <4>1. CASE i = c
        BY <2>2, <2>3, <2>4, <3>2, <4>1
      <4>2. CASE i # c
        BY <2>2, <2>4, <3>2, <4>2 DEF CalendarsOK
      <4> QED BY <4>1, <4>2
    <3> QED BY <2>4, <3>1, <3>2 DEF CalendarsOK
  <2>6. UsersOK(users, r, Names, UserNames)
    <3>1. ASSUME NEW x, \E k \in 1 .. Len(cals) : cals[k].name = x
          PROVE  \E k \in 1 .. Len(r) : r[k].name = x
      BY <2>4, <3>1
    <3> QED BY <3>1 DEF UsersOK
  <2> QED BY <2>1, <2>5, <2>6
<1> QED BY <1>1, <1>2

LEMMA AddUserOK ==
    ASSUME NEW Names, NEW UserNames, NEW cals, NEW users, NEW name \in UserNames,
           UsersOK(users, cals, Names, UserNames)
    PROVE  UsersOK(add_user(users, name).users, cals, Names, UserNames)
<1>1. CASE find_user(users, name) # 0
  BY <1>1 DEF add_user
<1>2. CASE find_user(users, name) = 0
  <2> DEFINE new == [name |-> name, subscriptions |-> <<>>]
             r == Append(users, new)
             n == Len(users)
  <2>1. add_user(users, name).users = r
    BY <1>2 DEF add_user
  <2>2. users \in Seq([name : UserNames, subscriptions : Seq(Names)]) /\ \A i \in 1 .. n : users[i].name # name
    BY <1>2, FindUser DEF UsersOK
  <2>3. /\ new \in [name : UserNames, subscriptions : Seq(Names)]
        /\ new.name = name /\ Len(new.subscriptions) = 0
    OBVIOUS
  <2> HIDE DEF new
  <2>4. /\ r \in Seq([name : UserNames, subscriptions : Seq(Names)]) /\ Len(r) = n + 1 /\ n \in Nat
        /\ r[n + 1] = new /\ \A i \in 1 .. n : r[i] = users[i]
    BY <2>2, <2>3
  <2> HIDE DEF r
  <2>5. \A i \in 1 .. Len(r) : i = n + 1 \/ i \in 1 .. n
    BY <2>4
  <2>6. ASSUME NEW i \in 1 .. Len(r), NEW j \in 1 .. Len(r), r[i].name = r[j].name PROVE i = j
    <3>1. CASE i \in 1 .. n /\ j \in 1 .. n
      BY <2>4, <2>6, <3>1 DEF UsersOK
    <3>2. CASE i = n + 1 /\ j \in 1 .. n
      BY <2>2, <2>3, <2>4, <2>6, <3>2
    <3>3. CASE i \in 1 .. n /\ j = n + 1
      BY <2>2, <2>3, <2>4, <2>6, <3>3
    <3> QED BY <2>5, <3>1, <3>2, <3>3
  <2>7. ASSUME NEW i \in 1 .. Len(r), NEW j \in 1 .. Len(r[i].subscriptions)
        PROVE  /\ i \in 1 .. n /\ r[i] = users[i]
    BY <2>3, <2>4, <2>5, <2>7
  <2>8. ASSUME NEW i \in 1 .. Len(r), NEW j \in 1 .. Len(r[i].subscriptions),
               NEW k \in 1 .. Len(r[i].subscriptions), r[i].subscriptions[j] = r[i].subscriptions[k]
        PROVE  j = k
    BY <2>7, <2>8 DEF UsersOK
  <2>9. ASSUME NEW i \in 1 .. Len(r), NEW j \in 1 .. Len(r[i].subscriptions)
        PROVE  \E k \in 1 .. Len(cals) : cals[k].name = r[i].subscriptions[j]
    <3>1. i \in 1 .. n /\ r[i] = users[i] /\ j \in 1 .. Len(users[i].subscriptions)
      BY <2>7, <2>9
    <3>2. \E k \in 1 .. Len(cals) : cals[k].name = users[i].subscriptions[j]
      BY <3>1 DEF UsersOK
    <3> QED BY <3>1, <3>2
  <2> QED BY <2>1, <2>4, <2>6, <2>8, <2>9 DEF UsersOK
<1> QED BY <1>1, <1>2

LEMMA SubscribeOK ==
    ASSUME NEW Names, NEW UserNames, NEW S, NEW cals \in Seq(S), NEW users,
           NEW user \in UserNames, NEW cal \in Names,
           UsersOK(users, cals, Names, UserNames)
    PROVE  UsersOK(subscribe(users, cals, user, cal).users, cals, Names, UserNames)
<1> DEFINE u == find_user(users, user)
           rc == subscribe(users, cals, user, cal).rc
<1>1. CASE rc # 0
  BY <1>1 DEF subscribe
<1>2. CASE rc = 0
  <2> DEFINE r == [users EXCEPT ![u].subscriptions = Append(@, cal)]
             old == users[u].subscriptions
             n == Len(old)
  <2>1. subscribe(users, cals, user, cal).users = r
    BY <1>2 DEF subscribe
  <2>2. u # 0 /\ find_calendar(cals, cal) # 0 /\ ~Contains(old, cal)
    <3>1. rc = IF u = 0 THEN -1 ELSE IF find_calendar(cals, cal) = 0 THEN -2
               ELSE IF Contains(old, cal) THEN -3 ELSE 0
      BY DEF subscribe
    <3> QED BY <1>2, <3>1
  <2>3. users \in Seq([name : UserNames, subscriptions : Seq(Names)]) /\ u \in 1 .. Len(users)
    BY <2>2, FindUser DEF UsersOK
  <2>4. \E k \in 1 .. Len(cals) : cals[k].name = cal
    BY <2>2, FindCalendar
  <2> HIDE DEF u
  <2>5. /\ old \in Seq(Names) /\ n \in Nat /\ users[u] \in [name : UserNames, subscriptions : Seq(Names)]
        /\ \A j \in 1 .. n : old[j] # cal
    <3>1. users[u] \in [name : UserNames, subscriptions : Seq(Names)]
      BY <2>3, ElementOfSeq
    <3>2. old \in Seq(Names)
      BY <3>1
    <3> HIDE DEF old
    <3> QED BY <2>2, <3>1, <3>2, LenProperties DEF Contains
  <2> DEFINE more == Append(old, cal)
  <2>6. /\ more \in Seq(Names) /\ Len(more) = n + 1 /\ more[n + 1] = cal
        /\ \A j \in 1 .. n : more[j] = old[j]
    BY <2>5
  <2> HIDE DEF more
  <2>7. /\ r \in Seq([name : UserNames, subscriptions : Seq(Names)]) /\ Len(r) = Len(users)
        /\ \A i \in 1 .. Len(users) : /\ r[i].name = users[i].name
                                      /\ r[i].subscriptions = IF i = u THEN more ELSE users[i].subscriptions
    <3> DEFINE new == [users[u] EXCEPT !.subscriptions = more]
    <3>1. r = [users EXCEPT ![u] = new]
      BY DEF more
    <3>2. new \in [name : UserNames, subscriptions : Seq(Names)] /\ new.name = users[u].name /\ new.subscriptions = more
      BY <2>5, <2>6
    <3> HIDE DEF new, r
    <3> QED BY <2>3, <3>1, <3>2
  <2> HIDE DEF r
  <2>8. ASSUME NEW i \in 1 .. Len(r), NEW j \in 1 .. Len(r), r[i].name = r[j].name PROVE i = j
    BY <2>3, <2>7, <2>8 DEF UsersOK
  <2>9. ASSUME NEW i \in 1 .. Len(r)
        PROVE  /\ \A j, k \in 1 .. Len(r[i].subscriptions) :
                      r[i].subscriptions[j] = r[i].subscriptions[k] => j = k
               /\ \A j \in 1 .. Len(r[i].subscriptions) :
                      \E k \in 1 .. Len(cals) : cals[k].name = r[i].subscriptions[j]
    <3>1. CASE i # u
      <4>1. i \in 1 .. Len(users) /\ r[i].subscriptions = users[i].subscriptions
        BY <2>7, <3>1
      <4> DEFINE subs == users[i].subscriptions
      <4>2. \A j, k \in 1 .. Len(subs) : subs[j] = subs[k] => j = k
        BY <4>1 DEF UsersOK
      <4>3. \A j \in 1 .. Len(subs) : \E k \in 1 .. Len(cals) : cals[k].name = subs[j]
        BY <4>1 DEF UsersOK
      <4> HIDE DEF subs
      <4> QED BY <4>1, <4>2, <4>3 DEF subs
    <3>2. CASE i = u
      <4>1. \A j, k \in 1 .. n : old[j] = old[k] => j = k
        BY <2>3 DEF UsersOK
      <4>2. \A j \in 1 .. n : \E k \in 1 .. Len(cals) : cals[k].name = old[j]
        BY <2>3 DEF UsersOK
      <4>3. r[i].subscriptions = more
        BY <2>3, <2>7, <3>2
      <4> HIDE DEF old
      <4>4. \A j \in 1 .. Len(more) : j = n + 1 \/ j \in 1 .. n
        BY <2>5, <2>6
      <4> HIDE DEF n
      <4>5. \A j, k \in 1 .. Len(more) : more[j] = more[k] => j = k
        BY <2>5, <2>6, <4>1, <4>4
      <4>6. \A j \in 1 .. Len(more) : \E k \in 1 .. Len(cals) : cals[k].name = more[j]
        BY <2>4, <2>6, <4>2, <4>4
      <4> QED BY <4>3, <4>5, <4>6
    <3> QED BY <3>1, <3>2
  <2> QED BY <2>1, <2>7, <2>8, <2>9 DEF UsersOK
<1> QED BY <1>1, <1>2
-----------------------------------------------------------------------------
(* The server.                                                               *)

(* What a socket can hold, and what can be made of it.                       *)
Words == Command \cup {Incorrect, Blank}
Piece == {item \in Item : item.len >= (IF item.cmd = Blank THEN 1 ELSE 3)}

WireInv ==
    /\ wire \in [Client -> Seq(Piece)]
    /\ top \in Seq(Client) /\ waiting \in Seq(Client)

LEMMA PieceIs ==
    ASSUME NEW piece \in Piece
    PROVE  /\ piece \in Item /\ piece.cmd \in Words /\ piece.len \in Nat \ {0}
           /\ piece.cmd # Blank => piece.len > 2
BY DEF Piece, Item, Words

-----------------------------------------------------------------------------
(* The functions of lists.c that the server calls are those of calendar.c. *)
LEMMA SameFunctions ==
    ASSUME NEW cals, NEW users, NEW name, NEW user, NEW time
    PROVE  /\ Single!add_calendar(cals, name) = add_calendar(cals, name)
           /\ Single!add_user(users, user) = add_user(users, user)
           /\ Single!subscribe(users, cals, user, name) = subscribe(users, cals, user, name)
           /\ Single!add_event(cals, name, time) = add_event(cals, name, time)
<1>1. Single!add_calendar(cals, name) = add_calendar(cals, name)
  BY DEF Single!add_calendar, add_calendar, Single!find_calendar, find_calendar,
         Single!SelectInSeq, SelectInSeq, Single!Min, Min
<1>2. Single!add_user(users, user) = add_user(users, user)
  BY DEF Single!add_user, add_user, Single!find_user, find_user,
         Single!SelectInSeq, SelectInSeq, Single!Min, Min
<1>3. Single!subscribe(users, cals, user, name) = subscribe(users, cals, user, name)
  BY DEF Single!subscribe, subscribe, Single!find_user, find_user, Single!find_calendar, find_calendar,
         Single!SelectInSeq, SelectInSeq, Single!Min, Min, Single!Contains, Contains
<1>4. Single!add_event(cals, name, time) = add_event(cals, name, time)
  BY DEF Single!add_event, add_event, Single!find_calendar, find_calendar, Single!Insert, Insert,
         Single!SelectInSeq, SelectInSeq, Single!SelectInSubSeq, SelectInSubSeq, Single!InsertAt, InsertAt,
         Single!Min, Min
<1> QED BY <1>1, <1>2, <1>3, <1>4

(* A command is one of the single-user program, and what is none changes nothing. *)
LEMMA ProcessArgs ==
    ASSUME NEW cmd \in Words, process_args(cmd)
    PROVE  [Single!Next]_lists
<1>1. CASE cmd.op = "add_calendar"
  <2>1. cmd.cal \in CalName
    BY <1>1 DEF Words, Command, Incorrect, Blank
  <2>2. calendar_list' = add_calendar(calendar_list, cmd.cal).cals /\ UNCHANGED user_list
    BY <1>1 DEF process_args
  <2> QED BY <2>1, <2>2, SameFunctions DEF Single!Next, Single!AddCalendar
<1>2. CASE cmd.op = "add_event"
  <2>1. cmd.cal \in CalName /\ cmd.time \in Time
    BY <1>2 DEF Words, Command, Incorrect, Blank
  <2>2. calendar_list' = add_event(calendar_list, cmd.cal, cmd.time).cals /\ UNCHANGED user_list
    BY <1>2 DEF process_args
  <2> QED BY <2>1, <2>2, SameFunctions DEF Single!Next, Single!AddEvent
<1>3. CASE cmd.op = "add_user"
  <2>1. cmd.user \in UserName
    BY <1>3 DEF Words, Command, Incorrect, Blank
  <2>2. user_list' = add_user(user_list, cmd.user).users /\ UNCHANGED calendar_list
    BY <1>3 DEF process_args
  <2> QED BY <2>1, <2>2, SameFunctions DEF Single!Next, Single!AddUser
<1>4. CASE cmd.op = "subscribe"
  <2>1. cmd.user \in UserName /\ cmd.cal \in CalName
    BY <1>4 DEF Words, Command, Incorrect, Blank
  <2>2. user_list' = subscribe(user_list, calendar_list, cmd.user, cmd.cal).users /\ UNCHANGED calendar_list
    BY <1>4 DEF process_args
  <2> QED BY <2>1, <2>2, SameFunctions DEF Single!Next, Single!Subscribe
<1>5. CASE cmd.op \notin {"add_calendar", "add_event", "add_user", "subscribe"}
  <2>1. UNCHANGED lists
    BY <1>5 DEF process_args
  <2> QED BY <2>1
<1> QED BY <1>1, <1>2, <1>3, <1>4, <1>5
-----------------------------------------------------------------------------
(* What is cut from a command, or read behind one, is a command or none.     *)
LEMMA LinePiece == Line \subseteq Piece
<1> SUFFICES ASSUME NEW line \in Line PROVE line \in Piece
  OBVIOUS
<1>1. line \in Item /\ IF line.cmd = Blank THEN line.len = 2 ELSE line.len > 2
  <2>1. /\ Line \subseteq Item
        /\ \A l \in Line : IF l.cmd = Blank THEN l.len = 2 ELSE l.len > 2
    BY CalServerAssumption, Zenon
  <2> QED BY <2>1
<1>2. line.len \in Nat
  BY <1>1 DEF Item
<1> QED BY <1>1, <1>2 DEF Piece

LEMMA EventAtAnyTime ==
    ASSUME NEW cmd \in Words, cmd.op = "add_event", NEW t \in Time
    PROVE  [cmd EXCEPT !.time = t] \in Command
<1>1. cmd \in [op : {"add_event"}, cal : CalName, time : Time]
  BY DEF Words, Command, Incorrect, Blank
<1> QED BY <1>1 DEF Command

LEMMA CutWords ==
    ASSUME NEW cmd \in Words
    PROVE  Cut(cmd) \subseteq Words
<1>1. CASE cmd.op \in {"add_calendar", "subscribe"}
  <2>1. Cut(cmd) = {Incorrect} \cup {[cmd EXCEPT !.cal = m] : m \in {n \in CalName : <<cmd.cal, n>> \in CutTo}}
    BY <1>1, Zenon DEF Cut
  <2>2. \/ cmd \in [op : {"add_calendar"}, cal : CalName]
        \/ cmd \in [op : {"subscribe"}, user : UserName, cal : CalName]
    BY <1>1 DEF Words, Command, Incorrect, Blank
  <2>3. ASSUME NEW m \in CalName
        PROVE  [cmd EXCEPT !.cal = m] \in Command
    BY <2>2, <2>3 DEF Command
  <2> QED BY <2>1, <2>3 DEF Words
<1>2. CASE cmd.op = "add_user"
  <2>1. Cut(cmd) = {Incorrect} \cup {[cmd EXCEPT !.user = m] : m \in {n \in UserName : <<cmd.user, n>> \in CutTo}}
    BY <1>2, Zenon DEF Cut
  <2>2. cmd \in [op : {"add_user"}, user : UserName]
    BY <1>2 DEF Words, Command, Incorrect, Blank
  <2>3. ASSUME NEW m \in UserName
        PROVE  [cmd EXCEPT !.user = m] \in Command
    BY <2>2, <2>3 DEF Command
  <2> QED BY <2>1, <2>3 DEF Words
<1>3. CASE cmd.op = "add_event"
  <2>1. Cut(cmd) = {Incorrect} \cup {[cmd EXCEPT !.time = t] : t \in Time}
    BY <1>3, Zenon DEF Cut
  <2> QED BY <1>3, <2>1, EventAtAnyTime DEF Words
<1>4. CASE cmd.op \notin {"add_calendar", "add_event", "add_user", "subscribe"}
  <2>1. Cut(cmd) = {Incorrect}
    BY <1>4, Zenon DEF Cut
  <2> QED BY <2>1 DEF Words
<1> QED BY <1>1, <1>2, <1>3, <1>4

LEMMA ExtendedWords ==
    ASSUME NEW cmd \in Words
    PROVE  Extended(cmd) \subseteq Words
<1>1. CASE cmd.op = "add_event"
  <2>1. Extended(cmd) = {Incorrect} \cup {[cmd EXCEPT !.time = t] : t \in Time}
    BY <1>1, Zenon DEF Extended
  <2> QED BY <1>1, <2>1, EventAtAnyTime DEF Words
<1>2. CASE cmd.op # "add_event"
  <2>1. Extended(cmd) = {Incorrect}
    BY <1>2, Zenon DEF Extended
  <2> QED BY <2>1 DEF Words
<1> QED BY <1>1, <1>2

LEMMA FirstWithWords ==
    ASSUME NEW w \in Seq(Piece), NEW n \in 0 .. Len(w), WithWords(w, n) # {}
    PROVE  /\ Min(WithWords(w, n)) \in 1 .. n /\ w[Min(WithWords(w, n))] \in Piece
           /\ w[Min(WithWords(w, n))].cmd # Blank
<1>1. WithWords(w, n) \in SUBSET Nat /\ n \in Nat
  BY DEF WithWords
<1>2. Min(WithWords(w, n)) \in WithWords(w, n)
  BY <1>1, LeastIndex
<1> HIDE DEF WithWords
<1>3. \A i \in WithWords(w, n) : i \in 1 .. n /\ w[i].cmd # Blank
  BY DEF WithWords
<1>4. Min(WithWords(w, n)) \in 1 .. n /\ Min(WithWords(w, n)) \in 1 .. Len(w)
  BY <1>2, <1>3
<1> QED BY <1>2, <1>3, <1>4, ElementOfSeq

(* What n lines and a front of the next say is made of their words.          *)
LEMMA SaidWords ==
    ASSUME NEW w \in Seq(Piece), NEW n \in 0 .. Len(w),
           NEW k \in 0 .. (IF n = Len(w) THEN 0 ELSE w[n + 1].len - 1)
    PROVE  Said(w, n, k) \subseteq Words
<1>1. CASE WithWords(w, n) # {}
  <2> DEFINE first == w[Min(WithWords(w, n))].cmd
  <2>1. first \in Words
    BY <1>1, FirstWithWords, PieceIs
  <2> HIDE DEF first
  <2>2. Said(w, n, k) = {first} \/ Said(w, n, k) = Extended(first)
    BY <1>1 DEF Said, first
  <2> QED BY <2>1, <2>2, ExtendedWords
<1>2. CASE WithWords(w, n) = {} /\ HasFront(w, n, k)
  <2>1. n + 1 \in 1 .. Len(w)
    BY <1>2 DEF HasFront
  <2>2. w[n + 1].cmd \in Words
    BY <2>1, ElementOfSeq, PieceIs
  <2>3. Said(w, n, k) = Cut(w[n + 1].cmd) \/ Said(w, n, k) = {w[n + 1].cmd}
    BY <1>2 DEF Said
  <2> QED BY <2>2, <2>3, CutWords
<1>3. CASE WithWords(w, n) = {} /\ ~HasFront(w, n, k)
  <2>1. Said(w, n, k) = {Blank}
    BY <1>3, Zenon DEF Said, IsCut
  <2> QED BY <2>1 DEF Words
<1> QED BY <1>1, <1>2, <1>3

LEMMA HeardWords ==
    ASSUME NEW said \in SUBSET Words, NEW p, NEW len, NEW cut
    PROVE  Heard(p, len, said, cut) \subseteq Words
<1>1. UNION {Extended(cmd) : cmd \in said} \subseteq Words
  BY ExtendedWords
<1>2. Command \cup {Incorrect} \subseteq Words
  BY DEF Words
<1> HIDE DEF Extended
<1> QED BY <1>1, <1>2 DEF Heard

(* What follows a read of such a command does to the lists what it does.     *)
LEMMA HandleStep ==
    ASSUME NEW p, NEW len, NEW where, NEW cmd \in Words, NEW text,
           Handle(p, len, where, cmd, text)
    PROVE  [Single!Next]_lists
<1>1. CASE where = 0
  <2>1. <<lists, top, named, gone, closed, running>>' = <<lists, top, named, gone, closed, running>>
    BY <1>1 DEF Handle
  <2> QED BY <2>1
<1>2. CASE where # 0 /\ p \notin named
  <2>1. <<lists, top, gone, closed>>' = <<lists, top, gone, closed>>
    BY <1>2 DEF Handle
  <2> QED BY <2>1
<1>3. CASE where # 0 /\ p \in named
  <2>1. process_args(cmd)
    BY <1>3 DEF Handle
  <2> QED BY <2>1, ProcessArgs
<1> QED BY <1>1, <1>2, <1>3

(* Removing a client leaves a list of clients.                               *)
LEMMA RemovedSeq ==
    ASSUME NEW S, NEW s \in Seq(S), NEW e
    PROVE  RemoveFirst(s, e) \in Seq(S)
<1>1. CASE \A i \in 1 .. Len(s) : s[i] # e
  BY <1>1 DEF RemoveFirst
<1>2. CASE \E i \in 1 .. Len(s) : s[i] = e
  <2> DEFINE I == {i \in 1 .. Len(s) : s[i] = e}
             k == SelectInSeq(s, LAMBDA v : v = e)
  <2>1. I # {} /\ I \subseteq Nat
    BY <1>2
  <2>2. k = Min(I)
    BY <2>1 DEF SelectInSeq
  <2>4. Min(I) \in I
    BY <2>1, LeastIndex
  <2>5. RemoveFirst(s, e) = SubSeq(s, 1, k - 1) \o SubSeq(s, k + 1, Len(s))
    BY <1>2 DEF RemoveFirst, RemoveAt
  <2>6. k \in 1 .. Len(s)
    BY <2>2, <2>4
  <2> HIDE DEF k
  <2>7. SubSeq(s, 1, k - 1) \in Seq(S) /\ SubSeq(s, k + 1, Len(s)) \in Seq(S)
    BY <2>6
  <2> QED BY <2>5, <2>7
<1> QED BY <1>1, <1>2
-----------------------------------------------------------------------------
(* The list of clients is one of clients after a read, too.                  *)
LEMMA HandleTop ==
    ASSUME NEW p, NEW len, NEW where, NEW cmd, NEW text, top \in Seq(Client),
           Handle(p, len, where, cmd, text)
    PROVE  top' \in Seq(Client)
<1>1. top' = top \/ top' = RemoveFirst(top, p)
  <2>1. CASE where = 0
    BY <2>1 DEF Handle
  <2>2. CASE where # 0 /\ p \notin named
    BY <2>2 DEF Handle
  <2>3. CASE where # 0 /\ p \in named /\ cmd.op = "quit"
    BY <2>3 DEF Handle, removeclient
  <2>4. CASE where # 0 /\ p \in named /\ cmd.op # "quit"
    BY <2>4 DEF Handle
  <2> QED BY <2>1, <2>2, <2>3, <2>4
<1> QED BY <1>1, RemovedSeq

(* What a read leaves of the lines are lines and tails of lines.             *)
LEMMA ReadWire ==
    ASSUME WireInv, NEW p \in Client, NEW rest \in Seq(Piece), Read(p, rest)
    PROVE  wire' \in [Client -> Seq(Piece)]
BY DEF Read, WireInv

LEMMA AfterPiece ==
    ASSUME NEW piece \in Piece, NEW k \in 1 .. piece.len - 1
    PROVE  After(piece, k) \in Piece
<1> DEFINE rest == piece.len - k
<1>1. rest \in Nat \ {0}
  BY PieceIs
<1>2. CASE rest <= 2
  <2>1. After(piece, k) = [cmd |-> Blank, len |-> rest]
    BY <1>2 DEF After
  <2> QED BY <1>1, <2>1 DEF Piece, Item
<1>3. CASE ~(rest <= 2)
  <2>1. After(piece, k) = [cmd |-> Incorrect, len |-> rest]
    BY <1>3 DEF After
  <2> HIDE DEF rest
  <2> QED BY <1>1, <1>3, <2>1 DEF Piece, Item
<1> QED BY <1>2, <1>3

(* The bytes of n whole lines and of k bytes of the next.                    *)
Bytes(w, n, k) ==
    LET bytes[i \in 0 .. n] == IF i = 0 THEN 0 ELSE bytes[i - 1] + w[i].len IN bytes[n] + k

(* A read of n lines and k bytes does what is heard of them.                 *)
LEMMA ReadBytesDoes ==
    ASSUME WireInv, NEW p \in Client, NEW n \in 0 .. Len(wire[p]),
           NEW k \in 0 .. (IF n = Len(wire[p]) THEN 0 ELSE wire[p][n + 1].len - 1),
           ReadBytes(p, n, k)
    PROVE  LET w == wire[p]
               len == Bytes(w, n, k)
               cut == IsCut(w, n, k)
           IN  /\ len <= INPUT_BUFFER_SIZE
               /\ \E rest \in Seq(Piece) : Read(p, rest) /\ (n = 1 /\ k = 0 => rest = Tail(w))
               /\ \E cmd \in Heard(p, len, Said(w, n, k), cut) :
                     /\ cmd \in Words
                     /\ \E where \in Newlines(p, w, n, k, len) : \E text :
                          /\ Handle(p, len, where, cmd, text)
                          /\ ~cut => text = Text(w, n, k)
                     /\ Note(p, cmd, n = 1 /\ k = 0 /\ w[1].cmd # Blank /\ 2 * len <= INPUT_BUFFER_SIZE)
<1> DEFINE w == wire[p]
           len == Bytes(w, n, k)
           cut == IsCut(w, n, k)
           rest == IF k = 0 THEN SubSeq(w, n + 1, Len(w))
                   ELSE <<After(w[n + 1], k)>> \o SubSeq(w, n + 2, Len(w))
           text == IF cut /\ len \in left[p] THEN INPUT_BUFFER_SIZE ELSE Text(w, n, k)
<1>1. /\ len <= INPUT_BUFFER_SIZE /\ Read(p, rest)
      /\ \E cmd \in Heard(p, len, Said(w, n, k), cut) : \E where \in Newlines(p, w, n, k, len) :
            /\ Handle(p, len, where, cmd, text)
            /\ Note(p, cmd, n = 1 /\ k = 0 /\ w[1].cmd # Blank /\ 2 * len <= INPUT_BUFFER_SIZE)
  BY Zenon DEF ReadBytes, Bytes
<1>2. w \in Seq(Piece) /\ n \in Nat /\ k \in Int /\ n <= Len(w)
  BY DEF WireInv
<1>3. rest \in Seq(Piece) /\ (n = 1 /\ k = 0 => rest = Tail(w))
  <2> HIDE DEF w
  <2>1. CASE k = 0
    <3>1. rest = SubSeq(w, n + 1, Len(w))
      BY <2>1
    <3>2. SubSeq(w, n + 1, Len(w)) \in Seq(Piece)
      BY <1>2
    <3>3. n = 1 => SubSeq(w, n + 1, Len(w)) = Tail(w)
      BY <1>2
    <3> QED BY <3>1, <3>2, <3>3
  <2>2. CASE k # 0
    <3>1. n + 1 \in 1 .. Len(w) /\ k \in 1 .. w[n + 1].len - 1
      BY <1>2, <2>2 DEF w
    <3>2. w[n + 1] \in Piece
      BY <1>2, <3>1, ElementOfSeq
    <3>3. After(w[n + 1], k) \in Piece
      BY <3>1, <3>2, AfterPiece
    <3>4. SubSeq(w, n + 2, Len(w)) \in Seq(Piece)
      BY <1>2
    <3>5. <<After(w[n + 1], k)>> \in Seq(Piece)
      BY <3>3
    <3>6. rest = <<After(w[n + 1], k)>> \o SubSeq(w, n + 2, Len(w))
      BY <2>2
    <3> QED BY <2>2, <3>4, <3>5, <3>6, ConcatProperties
  <2> QED BY <2>1, <2>2
<1>4. Heard(p, len, Said(w, n, k), cut) \subseteq Words
  <2>1. Said(w, n, k) \subseteq Words
    BY <1>2, SaidWords
  <2> QED BY <2>1, HeardWords
<1>5. ~cut => text = Text(w, n, k)
  BY Zenon
<1> HIDE DEF rest, text, cut, len
<1> QED BY <1>1, <1>3, <1>4, <1>5 DEF len, cut

(* One read of a client's socket is a step of the single-user program.       *)
LEMMA WhatsupStep ==
    ASSUME WireInv, NEW p \in Client, whatsup(p)
    PROVE  /\ [Single!Next]_lists
           /\ wire' \in [Client -> Seq(Piece)] /\ top' \in Seq(Client)
<1> top \in Seq(Client)
  BY DEF WireInv
<1>1. ASSUME NEW n \in 0 .. Len(wire[p]),
             NEW k \in 0 .. (IF n = Len(wire[p]) THEN 0 ELSE wire[p][n + 1].len - 1), ReadBytes(p, n, k)
      PROVE  /\ [Single!Next]_lists
             /\ wire' \in [Client -> Seq(Piece)] /\ top' \in Seq(Client)
  <2>1. PICK rest \in Seq(Piece) : Read(p, rest)
    BY <1>1, ReadBytesDoes, Zenon
  <2>2. PICK cmd \in Words : \E len, where, text : Handle(p, len, where, cmd, text)
    BY <1>1, ReadBytesDoes, Zenon
  <2>3. PICK len, where, text : Handle(p, len, where, cmd, text)
    BY <2>2
  <2> QED BY <2>1, <2>3, HandleStep, HandleTop, ReadWire
<1>2. CASE ReadError(p)
  <2>1. Blank \in Words
    BY DEF Words
  <2>2. Heard(p, 0, {Blank}, FALSE) \subseteq Words
    BY <2>1, HeardWords
  <2>3. PICK cmd \in Heard(p, 0, {Blank}, FALSE) : \E where : Handle(p, -1, where, cmd, INPUT_BUFFER_SIZE)
    BY <1>2, Zenon DEF ReadError
  <2>4. PICK where : Handle(p, -1, where, cmd, INPUT_BUFFER_SIZE)
    BY <2>3
  <2>5. Read(p, <<>>) /\ <<>> \in Seq(Piece)
    BY <1>2 DEF ReadError
  <2> QED BY <2>2, <2>4, <2>5, HandleStep, HandleTop, ReadWire
<1>3. CASE ReadEnd(p)
  <2>1. UNCHANGED <<lists, wire>> /\ top' = RemoveFirst(top, p)
    BY <1>3 DEF ReadEnd, removeclient
  <2> QED BY <2>1, RemovedSeq DEF WireInv
<1> QED BY <1>1, <1>2, <1>3 DEF whatsup

(* So is every other step of the server, the clients and the network, which  *)
(* leaves the lists alone.                                                   *)
LEMMA StepRefines ==
    ASSUME WireInv, [Next]_vars
    PROVE  WireInv' /\ [Single!Next]_lists
<1>1. ASSUME NEW c \in Client, Connect(c)
      PROVE  WireInv' /\ [Single!Next]_lists
  BY <1>1 DEF WireInv, Connect, clients
<1>2. ASSUME NEW c \in Client, HangUp(c)
      PROVE  WireInv' /\ [Single!Next]_lists
  BY <1>2 DEF WireInv, HangUp, clients
<1>3. ASSUME NEW c \in Client, NEW line \in Line, Send(c, line)
      PROVE  WireInv' /\ [Single!Next]_lists
  <2>1. line \in Piece
    BY LinePiece
  <2>2. wire' = [wire EXCEPT ![c] = Append(@, line)] /\ UNCHANGED <<lists, top, waiting>>
    BY <1>3 DEF Send, clients
  <2> QED BY <2>1, <2>2 DEF WireInv
<1>4. CASE Serve
  <2>1. PICK i \in Ready : whatsup(top[i])
    BY <1>4 DEF Serve
  <2>2. top[i] \in Client
    BY <2>1 DEF Ready, WireInv
  <2>3. UNCHANGED waiting
    BY <1>4 DEF Serve
  <2> QED BY <2>1, <2>2, <2>3, WhatsupStep DEF WireInv
<1>5. CASE newconnection
  <2>1. /\ waiting # <<>> /\ waiting' = Tail(waiting) /\ top' = <<Head(waiting)>> \o top
        /\ UNCHANGED <<lists, wire>>
    BY <1>5 DEF newconnection, addclient
  <2>2. Head(waiting) \in Client /\ Tail(waiting) \in Seq(Client) /\ top \in Seq(Client)
    BY <2>1 DEF WireInv
  <2>3. <<Head(waiting)>> \o top \in Seq(Client)
    BY <2>2
  <2> QED BY <2>1, <2>2, <2>3 DEF WireInv
<1>6. CASE UNCHANGED vars
  BY <1>6 DEF vars, net, clients, WireInv
<1> QED BY <1>1, <1>2, <1>3, <1>4, <1>5, <1>6 DEF Next

(* Whatever is sent, however the network cuts and joins it, and whoever      *)
(* comes, goes or stays silent: to one who sees the lists, the server is the *)
(* single-user program (main, whatsup and process_args in calserver.c).      *)
THEOREM ServerImplementsCalendar == Spec => ImplementsCalendar
<1>1. Init => WireInv /\ Single!Init
  BY DEF Init, WireInv, Single!Init
<1>2. WireInv /\ [Next]_vars => WireInv' /\ [Single!Next]_Single!lists
  BY StepRefines DEF lists, Single!lists
<1> QED BY <1>1, <1>2, PTL DEF Spec, ImplementsCalendar, Single!Spec

-----------------------------------------------------------------------------
(* What lists.h promises of the lists.                                       *)

ListsInv ==
    /\ CalendarsOK(calendar_list, CalName, Time)
    /\ UsersOK(user_list, calendar_list, CalName, UserName)

(* Every command of the single-user program keeps it.                        *)
LEMMA CommandKeepsLists ==
    ASSUME ListsInv, [Single!Next]_lists
    PROVE  ListsInv'
<1> Time \in SUBSET Int
  BY CalServerAssumption
<1>1. ASSUME NEW name \in CalName, Single!AddCalendar(name)
      PROVE  ListsInv'
  <2>1. calendar_list' = add_calendar(calendar_list, name).cals /\ UNCHANGED user_list
    BY <1>1, SameFunctions DEF Single!AddCalendar
  <2> QED BY <2>1, AddCalendarOK DEF ListsInv
<1>2. ASSUME NEW name \in UserName, Single!AddUser(name)
      PROVE  ListsInv'
  <2>1. user_list' = add_user(user_list, name).users /\ UNCHANGED calendar_list
    BY <1>2, SameFunctions DEF Single!AddUser
  <2> QED BY <2>1, AddUserOK DEF ListsInv
<1>3. ASSUME NEW user \in UserName, NEW cal \in CalName, Single!Subscribe(user, cal)
      PROVE  ListsInv'
  <2>1. /\ user_list' = subscribe(user_list, calendar_list, user, cal).users
        /\ UNCHANGED calendar_list
    BY <1>3, SameFunctions DEF Single!Subscribe
  <2>2. calendar_list \in Seq([name : CalName, events : Seq(Time)])
    BY DEF ListsInv, CalendarsOK
  <2> QED BY <2>1, <2>2, SubscribeOK DEF ListsInv
<1>4. ASSUME NEW cal \in CalName, NEW time \in Time, Single!AddEvent(cal, time)
      PROVE  ListsInv'
  <2>1. calendar_list' = add_event(calendar_list, cal, time).cals /\ UNCHANGED user_list
    BY <1>4, SameFunctions DEF Single!AddEvent
  <2> QED BY <2>1, AddEventOK DEF ListsInv
<1>5. CASE UNCHANGED lists
  BY <1>5 DEF lists, ListsInv
<1> QED BY <1>1, <1>2, <1>3, <1>4, <1>5 DEF Single!Next

LEMMA ListsInvMeans == ASSUME ListsInv PROVE ListsWellFormed
<1>1. /\ calendar_list \in Seq([name : CalName, events : Seq(Time)])
      /\ user_list \in Seq([name : UserName, subscriptions : Seq(CalName)])
  BY DEF ListsInv, CalendarsOK, UsersOK
<1>2. DOMAIN calendar_list = 1 .. Len(calendar_list) /\ DOMAIN user_list = 1 .. Len(user_list)
  BY <1>1
<1>3. IsInjective([i \in DOMAIN calendar_list |-> calendar_list[i].name])
  BY <1>2 DEF ListsInv, CalendarsOK, IsInjective
<1>4. IsInjective([i \in DOMAIN user_list |-> user_list[i].name])
  BY <1>2 DEF ListsInv, UsersOK, IsInjective
<1>5. ASSUME NEW i \in DOMAIN calendar_list
      PROVE  IsSorted(calendar_list[i].events, <=)
  <2>1. \A j, k \in 1 .. Len(calendar_list[i].events) :
            j < k => calendar_list[i].events[j] <= calendar_list[i].events[k]
    BY <1>2 DEF ListsInv, CalendarsOK
  <2> QED BY <2>1, Zenon DEF IsSorted
<1>6. ASSUME NEW i \in DOMAIN user_list
      PROVE  /\ IsInjective(user_list[i].subscriptions)
             /\ \A s \in ToSet(user_list[i].subscriptions) : find_calendar(calendar_list, s) # 0
  <2> DEFINE subs == user_list[i].subscriptions
  <2>1. user_list[i] \in [name : UserName, subscriptions : Seq(CalName)]
    BY <1>1, <1>2, ElementOfSeq
  <2>2. subs \in Seq(CalName)
    BY <2>1
  <2>3. DOMAIN subs = 1 .. Len(subs)
    BY <2>2
  <2>4. IsInjective(subs)
    BY <1>2, <2>3 DEF ListsInv, UsersOK, IsInjective
  <2>5. ASSUME NEW j \in 1 .. Len(subs)
        PROVE  find_calendar(calendar_list, subs[j]) # 0
    <3>1. \E k \in 1 .. Len(calendar_list) : calendar_list[k].name = subs[j]
      BY <1>2 DEF ListsInv, UsersOK
    <3> QED BY <1>1, <3>1, FindCalendar
  <2> QED BY <2>3, <2>4, <2>5 DEF ToSet
<1> QED BY <1>3, <1>4, <1>5, <1>6 DEF ListsWellFormed

(* Names stay unique, events stay in order and subscriptions are to          *)
(* calendars that exist, whoever sends what (add_calendar, add_event,        *)
(* add_user and subscribe in lists.c, called from process_args).             *)
THEOREM ListsStayWellFormed == Spec => []ListsWellFormed
<1>1. Init => WireInv /\ ListsInv
  <2> HAVE Init
  <2>1. WireInv
    BY DEF Init, WireInv
  <2>2. calendar_list = <<>> /\ user_list = <<>>
    BY DEF Init
  <2> QED BY <2>1, <2>2 DEF ListsInv, CalendarsOK, UsersOK
<1>2. WireInv /\ ListsInv /\ [Next]_vars => (WireInv /\ ListsInv)'
  BY StepRefines, CommandKeepsLists
<1>3. WireInv /\ ListsInv => ListsWellFormed
  BY ListsInvMeans
<1> QED BY <1>1, <1>2, <1>3, PTL DEF Spec

-----------------------------------------------------------------------------
(* Lists without duplicates, as those of the clients are.                    *)

LEMMA Elements ==
    ASSUME NEW S, NEW s \in Seq(S)
    PROVE  /\ ToSet(s) = {s[i] : i \in 1 .. Len(s)} /\ ToSet(s) \subseteq S
           /\ IsInjective(s) <=> \A i, j \in 1 .. Len(s) : s[i] = s[j] => i = j
BY LenProperties, ElementOfSeq DEF ToSet, IsInjective

LEMMA Prepended ==
    ASSUME NEW S, NEW s \in Seq(S), NEW e \in S
    PROVE  /\ <<e>> \o s \in Seq(S) /\ ToSet(<<e>> \o s) = {e} \cup ToSet(s)
           /\ IsInjective(s) /\ e \notin ToSet(s) => IsInjective(<<e>> \o s)
<1> DEFINE r == <<e>> \o s
           n == Len(s)
<1>1. r \in Seq(S) /\ Len(r) = n + 1 /\ n \in Nat
  OBVIOUS
<1>2. r[1] = e /\ \A i \in 1 .. n : r[i + 1] = s[i]
  OBVIOUS
<1> HIDE DEF r
<1>3. \A i \in 2 .. n + 1 : i - 1 \in 1 .. n /\ r[i] = s[i - 1]
  <2> TAKE i \in 2 .. n + 1
  <2>1. i - 1 \in 1 .. n /\ (i - 1) + 1 = i
    BY <1>1
  <2> QED BY <2>1, <1>2
<1>4. ToSet(r) = {e} \cup ToSet(s)
  <2>1. ASSUME NEW i \in 1 .. n + 1 PROVE r[i] \in {e} \cup ToSet(s)
    <3>1. CASE i = 1
      BY <3>1, <1>2
    <3>2. CASE i # 1
      <4>1. i \in 2 .. n + 1
        BY <3>2, <1>1
      <4> QED BY <4>1, <1>3, Elements
    <3> QED BY <3>1, <3>2
  <2>2. e \in ToSet(r)
    BY <1>1, <1>2, Elements
  <2>3. ASSUME NEW i \in 1 .. n PROVE s[i] \in ToSet(r)
    <3>1. i + 1 \in 1 .. n + 1
      BY <1>1
    <3> QED BY <3>1, <1>1, <1>2, Elements
  <2> QED BY <1>1, <2>1, <2>2, <2>3, Elements
<1>5. ASSUME IsInjective(s), e \notin ToSet(s), NEW i \in 1 .. n + 1, NEW j \in 1 .. n + 1, r[i] = r[j]
      PROVE  i = j
  <2>1. \A k \in 2 .. n + 1 : r[k] # e
    BY <1>3, <1>5, Elements
  <2>2. CASE i = 1 \/ j = 1
    BY <1>1, <1>2, <1>5, <2>1, <2>2
  <2>3. CASE i # 1 /\ j # 1
    <3>1. i \in 2 .. n + 1 /\ j \in 2 .. n + 1
      BY <2>3, <1>1
    <3>2. i - 1 = j - 1
      BY <3>1, <1>3, <1>5, Elements
    <3> QED BY <3>2, <1>1
  <2> QED BY <2>2, <2>3
<1>6. IsInjective(s) /\ e \notin ToSet(s) => IsInjective(r)
  BY <1>1, <1>5, Elements
<1> QED BY <1>1, <1>4, <1>6 DEF r

LEMMA Appended ==
    ASSUME NEW S, NEW s \in Seq(S), NEW e \in S
    PROVE  /\ Append(s, e) \in Seq(S) /\ ToSet(Append(s, e)) = ToSet(s) \cup {e}
           /\ IsInjective(s) /\ e \notin ToSet(s) => IsInjective(Append(s, e))
<1> DEFINE r == Append(s, e)
           n == Len(s)
<1>1. r \in Seq(S) /\ Len(r) = n + 1 /\ n \in Nat
  OBVIOUS
<1>2. r[n + 1] = e /\ \A i \in 1 .. n : r[i] = s[i]
  OBVIOUS
<1> HIDE DEF r
<1>3. ToSet(r) = ToSet(s) \cup {e}
  BY <1>1, <1>2, Elements
<1>4. IsInjective(s) /\ e \notin ToSet(s) => IsInjective(r)
  BY <1>1, <1>2, Elements
<1> QED BY <1>1, <1>3, <1>4 DEF r

LEMMA Behead ==
    ASSUME NEW S, NEW s \in Seq(S), s # <<>>, IsInjective(s)
    PROVE  /\ Head(s) \in ToSet(s) /\ Tail(s) \in Seq(S)
           /\ ToSet(Tail(s)) = ToSet(s) \ {Head(s)} /\ IsInjective(Tail(s))
<1> DEFINE r == Tail(s)
           n == Len(s)
<1>1. r \in Seq(S) /\ Len(r) = n - 1 /\ n \in Nat \ {0} /\ Head(s) = s[1]
  OBVIOUS
<1>2. \A i \in 1 .. n - 1 : r[i] = s[i + 1]
  BY HeadTailProperties
<1> HIDE DEF r
<1>3. \A i, j \in 1 .. n : s[i] = s[j] => i = j
  BY Elements
<1>4. IsInjective(r)
  BY <1>1, <1>2, <1>3, Elements
<1>5. \A i \in 2 .. n : i - 1 \in 1 .. n - 1 /\ r[i - 1] = s[i]
  BY <1>1, <1>2
<1>6. ASSUME NEW i \in 1 .. n - 1 PROVE r[i] \in ToSet(s) \ {s[1]}
  <2>1. i + 1 \in 1 .. n /\ i + 1 # 1 /\ 1 \in 1 .. n
    BY <1>1
  <2> QED BY <2>1, <1>2, <1>3, Elements
<1>7. ASSUME NEW i \in 1 .. n, s[i] # s[1] PROVE s[i] \in ToSet(r)
  <2>1. i \in 2 .. n
    BY <1>1, <1>7
  <2> QED BY <2>1, <1>1, <1>5, Elements
<1>8. ToSet(r) = ToSet(s) \ {s[1]}
  BY <1>1, <1>6, <1>7, Elements
<1>9. s[1] \in ToSet(s)
  BY <1>1, Elements
<1> QED BY <1>1, <1>4, <1>8, <1>9 DEF r

LEMMA Removed ==
    ASSUME NEW S, NEW s \in Seq(S), NEW e \in ToSet(s), IsInjective(s)
    PROVE  /\ RemoveFirst(s, e) \in Seq(S) /\ ToSet(RemoveFirst(s, e)) = ToSet(s) \ {e}
           /\ IsInjective(RemoveFirst(s, e))
<1> DEFINE n == Len(s)
           I == {i \in 1 .. n : s[i] = e}
           k == SelectInSeq(s, LAMBDA v : v = e)
           front == SubSeq(s, 1, k - 1)
           back == SubSeq(s, k + 1, n)
           r == front \o back
<1>1. I # {} /\ I \subseteq Nat /\ n \in Nat
  BY Elements
<1>2. k = Min(I)
  BY <1>1 DEF SelectInSeq
<1>3. k \in 1 .. n /\ s[k] = e
  BY <1>1, <1>2, LeastIndex
<1>4. RemoveFirst(s, e) = r
  BY <1>1, <1>3 DEF RemoveFirst, RemoveAt
<1> HIDE DEF k, I
<1>5. /\ front \in Seq(S) /\ Len(front) = k - 1 /\ \A i \in 1 .. k - 1 : front[i] = s[i]
      /\ back \in Seq(S) /\ Len(back) = n - k /\ \A i \in 1 .. n - k : back[i] = s[k + i]
  BY <1>1, <1>3, SubSeqProperties, ElementOfSeq
<1> HIDE DEF front, back
<1>6. /\ r \in Seq(S) /\ Len(r) = n - 1
      /\ \A i \in 1 .. n - 1 : r[i] = IF i < k THEN s[i] ELSE s[i + 1]
  <2>1. /\ r \in Seq(S) /\ Len(r) = Len(front) + Len(back)
        /\ \A i \in 1 .. Len(front) + Len(back) :
               r[i] = IF i <= Len(front) THEN front[i] ELSE back[i - Len(front)]
    BY <1>5, ConcatProperties
  <2> HIDE DEF r
  <2>2. ASSUME NEW i \in 1 .. n - 1 PROVE r[i] = IF i < k THEN s[i] ELSE s[i + 1]
    <3>1. CASE i < k
      BY <3>1, <1>1, <1>3, <1>5, <2>1
    <3>2. CASE i >= k
      <4>1. i - (k - 1) \in 1 .. n - k /\ k + (i - (k - 1)) = i + 1
        BY <3>2, <1>1, <1>3
      <4>2. back[i - (k - 1)] = s[i + 1]
        BY <4>1, <1>5
      <4>3. ~(i <= k - 1) /\ ~(i < k) /\ i \in 1 .. Len(front) + Len(back)
        BY <3>2, <1>1, <1>3, <1>5
      <4> QED BY <4>2, <4>3, <1>5, <2>1
    <3> QED BY <3>1, <3>2, <1>1, <1>3
  <2> QED BY <2>1, <2>2, <1>1, <1>3, <1>5
<1> HIDE DEF r
<1>7. \A i, j \in 1 .. n : s[i] = s[j] => i = j
  BY Elements
<1>8. IsInjective(r)
  <2>1. ASSUME NEW i \in 1 .. n - 1, NEW j \in 1 .. n - 1, r[i] = r[j] PROVE i = j
    <3> DEFINE at(m) == IF m < k THEN m ELSE m + 1
    <3>1. at(i) \in 1 .. n /\ at(j) \in 1 .. n /\ (at(i) = at(j) => i = j)
      BY <1>1, <1>3
    <3>2. r[i] = s[at(i)] /\ r[j] = s[at(j)]
      BY <1>6
    <3> HIDE DEF at
    <3>3. at(i) = at(j)
      BY <1>7, <2>1, <3>1, <3>2
    <3> QED BY <3>1, <3>3
  <2> QED BY <1>6, <2>1, Elements
<1>9. ToSet(r) = ToSet(s) \ {e}
  <2>1. ASSUME NEW i \in 1 .. n - 1 PROVE r[i] \in ToSet(s) \ {e}
    <3>1. PICK j \in {i, i + 1} : r[i] = s[j] /\ j # k /\ j \in 1 .. n
      BY <1>1, <1>3, <1>6
    <3> QED BY <3>1, <1>3, <1>7, Elements
  <2>2. ASSUME NEW i \in 1 .. n, s[i] # e PROVE s[i] \in ToSet(r)
    <3>1. CASE i < k
      <4>1. i \in 1 .. n - 1 /\ r[i] = s[i]
        BY <3>1, <1>1, <1>3, <1>6
      <4> QED BY <4>1, <1>6, Elements
    <3>2. CASE i > k
      <4>1. i - 1 \in 1 .. n - 1 /\ ~(i - 1 < k) /\ (i - 1) + 1 = i
        BY <3>2, <1>1, <1>3
      <4>2. r[i - 1] = s[i]
        BY <4>1, <1>6
      <4> QED BY <4>1, <4>2, <1>6, Elements
    <3>3. i # k
      BY <2>2, <1>3
    <3> QED BY <3>1, <3>2, <3>3, <1>3
  <2>3. ToSet(r) = {r[i] : i \in 1 .. n - 1} /\ ToSet(s) = {s[i] : i \in 1 .. n}
    BY <1>6, Elements
  <2> QED BY <2>1, <2>2, <2>3
<1> QED BY <1>4, <1>6, <1>8, <1>9

-----------------------------------------------------------------------------
(* The lists of clients and what the server counts for each.                 *)

ClientsInv ==
    /\ IsInjective(top) /\ IsInjective(waiting) /\ ToSet(top) \cap ToSet(waiting) = {}
    /\ gone \cap (ToSet(top) \cup ToSet(waiting)) = {}
    /\ named \subseteq ToSet(top) /\ \A c \in Client \ ToSet(top) : left[c] = {}
    /\ gone \cup closed \cup disturbed \subseteq Client
    /\ inbuf \in [Client -> Int] /\ left \in [Client -> SUBSET (0 .. INPUT_BUFFER_SIZE + 2)]

HistoryInv ==
    /\ sent \in [Client -> Seq(Piece)] /\ done \in [Client -> Seq(Piece)]
    /\ lines \in 0 .. MaxLines
    /\ subscribed \in BOOLEAN /\ running \in BOOLEAN /\ accepting \in BOOLEAN

(* What may follow a read from p: p stays in the list, or is taken out of    *)
(* it; nothing changes for the others.                                       *)
Served(p) ==
    /\ \/ UNCHANGED <<top, gone, closed>> /\ named' \subseteq named \cup {p}
       \/ /\ top' = RemoveFirst(top, p) /\ gone' = gone \cup {p} /\ left'[p] = {}
          /\ named' = named \ {p} /\ closed' = closed \ {p}
    /\ inbuf' \in [Client -> Int] /\ left' \in [Client -> SUBSET (0 .. INPUT_BUFFER_SIZE + 2)]
    /\ \A c \in Client \ {p} : inbuf'[c] = inbuf[c] /\ left'[c] = left[c]
    /\ named \ {p} = named' \ {p}
    /\ running' \in BOOLEAN

LEMMA RemovedServed ==
    ASSUME ClientsInv, NEW p \in Client, removeclient(p), running' \in BOOLEAN
    PROVE  Served(p)
BY DEF Served, removeclient, ClientsInv

LEMMA AndBoolean == ASSUME NEW x, NEW a, NEW s, x = (a /\ s) PROVE x \in BOOLEAN
BY Zenon

LEMMA HandleServed ==
    ASSUME ClientsInv, HistoryInv, NEW p \in Client, NEW len \in Int, NEW where \in Int,
           len <= INPUT_BUFFER_SIZE, NEW cmd, NEW text, Handle(p, len, where, cmd, text)
    PROVE  Served(p)
<1> DEFINE total == inbuf[p] + len
           size  == INPUT_BUFFER_SIZE - total
           held  == (0 .. len - 1) \cup left[p]
           alive == IF size < 0 THEN {FALSE} ELSE {TRUE} \cup (IF p \in closed THEN {FALSE} ELSE {})
           moved == Moved(held, where + 4, size)
           Places == 0 .. INPUT_BUFFER_SIZE + 2
<1>1. /\ inbuf \in [Client -> Int] /\ total \in Int /\ running \in BOOLEAN
      /\ left \in [Client -> SUBSET Places]
  BY DEF ClientsInv, HistoryInv
<1>2. held \in SUBSET Places /\ moved \in SUBSET Places
  <2>1. moved \subseteq Places
    BY DEF Moved
  <2>2. 0 .. len - 1 \subseteq Places
    BY CalServerAssumption
  <2> QED BY <1>1, <2>1, <2>2
<1>3. alive \in SUBSET BOOLEAN
  BY Zenon
<1>4. CASE where = 0
  <2>1. /\ inbuf' = [inbuf EXCEPT ![p] = total] /\ left' = [left EXCEPT ![p] = held]
        /\ UNCHANGED <<top, named, gone, closed, running>>
    BY <1>4 DEF Handle
  <2> HIDE DEF total, held, Places
  <2>2. inbuf' \in [Client -> Int] /\ left' \in [Client -> SUBSET Places]
    BY <1>1, <1>2, <2>1
  <2>3. \A c \in Client \ {p} : inbuf'[c] = inbuf[c] /\ left'[c] = left[c]
    BY <1>1, <2>1
  <2> QED BY <1>1, <2>1, <2>2, <2>3 DEF Served, Places
<1>5. CASE where # 0 /\ p \notin named
  <2>1. /\ named' = named \cup {p} /\ left' = [left EXCEPT ![p] = moved] /\ UNCHANGED <<top, gone, closed>>
        /\ inbuf' = [inbuf EXCEPT ![p] = total - (where + 2)]
    BY <1>5 DEF Handle
  <2>2. running' \in alive
    BY <1>5, Zenon DEF Handle
  <2>3. running' \in BOOLEAN
    BY <1>3, <2>2, Zenon
  <2> HIDE DEF total, moved, alive, Places
  <2>4. inbuf' \in [Client -> Int] /\ left' \in [Client -> SUBSET Places]
    BY <1>1, <1>2, <2>1
  <2>5. \A c \in Client \ {p} : inbuf'[c] = inbuf[c] /\ left'[c] = left[c]
    BY <1>1, <2>1
  <2> QED BY <1>1, <2>1, <2>3, <2>4, <2>5 DEF Served, Places
<1>6. CASE where # 0 /\ p \in named /\ cmd.op = "quit"
  <2>1. removeclient(p) /\ running' \in BOOLEAN
    BY <1>6 DEF Handle
  <2> QED BY <2>1, RemovedServed
<1>7. CASE where # 0 /\ p \in named /\ cmd.op # "quit"
  <2>1. /\ UNCHANGED <<top, named, gone, closed>> /\ left' = [left EXCEPT ![p] = moved]
        /\ inbuf' = [inbuf EXCEPT ![p] = total - (where + 2)]
    BY <1>7 DEF Handle
  <2>2. \E a \in alive, s \in Survival(cmd, text) : running' = (a /\ s)
    BY <1>7, Zenon DEF Handle
  <2>3. running' \in BOOLEAN
    BY <2>2, AndBoolean, Zenon
  <2> HIDE DEF total, moved, alive, Places
  <2>4. inbuf' \in [Client -> Int] /\ left' \in [Client -> SUBSET Places]
    BY <1>1, <1>2, <2>1
  <2>5. \A c \in Client \ {p} : inbuf'[c] = inbuf[c] /\ left'[c] = left[c]
    BY <1>1, <2>1
  <2> QED BY <1>1, <2>1, <2>3, <2>4, <2>5 DEF Served, Places
<1> QED BY <1>4, <1>5, <1>6, <1>7

(* The bytes of lines read at once are a number.                             *)
LEMMA BytesInt ==
    ASSUME NEW items \in Seq(Piece), NEW n \in Nat, n <= Len(items), NEW e \in Int
    PROVE  /\ Bytes(items, n, e) \in Int
           /\ n = 1 /\ e = 0 => Bytes(items, n, e) = items[1].len
<1> DEFINE len(i) == items[i].len
           Sums(k, g) == /\ g \in [0 .. k -> Int]
                         /\ g[0] = 0 /\ \A i \in 1 .. k : g[i] = g[i - 1] + len(i)
           bytes[i \in 0 .. n] == IF i = 0 THEN 0 ELSE bytes[i - 1] + items[i].len
<1>1. \A i \in 1 .. n : len(i) \in Int
  BY PieceIs, ElementOfSeq
<1> HIDE DEF len
<1> DEFINE Has(k) == \E g : Sums(k, g)
<1>2. Has(0)
  <2>1. Sums(0, [i \in 0 .. 0 |-> 0])
    OBVIOUS
  <2> QED BY <2>1
<1>3. ASSUME NEW k \in 1 .. n, Has(k - 1) PROVE Has(k)
  <2>1. PICK g : Sums(k - 1, g)
    BY <1>3
  <2> DEFINE h == [i \in 0 .. k |-> IF i = k THEN g[k - 1] + len(k) ELSE g[i]]
  <2>2. Sums(k, h)
    <3>1. g[k - 1] \in Int /\ len(k) \in Int
      BY <1>1, <2>1
    <3>2. h \in [0 .. k -> Int]
      BY <2>1, <3>1
    <3>3. h[0] = 0
      BY <2>1
    <3>4. ASSUME NEW i \in 1 .. k PROVE h[i] = h[i - 1] + len(i)
      BY <2>1
    <3> QED BY <3>2, <3>3, <3>4
  <2> QED BY <2>2
<1> HIDE DEF Has
<1>4. Has(n)
  <2> DEFINE I == {k \in 0 .. n : ~Has(k)}
  <2>1. ASSUME I # {} PROVE FALSE
    <3>1. I \in SUBSET Nat
      OBVIOUS
    <3>2. Min(I) \in I /\ \A k \in I : Min(I) <= k
      BY <2>1, <3>1, LeastIndex
    <3>3. Min(I) \in 1 .. n /\ Min(I) - 1 \in 0 .. n /\ ~(Min(I) <= Min(I) - 1)
      BY <1>2, <3>2
    <3>4. Has(Min(I) - 1) /\ ~Has(Min(I))
      BY <3>2, <3>3
    <3> QED BY <1>3, <3>3, <3>4
  <2> QED BY <2>1
<1>5. PICK g : Sums(n, g)
  BY <1>4 DEF Has
<1>6. g = [i \in 0 .. n |-> IF i = 0 THEN 0 ELSE g[i - 1] + items[i].len]
  BY <1>5 DEF len
<1>7. bytes = [i \in 0 .. n |-> IF i = 0 THEN 0 ELSE bytes[i - 1] + items[i].len]
  BY <1>6, Zenon
<1> HIDE DEF bytes
<1>8. bytes[0] = 0 /\ \A i \in 1 .. n : bytes[i] = bytes[i - 1] + len(i)
  BY <1>7 DEF len
<1>9. bytes[n] \in Int
  <2> DEFINE I == {k \in 0 .. n : bytes[k] \notin Int}
  <2>1. ASSUME I # {} PROVE FALSE
    <3>1. I \in SUBSET Nat
      OBVIOUS
    <3>2. Min(I) \in I /\ \A k \in I : Min(I) <= k
      BY <2>1, <3>1, LeastIndex
    <3>3. Min(I) \in 1 .. n /\ Min(I) - 1 \in 0 .. n /\ ~(Min(I) <= Min(I) - 1)
      BY <1>8, <3>2
    <3>4. bytes[Min(I) - 1] \in Int /\ bytes[Min(I)] \notin Int
      BY <3>2, <3>3
    <3> QED BY <1>1, <1>8, <3>3, <3>4
  <2> QED BY <2>1
<1>10. Bytes(items, n, e) = bytes[n] + e
  BY Zenon DEF Bytes, bytes
<1>11. n = 1 /\ e = 0 => Bytes(items, n, e) = len(1)
  BY <1>1, <1>8, <1>10
<1> QED BY <1>9, <1>10, <1>11 DEF len

(* What is noted of a read from p, whatever was read.                        *)
Noted(p) ==
    /\ sent' \in [Client -> Seq(Piece)] /\ done' \in [Client -> Seq(Piece)]
    /\ \A c \in Client \ {p} : sent'[c] = sent[c] /\ done'[c] = done[c]
    /\ disturbed \subseteq disturbed' /\ disturbed' \subseteq disturbed \cup {p}
    /\ subscribed' \in BOOLEAN

LEMMA NoteNoted ==
    ASSUME HistoryInv, NEW p \in Client, NEW cmd, NEW whole, Note(p, cmd, whole),
           whole /\ p \notin disturbed => [Head(wire[p]) EXCEPT !.cmd = cmd] \in Piece
    PROVE  Noted(p) /\ (p \notin disturbed' => whole)
<1> DEFINE Whole == whole /\ p \notin disturbed /\ cmd.op # "quit"
           line == [Head(wire[p]) EXCEPT !.cmd = cmd]
<1>1. sent \in [Client -> Seq(Piece)] /\ done \in [Client -> Seq(Piece)]
  BY DEF HistoryInv
<1>2. subscribed' \in BOOLEAN
  <2>1. subscribed' = (subscribed \/ cmd.op = "subscribe")
    BY DEF Note
  <2> QED BY <2>1, Zenon
<1>3. CASE Whole
  <2>1. /\ done' = IF p \in named THEN [done EXCEPT ![p] = Append(@, line)] ELSE done
        /\ sent' = sent /\ disturbed' = disturbed
    BY <1>3 DEF Note
  <2>2. line \in Piece
    BY <1>3
  <2> HIDE DEF line
  <2>3. Append(done[p], line) \in Seq(Piece)
    BY <1>1, <2>2
  <2> QED BY <1>1, <1>2, <1>3, <2>1, <2>3 DEF Noted
<1>4. CASE ~Whole
  <2>1. /\ disturbed' = disturbed \cup {p}
        /\ sent' = [sent EXCEPT ![p] = <<>>] /\ done' = [done EXCEPT ![p] = <<>>]
    BY <1>4 DEF Note
  <2> QED BY <1>1, <1>2, <2>1 DEF Noted
<1> QED BY <1>3, <1>4

(* A read of one whole line, when it is noted as such: its command is run,   *)
(* no bytes are left over or behind, and the server survives unless it must  *)
(* write to a client that has hung up.                                       *)
OneLineRead(p) ==
    /\ p \notin disturbed /\ wire[p] # <<>> /\ wire'[p] = Tail(wire[p])
    /\ inbuf'[p] = 0 /\ left'[p] = {} /\ named' = named \cup {p}
    /\ UNCHANGED <<top, gone, closed, sent, disturbed>>
    /\ done' = IF p \in named THEN [done EXCEPT ![p] = Append(@, Head(wire[p]))] ELSE done
    /\ p \notin closed /\ ~subscribed' => running'

ReadDoes(p) ==
    /\ Served(p) /\ Noted(p) /\ \A c \in Client \ {p} : wire'[c] = wire[c]
    /\ p \notin disturbed' => OneLineRead(p)

(* Of an empty buffer, a read of one line hears the line, with its newline.  *)
LEMMA OneLineHeard ==
    ASSUME NEW w \in Seq(Piece), w # <<>>, w[1].cmd # Blank, NEW p, NEW len, left[p] = {}
    PROVE  /\ ~IsCut(w, 1, 0)
           /\ Heard(p, len, Said(w, 1, 0), IsCut(w, 1, 0)) = {w[1].cmd}
           /\ Newlines(p, w, 1, 0, len) = {w[1].len - 2}
           /\ Text(w, 1, 0) = w[1].len - 2
<1>1. w[1] \in Piece
  BY ElementOfSeq
<1>2. w[1].len \in Nat /\ w[1].len > 2
  BY <1>1, PieceIs
<1>3. WithWords(w, 1) = {1}
  BY DEF WithWords
<1>4. Min(WithWords(w, 1)) = 1
  <2>1. {1} \in SUBSET Nat /\ {1} # {}
    OBVIOUS
  <2>2. Min({1}) \in {1}
    BY <2>1, LeastIndex, Zenon
  <2> QED BY <1>3, <2>2
<1>5. ~HasFront(w, 1, 0) /\ ~IsCut(w, 1, 0)
  BY DEF HasFront, IsCut
<1>6. Said(w, 1, 0) = {w[1].cmd}
  BY <1>3, <1>4, <1>5, Zenon DEF Said
<1>7. Heard(p, len, Said(w, 1, 0), IsCut(w, 1, 0)) = Said(w, 1, 0)
  BY DEF Heard
<1>8. Newlines(p, w, 1, 0, len) = {w[1].len - 2}
  BY <1>2 DEF Newlines
<1>9. Text(w, 1, 0) = w[1].len - 2
  BY <1>3, <1>4 DEF Text
<1> QED BY <1>5, <1>6, <1>7, <1>8, <1>9

(* memmove leaves none of the bytes of a line that fits half the buffer.     *)
LEMMA NothingLeft ==
    ASSUME NEW len \in Nat, 2 * len <= INPUT_BUFFER_SIZE
    PROVE  Moved((0 .. len - 1) \cup {}, len - 2 + 4, INPUT_BUFFER_SIZE - (0 + len)) = {}
<1>1. INPUT_BUFFER_SIZE \in Nat
  BY CalServerAssumption
<1> QED BY <1>1 DEF Moved

LEMMA OneLineDoes ==
    ASSUME WireInv, ClientsInv, NEW p \in Client, inbuf[p] = 0, left[p] = {},
           NEW line \in Piece, line.cmd # Blank, 2 * line.len <= INPUT_BUFFER_SIZE, line.cmd.op # "quit",
           Handle(p, line.len, line.len - 2, line.cmd, line.len - 2)
    PROVE  /\ UNCHANGED <<top, gone, closed>> /\ named' = named \cup {p}
           /\ inbuf'[p] = 0 /\ left'[p] = {}
           /\ p \notin closed /\ line.cmd.op # "subscribe" => running'
<1> DEFINE n == line.len
           size == INPUT_BUFFER_SIZE - (0 + n)
           held == (0 .. n - 1) \cup {}
           cmd == line.cmd
           alive == IF size < 0 THEN {FALSE} ELSE {TRUE} \cup (IF p \in closed THEN {FALSE} ELSE {})
<1>1. n \in Nat /\ n > 2 /\ n - 2 # 0 /\ 2 * n <= INPUT_BUFFER_SIZE
  BY PieceIs
<1>2. INPUT_BUFFER_SIZE \in Nat /\ ADDED \in Nat /\ 2 * ADDED <= INPUT_BUFFER_SIZE
  BY CalServerAssumption
<1>3. inbuf \in [Client -> Int] /\ left \in [Client -> SUBSET (0 .. INPUT_BUFFER_SIZE + 2)]
  BY DEF ClientsInv
<1>4. Handle(p, n, n - 2, cmd, n - 2)
  OBVIOUS
<1> HIDE DEF n, cmd
<1>5. /\ UNCHANGED <<top, gone, closed>> /\ named' = named \cup {p}
      /\ inbuf' = [inbuf EXCEPT ![p] = 0 + n - (n - 2 + 2)]
      /\ left' = [left EXCEPT ![p] = Moved(held, n - 2 + 4, size)]
  <2>0. cmd.op # "quit"
    BY DEF cmd
  <2>1. CASE p \notin named
    BY <1>1, <1>4, <2>1 DEF Handle
  <2>2. CASE p \in named
    <3>1. /\ UNCHANGED <<top, named, gone, closed>>
          /\ inbuf' = [inbuf EXCEPT ![p] = 0 + n - (n - 2 + 2)]
          /\ left' = [left EXCEPT ![p] = Moved(held, n - 2 + 4, size)]
      BY <1>1, <1>4, <2>0, <2>2 DEF Handle
    <3> QED BY <2>2, <3>1
  <2> QED BY <2>1, <2>2
<1>6. inbuf'[p] = 0
  BY <1>1, <1>3, <1>5
<1>7. left'[p] = {}
  <2>1. Moved(held, n - 2 + 4, size) = {}
    BY <1>1, NothingLeft
  <2> QED BY <1>3, <1>5, <2>1
<1>8. ASSUME p \notin closed, line.cmd.op # "subscribe"
      PROVE  running'
  <2>0. cmd.op # "subscribe" /\ cmd.op # "quit"
    BY <1>8 DEF cmd
  <2>1. alive = {TRUE}
    <3>1. ~(size < 0)
      BY <1>1, <1>2
    <3> HIDE DEF size
    <3> QED BY <1>8, <3>1, Zenon
  <2>2. ~(n - 2 + ADDED > INPUT_BUFFER_SIZE)
    BY <1>1, <1>2
  <2>3. Survival(cmd, n - 2) = {TRUE}
    <3>1. CASE cmd.op = "add_user"
      <4>1. Survival(cmd, n - 2) =
                {TRUE} \cup
                (IF add_user(user_list, cmd.user).rc = 0 /\ n - 2 + ADDED > INPUT_BUFFER_SIZE THEN {FALSE} ELSE {})
        BY <3>1, Zenon DEF Survival
      <4> QED BY <2>2, <4>1, Zenon
    <3>2. CASE cmd.op # "add_user"
      BY <2>0, <3>2, Zenon DEF Survival
    <3> QED BY <3>1, <3>2
  <2> DEFINE alive0 == IF INPUT_BUFFER_SIZE - (inbuf[p] + n) < 0 THEN {FALSE}
                       ELSE {TRUE} \cup (IF p \in closed THEN {FALSE} ELSE {})
  <2>4. alive0 = {TRUE}
    BY <2>1
  <2>5. CASE p \notin named
    <3>1. running' \in alive0
      BY <1>1, <1>4, <2>5, Zenon DEF Handle
    <3> HIDE DEF alive0
    <3> QED BY <2>4, <3>1, Zenon
  <2>6. CASE p \in named
    <3>1. \E a \in alive0, s \in Survival(cmd, n - 2) : running' = (a /\ s)
      BY <1>1, <1>4, <2>0, <2>6, Zenon DEF Handle
    <3> HIDE DEF alive0
    <3> QED BY <2>3, <2>4, <3>1, Zenon
  <2> QED BY <2>5, <2>6
<1> QED BY <1>5, <1>6, <1>7, <1>8

(* A read that is not noted as one of a whole line.                          *)
LEMMA OtherReadDoes ==
    ASSUME WireInv, ClientsInv, HistoryInv, NEW p \in Client, NEW rest, Read(p, rest),
           NEW cmd, Note(p, cmd, FALSE), Served(p)
    PROVE  ReadDoes(p)
<1>1. Noted(p) /\ p \in disturbed'
  BY NoteNoted
<1>2. \A c \in Client \ {p} : wire'[c] = wire[c]
  BY DEF Read, WireInv
<1> QED BY <1>1, <1>2 DEF ReadDoes

LEMMA PlacesInt ==
    ASSUME WireInv, ClientsInv, NEW p \in Client, NEW n \in 0 .. Len(wire[p]), NEW k, NEW len \in Int
    PROVE  Newlines(p, wire[p], n, k, len) \subseteq Int
<1> DEFINE w == wire[p]
<1>1. w \in Seq(Piece) /\ n \in Nat /\ n <= Len(w)
  BY DEF WireInv
<1> HIDE DEF w
<1>2. n >= 1 => w[1].len \in Int
  BY <1>1, ElementOfSeq, PieceIs
<1>3. n >= 2 => w[2].len \in Int
  BY <1>1, ElementOfSeq, PieceIs
<1>4. \A cr : OldNewlines(p, len, cr) \subseteq Int
  BY DEF OldNewlines, ClientsInv
<1> QED BY <1>2, <1>3, <1>4 DEF Newlines, w

LEMMA ReadBytesKept ==
    ASSUME WireInv, ClientsInv, HistoryInv, NEW p \in Client,
           p \notin disturbed => inbuf[p] = 0 /\ left[p] = {},
           NEW n \in 0 .. Len(wire[p]),
           NEW k \in 0 .. (IF n = Len(wire[p]) THEN 0 ELSE wire[p][n + 1].len - 1),
           ReadBytes(p, n, k)
    PROVE  ReadDoes(p)
<1> DEFINE w == wire[p]
           len == Bytes(w, n, k)
           cut == IsCut(w, n, k)
           whole == n = 1 /\ k = 0 /\ w[1].cmd # Blank /\ 2 * len <= INPUT_BUFFER_SIZE
<1>1. len <= INPUT_BUFFER_SIZE
  BY ReadBytesDoes, Zenon
<1>2. PICK rest \in Seq(Piece) : Read(p, rest) /\ (n = 1 /\ k = 0 => rest = Tail(w))
  BY ReadBytesDoes, Zenon
<1>3. PICK cmd \in Heard(p, len, Said(w, n, k), cut) :
          /\ cmd \in Words
          /\ \E where \in Newlines(p, w, n, k, len) : \E text :
                Handle(p, len, where, cmd, text) /\ (~cut => text = Text(w, n, k))
          /\ Note(p, cmd, whole)
  BY ReadBytesDoes, Zenon
<1>4. PICK where \in Newlines(p, w, n, k, len) : \E text :
          Handle(p, len, where, cmd, text) /\ (~cut => text = Text(w, n, k))
  BY <1>3
<1>13. PICK text : Handle(p, len, where, cmd, text) /\ (~cut => text = Text(w, n, k))
  BY <1>4
<1>5. w \in Seq(Piece) /\ n \in Nat /\ n <= Len(w) /\ k \in Int
  BY DEF WireInv
<1>6. len \in Int /\ (n = 1 /\ k = 0 => len = w[1].len)
  <2> HIDE DEF w
  <2> QED BY <1>5, BytesInt
<1>7. where \in Int
  <2> HIDE DEF len
  <2> QED BY <1>4, <1>6, PlacesInt
<1>8. Served(p)
  <2> HIDE DEF len
  <2> QED BY <1>1, <1>6, <1>7, <1>13, HandleServed
<1>9. \A c \in Client \ {p} : wire'[c] = wire[c]
  BY <1>2 DEF Read, WireInv
<1>10. ASSUME whole, p \notin disturbed
       PROVE  /\ w # <<>> /\ Head(w) = w[1] /\ w[1] \in Piece /\ cmd = w[1].cmd /\ len = w[1].len
              /\ where = w[1].len - 2 /\ text = w[1].len - 2
              /\ [Head(w) EXCEPT !.cmd = cmd] = w[1]
  <2> HIDE DEF w, len
  <2>1. n = 1 /\ k = 0 /\ w[1].cmd # Blank /\ left[p] = {}
    BY <1>10
  <2>2. w # <<>> /\ Head(w) = w[1] /\ w[1] \in Piece
    BY <1>5, <2>1, ElementOfSeq
  <2>3. cmd = w[1].cmd
    BY <1>3, <1>5, <2>1, <2>2, OneLineHeard
  <2>4. where = w[1].len - 2 /\ text = w[1].len - 2
    BY <1>4, <1>5, <1>13, <2>1, <2>2, OneLineHeard
  <2>5. [Head(w) EXCEPT !.cmd = cmd] = w[1]
    BY <2>2, <2>3 DEF Piece, Item
  <2> QED BY <1>6, <2>1, <2>2, <2>3, <2>4, <2>5
<1>11. Noted(p) /\ (p \notin disturbed' => whole)
  <2>1. Note(p, cmd, whole)
    BY <1>3
  <2>2. whole /\ p \notin disturbed => [Head(wire[p]) EXCEPT !.cmd = cmd] \in Piece
    BY <1>10
  <2> HIDE DEF whole
  <2> QED BY <2>1, <2>2, NoteNoted
<1>12. ASSUME p \notin disturbed'
       PROVE  OneLineRead(p)
  <2>1. whole
    BY <1>11, <1>12
  <2>2. /\ p \notin disturbed /\ cmd.op # "quit" /\ UNCHANGED <<sent, disturbed>>
        /\ subscribed' = (subscribed \/ cmd.op = "subscribe")
        /\ done' = IF p \in named THEN [done EXCEPT ![p] = Append(@, [Head(wire[p]) EXCEPT !.cmd = cmd])] ELSE done
    <3>1. Note(p, cmd, whole)
      BY <1>3
    <3> HIDE DEF whole
    <3> QED BY <1>12, <2>1, <3>1 DEF Note
  <2> DEFINE line == w[1]
  <2>3. /\ w # <<>> /\ Head(w) = line /\ line \in Piece /\ cmd = line.cmd /\ len = line.len
        /\ where = line.len - 2 /\ text = line.len - 2
        /\ [Head(w) EXCEPT !.cmd = cmd] = line
    BY <1>10, <2>1, <2>2
  <2>4. line.cmd # Blank /\ 2 * line.len <= INPUT_BUFFER_SIZE
    BY <2>1, <2>3
  <2>5. Handle(p, line.len, line.len - 2, line.cmd, line.len - 2)
    BY <1>13, <2>3, Zenon
  <2>6. rest = Tail(w) /\ wire'[p] = Tail(w)
    BY <1>2, <2>1 DEF Read, WireInv
  <2> HIDE DEF line
  <2>7. /\ UNCHANGED <<top, gone, closed>> /\ named' = named \cup {p}
        /\ inbuf'[p] = 0 /\ left'[p] = {}
        /\ p \notin closed /\ line.cmd.op # "subscribe" => running'
    BY <2>2, <2>3, <2>4, <2>5, OneLineDoes
  <2> QED BY <2>2, <2>3, <2>6, <2>7 DEF OneLineRead
<1> QED BY <1>8, <1>9, <1>11, <1>12 DEF ReadDoes

LEMMA WhatsupDoes ==
    ASSUME WireInv, ClientsInv, HistoryInv, NEW p \in Client, whatsup(p),
           p \notin disturbed => inbuf[p] = 0 /\ left[p] = {}
    PROVE  ReadDoes(p)
<1>1. ASSUME NEW n \in 0 .. Len(wire[p]),
             NEW k \in 0 .. (IF n = Len(wire[p]) THEN 0 ELSE wire[p][n + 1].len - 1), ReadBytes(p, n, k)
      PROVE  ReadDoes(p)
  BY <1>1, ReadBytesKept
<1>2. CASE ReadError(p)
  <2>1. PICK cmd : \E where \in {-1} \cup OldNewlines(p, -1, FALSE) :
            Handle(p, -1, where, cmd, INPUT_BUFFER_SIZE) /\ Note(p, cmd, FALSE)
    BY <1>2, Zenon DEF ReadError
  <2>6. PICK where \in {-1} \cup OldNewlines(p, -1, FALSE) :
            Handle(p, -1, where, cmd, INPUT_BUFFER_SIZE) /\ Note(p, cmd, FALSE)
    BY <2>1
  <2>2. where \in Int
    BY <2>6 DEF OldNewlines, ClientsInv
  <2>3. -1 \in Int /\ -1 <= INPUT_BUFFER_SIZE
    BY CalServerAssumption
  <2>4. Served(p)
    BY <2>2, <2>3, <2>6, HandleServed
  <2>5. Read(p, <<>>)
    BY <1>2 DEF ReadError
  <2> QED BY <2>4, <2>5, <2>6, OtherReadDoes
<1>3. CASE ReadEnd(p)
  <2>1. removeclient(p) /\ Note(p, Incorrect, FALSE) /\ running' \in BOOLEAN /\ wire' = wire
    BY <1>3 DEF ReadEnd
  <2>2. Noted(p) /\ p \in disturbed'
    BY <2>1, NoteNoted
  <2> QED BY <2>1, <2>2, RemovedServed DEF ReadDoes
<1> QED BY <1>1, <1>2, <1>3 DEF whatsup

-----------------------------------------------------------------------------
(* What clients sent, what was run for them and what is still to be read.    *)

LinesInv ==
    /\ gone \subseteq disturbed
    /\ \A c \in Client \ disturbed :
          /\ inbuf[c] = 0 /\ left[c] = {}
          /\ sent[c] = (IF c \in named THEN <<Head(sent[c])>> ELSE <<>>) \o done[c] \o wire[c]
          /\ IF c \in named THEN sent[c] # <<>> ELSE done[c] = <<>>

ServerInv == WireInv /\ ClientsInv /\ HistoryInv /\ LinesInv /\ ServerSurvives

LEMMA Joined ==
    ASSUME NEW x \in Seq(Piece), NEW y \in Seq(Piece), NEW z \in Seq(Piece)
    PROVE  x \o (y \o z) = (x \o y) \o z
<1>1. (x \o y) \o z = x \o (y \o z)
  BY ConcatAssociative
<1> QED BY <1>1

LEMMA JoinedSplit ==
    ASSUME NEW x \in Seq(Piece), NEW y \in Seq(Piece), NEW z \in Seq(Piece), NEW w, w = y \o z
    PROVE  x \o w = (x \o y) \o z
BY Joined

(* Running the first line of the wire.                                       *)
LEMMA RunFirst ==
    ASSUME NEW a \in Seq(Piece), NEW b \in Seq(Piece), NEW w \in Seq(Piece), w # <<>>
    PROVE  a \o b \o w = a \o Append(b, Head(w)) \o Tail(w)
<1>1. Head(w) \in Piece /\ Tail(w) \in Seq(Piece) /\ <<Head(w)>> \in Seq(Piece)
  OBVIOUS
<1>2. w = <<Head(w)>> \o Tail(w)
  OBVIOUS
<1>3. Append(b, Head(w)) = b \o <<Head(w)>>
  BY <1>1, AppendIsConcat
<1>4. a \o b \o w = (a \o b) \o <<Head(w)>> \o Tail(w)
  <2>1. a \o b \in Seq(Piece)
    BY ConcatProperties
  <2> QED BY <1>1, <1>2, <2>1, JoinedSplit
<1>5. (a \o b) \o <<Head(w)>> = a \o (b \o <<Head(w)>>)
  BY <1>1, ConcatAssociative
<1> QED BY <1>3, <1>4, <1>5

(* Sending one more.                                                         *)
LEMMA SendLast ==
    ASSUME NEW e \in Piece, NEW a \in Seq(Piece), NEW w \in Seq(Piece)
    PROVE  Append(a \o w, e) = a \o Append(w, e)
<1>1. <<e>> \in Seq(Piece) /\ a \o w \in Seq(Piece)
  BY ConcatProperties
<1>2. Append(a \o w, e) = (a \o w) \o <<e>> /\ Append(w, e) = w \o <<e>>
  BY <1>1, AppendIsConcat
<1> QED BY <1>1, <1>2, ConcatAssociative

LEMMA DoneItems ==
    ASSUME HistoryInv, NEW c \in Client
    PROVE  done[c] \in Seq(Piece) /\ sent[c] \in Seq(Piece)
BY DEF HistoryInv

(* A read keeps the account of every client.                                 *)
LEMMA ReadKeepsLines ==
    ASSUME WireInv, ClientsInv, HistoryInv, LinesInv, NEW p \in Client, ReadDoes(p)
    PROVE  LinesInv'
<1>1. gone' \subseteq disturbed'
  BY DEF ReadDoes, Served, Noted, OneLineRead, LinesInv
<1>2. ASSUME NEW c \in Client \ {p}, c \notin disturbed'
      PROVE  /\ inbuf'[c] = 0 /\ left'[c] = {}
             /\ sent'[c] = (IF c \in named' THEN <<Head(sent'[c])>> ELSE <<>>) \o done'[c] \o wire'[c]
             /\ IF c \in named' THEN sent'[c] # <<>> ELSE done'[c] = <<>>
  <2>1. /\ c \notin disturbed /\ (c \in named' <=> c \in named)
        /\ inbuf'[c] = inbuf[c] /\ left'[c] = left[c] /\ sent'[c] = sent[c] /\ done'[c] = done[c] /\ wire'[c] = wire[c]
    BY <1>2 DEF ReadDoes, Served, Noted
  <2> QED BY <2>1 DEF LinesInv
<1>3. ASSUME p \notin disturbed'
      PROVE  /\ inbuf'[p] = 0 /\ left'[p] = {}
             /\ sent'[p] = (IF p \in named' THEN <<Head(sent'[p])>> ELSE <<>>) \o done'[p] \o wire'[p]
             /\ IF p \in named' THEN sent'[p] # <<>> ELSE done'[p] = <<>>
  <2>1. OneLineRead(p)
    BY <1>3 DEF ReadDoes
  <2>2. /\ p \notin disturbed /\ wire[p] # <<>> /\ wire'[p] = Tail(wire[p])
        /\ inbuf'[p] = 0 /\ left'[p] = {}
        /\ p \in named' /\ sent'[p] = sent[p]
        /\ done' = IF p \in named THEN [done EXCEPT ![p] = Append(@, Head(wire[p]))] ELSE done
    BY <2>1 DEF OneLineRead
  <2>3. wire[p] \in Seq(Piece) /\ done[p] \in Seq(Piece) /\ sent[p] \in Seq(Piece)
    BY DoneItems DEF WireInv
  <2>4. inbuf'[p] = 0 /\ left'[p] = {}
    BY <2>2
  <2>5. CASE p \in named
    <3>1. sent[p] = <<Head(sent[p])>> \o done[p] \o wire[p] /\ sent[p] # <<>>
      BY <2>2, <2>5 DEF LinesInv
    <3>2. done'[p] = Append(done[p], Head(wire[p]))
      BY <2>2, <2>5 DEF HistoryInv
    <3> DEFINE name == <<Head(sent[p])>>
    <3>3. name \in Seq(Piece)
      BY <2>3, <3>1
    <3> HIDE DEF name
    <3>4. name \o done[p] \o wire[p] = name \o Append(done[p], Head(wire[p])) \o Tail(wire[p])
      <4>1. wire[p] \in Seq(Piece) /\ done[p] \in Seq(Piece) /\ wire[p] # <<>>
        BY <2>2, <2>3
      <4> QED BY <3>3, <4>1, RunFirst, Zenon
    <3>5. sent[p] = name \o done'[p] \o wire'[p]
      BY <2>2, <3>1, <3>2, <3>4 DEF name
    <3> QED BY <2>2, <2>4, <3>1, <3>5 DEF name
  <2>6. CASE p \notin named
    <3>1. done[p] = <<>> /\ sent[p] = <<>> \o done[p] \o wire[p] /\ done'[p] = done[p]
      BY <2>2, <2>6 DEF LinesInv
    <3>2. sent[p] = wire[p]
      BY <2>3, <3>1
    <3>3. <<Head(wire[p])>> \in Seq(Piece) /\ Tail(wire[p]) \in Seq(Piece)
      BY <2>2, <2>3
    <3>4. <<Head(wire[p])>> \o done'[p] = <<Head(wire[p])>>
      BY <3>1, <3>3, ConcatEmptySeq
    <3>5. wire[p] = <<Head(wire[p])>> \o Tail(wire[p])
      BY <2>2, <2>3
    <3> QED BY <2>2, <2>4, <3>2, <3>4, <3>5
  <2> QED BY <2>5, <2>6
<1> QED BY <1>1, <1>2, <1>3 DEF LinesInv

(* ... the lists of clients, ...                                             *)
LEMMA ReadKeepsClients ==
    ASSUME WireInv, ClientsInv, NEW p \in Client, p \in ToSet(top), ReadDoes(p), UNCHANGED waiting
    PROVE  ClientsInv'
<1>1. CASE UNCHANGED <<top, gone, closed>> /\ named' \subseteq named \cup {p}
  <2>1. /\ inbuf' \in [Client -> Int] /\ left' \in [Client -> SUBSET (0 .. INPUT_BUFFER_SIZE + 2)]
        /\ \A c \in Client \ {p} : left'[c] = left[c]
        /\ disturbed' \subseteq disturbed \cup {p}
    BY DEF ReadDoes, Served, Noted
  <2> QED BY <1>1, <2>1 DEF ClientsInv
<1>2. CASE /\ top' = RemoveFirst(top, p) /\ gone' = gone \cup {p}
           /\ left'[p] = {} /\ named' = named \ {p} /\ closed' = closed \ {p}
  <2>1. /\ inbuf' \in [Client -> Int] /\ left' \in [Client -> SUBSET (0 .. INPUT_BUFFER_SIZE + 2)]
        /\ \A c \in Client \ {p} : left'[c] = left[c]
        /\ disturbed' \subseteq disturbed \cup {p}
    BY DEF ReadDoes, Served, Noted
  <2>2. ToSet(top') = ToSet(top) \ {p} /\ IsInjective(top')
    BY <1>2, Removed DEF WireInv, ClientsInv
  <2> QED BY <1>2, <2>1, <2>2 DEF ClientsInv
<1> QED BY <1>1, <1>2 DEF ReadDoes, Served

(* ... and the server alive, unless there is a reason.                       *)
LEMMA ReadSurvives ==
    ASSUME LinesInv, running, NEW p \in Client, ReadDoes(p)
    PROVE  ServerSurvives'
<1> SUFFICES ASSUME closed' \cup gone' \cup disturbed' = {}, ~subscribed'
             PROVE  running'
  BY DEF ServerSurvives
<1>1. OneLineRead(p)
  BY DEF ReadDoes
<1>2. p \notin closed
  BY <1>1 DEF OneLineRead
<1> QED BY <1>1, <1>2 DEF OneLineRead

LEMMA ServerInvInit == ASSUME Init PROVE ServerInv
<1>1. /\ top = <<>> /\ waiting = <<>> /\ gone = {} /\ named = {} /\ closed = {}
      /\ disturbed = {} /\ lines = 0 /\ subscribed = FALSE /\ running = TRUE /\ accepting = FALSE
      /\ inbuf = [c \in Client |-> 0] /\ left = [c \in Client |-> {}] /\ wire = [c \in Client |-> <<>>]
      /\ sent = [c \in Client |-> <<>>] /\ done = [c \in Client |-> <<>>]
  BY DEF Init
<1>2. WireInv
  BY <1>1 DEF WireInv
<1>3. ClientsInv
  BY <1>1 DEF ClientsInv, ToSet, IsInjective
<1>4. HistoryInv
  <2>1. sent \in [Client -> Seq(Piece)] /\ done \in [Client -> Seq(Piece)]
    BY <1>1
  <2>2. lines \in 0 .. MaxLines
    BY <1>1, CalServerAssumption
  <2>3. subscribed \in BOOLEAN /\ running \in BOOLEAN /\ accepting \in BOOLEAN
    BY <1>1, Zenon
  <2> QED BY <2>1, <2>2, <2>3 DEF HistoryInv
<1>5. LinesInv
  <2>1. <<>> \o <<>> \o <<>> = <<>>
    OBVIOUS
  <2> QED BY <1>1, <2>1 DEF LinesInv
<1>6. ServerSurvives
  BY <1>1 DEF ServerSurvives
<1> QED BY <1>2, <1>3, <1>4, <1>5, <1>6 DEF ServerInv

LEMMA ConnectKeeps ==
    ASSUME ServerInv, NEW c \in Client, Connect(c)
    PROVE  (ClientsInv /\ HistoryInv /\ LinesInv /\ ServerSurvives)'
<1>1. /\ c \notin ToSet(top) /\ c \notin ToSet(waiting) /\ c \notin gone
      /\ waiting' = Append(waiting, c)
      /\ UNCHANGED <<top, named, inbuf, left, wire, closed, accepting, gone, running, lines,
                     sent, done, disturbed, subscribed>>
  BY DEF Connect, Connected, clients, history
<1>2. ToSet(waiting') = ToSet(waiting) \cup {c} /\ IsInjective(waiting')
  BY <1>1, Appended DEF ServerInv, WireInv, ClientsInv
<1>3. ClientsInv'
  BY <1>1, <1>2 DEF ServerInv, ClientsInv
<1>4. HistoryInv' /\ LinesInv' /\ ServerSurvives'
  BY <1>1 DEF ServerInv, HistoryInv, LinesInv, ServerSurvives
<1> QED BY <1>3, <1>4

LEMMA HangUpKeeps ==
    ASSUME ServerInv, NEW c \in Client, HangUp(c)
    PROVE  (ClientsInv /\ HistoryInv /\ LinesInv /\ ServerSurvives)'
<1>1. /\ running /\ closed' = closed \cup {c}
      /\ UNCHANGED <<top, named, inbuf, left, wire, waiting, accepting, gone, running, lines,
                     sent, done, disturbed, subscribed>>
  BY DEF HangUp, clients, history
<1>2. ClientsInv'
  BY <1>1 DEF ServerInv, ClientsInv
<1>3. HistoryInv' /\ LinesInv' /\ ServerSurvives'
  BY <1>1 DEF ServerInv, HistoryInv, LinesInv, ServerSurvives
<1> QED BY <1>2, <1>3

LEMMA SendKeeps ==
    ASSUME ServerInv, NEW c \in Client, NEW line \in Line, Send(c, line)
    PROVE  (ClientsInv /\ HistoryInv /\ LinesInv /\ ServerSurvives)'
<1>1. /\ wire' = [wire EXCEPT ![c] = Append(@, line)]
      /\ sent' = IF c \in disturbed THEN sent ELSE [sent EXCEPT ![c] = Append(@, line)]
      /\ running /\ lines < MaxLines /\ lines' = lines + 1
      /\ UNCHANGED <<top, named, inbuf, left, waiting, closed, accepting, gone, running, done,
                     disturbed, subscribed>>
  BY DEF Send, clients
<1>2. line \in Piece
  BY LinePiece
<1>3. /\ wire[c] \in Seq(Piece) /\ done[c] \in Seq(Piece) /\ sent[c] \in Seq(Piece)
      /\ wire \in [Client -> Seq(Piece)] /\ sent \in [Client -> Seq(Piece)]
  BY DoneItems DEF ServerInv, WireInv, HistoryInv
<1>4. ClientsInv'
  BY <1>1 DEF ServerInv, ClientsInv
<1>5. HistoryInv'
  <2>1. Append(sent[c], line) \in Seq(Piece)
    BY <1>2, <1>3
  <2>2. sent' \in [Client -> Seq(Piece)]
    BY <1>1, <1>3, <2>1
  <2>3. lines' \in 0 .. MaxLines
    BY <1>1, CalServerAssumption DEF ServerInv, HistoryInv
  <2> QED BY <1>1, <2>2, <2>3 DEF ServerInv, HistoryInv
<1>6. LinesInv'
  <2>1. ASSUME NEW d \in Client, d \notin disturbed, d # c
        PROVE  wire'[d] = wire[d] /\ sent'[d] = sent[d]
    BY <1>1, <1>3, <2>1
  <2>2. ASSUME c \notin disturbed
        PROVE  /\ sent'[c] = (IF c \in named THEN <<Head(sent'[c])>> ELSE <<>>) \o done[c] \o wire'[c]
               /\ IF c \in named THEN sent'[c] # <<>> ELSE done[c] = <<>>
    <3>1. sent'[c] = Append(sent[c], line) /\ wire'[c] = Append(wire[c], line)
      BY <1>1, <1>3, <2>2
    <3> DEFINE name == IF c \in named THEN <<Head(sent[c])>> ELSE <<>>
               front == name \o done[c]
    <3>2. sent[c] = front \o wire[c] /\ IF c \in named THEN sent[c] # <<>> ELSE done[c] = <<>>
      BY <2>2 DEF ServerInv, LinesInv
    <3>3. name \in Seq(Piece)
      BY <1>3, <3>2
    <3>4. name = IF c \in named THEN <<Head(sent'[c])>> ELSE <<>>
      BY <1>2, <1>3, <3>1, <3>2, HeadTailAppend
    <3> HIDE DEF name
    <3>5. front \in Seq(Piece)
      BY <1>3, <3>3, ConcatProperties
    <3> HIDE DEF front
    <3>6. Append(front \o wire[c], line) = front \o Append(wire[c], line)
      <4>1. wire[c] \in Seq(Piece)
        BY <1>3
      <4> QED BY <1>2, <3>5, <4>1, SendLast, Zenon
    <3>7. sent'[c] = front \o wire'[c]
      BY <3>1, <3>2, <3>6
    <3>8. sent'[c] # <<>>
      BY <1>2, <1>3, <3>1, AppendProperties
    <3> QED BY <3>2, <3>4, <3>7, <3>8 DEF front
  <2>3. gone' \subseteq disturbed' /\ \A d \in Client \ disturbed' : inbuf'[d] = 0 /\ left'[d] = {}
    BY <1>1 DEF ServerInv, LinesInv
  <2>4. ASSUME NEW d \in Client \ disturbed'
        PROVE  /\ sent'[d] = (IF d \in named' THEN <<Head(sent'[d])>> ELSE <<>>) \o done'[d] \o wire'[d]
               /\ IF d \in named' THEN sent'[d] # <<>> ELSE done'[d] = <<>>
    <3>0. named' = named /\ done' = done
      BY <1>1
    <3>1. d \notin disturbed
      BY <1>1
    <3>2. CASE d = c
      BY <2>2, <3>0, <3>1, <3>2
    <3>3. CASE d # c
      <4>1. wire'[d] = wire[d] /\ sent'[d] = sent[d]
        BY <2>1, <3>1, <3>3
      <4> QED BY <3>0, <3>1, <4>1 DEF ServerInv, LinesInv
    <3> QED BY <3>2, <3>3
  <2> QED BY <2>3, <2>4, Zenon DEF LinesInv
<1>7. ServerSurvives'
  BY <1>1 DEF ServerInv, ServerSurvives
<1> QED BY <1>4, <1>5, <1>6, <1>7

LEMMA ServeKeeps ==
    ASSUME ServerInv, Serve
    PROVE  (ClientsInv /\ HistoryInv /\ LinesInv /\ ServerSurvives)'
<1>1. PICK i \in Ready : whatsup(top[i])
  BY DEF Serve
<1>2. top[i] \in Client /\ top[i] \in ToSet(top)
  BY <1>1 DEF Ready, ServerInv, WireInv, ToSet
<1>3. running /\ UNCHANGED <<waiting, lines>> /\ accepting' = (waiting # <<>>)
  BY DEF Serve
<1>4. ReadDoes(top[i])
  BY <1>1, <1>2, WhatsupDoes DEF ServerInv, LinesInv
<1>5. ClientsInv' /\ LinesInv' /\ ServerSurvives'
  BY <1>2, <1>3, <1>4, ReadKeepsClients, ReadKeepsLines, ReadSurvives DEF ServerInv
<1>6. accepting' \in BOOLEAN
  BY <1>3, Zenon
<1>7. HistoryInv'
  BY <1>3, <1>4, <1>6 DEF ServerInv, HistoryInv, ReadDoes, Served, Noted
<1> QED BY <1>5, <1>7

LEMMA NewConnectionKeeps ==
    ASSUME ServerInv, newconnection
    PROVE  (ClientsInv /\ HistoryInv /\ LinesInv /\ ServerSurvives)'
<1> DEFINE c == Head(waiting)
<1>1. /\ running /\ waiting # <<>> /\ waiting' = Tail(waiting) /\ top' = <<c>> \o top
      /\ accepting' = FALSE
      /\ UNCHANGED <<named, inbuf, wire, closed, gone, running, lines, done, subscribed>>
  BY DEF newconnection, addclient, history
<1>0. PICK old \in {{}, CLEARED .. INPUT_BUFFER_SIZE + 2} :
          /\ left' = [left EXCEPT ![c] = old]
          /\ IF old = {} THEN UNCHANGED <<sent, disturbed>>
             ELSE /\ disturbed' = disturbed \cup {c} /\ sent' = [sent EXCEPT ![c] = <<>>]
  BY DEF newconnection, addclient, history
<1>2. /\ c \in ToSet(waiting) /\ c \in Client
      /\ ToSet(waiting') = ToSet(waiting) \ {c} /\ IsInjective(waiting')
  BY <1>1, Behead, Elements DEF ServerInv, WireInv, ClientsInv
<1> HIDE DEF c
<1>3. ToSet(top') = {c} \cup ToSet(top) /\ IsInjective(top')
  BY <1>1, <1>2, Prepended DEF ServerInv, WireInv, ClientsInv
<1>7. old \in SUBSET (0 .. INPUT_BUFFER_SIZE + 2)
  BY CalServerAssumption
<1>8. /\ left' \in [Client -> SUBSET (0 .. INPUT_BUFFER_SIZE + 2)] /\ sent' \in [Client -> Seq(Piece)]
      /\ disturbed' \subseteq Client /\ disturbed \subseteq disturbed'
      /\ \A d \in Client \ {c} : left'[d] = left[d] /\ sent'[d] = sent[d]
      /\ c \notin disturbed' => left'[c] = {} /\ sent'[c] = sent[c]
  <2>1. /\ left \in [Client -> SUBSET (0 .. INPUT_BUFFER_SIZE + 2)] /\ sent \in [Client -> Seq(Piece)]
        /\ disturbed \subseteq Client
    BY DEF ServerInv, ClientsInv, HistoryInv
  <2>2. left' \in [Client -> SUBSET (0 .. INPUT_BUFFER_SIZE + 2)] /\ \A d \in Client \ {c} : left'[d] = left[d]
    BY <1>0, <1>7, <2>1
  <2>3. CASE old = {}
    <3>1. left'[c] = {} /\ sent' = sent /\ disturbed' = disturbed
      BY <1>0, <1>2, <2>1, <2>3
    <3> QED BY <2>1, <2>2, <3>1
  <2>4. CASE old # {}
    <3>1. disturbed' = disturbed \cup {c} /\ sent' = [sent EXCEPT ![c] = <<>>]
      BY <1>0, <2>4
    <3>0. <<>> \in Seq(Piece)
      OBVIOUS
    <3>2. sent' \in [Client -> Seq(Piece)] /\ \A d \in Client \ {c} : sent'[d] = sent[d]
      <4> HIDE DEF Piece
      <4> DEFINE none == <<>>
                 Lines == Seq(Piece)
      <4>1. none \in Lines /\ sent \in [Client -> Lines] /\ sent' = [sent EXCEPT ![c] = none]
        BY <2>1, <3>0, <3>1
      <4> HIDE DEF none, Lines
      <4>2. sent' \in [Client -> Lines] /\ \A d \in Client \ {c} : sent'[d] = sent[d]
        BY <4>1
      <4> QED BY <4>2 DEF Lines
    <3> QED BY <1>2, <2>1, <2>2, <3>1, <3>2
  <2> QED BY <2>3, <2>4
<1>4. ClientsInv'
  <2>1. \A d \in Client \ ToSet(top') : left'[d] = {}
    BY <1>3, <1>8 DEF ServerInv, ClientsInv
  <2>2. IsInjective(top') /\ IsInjective(waiting') /\ ToSet(top') \cap ToSet(waiting') = {}
    BY <1>2, <1>3 DEF ServerInv, ClientsInv
  <2>3. gone' \cap (ToSet(top') \cup ToSet(waiting')) = {} /\ named' \subseteq ToSet(top')
    BY <1>1, <1>2, <1>3 DEF ServerInv, ClientsInv
  <2>4. gone' \cup closed' \cup disturbed' \subseteq Client /\ inbuf' \in [Client -> Int]
    BY <1>1, <1>8 DEF ServerInv, ClientsInv
  <2>5. left' \in [Client -> SUBSET (0 .. INPUT_BUFFER_SIZE + 2)]
    BY <1>8
  <2> QED BY <2>1, <2>2, <2>3, <2>4, <2>5, Zenon DEF ClientsInv
<1>5. accepting' \in BOOLEAN
  BY <1>1, Zenon
<1>6. HistoryInv' /\ ServerSurvives'
  BY <1>1, <1>5, <1>8 DEF ServerInv, HistoryInv, ServerSurvives
<1>9. LinesInv'
  <2>1. gone' \subseteq disturbed'
    BY <1>1, <1>8 DEF ServerInv, LinesInv
  <2>2. ASSUME NEW d \in Client, d \notin disturbed'
        PROVE  d \notin disturbed /\ left'[d] = {} /\ sent'[d] = sent[d]
    BY <1>8, <2>2 DEF ServerInv, LinesInv
  <2> QED BY <1>1, <2>1, <2>2 DEF ServerInv, LinesInv
<1> QED BY <1>4, <1>6, <1>9

LEMMA ServerInvNext == ASSUME ServerInv, [Next]_vars PROVE ServerInv'
<1>1. WireInv'
  BY StepRefines DEF ServerInv
<1>2. CASE UNCHANGED vars
  BY <1>2 DEF vars, clients, net, history, ServerInv, WireInv, ClientsInv, HistoryInv, LinesInv, ServerSurvives
<1>3. CASE Next
  BY <1>1, <1>3, ConnectKeeps, HangUpKeeps, SendKeeps, ServeKeeps, NewConnectionKeeps DEF Next, ServerInv
<1> QED BY <1>2, <1>3

LEMMA ServerInvAlways == Spec => []ServerInv
BY ServerInvInit, ServerInvNext, PTL DEF Spec

(* The variables have their types; clients that wait, that are connected and *)
(* that were removed are different ones, and only a connected client has a   *)
(* name or old bytes (addclient and removeclient in calserver.c).            *)
THEOREM ServerTypes == Spec => []CalTypeOK
<1>1. ASSUME ServerInv PROVE CalTypeOK
  <2>1. ToSet(top) \subseteq Client /\ ToSet(waiting) \subseteq Client
    BY <1>1, Elements DEF ServerInv, WireInv
  <2>2. \A c \in Client : ToSet(done[c]) \cup ToSet(wire[c]) \subseteq Item
    <3>1. Piece \subseteq Item
      BY PieceIs
    <3> QED BY <1>1, <3>1, Elements DEF ServerInv, WireInv, HistoryInv
  <2> QED BY <1>1, <2>1, <2>2 DEF ServerInv, ClientsInv, HistoryInv, CalTypeOK
<1> QED BY <1>1, ServerInvAlways, PTL

(* As long as each read of a client's socket returned one whole line that    *)
(* fits half the buffer, the server has run the client's lines, each once    *)
(* and in order, and no bytes are in the buffer, counted or not (whatsup).   *)
THEOREM EachLineRunsOnce == Spec => []OneLineOneCommand
<1>1. ASSUME ServerInv PROVE OneLineOneCommand
  <2>1. ToSet(top) \subseteq Client
    BY <1>1, Elements DEF ServerInv, WireInv
  <2> QED BY <1>1, <2>1 DEF ServerInv, LinesInv, OneLineOneCommand
<1> QED BY <1>1, ServerInvAlways, PTL

(* The server dies only after a client hung up or quit, a user was           *)
(* subscribed, a client got a buffer of used memory, or a read was not one   *)
(* whole line that fits half the buffer (whatsup, process_args, addclient).  *)
THEOREM ServerOutlivesLines == Spec => []ServerSurvives
<1>1. ServerInv => ServerSurvives
  BY DEF ServerInv
<1> QED BY <1>1, ServerInvAlways, PTL
=============================================================================
