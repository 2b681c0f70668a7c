----------------------------- MODULE CalServer ------------------------------
(***************************************************************************)
(* The calendar server (calserver.c): one process that selects over the    *)
(* listening socket and its clients, reads what one client sent and runs   *)
(* it as a command on the lists.                                           *)
(*                                                                         *)
(* A client sends lines; TCP may deliver the front of a line alone, or     *)
(* several lines in one read.  whatsup reads to the start of the client's  *)
(* buffer and runs whatever arrived, with a newline or without: the test   *)
(* of where is true for -1.                                                *)
(*                                                                         *)
(* Lines have their lengths, and of a buffer it is known which bytes may   *)
(* still hold what was there before: they are read as further words of a   *)
(* later command.  The tail of a cut line is no command of its own.  The   *)
(* user name is never filled in and equals no name.  Using freed memory, a *)
(* string that was never set, or a socket whose peer is gone either ends   *)
(* the server or does nothing, and so does a reply that is too long for    *)
(* its buffer.  Replies are left out; numClients is only counted.          *)
(***************************************************************************)
EXTENDS Lists

CONSTANTS
    Client,             \* connections, numbered as they are made
    CalName, UserName, Time,
    CutTo,              \* pairs <<n, m>> of names: m is n without its end
    Line,               \* BOUND: lines that clients send, with their lengths
    INPUT_BUFFER_SIZE,  \* bytes of a buffer, 256 in the code
    CLEARED,            \* bytes of it that are cleared, the 8 of a pointer
    ADDED, SUBSCRIBED,  \* what replies are longer than the words, 6 and 29
    MaxLines            \* BOUND: lines sent by all clients

Command ==
    [op : {"add_calendar"}, cal : CalName] \cup [op : {"add_user"}, user : UserName]
    \cup [op : {"subscribe"}, user : UserName, cal : CalName]
    \cup [op : {"add_event"}, cal : CalName, time : Time]
    \cup [op : {"list", "quit"}]

Incorrect == [op |-> "incorrect"]   \* words that are no command
Blank     == [op |-> "blank"]       \* no words

(* A line or the tail of one: its words, and its bytes with the \r\n.        *)
Item == [cmd : Command \cup {Incorrect, Blank}, len : Nat]

ASSUME CalServerAssumption ==
    /\ IsFiniteSet(Client) /\ Client \subseteq Nat
    /\ CutTo \subseteq (CalName \cup UserName) \X (CalName \cup UserName)
    /\ Time \subseteq Int /\ MaxLines \in Nat /\ Line \subseteq Item
    /\ \A line \in Line : IF line.cmd = Blank THEN line.len = 2 ELSE line.len > 2
    /\ INPUT_BUFFER_SIZE \in Nat /\ CLEARED \in Nat
    /\ ADDED \in Nat /\ 2 * ADDED <= INPUT_BUFFER_SIZE /\ SUBSCRIBED \in Nat

VARIABLES
    calendar_list, user_list,
    top,        \* connected clients, newest first
    named,      \* clients whose userName is not NULL
    inbuf,      \* inbuf[c]: the count of bytes in c's buffer, as the server has it
    left,       \* left[c]: places in c's buffer where old bytes may be
    wire,       \* wire[c]: lines and tails of lines not read yet
    waiting,    \* connections not accepted yet, oldest first
    accepting,  \* the listening socket was in fdlist, and its turn has come
    closed,     \* clients that closed their end
    gone,       \* clients the server has removed
    running,    \* FALSE once the server has died
    lines,      \* lines sent so far
    sent, done, \* history: lines sent by c and commands run for c, until c is
    disturbed,  \* history: a client with a buffer of used memory, or of which a
                \* read was not one whole line that fits half the buffer
    subscribed  \* history: a subscription was asked for

lists   == <<calendar_list, user_list>>
clients == <<top, named, inbuf, left>>
net     == <<wire, waiting, closed>>
history == <<sent, done, disturbed, subscribed>>
vars    == <<lists, clients, net, accepting, gone, running, lines, history>>

Init ==
    /\ calendar_list = <<>> /\ user_list = <<>>
    /\ top = <<>> /\ named = {}
    /\ inbuf = [c \in Client |-> 0] /\ left = [c \in Client |-> {}]
    /\ wire = [c \in Client |-> <<>>] /\ waiting = <<>> /\ closed = {}
    /\ accepting = FALSE /\ gone = {} /\ running = TRUE
    /\ sent = [c \in Client |-> <<>>] /\ done = [c \in Client |-> <<>>]
    /\ lines = 0 /\ disturbed = {} /\ subscribed = FALSE

-----------------------------------------------------------------------------
(* The clients.                                                              *)

Connected(c) == c \in ToSet(top) \cup ToSet(waiting)

Connect(c) ==
    /\ running /\ ~Connected(c) /\ c \notin gone
    /\ \A d \in Client : d < c => Connected(d) \/ d \in gone
    /\ waiting' = Append(waiting, c)
    /\ UNCHANGED <<lists, clients, wire, closed, accepting, gone, running, lines, history>>

(* The first line is the user's name, whatever it says.                      *)
Send(c, line) ==
    /\ running /\ Connected(c) /\ c \notin closed
    /\ lines < MaxLines /\ lines' = lines + 1
    /\ (c \notin named /\ wire[c] = <<>>) => line.cmd \in {Incorrect, Blank}
    /\ wire' = [wire EXCEPT ![c] = Append(@, line)]
    /\ sent' = IF c \in disturbed THEN sent ELSE [sent EXCEPT ![c] = Append(@, line)]
    /\ UNCHANGED <<lists, clients, waiting, closed, accepting, gone, running, done, disturbed, subscribed>>

HangUp(c) ==
    /\ running /\ Connected(c) /\ c \notin closed
    /\ closed' = closed \cup {c}
    /\ UNCHANGED <<lists, clients, wire, waiting, accepting, gone, running, lines, history>>

-----------------------------------------------------------------------------
(* Running a command.                                                        *)

(* What may be left of a command when its last word is cut.                  *)
Cut(cmd) ==
    {Incorrect} \cup
    CASE cmd.op \in {"add_calendar", "subscribe"} ->
            {[cmd EXCEPT !.cal = m] : m \in {n \in CalName : <<cmd.cal, n>> \in CutTo}}
      [] cmd.op = "add_user"  -> {[cmd EXCEPT !.user = m] : m \in {n \in UserName : <<cmd.user, n>> \in CutTo}}
      [] cmd.op = "add_event" -> {[cmd EXCEPT !.time = t] : t \in Time}
      [] OTHER                -> {}

(* ... or when words follow it: only add_event takes them, as part of the    *)
(* time.                                                                     *)
Extended(cmd) ==
    {Incorrect} \cup (IF cmd.op = "add_event" THEN {[cmd EXCEPT !.time = t] : t \in Time} ELSE {})

(* broadcastToName compares the name of every client with the user's.        *)
AllNamed == ToSet(top) \subseteq named

(* May the server live on, must it?  A subscription that succeeds takes the  *)
(* length of a string that was never set; and message2, as long as the       *)
(* buffer, gets a name that was in text bytes of words.                      *)
Survival(cmd, text) ==
    CASE cmd.op = "subscribe" ->
            {AllNamed} \cup
            (IF \/ subscribe(user_list, calendar_list, cmd.user, cmd.cal).rc = 0
                \/ text + SUBSCRIBED > INPUT_BUFFER_SIZE THEN {FALSE} ELSE {})
      [] cmd.op = "add_user" ->
            {TRUE} \cup
            (IF add_user(user_list, cmd.user).rc = 0 /\ text + ADDED > INPUT_BUFFER_SIZE THEN {FALSE} ELSE {})
      [] OTHER -> {TRUE}

\* Mutant: an event of an unknown calendar makes the calendar.
process_args_making(cmd) ==
    CASE cmd.op = "add_calendar" ->
            calendar_list' = add_calendar(calendar_list, cmd.cal).cals /\ UNCHANGED user_list
      [] cmd.op = "add_event" ->
            /\ calendar_list' = add_event(add_calendar(calendar_list, cmd.cal).cals, cmd.cal, cmd.time).cals
            /\ UNCHANGED user_list
      [] cmd.op = "add_user" ->
            user_list' = add_user(user_list, cmd.user).users /\ UNCHANGED calendar_list
      [] cmd.op = "subscribe" ->
            user_list' = subscribe(user_list, calendar_list, cmd.user, cmd.cal).users /\ UNCHANGED calendar_list
      [] OTHER -> UNCHANGED lists

process_args(cmd) ==
    CASE cmd.op = "add_calendar" ->
            calendar_list' = add_calendar(calendar_list, cmd.cal).cals /\ UNCHANGED user_list
      [] cmd.op = "add_event" ->
            calendar_list' = add_event(calendar_list, cmd.cal, cmd.time).cals /\ UNCHANGED user_list
      [] cmd.op = "add_user" ->
            user_list' = add_user(user_list, cmd.user).users /\ UNCHANGED calendar_list
      [] cmd.op = "subscribe" ->
            user_list' = subscribe(user_list, calendar_list, cmd.user, cmd.cal).users /\ UNCHANGED calendar_list
      [] OTHER -> UNCHANGED lists

\* Mutant: the client stays in the list.
removeclient_kept(c) ==
    /\ named' = named \ {c} /\ left' = [left EXCEPT ![c] = {}]
    /\ gone' = gone \cup {c} /\ closed' = closed \ {c}
    /\ inbuf' = [inbuf EXCEPT ![c] = 0] /\ UNCHANGED top

removeclient(c) ==
    /\ top' = RemoveFirst(top, c) /\ named' = named \ {c} /\ left' = [left EXCEPT ![c] = {}]
    /\ gone' = gone \cup {c} /\ closed' = closed \ {c}
    /\ inbuf' = [inbuf EXCEPT ![c] = 0]

-----------------------------------------------------------------------------
(* The server.                                                               *)

\* Mutant: only the newest client is looked at.
ReadyNewest == {i \in DOMAIN top : i = 1 /\ (wire[top[i]] # <<>> \/ top[i] \in closed)}

(* Places in the list of clients whose socket has something to read.         *)
Ready == {i \in DOMAIN top : wire[top[i]] # <<>> \/ top[i] \in closed}

(* Where old bytes may be in c's buffer after memmove took size bytes from   *)
(* place from: bytes not written to stay as they are.  held: where there     *)
(* were any before.                                                          *)
Moved(held, from, size) ==
    {i \in 0 .. INPUT_BUFFER_SIZE + 2 : IF i < size THEN i + from \in held ELSE i \in held}

\* Mutant: the two bytes of the newline are still counted.
HandleNewlineLeft(p, len, where, cmd, text) ==
    LET total == inbuf[p] + len
        size  == INPUT_BUFFER_SIZE - total
        held  == (0 .. len - 1) \cup left[p]
    IN  /\ IF where # 0 /\ p \in named
           THEN process_args(cmd) /\ \E s \in Survival(cmd, text) : running' = (size >= 0 /\ s)
           ELSE running' = (where = 0 \/ size >= 0) /\ UNCHANGED lists
        /\ named' = IF where = 0 THEN named ELSE named \cup {p}
        /\ left' = [left EXCEPT ![p] = IF where = 0 THEN held ELSE Moved(held, where + 4, size)]
        /\ inbuf' = [inbuf EXCEPT ![p] = total - where]
        /\ UNCHANGED <<top, gone, closed>>

\* Mutant: bytes that were used are never taken off the count.
HandleAllLeft(p, len, where, cmd, text) ==
    LET total == inbuf[p] + len
        size  == INPUT_BUFFER_SIZE - total
        held  == (0 .. len - 1) \cup left[p]
    IN  /\ IF where # 0 /\ p \in named
           THEN process_args(cmd) /\ \E s \in Survival(cmd, text) : running' = (size >= 0 /\ s)
           ELSE running' = (where = 0 \/ size >= 0) /\ UNCHANGED lists
        /\ named' = IF where = 0 THEN named ELSE named \cup {p}
        /\ left' = [left EXCEPT ![p] = IF where = 0 THEN held ELSE Moved(held, where + 4, size)]
        /\ inbuf' = [inbuf EXCEPT ![p] = total]
        /\ UNCHANGED <<top, gone, closed>>

(* What follows the read of len bytes from p: a newline at where, -1 if      *)
(* there is none, and words that make cmd, in text bytes.  A newline at 0 is *)
(* taken for no newline.  memmove gets a negative size when inbuf is past    *)
(* the buffer's end.  Writing to a client that has closed its end may end    *)
(* the server.                                                               *)
Handle(p, len, where, cmd, text) ==
    LET total == inbuf[p] + len
        size  == INPUT_BUFFER_SIZE - total
        held  == (0 .. len - 1) \cup left[p]
        alive == IF size < 0 THEN {FALSE} ELSE {TRUE} \cup (IF p \in closed THEN {FALSE} ELSE {})
        used  == /\ inbuf' = [inbuf EXCEPT ![p] = total - (where + 2)]
                 /\ left' = [left EXCEPT ![p] = Moved(held, where + 4, size)]
    IN  IF where = 0
        THEN /\ inbuf' = [inbuf EXCEPT ![p] = total] /\ left' = [left EXCEPT ![p] = held]
             /\ UNCHANGED <<lists, top, named, gone, closed, running>>
        ELSE IF p \notin named
        THEN /\ named' = named \cup {p} /\ used /\ running' \in alive
             /\ UNCHANGED <<lists, top, gone, closed>>
        ELSE /\ process_args(cmd)
             /\ IF cmd.op = "quit"
                THEN removeclient(p) /\ running' \in BOOLEAN
                ELSE /\ used /\ UNCHANGED <<top, named, gone, closed>>
                     /\ \E a \in alive, s \in Survival(cmd, text) : running' = (a /\ s)

(* What is noted of a read: cmd was run for p, or the read was not one whole *)
(* line of a length that leaves nothing behind; after quit nothing p has     *)
(* sent is read any more.                                                    *)
Note(p, cmd, whole) ==
    /\ subscribed' = (subscribed \/ cmd.op = "subscribe")
    /\ IF whole /\ p \notin disturbed /\ cmd.op # "quit"
       THEN /\ done' = IF p \in named THEN [done EXCEPT ![p] = Append(@, [Head(wire[p]) EXCEPT !.cmd = cmd])] ELSE done
            /\ UNCHANGED <<sent, disturbed>>
       ELSE /\ disturbed' = disturbed \cup {p}
            /\ sent' = [sent EXCEPT ![p] = <<>>] /\ done' = [done EXCEPT ![p] = <<>>]

Read(p, rest) == wire' = [wire EXCEPT ![p] = rest]

(* The words of n whole lines and the first k bytes of the next make one     *)
(* command.  The front ends inside the words if they are cut.                *)
WithWords(w, n)   == {i \in 1 .. n : w[i].cmd # Blank}
HasFront(w, n, k) == k > 0 /\ w[n + 1].cmd # Blank
IsCut(w, n, k)    == HasFront(w, n, k) /\ k < w[n + 1].len - 2

Said(w, n, k) ==
    IF WithWords(w, n) # {}
    THEN LET first == w[Min(WithWords(w, n))].cmd
         IN  IF WithWords(w, n) = {Min(WithWords(w, n))} /\ ~HasFront(w, n, k) THEN {first}
             ELSE Extended(first)
    ELSE IF IsCut(w, n, k) THEN Cut(w[n + 1].cmd)
    ELSE IF HasFront(w, n, k) THEN {w[n + 1].cmd} ELSE {Blank}

(* Bytes of the first line's words.                                          *)
Text(w, n, k) ==
    IF WithWords(w, n) # {} THEN w[Min(WithWords(w, n))].len - 2
    ELSE IF IsCut(w, n, k) THEN k
    ELSE IF HasFront(w, n, k) THEN w[n + 1].len - 2 ELSE 0

(* ... and with old bytes behind the len that were read: further words, or,  *)
(* behind a cut word or none, words of their own.                            *)
Heard(p, len, said, cut) ==
    said \cup (IF len \notin left[p] THEN {}
               ELSE IF cut \/ said = {Blank} THEN Command \cup {Incorrect}
               ELSE UNION {Extended(cmd) : cmd \in said})

(* Newlines among old bytes; the last byte that was read may be their \r.    *)
OldNewlines(p, len, cr) ==
    {i \in len - 1 .. inbuf[p] + len - 1 : i + 1 \in left[p] /\ (IF i < len THEN cr ELSE i \in left[p])}

(* The newline that is found first, -1 if none is.  The tail of a line that  *)
(* was cut at its end is a \n alone.                                         *)
Newlines(p, w, n, k, len) ==
    IF n >= 1 /\ w[1].len >= 2 THEN {w[1].len - 2}
    ELSE IF n >= 2 THEN {w[2].len - 1}
    ELSE {-1} \cup OldNewlines(p, len, k > 0 /\ k = w[n + 1].len - 1)

(* The tail of a line of which k bytes were read.                            *)
After(line, k) ==
    [cmd |-> IF line.len - k <= 2 THEN Blank ELSE Incorrect, len |-> line.len - k]

(* read returns any number of the bytes that have arrived: n whole lines,    *)
(* and k bytes of the next.                                                  *)
ReadBytes(p, n, k) ==
    LET w == wire[p]
        bytes[i \in 0 .. n] == IF i = 0 THEN 0 ELSE bytes[i - 1] + w[i].len
        len   == bytes[n] + k
        cut   == IsCut(w, n, k)
        whole == n = 1 /\ k = 0 /\ w[1].cmd # Blank /\ 2 * len <= INPUT_BUFFER_SIZE
    IN
    /\ len <= INPUT_BUFFER_SIZE
    /\ Read(p, IF k = 0 THEN SubSeq(w, n + 1, Len(w))
               ELSE <<After(w[n + 1], k)>> \o SubSeq(w, n + 2, Len(w)))
    /\ \E cmd \in Heard(p, len, Said(w, n, k), cut), where \in Newlines(p, w, n, k, len) :
          /\ Handle(p, len, where, cmd, IF cut /\ len \in left[p] THEN INPUT_BUFFER_SIZE ELSE Text(w, n, k))
          /\ Note(p, cmd, whole)

(* What was sent before the end was closed may be lost with it: read fails   *)
(* once, and what is left in the buffer is run; then there is nothing.       *)
ReadError(p) ==
    /\ p \in closed
    /\ Read(p, <<>>)
    /\ \E cmd \in Heard(p, 0, {Blank}, FALSE), where \in {-1} \cup OldNewlines(p, -1, FALSE) :
          Handle(p, -1, where, cmd, INPUT_BUFFER_SIZE) /\ Note(p, cmd, FALSE)

(* read returns 0: the client is freed, and then used.                       *)
ReadEnd(p) ==
    /\ p \in closed
    /\ removeclient(p) /\ Note(p, Incorrect, FALSE)
    /\ running' \in BOOLEAN
    /\ UNCHANGED <<lists, wire>>

whatsup(p) ==
    \/ \E n \in 0 .. Len(wire[p]) :
          \E k \in 0 .. (IF n = Len(wire[p]) THEN 0 ELSE wire[p][n + 1].len - 1) :
             n + k > 0 /\ ReadBytes(p, n, k)
    \/ wire[p] # <<>> /\ ReadError(p)
    \/ wire[p] = <<>> /\ ReadEnd(p)

(* One round of main: the newest client that is ready, and then a new        *)
(* connection if there was one at the select.                                *)
Serve ==
    /\ running /\ ~accepting
    /\ \E i \in Ready : (\A j \in Ready : i <= j) /\ whatsup(top[i])
    /\ accepting' = (waiting # <<>>)
    /\ UNCHANGED <<waiting, lines>>

(* Of the new buffer a few bytes are cleared: memory that was used before    *)
(* keeps the others.                                                         *)
addclient(c) ==
    /\ top' = <<c>> \o top
    /\ \E old \in {{}, CLEARED .. INPUT_BUFFER_SIZE + 2} :
          /\ left' = [left EXCEPT ![c] = old]
          /\ IF old = {} THEN UNCHANGED history
             ELSE /\ disturbed' = disturbed \cup {c} /\ UNCHANGED <<done, subscribed>>
                  /\ sent' = [sent EXCEPT ![c] = <<>>]

newconnection ==
    /\ running /\ waiting # <<>> /\ (accepting \/ Ready = {})
    /\ waiting' = Tail(waiting)
    /\ addclient(Head(waiting))
    /\ accepting' = FALSE
    /\ UNCHANGED <<lists, named, inbuf, wire, closed, gone, running, lines>>

Next ==
    \/ \E c \in Client : Connect(c) \/ HangUp(c)
    \/ \E c \in Client, line \in Line : Send(c, line)
    \/ Serve
    \/ newconnection

Spec == Init /\ [][Next]_vars /\ WF_vars(Serve \/ newconnection)

-----------------------------------------------------------------------------
(* Properties.                                                               *)

(* Types; only a client that is connected has a user name or old bytes.      *)
CalTypeOK ==
    /\ ToSet(top) \cup ToSet(waiting) \cup gone \cup closed \cup disturbed \subseteq Client
    /\ IsInjective(top) /\ ToSet(top) \cap (gone \cup ToSet(waiting)) = {}
    /\ lines \in 0 .. MaxLines /\ subscribed \in BOOLEAN
    /\ named \subseteq ToSet(top) /\ \A c \in Client \ ToSet(top) : left[c] = {}
    /\ inbuf \in [Client -> Int] /\ left \in [Client -> SUBSET (0 .. INPUT_BUFFER_SIZE + 2)]
    /\ \A c \in Client : ToSet(wire[c]) \cup ToSet(done[c]) \subseteq Item
    /\ running \in BOOLEAN /\ accepting \in BOOLEAN

(* lists.h: "names must be unique", "Events are kept in order by time"; and  *)
(* every subscription is to a calendar that exists, once.                    *)
ListsWellFormed ==
    /\ IsInjective([i \in DOMAIN calendar_list |-> calendar_list[i].name])
    /\ IsInjective([i \in DOMAIN user_list |-> user_list[i].name])
    /\ \A i \in DOMAIN calendar_list : IsSorted(calendar_list[i].events, <=)
    /\ \A i \in DOMAIN user_list :
          /\ IsInjective(user_list[i].subscriptions)
          /\ \A s \in ToSet(user_list[i].subscriptions) : find_calendar(calendar_list, s) # 0

(* While each read of a client's socket returned one whole line that fits    *)
(* half the buffer, the server ran its lines as they were sent, each once    *)
(* and in order, after the one that names the user; and no bytes stay in its *)
(* buffer (whatsup).  A longer line stays in part behind the end of what     *)
(* memmove moves (359), and follows the words of a shorter one.              *)
OneLineOneCommand ==
    \A c \in ToSet(top) \ disturbed :
        /\ inbuf[c] = 0 /\ left[c] = {}
        /\ sent[c] = (IF c \in named THEN <<Head(sent[c])>> ELSE <<>>) \o done[c] \o wire[c]

(* The server dies only after a client hung up or quit, a user was           *)
(* subscribed, a buffer was made of used memory, or a read was not one whole *)
(* line that fits half the buffer.                                           *)
ServerSurvives == closed \cup gone \cup disturbed = {} /\ ~subscribed => running

(* Whatever arrives, the lists change as they do in the single-user program: *)
(* by one of its commands at a time, and in no other way (process_args,      *)
(* calendar.c).                                                              *)
Single == INSTANCE Calendar
ImplementsCalendar == Single!Spec

(* What a client has sent is read, if the clients that came after it stop    *)
(* sending, as they do here: main always serves the newest that is ready.    *)
EveryInputRead ==
    \A c \in Client : (wire[c] # <<>>) ~> (wire[c] = <<>> \/ c \in gone \/ ~running)
=============================================================================
