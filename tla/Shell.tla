------------------------------- MODULE Shell --------------------------------
(***************************************************************************)
(* The directory tree of CSC207/Java Virtual Shell and the commands that   *)
(* change it (Input.java and the classes it calls): mkdir, echo and get    *)
(* make objects, mv, cp and rm move, copy and remove them, cd, pushd and   *)
(* popd change the working directory.                                      *)
(*                                                                         *)
(* An object is a number; what Java would collect stays.  A directory has  *)
(* its two lists and every object its parent, NULL once it was deleted.    *)
(* An exception ends the program, as no one catches it; so do recursion    *)
(* and lists without end.  What files contain, what is printed, grep, cat  *)
(* and man are left out; so are words no path has (".", special            *)
(* characters) and commands with several paths, which are several commands.*)
(***************************************************************************)
EXTENDS Integers, FiniteSets, Sequences, SequencesExt

CONSTANTS
    Path,           \* BOUND: records of a sequence of parts, and abs: it begins with /
    MaxObjects,     \* BOUND: objects made
    MaxCommands     \* BOUND: commands entered

ASSUME ShellAssumption ==
    /\ Path \subseteq [abs : BOOLEAN, parts : Seq(STRING) \ {<<>>}]
    /\ MaxObjects \in Nat /\ MaxCommands \in Nat

VARIABLES
    node,               \* node[o]: kind, name, parent, dirs and files of an object
    workingDirectory,
    newStack,           \* of pushd and popd, the top last
    redirect,           \* Input.redirect, never reset
    asking,             \* what rm asks for; NoQuestion between commands
    crashed, commands,
    doubled,            \* history: a directory that is not empty was copied
    merged              \* history: something was moved or copied onto what
                        \* existed, or fetched

vars == <<node, workingDirectory, newStack, redirect, asking, crashed, commands, doubled, merged>>

NULL == -1
root == 0
NoQuestion == [queue |-> <<>>, parents |-> <<>>, top |-> NULL, final |-> FALSE]

Object == DOMAIN node
IsDir(o)  == o # NULL /\ node[o].kind = "dir"
IsFile(o) == o # NULL /\ node[o].kind = "file"

Init ==
    /\ node = [o \in {root} |-> [kind |-> "dir", name |-> "/", parent |-> root, dirs |-> <<>>, files |-> <<>>]]
    /\ workingDirectory = root /\ newStack = <<>> /\ redirect = FALSE
    /\ asking = NoQuestion /\ crashed = FALSE /\ commands = 0
    /\ doubled = FALSE /\ merged = FALSE

-----------------------------------------------------------------------------
(* Objects, in a tree t.                                                     *)

(* Mutant: a file is put with the directories.                               *)
addAmongChildren(t, o, p) ==
    [t EXCEPT ![o].parent = p, ![p].dirs = Append(@, o)]


addToParent(t, o, p) ==
    [t EXCEPT ![o].parent = p,
              ![p].dirs  = IF t[o].kind = "dir" THEN Append(@, o) ELSE @,
              ![p].files = IF t[o].kind = "file" THEN Append(@, o) ELSE @]

(* Mutant: the object keeps its parent.                                      *)
deleteDownward(t, o) ==
    [t EXCEPT ![t[o].parent].dirs = RemoveFirst(@, o), ![t[o].parent].files = RemoveFirst(@, o)]

(* The first place in the list goes, and the way up; the object's own lists  *)
(* stay.                                                                     *)
deleteFileSystem(t, o) ==
    LET u == [t EXCEPT ![t[o].parent].dirs = RemoveFirst(@, o), ![t[o].parent].files = RemoveFirst(@, o)]
    IN  [u EXCEPT ![o].parent = NULL]

NewObject(t, kind, name, p) ==
    LET o == Cardinality(DOMAIN t)
        u == [x \in DOMAIN t \cup {o} |->
                 IF x = o THEN [kind |-> kind, name |-> name, parent |-> NULL, dirs |-> <<>>, files |-> <<>>]
                 ELSE t[x]]
    IN  addToParent(u, o, p)

Newest(t) == Cardinality(DOMAIN t) - 1

(* Directories come first.                                                   *)
fileSystemNameToObject(t, d, name) ==
    LET all == t[d].dirs \o t[d].files
        i   == SelectInSeq(all, LAMBDA o : t[o].name = name)
    IN  IF i = 0 THEN NULL ELSE all[i]

Children(t, o) == ToSet(t[o].dirs) \cup ToSet(t[o].files)

(* What S leads to; there are not more levels than objects.                  *)
Spread(t, S) == S \cup UNION {Children(t, o) : o \in S}
Below(t, S) ==
    LET upTo[n \in 0 .. Cardinality(DOMAIN t)] == IF n = 0 THEN S ELSE Spread(t, upTo[n - 1])
    IN  upTo[Cardinality(DOMAIN t)]

Holds(o, x) == x \in Below(node, {o})
Endless(o) == \E d \in Below(node, {o}) : \E c \in ToSet(node[d].dirs) : Holds(c, d)

(* The way up ends at a directory that is its own parent.                    *)
directoryLocation(o) ==
    LET up[n \in 0 .. Cardinality(Object)] ==
            IF n = 0 THEN o ELSE LET x == up[n - 1] IN IF x = NULL THEN NULL ELSE node[x].parent
    IN  \E n \in 0 .. Cardinality(Object) : up[n] # NULL /\ node[up[n]].parent = up[n]

-----------------------------------------------------------------------------
(* Paths.                                                                    *)

(* How far a path leads: res is "no" if a part does not exist - the last     *)
(* part need not, if mkdir, and an empty one neither - and "crash" if there  *)
(* is no directory to look in.  prev and last are what parsePath returns,    *)
(* and left the parts that were not followed.                                *)
follow(w, part, mayMiss) ==
    LET o == IF part = ".." THEN node[w.last].parent ELSE fileSystemNameToObject(node, w.last, part)
    IN  IF w.res # "yes" THEN w
        ELSE IF w.last = NULL \/ (part # ".." /\ IsFile(w.last)) THEN [w EXCEPT !.res = "crash"]
        ELSE IF o # NULL \/ part \in {"..", ""} \/ mayMiss
             THEN [w EXCEPT !.prev = w.last, !.last = o, !.left = @ - 1]
        ELSE [w EXCEPT !.res = "no"]

Start(path) ==
    [res |-> "yes", prev |-> NULL, last |-> IF path.abs THEN root ELSE workingDirectory,
     left |-> Len(path.parts)]

checkPath(path, mkdir) ==
    LET upTo[n \in 0 .. Len(path.parts)] ==
            IF n = 0 THEN Start(path)
            ELSE follow(upTo[n - 1], path.parts[n], mkdir /\ n = Len(path.parts))
    IN  upTo[Len(path.parts)]

LastPart(path) == Last(path.parts)

-----------------------------------------------------------------------------
(* What a command leaves alone; redirect, commands and the history are Next's. *)

Crash ==
    /\ crashed' = TRUE
    /\ UNCHANGED <<node, workingDirectory, newStack, asking>>
Nothing ==
    UNCHANGED <<node, workingDirectory, newStack, asking, crashed>>

Changes(t) ==
    /\ Cardinality(DOMAIN t) <= MaxObjects
    /\ node' = t
    /\ UNCHANGED <<workingDirectory, newStack, asking, crashed>>
Makes(kind, name, d) ==
    Changes(NewObject(node, kind, name, d))

(* A NULL is ignored.  The prompt is made from the path.                     *)
changeWorkingDirectory(o) ==
    IF o = NULL THEN UNCHANGED <<workingDirectory, crashed>>
    ELSE workingDirectory' = o /\ crashed' = ~directoryLocation(o)

-----------------------------------------------------------------------------
(* Commands that make objects.                                               *)

(* Mutant: only directories are asked for the name.                          *)
mkdirBesideFile(path) ==
    LET c == checkPath(path, TRUE) IN
    IF c.res = "no" THEN Nothing
    ELSE IF c.res = "crash" \/ ~IsDir(c.prev) THEN Crash
    ELSE IF \E o \in ToSet(node[c.prev].dirs) : node[o].name = LastPart(path) THEN Nothing
    ELSE Makes("dir", LastPart(path), c.prev)

mkdir(path) ==
    LET c == checkPath(path, TRUE) IN
    IF c.res = "no" THEN Nothing
    ELSE IF c.res = "crash" \/ ~IsDir(c.prev) THEN Crash
    ELSE IF fileSystemNameToObject(node, c.prev, LastPart(path)) # NULL THEN Nothing
    ELSE Makes("dir", LastPart(path), c.prev)

(* An existing file only gets other contents.                                *)
fileRedirection(path) ==
    LET c == checkPath(path, TRUE) IN
    IF c.res = "no" THEN Nothing
    ELSE IF c.res = "crash" \/ ~IsDir(c.prev) THEN Crash
    ELSE IF c.last # NULL THEN Nothing
    ELSE IF LastPart(path) = "" THEN Crash
    ELSE Makes("file", LastPart(path), c.prev)

(* Words and then > path; or, once redirect is set, words whose last one is  *)
(* a path.                                                                   *)
echo(path, toFile) == IF toFile \/ redirect THEN fileRedirection(path) ELSE Nothing

(* pwd > path; ls > path, which sets redirect.                               *)
pwd(path) == IF directoryLocation(workingDirectory) THEN fileRedirection(path) ELSE Crash

(* Once redirect is set, the listing of a file goes to the file.             *)
ls(path) ==
    LET c == checkPath(path, FALSE) IN
    IF c.res = "crash" THEN Crash
    ELSE IF c.res = "no" \/ ~redirect THEN Nothing
    ELSE fileRedirection(path)

(* ls path > outfile goes over all three words as paths.                     *)
lsTo(path, outfile) ==
    LET c == checkPath(path, FALSE)
        d == checkPath(outfile, FALSE)
    IN  IF workingDirectory = NULL \/ "crash" \in {c.res, d.res} THEN Crash
        ELSE IF "yes" \in {c.res, d.res} THEN fileRedirection(outfile) ELSE Nothing

(* An echo without words always fails; cd or pushd without a path, or echo   *)
(* with one word, once redirect is set, as no one counts the words then.     *)
TooFew == Crash \/ Nothing

(* A file of any name, there already or not, and even if nothing is fetched. *)
get(name) ==
    IF workingDirectory = NULL THEN Crash
    ELSE Changes(NewObject(node, "file", name, workingDirectory))

-----------------------------------------------------------------------------
(* mv and cp; what newPath leads to if it exists, else its directory.        *)

Rename(t, o, newName) == IF newName = "" THEN t ELSE [t EXCEPT ![o].name = newName]

(* Mutant: a file takes another's place without being put there.             *)
mvNowhere(old, new, newName) ==
    IF old = NULL \/ node[old].parent = NULL THEN Crash
    ELSE LET t == deleteFileSystem(node, old) IN
         IF IsFile(new) /\ IsDir(old) THEN Changes(t)
         ELSE IF new = NULL \/ (IsFile(new) /\ t[new].parent = NULL) THEN Crash
         ELSE IF IsFile(new) THEN Changes(deleteFileSystem(t, new))
         ELSE Changes(Rename(addToParent(t, old, new), old, newName))

mv(old, new, newName) ==
    IF old = NULL \/ node[old].parent = NULL THEN Crash
    ELSE LET t == deleteFileSystem(node, old) IN
         IF IsFile(new) /\ IsDir(old) THEN Changes(t)
         ELSE IF new = NULL \/ (IsFile(new) /\ t[new].parent = NULL) THEN Crash
         ELSE IF IsFile(new) THEN Changes(deleteFileSystem(addToParent(t, old, t[new].parent), new))
         ELSE Changes(Rename(addToParent(t, old, new), old, newName))

(* Files and directories are added twice, by their constructor and again, so *)
(* that the children are gone through at half speed.  A job is a call of     *)
(* cloneDirectory, and the n of what it copies next; the last call is first. *)
Twice(t, x, to) ==
    LET v == NewObject(t, t[x].kind, t[x].name, to)
    IN  IF t[x].kind = "file" THEN [v EXCEPT ![to].files = Append(@, Newest(v))]
                              ELSE [v EXCEPT ![to].dirs = Append(@, Newest(v))]

cloneNext(s) ==
    LET job == Head(s.jobs)
        all == s.t[job.from].files \o s.t[job.from].dirs
        i   == job.n - Len(s.t[job.from].files)
        v   == Twice(s.t, all[job.n], job.to)
        on  == <<[job EXCEPT !.n = @ + 1]>> \o Tail(s.jobs)
    IN  IF s.jobs = <<>> THEN s
        ELSE IF job.n > Len(all) THEN [s EXCEPT !.jobs = Tail(@)]
        ELSE [t    |-> v,
              jobs |-> IF i < 1 THEN on ELSE <<[to |-> v[job.to].dirs[i], from |-> all[job.n], n |-> 1]>> \o on]

(* What takes more steps has made more than MaxObjects objects.              *)
cloneDirectory(t, to, from) ==
    LET upTo[n \in 0 .. 2 * MaxObjects + 1] ==
            IF n = 0 THEN [t |-> t, jobs |-> <<[to |-> to, from |-> from, n |-> 1]>>]
            ELSE cloneNext(upTo[n - 1])
    IN  upTo[2 * MaxObjects + 1].t

(* The copy is looked up by its old name to rename it.                       *)
cpDirectory(old, new, newName) ==
    LET made == NewObject(node, "dir", node[old].name, new)
        t    == cloneDirectory(made, Newest(made), old)
    IN  Changes(Rename(t, fileSystemNameToObject(t, new, node[old].name), newName))

cpFile(old, new, newName) ==
    LET inNew  == IF newName = "" THEN node ELSE NewObject(node, "dir", newName, new)
        within == IF newName = "" THEN new ELSE Newest(inNew)
    IN  IF IsDir(new) THEN Changes(NewObject(inNew, "file", node[old].name, within))
        ELSE Changes(deleteFileSystem(NewObject(node, "file", node[old].name, node[new].parent), new))

cp(old, new, newName) ==
    IF IsFile(new) /\ ~IsFile(old) THEN Nothing
    ELSE IF old = NULL \/ new = NULL \/ (IsFile(new) /\ node[new].parent = NULL) THEN Crash
    ELSE IF IsFile(old) THEN cpFile(old, new, newName)
    ELSE IF Holds(old, new) \/ Endless(old) THEN Crash
    ELSE cpDirectory(old, new, newName)

FileMovement(command, old, new, newName) ==
    IF command = "mv" THEN mv(old, new, newName) ELSE cp(old, new, newName)

movement(command, oldPath, newPath) ==
    LET c == checkPath(oldPath, FALSE)
        d == checkPath(newPath, FALSE)
        e == checkPath(newPath, TRUE)
    IN  IF c.res = "no" THEN Nothing
        ELSE IF c.res = "crash" THEN Crash
        ELSE IF d.res = "crash" THEN Crash
        ELSE IF d.res = "yes" THEN FileMovement(command, c.last, d.last, "")
        ELSE IF e.res = "yes" THEN FileMovement(command, c.last, e.prev, LastPart(newPath))
        ELSE Nothing

-----------------------------------------------------------------------------
(* rm                                                                        *)

(* A directory gives way to what is in it while it has directories; its      *)
(* files are added each time.                                                *)
open(s, o) ==
    LET more == s \o node[o].dirs \o node[o].files
    IN  IF ~IsDir(o) THEN s
        ELSE IF node[o].dirs = <<>> THEN more ELSE RemoveFirst(more, o)

openAll(list) ==
    LET upTo[k \in 0 .. Len(list)] == IF k = 0 THEN list ELSE open(upTo[k - 1], list[k])
    IN  upTo[Len(list)]

HasChildren(list) == \E o \in ToSet(list) : IsDir(o) /\ node[o].dirs # <<>>

findNode(list) ==
    LET bottom[n \in 0 .. Cardinality(Object)] ==
            IF n = 0 THEN openAll(list)
            ELSE LET s == bottom[n - 1] IN IF HasChildren(s) THEN openAll(s) ELSE s
    IN  bottom[Cardinality(Object)]

removeDir(path, f) ==
    LET c == checkPath(path, FALSE)
        o == c.last
    IN  IF c.res = "no" \/ (c.res = "yes" /\ o = root) THEN Nothing
        ELSE IF c.res = "crash" \/ o = NULL THEN Crash
        ELSE IF (f /\ node[o].parent = NULL) \/ (~f /\ Endless(o)) THEN Crash
        ELSE IF f THEN /\ node' = deleteFileSystem(node, o) /\ workingDirectory' = NULL
                       /\ UNCHANGED <<newStack, asking, crashed>>
        ELSE /\ asking' = [queue |-> findNode(<<o>>), parents |-> <<>>, top |-> o, final |-> FALSE]
             /\ UNCHANGED <<node, workingDirectory, newStack, crashed>>

(* After the last answer: the parents that have no directories left are      *)
(* asked for in any order, or the object itself when it comes first.         *)
NextRound(t, parents) ==
    LET empty == {p \in ToSet(parents) : t[p].dirs = <<>>} IN
    CASE asking.final \/ parents = <<>> ->
            asking' = NoQuestion /\ workingDirectory' = t[asking.top].parent /\ UNCHANGED crashed
      [] empty = {} /\ ~asking.final /\ parents # <<>> ->
            crashed' = TRUE /\ UNCHANGED <<asking, workingDirectory>>
      [] OTHER ->
            /\ \E order \in SetToSeqs(empty) :
                  asking' = IF order[1] = asking.top
                            THEN [asking EXCEPT !.queue = <<asking.top>>, !.parents = <<>>, !.final = TRUE]
                            ELSE [asking EXCEPT !.queue = order, !.parents = <<>>]
            /\ UNCHANGED <<workingDirectory, crashed>>

makeDirToRemoveList(yes) ==
    LET o       == Head(asking.queue)
        t       == IF yes THEN deleteFileSystem(node, o) ELSE node
        parents == IF yes THEN Append(asking.parents, node[o].parent) ELSE asking.parents
    IN
    IF yes /\ node[o].parent = NULL THEN Crash
    ELSE /\ node' = t
         /\ IF Len(asking.queue) > 1
            THEN /\ asking' = [asking EXCEPT !.queue = Tail(@), !.parents = parents]
                 /\ UNCHANGED <<workingDirectory, crashed>>
            ELSE NextRound(t, parents)
         /\ UNCHANGED newStack

-----------------------------------------------------------------------------
(* The working directory.                                                    *)

(* The path is followed before it is checked; a file leads to its directory. *)
cd(path) ==
    LET c == checkPath(path, FALSE)
        o == IF IsDir(c.last) THEN c.last ELSE IF IsDir(c.prev) THEN c.prev ELSE NULL
    IN  IF c.res = "crash" \/ (c.res = "no" /\ c.left > 1) THEN Crash
        ELSE IF c.res = "no" THEN Nothing
        ELSE IF IsDir(c.prev) /\ ~directoryLocation(c.prev) THEN Crash
        ELSE changeWorkingDirectory(o) /\ UNCHANGED <<node, newStack, asking>>

Pushd(path) ==
    LET c == checkPath(path, FALSE) IN
    IF c.res = "no" THEN Nothing
    ELSE IF c.res = "crash" \/ IsFile(c.last) THEN Crash
    ELSE /\ newStack' = Append(newStack, workingDirectory)
         /\ changeWorkingDirectory(c.last)
         /\ UNCHANGED <<node, asking>>

Popd ==
    IF newStack = <<>> THEN Nothing
    ELSE /\ newStack' = Front(newStack)
         /\ changeWorkingDirectory(Last(newStack))
         /\ UNCHANGED <<node, asking>>

-----------------------------------------------------------------------------

Names == {LastPart(path) : path \in Path}

Listed(d) == node[d].dirs \o node[d].files

(* Onto what exists, a name may come twice.                                  *)
Merge(path) == merged' = (merged \/ checkPath(path, FALSE).res = "yes")
Double(path) ==
    LET c == checkPath(path, FALSE)
    IN  doubled' = (doubled \/ (c.res = "yes" /\ IsDir(c.last) /\ Listed(c.last) # <<>>))

enteredCommand ==
    \/ /\ \/ \E path \in Path : mkdir(path) \/ pwd(path) \/ ls(path) \/ echo(path, FALSE) \/ cd(path) \/ Pushd(path)
          \/ \E path \in Path, f \in BOOLEAN : removeDir(path, f)
          \/ Popd \/ TooFew
       /\ UNCHANGED <<doubled, merged>>
    \/ \E name \in Names \ {"", ".."} : get(name) /\ merged' = TRUE /\ UNCHANGED doubled
    \/ \E oldPath, newPath \in Path :
          \/ movement("mv", oldPath, newPath) /\ Merge(newPath) /\ UNCHANGED doubled
          \/ movement("cp", oldPath, newPath) /\ Merge(newPath) /\ Double(oldPath)

(* Those that may end in > path, which sets redirect for good.               *)
redirected ==
    \/ \E path \in Path : echo(path, TRUE) \/ pwd(path) \/ cd(path) \/ Pushd(path)
    \/ \E path, outfile \in Path : lsTo(path, outfile)
    \/ Popd

enterCommand ==
    /\ asking = NoQuestion /\ commands < MaxCommands /\ commands' = commands + 1
    /\ \/ enteredCommand /\ UNCHANGED redirect
       \/ redirected /\ redirect' = TRUE /\ UNCHANGED <<doubled, merged>>

answer ==
    /\ asking # NoQuestion
    /\ \E yes \in BOOLEAN : makeDirToRemoveList(yes)
    /\ UNCHANGED <<redirect, commands, doubled, merged>>

Next == ~crashed /\ (enterCommand \/ answer)

Spec == Init /\ [][Next]_vars

-----------------------------------------------------------------------------
(* Properties.                                                               *)

Dirs == {o \in Object : node[o].kind = "dir"}
Reachable == Below(node, {root})

(* Types: a directory's lists hold directories and files, in this order.     *)
ShellTypeOK ==
    /\ \A o \in Object :
          /\ node[o].kind \in {"dir", "file"} /\ node[o].parent \in Dirs \cup {NULL}
          /\ ToSet(node[o].dirs) \subseteq Dirs /\ ToSet(node[o].files) \subseteq Object \ Dirs
    /\ workingDirectory \in Dirs \cup {NULL} /\ ToSet(newStack) \subseteq Dirs \cup {NULL}
    /\ ToSet(asking.queue \o asking.parents) \subseteq Object
    /\ redirect \in BOOLEAN /\ crashed \in BOOLEAN /\ commands \in 0 .. MaxCommands

(* An object stands in one list, once, and that is its parent's: whatever    *)
(* was moved, removed or half removed (addToParent, deleteFileSystem).  A    *)
(* copy of a directory that is not empty lists what it holds twice.          *)
ListsMatchParents ==
    ~doubled => \A d \in Dirs, o \in Object \ {root} :
        Cardinality({i \in DOMAIN Listed(d) : Listed(d)[i] = o}) = IF node[o].parent = d THEN 1 ELSE 0

(* No two things in a directory have one name, until something was moved or  *)
(* copied onto what was there, or fetched (mkdir, fileRedirection, mv, cp).  *)
(* But for "..": where the way up is gone, mkdir and > both make one.        *)
NamesUnique ==
    ~doubled /\ ~merged => \A d \in Dirs : \A i, j \in DOMAIN Listed(d) :
        i # j => node[Listed(d)[i]].name # node[Listed(d)[j]].name \/ node[Listed(d)[i]].name = ".."

(* What a step takes out of the tree lies below one object, and it is one    *)
(* that the step took from its parent: mv and cp lose nothing else, and no   *)
(* other command but rm loses anything (FileMovement, removeDir).            *)
OneSubtreeLost ==
    [][LET lost == Reachable \ Below(node', {root}) IN
       node' # node /\ lost # {} =>
           \E o \in lost : lost \subseteq Below(node, {o}) /\ node'[o].parent # node[o].parent]_vars

(* Of two things that are in the tree, mv leaves the first in it, but for    *)
(* the two losses that its order makes: it takes the object out before it    *)
(* finds that a directory cannot replace a file (FileMovement.java:29, 34),  *)
(* and never looks whether the new place lies in what is moved.              *)
MvKeepsWhatItMoves ==
    [][LET lost == Reachable \ Below(node', {root}) IN
       node' # node /\ asking' = asking /\ lost # {} =>
       \A oldPath \in {path \in Path : checkPath(path, FALSE).last \in lost}, newPath \in Path :
           LET old    == checkPath(oldPath, FALSE).last
               target == checkPath(newPath, FALSE)
               place  == IF target.res = "yes" THEN target.last ELSE checkPath(newPath, TRUE).prev
           IN  movement("mv", oldPath, newPath) =>
                   \/ IsDir(old) /\ IsFile(target.last)
                   \/ place \in Below(node, {old}) \/ place \notin Reachable]_vars
=============================================================================
