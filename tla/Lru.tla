--------------------------------- MODULE Lru --------------------------------
(***************************************************************************)
(* Replacement by -a lru (lru.c of CSC369/Virtual Memory): an array of     *)
(* frame numbers, least recently used first.  Hit, Load and Replace are    *)
(* the policy's part of a reference, as in module Fifo.                    *)
(***************************************************************************)
EXTENDS Integers

CONSTANT memsize
VARIABLES
    stack,          \* the malloc'd array: memsize words
    stackSize       \* how many of them are in use, from word 0

Word  == 0 .. memsize - 1
Junk  == -1 .. memsize - 1       \* what a word past the end of the array may hold

Init == stack = [i \in Word |-> 0] /\ stackSize = 0

(* A stack as a value, for the functions that change it several times. *)
Stack(a, n) == [a |-> a, n |-> n]

\* Mutant: the shift starts one word late, and keeps the word to remove.
stackShiftShort(s, idx, junk) ==
    Stack([i \in Word |-> IF idx < i /\ i < s.n - 1 THEN s.a[i + 1] ELSE s.a[i]], s.n - 1)

(* stackShift(idx): every word from idx on takes its successor's value.  The last
   iteration reads word stackSize, which is past the array when it is full. *)
stackShift(s, idx, junk) ==
    Stack([i \in Word |-> IF i < idx \/ i >= s.n THEN s.a[i]
                          ELSE IF i + 1 = memsize THEN junk ELSE s.a[i + 1]],
          s.n - 1)

(* The first loop of stackPush, which goes on after it has removed e: removed[i]
   is the stack when words 0 .. i-1 have been looked at. *)
StackWithout(s, e, junk) ==
    LET removed[i \in 0 .. memsize] ==
            IF i = 0 THEN s
            ELSE LET r == removed[i - 1]
                 IN  IF i - 1 < r.n /\ r.a[i - 1] = e THEN stackShift(r, i - 1, junk) ELSE r
    IN  removed[memsize]

stackPush(s, e, junk) ==
    LET r == StackWithout(s, e, junk)
        m == IF r.n = memsize THEN stackShift(r, 0, junk) ELSE r
    IN  Stack([m.a EXCEPT ![m.n] = e], m.n + 1)

Becomes(s) == stack' = s.a /\ stackSize' = s.n

(* lru_ref pushes the frame of the page that was referenced. *)
Ref(f)  == \E junk \in Junk : Becomes(stackPush(Stack(stack, stackSize), f, junk))

Hit(f)  == Ref(f)
Load(f) == Ref(f)

Victim(f) == f = stack[0]

(* lru_evict takes word 0 off the stack, then lru_ref pushes the same frame. *)
Replace(f) ==
    /\ Victim(f)
    /\ \E junk \in Junk :
           Becomes(stackPush(stackShift(Stack(stack, stackSize), 0, junk), f, junk))
=============================================================================
