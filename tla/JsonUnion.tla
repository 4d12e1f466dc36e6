------------------------------ MODULE JsonUnion ------------------------------
(***************************************************************************)
(* The life of the values in common/JsonValue.cpp.  A JsonValue is a tag   *)
(* and a union: the code itself runs the constructors and destructors of   *)
(* the array, object or string in it whenever the tag changes, in copies,  *)
(* moves and assignments, any of which may run out of memory half way.     *)
(***************************************************************************)
EXTENDS Integers, FiniteSets

CONSTANTS Slots,     \* JsonValues of the program
          Places,    \* memory for the contents of arrays, objects and strings
          Contents   \* what they may hold

Heaped == {"ARRAY", "OBJECT", "STRING"}
Scalar == {"BOOL", "SIGNED_INTEGER", "UNSIGNED_INTEGER", "DOUBLE"}
Types == Heaped \cup Scalar \cup {"NIL"}
Freed == <<"FREED", 0>>

VARIABLES slot,      \* slot[s]: tag, and the union: place of the content, or the number
          heap,      \* heap[i]: what lives at place i
          broken     \* a destructor was run on something that does not live
vars == <<slot, heap, broken>>

PlacesAssumption == Cardinality(Places) > Cardinality(Slots)

NotMade == [type |-> "NONE", at |-> 0]
Made(s) == slot[s].type # "NONE"
Memory == [slot |-> slot, heap |-> heap, broken |-> broken]
Become(m) == slot' = m.slot /\ heap' = m.heap /\ broken' = m.broken

(***************************************************************************)
(* Steps of the operations, on the memory m                                *)
(***************************************************************************)
Tag(m, s, t) == [m EXCEPT !.slot[s].type = t]
New(m, s, t, content) ==
    LET i == CHOOSE i \in Places : m.heap[i] = Freed IN
    [m EXCEPT !.slot[s].at = i, !.heap[i] = <<t, content>>]
Delete(m, s, t) ==
    LET i == m.slot[s].at IN
    IF i \in Places /\ m.heap[i] # Freed /\ m.heap[i][1] = t THEN [m EXCEPT !.heap[i] = Freed]
    ELSE [m EXCEPT !.broken = TRUE]
Content(m, s) == m.heap[m.slot[s].at][2]

destruct_value(m, s) ==
    Tag(IF m.slot[s].type \in Heaped THEN Delete(m, s, m.slot[s].type) ELSE m, s, "NIL")

\* the switch over the tag of other, where the content of other is copied to s;
\* of a NIL only the tag is taken
copy_from(m, s, o) ==
    LET t == m.slot[o].type
        n == IF t \in Heaped THEN New(m, s, t, Content(m, o))
             ELSE IF t \in Scalar THEN [m EXCEPT !.slot[s].at = m.slot[o].at] ELSE m
    IN  Tag(n, s, t)
\* the same with a move, after which the content of other is destroyed
\* (A faulty variant does not destroy it.)
move_from_live(m, s, o) == Tag(copy_from(m, s, o), o, "NIL")
move_from(m, s, o) ==
    LET t == m.slot[o].type
        n == copy_from(m, s, o) IN
    Tag(IF t \in Heaped THEN Delete(n, o, t) ELSE n, o, "NIL")

(***************************************************************************)
(* The operations.  fails: memory runs out in the copy they make, and a    *)
(* content that was to be assigned to is left as `rest'.                   *)
(***************************************************************************)
Init ==
    /\ slot = [s \in Slots |-> NotMade]
    /\ heap = [i \in Places |-> Freed]
    /\ broken = FALSE

\* JsonValue(), of a value, of a type (which throws for that of a number); a
\* constructor that throws makes nothing
Construct(s, t, content) ==
    /\ ~Made(s)
    /\ Become(Tag(IF t \in Heaped THEN New(Memory, s, t, content)
                  ELSE IF t \in Scalar THEN [Memory EXCEPT !.slot[s].at = content] ELSE Memory, s, t))

CopyConstruct(s, o) == ~Made(s) /\ Made(o) /\ Become(copy_from(Memory, s, o))
MoveConstruct(s, o) == ~Made(s) /\ Made(o) /\ Become(move_from(Memory, s, o))

\* operator= of two arrays, objects or strings
assign_content(m, s, t, content, fails, rest) ==
    [m EXCEPT !.heap[m.slot[s].at] = <<t, IF fails THEN rest ELSE content>>]

assign_copy(m, s, o, fails, rest) ==
    LET t == m.slot[o].type IN
    IF s = o THEN m
    ELSE IF m.slot[s].type # t
    THEN IF fails /\ t \in Heaped THEN destruct_value(m, s) ELSE copy_from(destruct_value(m, s), s, o)
    ELSE IF t \in Heaped THEN assign_content(m, s, t, Content(m, o), fails, rest)
    ELSE IF t \in Scalar THEN [m EXCEPT !.slot[s].at = m.slot[o].at] ELSE m
AssignCopy(s, o, fails, rest) ==
    Made(s) /\ Made(o) /\ Become(assign_copy(Memory, s, o, fails, rest))

\* no test for s = o; the content of other is const, so it is copied and then destroyed
assign_move(m, s, o, fails, rest) ==
    LET t == m.slot[o].type IN
    IF m.slot[s].type # t
    THEN IF fails /\ t \in Heaped THEN destruct_value(m, s) ELSE move_from(destruct_value(m, s), s, o)
    ELSE IF t \in Scalar THEN Tag([m EXCEPT !.slot[s].at = m.slot[o].at], o, "NIL")
    ELSE IF t = "NIL" THEN m
    ELSE LET n == assign_content(m, s, t, Content(m, o), fails /\ s # o, rest)
         IN  IF fails THEN n ELSE Tag(Delete(n, o, t), o, "NIL")
AssignMove(s, o, fails, rest) ==
    Made(s) /\ Made(o) /\ Become(assign_move(Memory, s, o, fails, rest))

\* operator= of an array, object or string, of a number, of nullptr; also what the
\* parser does to the value it reads into
assign_value(m, s, t, content, fails, rest) ==
    IF t \in Scalar THEN [destruct_value(m, s) EXCEPT !.slot[s] = [type |-> t, at |-> content]]
    ELSE IF t = "NIL" THEN destruct_value(m, s)
    ELSE IF m.slot[s].type = t THEN assign_content(m, s, t, content, fails, rest)
    ELSE IF fails THEN destruct_value(m, s)
    ELSE Tag(New(destruct_value(m, s), s, t, content), s, t)
AssignValue(s, t, content, fails, rest) ==
    Made(s) /\ Become(assign_value(Memory, s, t, content, fails, rest))

\* get_array and the like: what is in the union if the tag is t, or else they throw;
\* an integer is given as either kind, the same bits
Throws == <<"THROWS", 0>>
Integer == {"SIGNED_INTEGER", "UNSIGNED_INTEGER"}
get(s, t) ==
    IF slot[s].type # t /\ ~({slot[s].type, t} \subseteq Integer) THEN Throws
    ELSE IF t \in Heaped THEN heap[slot[s].at]
    ELSE IF t \in Scalar THEN <<t, slot[s].at>> ELSE <<t, 0>>

\* push_back, insert, set, erase, and through the reference that get_array,
\* get_object or get_string gives: the content is changed in place
Change(s, t, content) ==
    /\ Made(s) /\ get(s, t) # Throws
    /\ Become([Memory EXCEPT !.heap[slot[s].at] = <<t, content>>])

Destruct(s) == Made(s) /\ Become([destruct_value(Memory, s) EXCEPT !.slot[s] = NotMade])

Next ==
    \E s \in Slots :
        \/ \E t \in Types, c \in Contents : Construct(s, t, c)
        \/ \E o \in Slots : CopyConstruct(s, o) \/ MoveConstruct(s, o)
        \/ \E o \in Slots, fails \in BOOLEAN, c \in Contents :
             AssignCopy(s, o, fails, c) \/ AssignMove(s, o, fails, c)
        \/ \E t \in Types, c \in Contents, fails \in BOOLEAN, r \in Contents :
             AssignValue(s, t, c, fails, r)
        \/ \E t \in Heaped, c \in Contents : Change(s, t, c)
        \/ Destruct(s)

(***************************************************************************)
(* Properties                                                              *)
(***************************************************************************)
\* Every array, object and string that lives belongs to exactly one value, whose
\* tag names its type, and every such tag has one: nothing leaks, is destroyed
\* twice or is read as another type, also after moves to itself and after copies
\* for which there was no memory.
OwnedOnce ==
    LET owners(i) == {s \in Slots : slot[s].type \in Heaped /\ slot[s].at = i} IN
    /\ \A i \in Places : Cardinality(owners(i)) = (IF heap[i] = Freed THEN 0 ELSE 1)
    /\ \A s \in Slots : slot[s].type \in Heaped => slot[s].at \in Places /\ heap[slot[s].at][1] = slot[s].type

\* No destructor is run on what does not live.
NeverBroken == ~broken

Meaning(s) == get(s, slot[s].type)

\* A copy or a move gives a value the meaning of the other, a move leaves the other
\* empty and a copy leaves it alone; one that fails leaves the value with its type
\* or empty, and the other as it was.
AssignsRight ==
    \A s, o \in Slots : \A c \in Contents :
        (s # o /\ Made(s) /\ Made(o)) =>
            /\ AssignCopy(s, o, FALSE, c) => Meaning(s)' = Meaning(o) /\ Meaning(o)' = Meaning(o)
            /\ AssignMove(s, o, FALSE, c) => Meaning(s)' = Meaning(o) /\ slot'[o].type = "NIL"
            /\ slot[o].type \in Heaped /\ (AssignCopy(s, o, TRUE, c) \/ AssignMove(s, o, TRUE, c)) =>
                    slot'[s].type \in {slot[s].type, "NIL"} /\ Meaning(o)' = Meaning(o)
=============================================================================
