-------------------------- MODULE InstructionList --------------------------
(***************************************************************************)
(* The instructions of the intermediate code and the lists of those whose  *)
(* destination is still open (includes/semantic.h, lib/inter/semantic.cc). *)
(*                                                                         *)
(* Objects are numbered as they are made.  An instruction links to the     *)
(* next and the previous one; dest is the label a jump goes to or the      *)
(* label that is placed here, Unset while nobody assigned it.  An IRList   *)
(* is a sequence of instructions; it is an object that several blocks and  *)
(* trees may hold, and that a merge changes for all of them.  Null is the  *)
(* null pointer, Unset also a pointer nobody assigned: the program is      *)
(* stopped as "undefined" when either is followed.                         *)
(***************************************************************************)
EXTENDS TokenBuffer

Null == 0
Unset == -1

Jumps == {"test", "goto", "break", "continue", "back", "skip"}
Ops == Jumps \cup {"head", "pad", "code", "para", "call", "ret", "label"}

Newest(p) == Len(p.code)
NewestList(p) == Len(p.lists)

(* The constructors without a link: what print() would show and, for a     *)
(* label made with its name, the label.                                    *)
Make(p, op, dest) ==
    IF Running(p)
    THEN [p EXCEPT !.code = Append(@, [op |-> op, dest |-> dest, next |-> Null, pre |-> Null])]
    ELSE p

(* IR(): the head of a new chain, and the current instruction.             *)
MakeHead(p) ==
    IF Running(p) THEN [Make(p, "head", Unset) EXCEPT !.tail = Newest(p) + 1] ELSE p

(* appendIR(ir): after the current instruction, which it becomes.          *)
Append1(p, i) ==
    CASE ~Running(p) -> p
      [] Running(p) /\ p.tail = Null -> Stop(p, "undefined")
      [] Running(p) /\ p.tail # Null ->
            [p EXCEPT !.code = [@ EXCEPT ![p.tail].next = i, ![i].pre = p.tail, ![i].next = Null],
                      !.tail = i]

Emit(p, op) == Append1(Make(p, op, Unset), Newest(p) + 1)

(* Mutant: what follows keeps its old link back.                           *)
InsertAfterHalf(p, first, second) ==
    CASE ~Running(p) -> p
      [] Running(p) /\ first \in {Null, Unset} -> Stop(p, "undefined")
      [] Running(p) /\ first \notin {Null, Unset} ->
            [p EXCEPT !.code = [@ EXCEPT ![second].next = p.code[first].next,
                                         ![second].pre = first,
                                         ![first].next = second]]

(* appendIR(first, second): between first and what follows it; the current *)
(* instruction stays.                                                      *)
InsertAfter(p, first, second) ==
    CASE ~Running(p) -> p
      [] Running(p) /\ first \in {Null, Unset} -> Stop(p, "undefined")
      [] Running(p) /\ first \notin {Null, Unset} ->
            LET follower == p.code[first].next
                linked == [p.code EXCEPT ![second].next = follower,
                                         ![second].pre = first,
                                         ![first].next = second]
            IN  [p EXCEPT !.code = IF follower = Null THEN linked
                                   ELSE [linked EXCEPT ![follower].pre = second]]

InsertBefore(p, i, new) ==
    CASE ~Running(p) -> p
      [] Running(p) /\ i \in {Null, Unset} -> Stop(p, "undefined")
      [] Running(p) /\ i \notin {Null, Unset} -> InsertAfter(p, p.code[i].pre, new)

(* Mutant: the number of the next label is not moved on.                   *)
FreshLabelSame(p) == p

(* Label(): the next number.                                               *)
FreshLabel(p) == IF Running(p) THEN [p EXCEPT !.labels = @ + 1] ELSE p

(* makeIRList(), and new IR(...) of which one is made.                     *)
MakeList(p, i) == IF Running(p) THEN [p EXCEPT !.lists = Append(@, <<i>>)] ELSE p
EmitListed(p, op) == MakeList(Emit(p, op), Newest(p) + 1)

Follow(p, l) == IF l \in {Null, Unset} THEN Stop(p, "undefined") ELSE p
CanFollow(p, l) == Running(p) /\ l \notin {Null, Unset}

(* Mutant: the second list is forgotten.                                   *)
MergeFirst(p, first, second) == Follow(Follow(p, first), second)

(* mergeChain(): the second list's instructions go to the end of the       *)
(* first, which is the result; the two may be one object.                  *)
Merge(p, first, second) ==
    IF CanFollow(p, first) /\ CanFollow(p, second)
    THEN [p EXCEPT !.lists[first] = @ \o p.lists[second]]
    ELSE Follow(Follow(p, first), second)
MergeOne(p, l, i) ==
    IF CanFollow(p, l) THEN [p EXCEPT !.lists[l] = Append(@, i)] ELSE Follow(p, l)

(* backPatch(): every instruction of the list, or the one, goes to label,  *)
(* whatever it had before.                                                 *)
InList(p, l, i) == \E j \in DOMAIN p.lists[l] : p.lists[l][j] = i
Patched(p, l, label) ==
    [i \in DOMAIN p.code |-> IF InList(p, l, i) THEN [p.code[i] EXCEPT !.dest = label] ELSE p.code[i]]
PatchList(p, l, label) == IF CanFollow(p, l) THEN [p EXCEPT !.code = Patched(p, l, label)] ELSE p
PatchAll(p, l, label) == Follow(PatchList(p, l, label), l)
PatchOne(p, i, label) == IF Running(p) THEN [p EXCEPT !.code[i].dest = label] ELSE p

(* One link on, or one back, along the chain; its ends stay where they are.*)
Onward(code, i) == IF code[i].next = Null THEN i ELSE code[i].next
Backward(code, i) == IF code[i].pre = Null THEN i ELSE code[i].pre

(* reSetCurrent(): the last instruction of the chain the current one is in.*)
ToEnd(p) ==
    LET last[n \in Nat] == IF n = 0 THEN p.tail ELSE Onward(p.code, last[n - 1])
    IN  IF Running(p) THEN [p EXCEPT !.tail = last[Newest(p)]] ELSE p

(* reSetCurrentFirst(i)->nextIR: the first instruction of the chain i is in*)
(* after its head.                                                         *)
StartOf(p, i) ==
    LET back[n \in Nat] == IF n = 0 THEN i ELSE Backward(p.code, back[n - 1])
    IN  [p |-> Follow(p, i),
         first |-> IF CanFollow(p, i) THEN p.code[back[Newest(p)]].next ELSE Null]

(* The chain that starts at first goes after the current instruction; its  *)
(* link back names the instruction at.                                     *)
LinkChain(p, first, at) ==
    IF Running(p)
    THEN [p EXCEPT !.code = [@ EXCEPT ![p.tail].next = first, ![first].pre = at]]
    ELSE p

(* What print(begin) shows: the instructions after begin in its chain.     *)
Printed(code, begin) ==
    LET at[n \in Nat] == IF n = 0 THEN begin ELSE Onward(code, at[n - 1])
    IN  {at[n] : n \in 1 .. Len(code)} \ {begin}
=============================================================================
