---------------------------- MODULE SymbolTable ----------------------------
(***************************************************************************)
(* The open-addressing hash table behind each kind of name of a scope      *)
(* (includes/table.h, Table<Identifier*, const char*>), as operators on a  *)
(* record.  An identifier stands for its name; Home is where the hash of a *)
(* name puts it.                                                           *)
(***************************************************************************)
EXTENDS Integers, FiniteSets

CONSTANTS
    Name,       \* the names a program declares
    Null,       \* an empty slot, and "not found"
    TableSize,  \* BASE_SIZE
    Home        \* strHash of a name, modulo the size of the table

ASSUME TableSizeAssumption == TableSize \in Nat \ {0}
ASSUME NullAssumption == Null \notin Name
ASSUME HomeAssumption == Home \in [Name -> 0..TableSize - 1]

Slots == 0..TableSize - 1
Tables == [slot : [Slots -> Name \cup {Null}], stored : Nat]
NewTable == [slot |-> [i \in Slots |-> Null], stored |-> 0]

(* checkSize() calls rePut() from this number of entries on.               *)
Threshold == TableSize \div 4 + TableSize \div 2

Held(t) == {t.slot[i] : i \in Slots} \ {Null}

(***************************************************************************)
(* find().  An occupied home slot answers for itself alone; an empty one   *)
(* sends the search to the next slot.  (From the last slot that one lies   *)
(* behind the array: whatever is read there, the answer is null.)          *)
(***************************************************************************)
FoundAnyone(t, n) ==    \* mutant: the names are not compared
    t.stored # 0 /\ t.slot[Home[n]] # Null
Found(t, n) ==
    LET h == Home[n]
    IN  /\ t.stored # 0
        /\ \/ t.slot[h] = n
           \/ t.slot[h] = Null /\ h + 1 \in Slots /\ t.slot[h + 1] = n

(***************************************************************************)
(* PutIntoTable().  The first free slot from home on is taken; there is no *)
(* wrap-around, so with none left the search and the write leave the       *)
(* array.                                                                  *)
(***************************************************************************)
Free(t, n) == {i \in Slots : Home[n] <= i /\ t.slot[i] = Null}
Overruns(t, n) == Free(t, n) = {}
LastFree(t, n) ==       \* mutant: the search goes downwards
    CHOOSE i \in Free(t, n) : \A j \in Free(t, n) : j <= i
FirstFree(t, n) ==
    CHOOSE i \in Free(t, n) : \A j \in Free(t, n) : i <= j
Put(t, n) ==
    [t EXCEPT !.slot[FirstFree(t, n)] = n, !.stored = @ + 1]

(* Growing puts the (null) entries of the new array into itself.           *)
GrowsEarly(t) ==        \* mutant: the new entry is counted already
    t.stored + 1 >= Threshold
Grows(t) == t.stored >= Threshold
=============================================================================
