----------------------------- MODULE Env_proofs -----------------------------
(***************************************************************************)
(* What holds of the environments for every table size, every hash and     *)
(* every sequence of declarations, uses, functions and blocks.             *)
(***************************************************************************)
EXTENDS EnvProps, SequenceTheorems, FiniteSetTheorems, WellFoundedInduction, TLAPS

-----------------------------------------------------------------------------
(* The least and the greatest of a set of numbers.                         *)
LEMMA LeastExists ==
    ASSUME NEW D \in SUBSET Nat, D # {}
    PROVE  \E i \in D : \A j \in D : i <= j
<1>1. PICK i \in D : \A j \in D : ~ (<<j, i>> \in OpToRel(<, Nat))
  BY WFMin, NatLessThanWellFounded, Zenon
<1>2. \A j \in D : ~ (j < i)
  BY <1>1, Zenon DEF OpToRel
<1> QED
  BY <1>2

LEMMA GreatestExists ==
    ASSUME NEW m \in Nat, NEW D \in SUBSET (1 .. m), D # {}
    PROVE  \E i \in D : \A j \in D : j <= i
<1> DEFINE E == {e \in Nat : \E i \in D : e = m - i}
<1>0. \A i \in D : m - i \in E
  OBVIOUS
<1>1. E \in SUBSET Nat /\ E # {}
  BY <1>0
<1>2. PICK e \in E : \A f \in E : e <= f
  BY <1>1, LeastExists
<1>3. PICK i \in D : e = m - i
  OBVIOUS
<1>4. \A j \in D : j <= i
  <2> TAKE j \in D
  <2>1. m - j \in E
    BY <1>0
  <2> QED
    BY <1>2, <1>3, <2>1
<1> QED
  BY <1>4

LEMMA InnermostExists ==
    ASSUME NEW m \in Nat, NEW D \in SUBSET (1 .. m), D # {}
    PROVE  Innermost(D) \in D /\ \A j \in D : j <= Innermost(D)
BY GreatestExists, Zenon DEF Innermost

-----------------------------------------------------------------------------
(* A table.                                                                *)
LEMMA SlotsFinite ==
    /\ TableSize \in Nat \ {0}
    /\ \A S \in SUBSET Slots : IsFiniteSet(S) /\ Cardinality(S) \in Nat
<1>1. IsFiniteSet(Slots)
  BY TableSizeAssumption, FS_Interval DEF Slots
<1> QED
  BY <1>1, TableSizeAssumption, FS_Subset, FS_CardinalityType

LEMMA HomeIsSlot ==
    ASSUME NEW n \in Name
    PROVE  Home[n] \in Slots /\ n # Null
BY HomeAssumption, NullAssumption DEF Slots

LEMMA FirstFreeIsFirst ==
    ASSUME NEW t \in Tables, NEW n \in Name, ~Overruns(t, n)
    PROVE  /\ FirstFree(t, n) \in Slots
           /\ Home[n] <= FirstFree(t, n)
           /\ t.slot[FirstFree(t, n)] = Null
           /\ \A j \in Home[n] .. FirstFree(t, n) - 1 : t.slot[j] # Null
<1> DEFINE D == Free(t, n)
<1>1. D \in SUBSET Nat /\ D # {}
  BY TableSizeAssumption DEF Free, Slots, Overruns
<1>2. \E i \in D : \A j \in D : i <= j
  BY <1>1, LeastExists
<1>3. FirstFree(t, n) \in D /\ \A j \in D : FirstFree(t, n) <= j
  BY <1>2, Zenon DEF FirstFree
<1>4. Home[n] \in Slots
  BY HomeIsSlot
<1>5. ASSUME NEW j \in Home[n] .. FirstFree(t, n) - 1 PROVE t.slot[j] # Null
  <2>1. j \in Slots /\ ~ (FirstFree(t, n) <= j) /\ Home[n] <= j
    BY <1>3, <1>4, TableSizeAssumption DEF Free, Slots
  <2> QED
    BY <1>3, <2>1 DEF Free
<1> QED
  BY <1>3, <1>5 DEF Free

(* The parts of the invariant about one table: TablesWellFormed's, and     *)
(* that while its names have homes of their own each one stands in its.    *)
Unbroken(t) ==
    \A i \in Slots : t.slot[i] # Null =>
        /\ Home[t.slot[i]] <= i
        /\ \A j \in Home[t.slot[i]] .. i : t.slot[j] # Null
ApartIn(t) == \A m, n \in Held(t) : Home[m] = Home[n] => m = n
AtHome(t) == ApartIn(t) => \A i \in Slots : t.slot[i] # Null => Home[t.slot[i]] = i

(* u is t with n put into it, but perhaps not counted.                     *)
Filled(t, u, n) == u.slot = [t.slot EXCEPT ![FirstFree(t, n)] = n]

LEMMA FilledHolds ==
    ASSUME NEW t \in Tables, NEW u, NEW n \in Name, ~Overruns(t, n), Filled(t, u, n)
    PROVE  /\ u.slot \in [Slots -> Name \cup {Null}]
           /\ Held(u) = Held(t) \cup {n}
           /\ Occupied(u) = Occupied(t) + 1
<1> DEFINE f == FirstFree(t, n)
<1>1. f \in Slots /\ t.slot[f] = Null /\ n # Null /\ t.slot \in [Slots -> Name \cup {Null}]
  BY FirstFreeIsFirst, HomeIsSlot DEF Tables
<1>2. \A i \in Slots : u.slot[i] = IF i = f THEN n ELSE t.slot[i]
  BY <1>1 DEF Filled
<1>3. Held(u) = Held(t) \cup {n}
  BY <1>1, <1>2 DEF Held
<1>4. {i \in Slots : u.slot[i] # Null} = {i \in Slots : t.slot[i] # Null} \cup {f}
  BY <1>1, <1>2
<1>5. f \notin {i \in Slots : t.slot[i] # Null}
  BY <1>1
<1>6. IsFiniteSet({i \in Slots : t.slot[i] # Null})
  BY SlotsFinite
<1>7. Occupied(u) = Occupied(t) + 1
  BY <1>4, <1>5, <1>6, FS_AddElement, Zenon DEF Occupied
<1> QED
  BY <1>1, <1>3, <1>7 DEF Filled

LEMMA FilledUnbroken ==
    ASSUME NEW t \in Tables, NEW u, NEW n \in Name, ~Overruns(t, n), Filled(t, u, n),
           Unbroken(t)
    PROVE  Unbroken(u)
<1> DEFINE f == FirstFree(t, n)
<1>1. /\ f \in Slots /\ Home[n] <= f /\ t.slot[f] = Null /\ n # Null
      /\ \A j \in Home[n] .. f - 1 : t.slot[j] # Null
      /\ t.slot \in [Slots -> Name \cup {Null}]
      /\ Slots \in SUBSET Nat
      /\ \A m \in Name : Home[m] \in Slots
  BY FirstFreeIsFirst, HomeIsSlot, TableSizeAssumption DEF Tables, Slots
<1>2. \A i \in Slots : u.slot[i] = IF i = f THEN n ELSE t.slot[i]
  BY <1>1 DEF Filled
<1> SUFFICES ASSUME NEW i \in Slots, u.slot[i] # Null
             PROVE  Home[u.slot[i]] <= i /\ \A j \in Home[u.slot[i]] .. i : u.slot[j] # Null
  BY DEF Unbroken
<1>3. u.slot[i] \in Name
  BY <1>1, <1>2
<1>4. CASE i = f
  <2>1. u.slot[i] = n
    BY <1>2, <1>4
  <2> HIDE DEF f
  <2>2. \A j \in Home[n] .. i : j \in Slots /\ (j = f \/ j \in Home[n] .. f - 1)
    <3>1. i \in 0 .. TableSize - 1 /\ Home[n] \in 0 .. TableSize - 1 /\ TableSize \in Nat
      BY <1>1, TableSizeAssumption DEF Slots
    <3> QED
      BY <1>4, <3>1 DEF Slots
  <2>3. \A j \in Home[n] .. i : u.slot[j] # Null
    BY <1>1, <1>2, <2>2
  <2> QED
    BY <1>1, <1>4, <2>1, <2>3
<1>5. CASE i # f
  <2>1. u.slot[i] = t.slot[i]
    BY <1>2, <1>5
  <2>2. Home[t.slot[i]] <= i /\ \A j \in Home[t.slot[i]] .. i : t.slot[j] # Null
    BY <2>1 DEF Unbroken
  <2>3. \A j \in Home[t.slot[i]] .. i : j \in Slots
    <3>1. Home[t.slot[i]] \in 0 .. TableSize - 1 /\ i \in 0 .. TableSize - 1 /\ TableSize \in Nat
      BY <1>1, <1>3, <2>1, TableSizeAssumption DEF Slots
    <3> HIDE DEF f
    <3> QED
      BY <3>1 DEF Slots
  <2> QED
    BY <1>1, <1>2, <2>1, <2>2, <2>3
<1> QED
  BY <1>4, <1>5

(* While names have homes of their own a name that is not found finds its  *)
(* home empty.                                                             *)
LEMMA HeldIsFound ==
    ASSUME NEW t \in Tables, NEW n \in Name, AtHome(t), ApartIn(t),
           t.stored = 0 => Held(t) = {}
    PROVE  Found(t, n) <=> n \in Held(t)
<1>1. Home[n] \in Slots /\ n # Null
  BY HomeIsSlot
<1>2. ASSUME Found(t, n) PROVE n \in Held(t)
  BY <1>1, <1>2 DEF Found, Held
<1>3. ASSUME n \in Held(t) PROVE Found(t, n)
  <2>1. PICK i \in Slots : t.slot[i] = n
    BY <1>3 DEF Held
  <2>2. Home[n] = i
    BY <1>1, <2>1 DEF AtHome
  <2> QED
    BY <1>3, <2>1, <2>2 DEF Found
<1> QED
  BY <1>2, <1>3

LEMMA FilledAtHome ==
    ASSUME NEW t \in Tables, NEW u, NEW n \in Name, ~Overruns(t, n), ~Found(t, n),
           Filled(t, u, n), AtHome(t), t.stored = 0 => Held(t) = {}
    PROVE  AtHome(u)
<1> SUFFICES ASSUME ApartIn(u)
             PROVE  \A i \in Slots : u.slot[i] # Null => Home[u.slot[i]] = i
  BY DEF AtHome
<1> DEFINE f == FirstFree(t, n)
<1>1. /\ f \in Slots /\ Home[n] <= f /\ t.slot[f] = Null
      /\ \A j \in Home[n] .. f - 1 : t.slot[j] # Null
      /\ t.slot \in [Slots -> Name \cup {Null}]
      /\ Home[n] \in Slots /\ n # Null /\ Slots \in SUBSET Nat
  BY FirstFreeIsFirst, HomeIsSlot, TableSizeAssumption DEF Tables, Slots
<1>2. \A i \in Slots : u.slot[i] = IF i = f THEN n ELSE t.slot[i]
  BY <1>1 DEF Filled
<1>3. Held(u) = Held(t) \cup {n}
  BY FilledHolds
<1>4. ApartIn(t)
  BY <1>3 DEF ApartIn
<1>5. n \notin Held(t)
  BY <1>4, HeldIsFound
<1>6. t.slot[Home[n]] = Null
  <2> SUFFICES ASSUME t.slot[Home[n]] # Null PROVE FALSE
    OBVIOUS
  <2>1. t.slot[Home[n]] \in Held(t) /\ Home[t.slot[Home[n]]] = Home[n]
    BY <1>1, <1>4 DEF Held, AtHome
  <2>2. t.slot[Home[n]] = n
    BY <1>3, <2>1 DEF ApartIn
  <2> QED
    BY <1>5, <2>1, <2>2
<1>7. f = Home[n]
  <2>1. f \in Nat /\ Home[n] \in Nat
    BY <1>1
  <2>2. Home[n] \notin Home[n] .. f - 1
    BY <1>1, <1>6
  <2> HIDE DEF f
  <2> QED
    BY <1>1, <2>1, <2>2
<1> QED
  BY <1>1, <1>2, <1>4, <1>7 DEF AtHome

-----------------------------------------------------------------------------
(* The invariant.                                                          *)
(* The global environment lies at the bottom, and no block directly on it. *)
Placed(e, i) == /\ e.role = "global" <=> i = 1
                /\ e.role = "block" => i >= 3

(* The tables of an environment, and what it counts of them.               *)
Probing(e) == \A k \in Kinds : Unbroken(e[k]) /\ AtHome(e[k])
Counting(e) ==
    /\ e.idCounts = Occupied(e.ids)
    /\ e.funcCounts = Occupied(e.funcs)
    /\ \A k \in Kinds : e[k].stored = Occupied(e[k])

EnvsGood ==
    \A i \in 1 .. Top :
        /\ Placed(scopes[i], i)
        /\ Probing(scopes[i])
        /\ status # "lost_in_rePut" => Counting(scopes[i])

GlobalAlone == strays = 0 => scopes[1].level = 0 /\ ~scopes[1].selfUp

IInv == TypeOK /\ EnvsGood /\ GlobalAlone

LEMMA KindsOfTables ==
    ASSUME NEW e \in Envs
    PROVE  /\ e["ids"] = e.ids /\ e["funcs"] = e.funcs
           /\ e.ids \in Tables /\ e.funcs \in Tables
BY DEF Envs, Kinds

LEMMA NewEnvGood ==
    ASSUME NEW role \in {"global", "function", "block"}, NEW level \in Int
    PROVE  LET e == NewEnv(role, level)
           IN  e \in Envs /\ Probing(e) /\ Counting(e)
<1>1. NewTable \in Tables
  BY DEF NewTable, Tables
<1>2. Unbroken(NewTable) /\ AtHome(NewTable)
  BY DEF NewTable, Unbroken, AtHome
<1>3. {i \in Slots : NewTable.slot[i] # Null} = {}
  BY DEF NewTable
<1>4. Occupied(NewTable) = 0 /\ NewTable.stored = 0
  BY <1>3, FS_EmptySet, Zenon DEF Occupied, NewTable
<1> DEFINE e == NewEnv(role, level)
<1>5. e \in Envs
  BY <1>1 DEF NewEnv, Envs
<1>6. \A k \in Kinds : e[k] = NewTable
  BY DEF NewEnv, Kinds
<1>7. /\ e.ids = NewTable /\ e.funcs = NewTable
      /\ e.idCounts = 0 /\ e.funcCounts = 0
  BY DEF NewEnv
<1> HIDE DEF e
<1>8. Probing(e) /\ Counting(e)
  BY <1>2, <1>4, <1>6, <1>7 DEF Probing, Counting
<1> QED
  BY <1>5, <1>8 DEF e

(* What a declaration that is not refused does to the current environment. *)
LEMMA PutIntoTable ==
    ASSUME NEW t \in Tables, NEW n \in Name, ~Overruns(t, n)
    PROVE  LET lost == [t EXCEPT !.slot = [t.slot EXCEPT ![FirstFree(t, n)] = n]]
           IN  /\ lost \in Tables /\ Filled(t, lost, n)
               /\ Put(t, n) \in Tables /\ Filled(t, Put(t, n), n)
               /\ Put(t, n).stored = t.stored + 1
<1> DEFINE f == FirstFree(t, n)
<1>1. f \in Slots
  BY FirstFreeIsFirst
<1> HIDE DEF f
<1>2. [t.slot EXCEPT ![f] = n] \in [Slots -> Name \cup {Null}]
  BY <1>1 DEF Tables
<1>3. t.stored + 1 \in Nat
  BY DEF Tables
<1>4. [t EXCEPT !.slot[f] = n, !.stored = @ + 1] \in Tables
  BY <1>2, <1>3 DEF Tables
<1>5. [t EXCEPT !.slot = [t.slot EXCEPT ![f] = n]] \in Tables
  BY <1>2 DEF Tables
<1>6. /\ [t EXCEPT !.slot[f] = n, !.stored = @ + 1].slot = [t.slot EXCEPT ![f] = n]
      /\ [t EXCEPT !.slot = [t.slot EXCEPT ![f] = n]].slot = [t.slot EXCEPT ![f] = n]
      /\ [t EXCEPT !.slot[f] = n, !.stored = @ + 1].stored = t.stored + 1
  BY DEF Tables
<1> QED
  BY <1>4, <1>5, <1>6 DEF f, Put, Filled

SameBut(e, g, k) ==
    /\ g.role = e.role /\ g.level = e.level
    /\ g.selfUp = e.selfUp /\ g.declaring = e.declaring
    /\ \A l \in Kinds \ {k} : g[l] = e[l]

WithIds(e, u, x) == [e EXCEPT !.ids = u, !.idCounts = x]
WithFuncs(e, u, x) == [e EXCEPT !.funcs = u, !.funcCounts = x]

(* g is e with another table of one kind, and counts of its own.           *)
Replaces(g, e, k, u, ids, funcs) ==
    /\ g \in Envs /\ SameBut(e, g, k) /\ g[k] = u
    /\ g.idCounts = ids /\ g.funcCounts = funcs

LEMMA IdsReplaced ==
    ASSUME NEW e \in Envs, NEW u \in Tables, NEW x \in Nat
    PROVE  Replaces(WithIds(e, u, x), e, "ids", u, x, e.funcCounts)
BY DEF Envs, SameBut, Kinds, WithIds, Replaces
LEMMA FuncsReplaced ==
    ASSUME NEW e \in Envs, NEW u \in Tables, NEW x \in Nat
    PROVE  Replaces(WithFuncs(e, u, x), e, "funcs", u, e.idCounts, x)
BY DEF Envs, SameBut, Kinds, WithFuncs, Replaces

Lost(e, k, n) == [e EXCEPT ![k].slot[FirstFree(e[k], n)] = n]
Kept(e, k, n) == Counted([e EXCEPT ![k] = Put(e[k], n)], k)

LEMMA Entered ==
    ASSUME NEW e \in Envs, NEW k \in Kinds, NEW n \in Name, ~Overruns(e[k], n)
    PROVE  /\ Lost(e, k, n) \in Envs /\ SameBut(e, Lost(e, k, n), k)
           /\ Filled(e[k], Lost(e, k, n)[k], n)
           /\ Kept(e, k, n) \in Envs /\ SameBut(e, Kept(e, k, n), k)
           /\ Filled(e[k], Kept(e, k, n)[k], n)
           /\ Kept(e, k, n)[k].stored = e[k].stored + 1
           /\ Kept(e, k, n).idCounts = e.idCounts + (IF k = "ids" THEN 1 ELSE 0)
           /\ Kept(e, k, n).funcCounts = e.funcCounts + (IF k = "ids" THEN 0 ELSE 1)
<1> DEFINE f == FirstFree(e[k], n)
           lost == [e[k] EXCEPT !.slot = [e[k].slot EXCEPT ![f] = n]]
           put == Put(e[k], n)
<1>1. e[k] \in Tables
  BY KindsOfTables DEF Kinds
<1>2. /\ lost \in Tables /\ Filled(e[k], lost, n)
      /\ put \in Tables /\ Filled(e[k], put, n)
      /\ put.stored = e[k].stored + 1
  BY <1>1, PutIntoTable
<1>3. /\ e.idCounts \in Nat /\ e.idCounts + 1 \in Nat
      /\ e.funcCounts \in Nat /\ e.funcCounts + 1 \in Nat
  BY DEF Envs
<1>4. Lost(e, k, n) = [e EXCEPT ![k] = lost]
  BY DEF Lost
<1> HIDE DEF lost, put, f
<1>5. lost \in Tables /\ put \in Tables
  BY <1>2
<1>6. CASE k = "ids"
  <2>1. Lost(e, k, n) = WithIds(e, lost, e.idCounts)
    BY <1>4, <1>6 DEF Envs, WithIds
  <2>2. Kept(e, k, n) = WithIds(e, put, e.idCounts + 1)
    BY <1>6 DEF Envs, Kept, Counted, WithIds, put
  <2>3. Replaces(Lost(e, k, n), e, k, lost, e.idCounts, e.funcCounts)
    <3>1. Replaces(WithIds(e, lost, e.idCounts), e, "ids", lost, e.idCounts, e.funcCounts)
      BY <1>5, <1>3, IdsReplaced
    <3> QED
      BY <3>1, <2>1, <1>6, Zenon
  <2>4. Replaces(Kept(e, k, n), e, k, put, e.idCounts + 1, e.funcCounts)
    <3>1. Replaces(WithIds(e, put, e.idCounts + 1), e, "ids", put, e.idCounts + 1, e.funcCounts)
      BY <1>5, <1>3, IdsReplaced
    <3> QED
      BY <3>1, <2>2, <1>6, Zenon
  <2>5. Lost(e, k, n)[k] = lost /\ Kept(e, k, n)[k] = put
    BY <2>3, <2>4, Zenon DEF Replaces
  <2>6. /\ Lost(e, k, n) \in Envs /\ SameBut(e, Lost(e, k, n), k)
        /\ Kept(e, k, n) \in Envs /\ SameBut(e, Kept(e, k, n), k)
    BY <2>3, <2>4, Zenon DEF Replaces
  <2>7. /\ Filled(e[k], Lost(e, k, n)[k], n) /\ Filled(e[k], Kept(e, k, n)[k], n)
        /\ Kept(e, k, n)[k].stored = e[k].stored + 1
    BY <1>2, <2>5, Zenon
  <2>8. Kept(e, k, n).idCounts = e.idCounts + 1 /\ Kept(e, k, n).funcCounts = e.funcCounts
    BY <2>4, Zenon DEF Replaces
  <2> QED
    BY <1>3, <1>6, <2>6, <2>7, <2>8
<1>7. CASE k = "funcs"
  <2>1. Lost(e, k, n) = WithFuncs(e, lost, e.funcCounts)
    BY <1>4, <1>7 DEF Envs, WithFuncs
  <2>2. Kept(e, k, n) = WithFuncs(e, put, e.funcCounts + 1)
    BY <1>7 DEF Envs, Kept, Counted, WithFuncs, put
  <2>3. Replaces(Lost(e, k, n), e, k, lost, e.idCounts, e.funcCounts)
    <3>1. Replaces(WithFuncs(e, lost, e.funcCounts), e, "funcs", lost, e.idCounts, e.funcCounts)
      BY <1>5, <1>3, FuncsReplaced
    <3> QED
      BY <3>1, <2>1, <1>7, Zenon
  <2>4. Replaces(Kept(e, k, n), e, k, put, e.idCounts, e.funcCounts + 1)
    <3>1. Replaces(WithFuncs(e, put, e.funcCounts + 1), e, "funcs", put, e.idCounts, e.funcCounts + 1)
      BY <1>5, <1>3, FuncsReplaced
    <3> QED
      BY <3>1, <2>2, <1>7, Zenon
  <2>5. Lost(e, k, n)[k] = lost /\ Kept(e, k, n)[k] = put
    BY <2>3, <2>4, Zenon DEF Replaces
  <2>6. /\ Lost(e, k, n) \in Envs /\ SameBut(e, Lost(e, k, n), k)
        /\ Kept(e, k, n) \in Envs /\ SameBut(e, Kept(e, k, n), k)
    BY <2>3, <2>4, Zenon DEF Replaces
  <2>7. /\ Filled(e[k], Lost(e, k, n)[k], n) /\ Filled(e[k], Kept(e, k, n)[k], n)
        /\ Kept(e, k, n)[k].stored = e[k].stored + 1
    BY <1>2, <2>5, Zenon
  <2>8. Kept(e, k, n).funcCounts = e.funcCounts + 1 /\ Kept(e, k, n).idCounts = e.idCounts
    BY <2>4, Zenon DEF Replaces
  <2> QED
    BY <1>3, <1>7, <2>6, <2>7, <2>8
<1> QED
  BY <1>6, <1>7 DEF Kinds

LEMMA ScopesTyped ==
    ASSUME TypeOK
    PROVE  /\ scopes \in Seq(Envs) /\ Top \in Nat /\ Top >= 1 /\ Top <= MaxDepth
           /\ scopes = [i \in 1 .. Top |-> scopes[i]]
           /\ \A i \in 1 .. Top : scopes[i] \in Envs
           /\ Current \in Envs
           /\ \A i \in 1 .. Top : \A k \in Kinds : scopes[i][k] \in Tables
<1>1. scopes \in Seq(Envs) /\ Top \in 1 .. MaxDepth
  BY DEF TypeOK
<1>2. /\ Top \in Nat /\ Top >= 1 /\ Top <= MaxDepth
      /\ \A i \in 1 .. Top : scopes[i] \in Envs
  BY <1>1, BoundsAssumption DEF Top
<1>3. Current \in Envs
  BY <1>2 DEF Current
<1>4. scopes = [i \in 1 .. Top |-> scopes[i]]
  BY <1>1 DEF Top
<1>5. ASSUME NEW i \in 1 .. Top, NEW k \in Kinds PROVE scopes[i][k] \in Tables
  <2>1. scopes[i].ids \in Tables /\ scopes[i].funcs \in Tables
    BY <1>2, KindsOfTables
  <2> QED
    BY <2>1 DEF Kinds
<1> QED
  BY <1>1, <1>2, <1>3, <1>4, <1>5

(* A declaration that is neither refused nor lost puts its name into the   *)
(* first free slot of the current environment.                             *)
LEMMA Declaring ==
    ASSUME TypeOK, NEW n \in Name, NEW k \in Kinds, NewIdentifier(n, k),
           ~Found(Current[k], n), ~Overruns(Current[k], n)
    PROVE  \/ /\ scopes' = [scopes EXCEPT ![Top] = Lost(Current, k, n)]
              /\ status' = "lost_in_rePut" /\ Grows(Current[k])
           \/ /\ scopes' = [scopes EXCEPT ![Top] = Kept(Current, k, n)]
              /\ status' = status
<1>1. scopes \in Seq(Envs) /\ Top \in 1 .. Len(scopes)
  BY ScopesTyped DEF Top
<1>2. CASE scopes' = [scopes EXCEPT ![Top][k].slot[FirstFree(Current[k], n)] = n]
            /\ status' = "lost_in_rePut" /\ Grows(Current[k])
  <2>1. scopes' = [scopes EXCEPT ![Top] = Lost(Current, k, n)]
    BY <1>1, <1>2 DEF Lost, Current
  <2> QED
    BY <1>2, <2>1, Zenon
<1>3. CASE scopes' = [scopes EXCEPT ![Top] = Counted([@ EXCEPT ![k] = Put(Current[k], n)], k)]
            /\ status' = status
  <2>1. scopes' = [scopes EXCEPT ![Top] = Kept(Current, k, n)]
    BY <1>1, <1>3 DEF Kept, Current
  <2> QED
    BY <1>3, <2>1, Zenon
<1> QED
  BY <1>2, <1>3 DEF NewIdentifier

(* A table that holds nothing counts nothing.                              *)
LEMMA EmptyTable ==
    ASSUME NEW t \in Tables, t.stored = Occupied(t)
    PROVE  t.stored = 0 => Held(t) = {}
<1> DEFINE D == {i \in Slots : t.slot[i] # Null}
<1>1. IsFiniteSet(D)
  BY SlotsFinite
<1>2. ASSUME t.stored = 0 PROVE D = {}
  BY <1>1, <1>2, FS_EmptySet, Zenon DEF Occupied
<1> QED
  BY <1>2 DEF Held

(* The environment a declaration leaves is as good as the one it found.    *)
LEMMA EnteredGood ==
    ASSUME NEW e \in Envs, NEW k \in Kinds, NEW n \in Name, Probing(e), Counting(e),
           ~Overruns(e[k], n), ~Found(e[k], n)
    PROVE  /\ Probing(Lost(e, k, n))
           /\ Probing(Kept(e, k, n)) /\ Counting(Kept(e, k, n))
<1>1. e[k] \in Tables /\ e.ids \in Tables /\ e.funcs \in Tables
  BY KindsOfTables DEF Kinds
<1>2. e[k].stored = 0 => Held(e[k]) = {}
  BY <1>1, EmptyTable DEF Counting
<1>3. \A u : Filled(e[k], u, n) =>
         Unbroken(u) /\ AtHome(u) /\ Occupied(u) = Occupied(e[k]) + 1
  BY <1>1, <1>2, FilledUnbroken, FilledAtHome, FilledHolds DEF Probing
<1>4. ASSUME NEW g, SameBut(e, g, k), Filled(e[k], g[k], n)
      PROVE  Probing(g)
  BY <1>3, <1>4 DEF Probing, SameBut
<1>5. Probing(Lost(e, k, n)) /\ Probing(Kept(e, k, n))
  BY <1>4, Entered
<1>6. Counting(Kept(e, k, n))
  <2> DEFINE g == Kept(e, k, n)
  <2>1. /\ SameBut(e, g, k) /\ Occupied(g[k]) = Occupied(e[k]) + 1
        /\ g[k].stored = e[k].stored + 1
        /\ g.idCounts = e.idCounts + (IF k = "ids" THEN 1 ELSE 0)
        /\ g.funcCounts = e.funcCounts + (IF k = "ids" THEN 0 ELSE 1)
    BY <1>3, Entered
  <2>2. /\ e.idCounts = Occupied(e["ids"]) /\ e.funcCounts = Occupied(e["funcs"])
        /\ e.idCounts \in Nat /\ e.funcCounts \in Nat
        /\ \A l \in Kinds : e[l].stored = Occupied(e[l])
    BY DEF Counting, Envs
  <2> SUFFICES Counting(g)
    OBVIOUS
  <2> HIDE DEF g
  <2>3. \A l \in Kinds : g[l].stored = Occupied(g[l])
    BY <2>1, <2>2 DEF SameBut
  <2>4. CASE k = "ids"
    <3>1. g["funcs"] = e["funcs"]
      BY <2>1, <2>4 DEF SameBut, Kinds
    <3>2. g.idCounts = Occupied(g["ids"]) /\ g.funcCounts = Occupied(g["funcs"])
      BY <2>1, <2>2, <2>4, <3>1
    <3> QED
      BY <2>3, <3>2 DEF Counting
  <2>5. CASE k = "funcs"
    <3>1. g["ids"] = e["ids"]
      BY <2>1, <2>5 DEF SameBut, Kinds
    <3>2. g.idCounts = Occupied(g["ids"]) /\ g.funcCounts = Occupied(g["funcs"])
      BY <2>1, <2>2, <2>5, <3>1
    <3> QED
      BY <2>3, <3>2 DEF Counting
  <2> QED
    BY <2>4, <2>5 DEF Kinds
<1> QED
  BY <1>5, <1>6

(* An environment is replaced by one of its place and as good as it.       *)
LEMMA ReplacedGood ==
    ASSUME IInv, NEW g \in Envs, scopes' = [scopes EXCEPT ![Top] = g],
           Probing(g), Placed(g, Top), status' # "lost_in_rePut" => Counting(g),
           Running, g.level = Current.level, g.selfUp = Current.selfUp, strays' = strays
    PROVE  scopes' \in Seq(Envs) /\ Top' = Top /\ EnvsGood' /\ GlobalAlone'
<1>1. /\ scopes' \in Seq(Envs) /\ Len(scopes') = Len(scopes)
      /\ \A i \in 1 .. Len(scopes) : scopes'[i] = IF i = Top THEN g ELSE scopes[i]
  BY ScopesTyped, ExceptSeq DEF IInv, Top
<1>2. Top' = Top /\ \A i \in 1 .. Top : scopes'[i] = IF i = Top THEN g ELSE scopes[i]
  BY <1>1 DEF Top
<1>3. Top \in Nat /\ Top >= 1
  BY ScopesTyped DEF IInv
<1>4. \A i \in 1 .. Top' :
         /\ Placed(scopes'[i], i)
         /\ Probing(scopes'[i])
         /\ status' # "lost_in_rePut" => Counting(scopes'[i])
  <2> SUFFICES ASSUME NEW i \in 1 .. Top
               PROVE  /\ Placed(scopes'[i], i)
                      /\ Probing(scopes'[i])
                      /\ status' # "lost_in_rePut" => Counting(scopes'[i])
    BY <1>2
  <2>1. CASE i = Top
    BY <1>2, <2>1
  <2>2. CASE i # Top
    BY <1>2, <2>2 DEF IInv, EnvsGood, Running
  <2> QED
    BY <2>1, <2>2
<1>5. EnvsGood'
  BY <1>4 DEF EnvsGood, Placed, Probing, Counting
<1>6. GlobalAlone'
  BY <1>2, <1>3 DEF IInv, GlobalAlone, Current
<1> QED
  BY <1>1, <1>2, <1>5, <1>6

LEMMA NewIdentifierKeeps ==
    ASSUME IInv, NEW n \in Name, NEW k \in Kinds, NewIdentifier(n, k)
    PROVE  IInv'
<1>1. /\ TypeOK /\ EnvsGood /\ GlobalAlone /\ Running
      /\ defining' = (k = "funcs") /\ strays' = strays
      /\ answer'.depth = Top /\ answer'.says \in Says /\ status' \in Statuses
      /\ answer' \in [says : Says, depth : {Top}]
  BY DEF IInv, NewIdentifier, Says, Statuses, TypeOK
<1>2. CASE scopes' = scopes
  BY <1>1, <1>2, ScopesTyped
     DEF IInv, TypeOK, EnvsGood, GlobalAlone, Running, Top, Placed, Probing, Counting
<1>3. CASE scopes' # scopes
  <2>1. /\ Current \in Envs /\ Placed(Current, Top) /\ Probing(Current) /\ Counting(Current)
        /\ Top \in 1 .. MaxDepth
    BY <1>1, ScopesTyped DEF EnvsGood, Running, Current
  <2>2. ~Found(Current[k], n) /\ ~Overruns(Current[k], n)
    BY <1>1, <1>3 DEF NewIdentifier
  <2> DEFINE lost == Lost(Current, k, n)
             kept == Kept(Current, k, n)
  <2>3. /\ lost \in Envs /\ SameBut(Current, lost, k) /\ Probing(lost)
        /\ kept \in Envs /\ SameBut(Current, kept, k) /\ Probing(kept) /\ Counting(kept)
    BY <2>1, <2>2, Entered, EnteredGood
  <2> HIDE DEF lost, kept
  <2>4. Placed(lost, Top) /\ Placed(kept, Top)
    BY <2>1, <2>3 DEF Placed, SameBut
  <2>5. scopes' \in Seq(Envs) /\ Top' = Top /\ EnvsGood' /\ GlobalAlone'
    <3>1. CASE scopes' = [scopes EXCEPT ![Top] = lost] /\ status' = "lost_in_rePut"
      BY <1>1, <2>3, <2>4, <3>1, ReplacedGood DEF SameBut
    <3>2. CASE scopes' = [scopes EXCEPT ![Top] = kept] /\ status' = status
      BY <1>1, <2>3, <2>4, <3>2, ReplacedGood DEF SameBut
    <3> QED
      BY <1>1, <2>2, <3>1, <3>2, Declaring DEF lost, kept
  <2> QED
    BY <1>1, <2>1, <2>5 DEF IInv, TypeOK, Top
<1> QED
  BY <1>2, <1>3

LEMMA UseKeeps ==
    ASSUME IInv, NEW n \in Name, IDtree(n)
    PROVE  IInv'
<1>1. \A k \in Kinds : Depths(n, k) # {} => Innermost(Depths(n, k)) \in 1 .. Top
  BY ScopesTyped, InnermostExists DEF IInv, Depths
<1>2. /\ answer' \in [says : Says, depth : 0 .. MaxDepth]
      /\ status' \in Statuses
  BY <1>1, ScopesTyped, BoundsAssumption DEF IInv, IDtree, TypeOK, Says, Statuses, Kinds
<1>3. /\ scopes' = scopes /\ defining' = defining /\ strays' = strays
      /\ status = "running"
  BY DEF IDtree, Running
<1> QED
  BY <1>2, <1>3
     DEF IInv, TypeOK, EnvsGood, GlobalAlone, Top, Placed, Probing, Counting

LEMMA EnterKeeps ==
    ASSUME IInv, NEW role \in {"function", "block"}, EnterEnv(role),
           role = "block" => Current.role # "global"
    PROVE  IInv'
<1> DEFINE g == [Current EXCEPT !.declaring = (role = "function")]
           e == NewEnv(role, 2)
           under == [scopes EXCEPT ![Top] = g]
<1>1. /\ TypeOK /\ EnvsGood /\ GlobalAlone /\ status = "running"
      /\ status' = status /\ answer' = answer /\ strays' = strays /\ defining' = FALSE
      /\ Top < MaxDepth /\ MaxDepth \in Nat
  BY BoundsAssumption DEF IInv, EnterEnv, Running
<1>2. scopes' = Append(under, e)
  BY ScopesTyped DEF IInv, EnterEnv, Current
<1>3. g \in Envs /\ Probing(g) /\ Counting(g) /\ Placed(g, Top) /\ g.level = Current.level
      /\ g.selfUp = Current.selfUp
  <2>1. /\ Current \in Envs /\ Probing(Current) /\ Counting(Current)
        /\ Placed(Current, Top)
    BY <1>1, ScopesTyped DEF EnvsGood, Current
  <2>2. g \in Envs /\ SameBut(Current, [g EXCEPT !.declaring = Current.declaring], "none")
    BY <2>1 DEF Envs, SameBut, Kinds
  <2> QED
    BY <2>1, <2>2 DEF Envs, Probing, Counting, Placed, Kinds
<1>4. e \in Envs /\ Probing(e) /\ Counting(e) /\ e.role = role
  BY NewEnvGood DEF NewEnv
<1>5. Top \in Nat /\ Top >= 1
  BY <1>1, ScopesTyped
<1>6. Placed(e, Top + 1)
  BY <1>1, <1>4, <1>5 DEF EnvsGood, Placed, Current
<1> HIDE DEF g, e
<1>7. /\ under \in Seq(Envs) /\ Len(under) = Top
      /\ \A i \in 1 .. Top : under[i] = IF i = Top THEN g ELSE scopes[i]
  BY <1>1, <1>3, <1>5, ScopesTyped, ExceptSeq DEF Top
<1> HIDE DEF under
<1>8. /\ scopes' \in Seq(Envs) /\ Top' = Top + 1
      /\ \A i \in 1 .. Top : scopes'[i] = IF i = Top THEN g ELSE scopes[i]
      /\ scopes'[Top + 1] = e
  BY <1>2, <1>4, <1>7, AppendProperties DEF Top
<1>9. EnvsGood'
  <2> SUFFICES ASSUME NEW i \in 1 .. Top'
               PROVE  Placed(scopes'[i], i) /\ Probing(scopes'[i]) /\ Counting(scopes'[i])
    BY DEF EnvsGood, Placed, Probing, Counting
  <2>1. CASE i = Top + 1
    BY <1>4, <1>6, <1>8, <2>1
  <2>2. CASE i = Top
    BY <1>3, <1>5, <1>8, <2>2
  <2>3. CASE i < Top
    BY <1>1, <1>5, <1>8, <2>3 DEF EnvsGood
  <2> QED
    BY <1>5, <1>8, <2>1, <2>2, <2>3
<1>10. GlobalAlone'
  BY <1>1, <1>3, <1>5, <1>8 DEF GlobalAlone, Current
<1>11. Top' \in 1 .. MaxDepth
  BY <1>1, <1>5, <1>8
<1>12. TypeOK'
  BY <1>1, <1>8, <1>11, Zenon DEF TypeOK
<1> QED
  BY <1>9, <1>10, <1>12 DEF IInv

Like(e, g) ==
    /\ g.role = e.role /\ g.idCounts = e.idCounts /\ g.funcCounts = e.funcCounts
    /\ \A k \in Kinds : g[k] = e[k]

(* A block ends: one or two environments are gone, and of those that stay  *)
(* nothing changes but the level of the last.                              *)
LEMMA Leaving ==
    ASSUME IInv, LeaveBlock
    PROVE  /\ Top \in Nat /\ Top >= 3
           /\ \E d \in {1, 2} :
                 /\ scopes' \in Seq(Envs) /\ Len(scopes') = Top - d
                 /\ \A i \in 1 .. Top - d :
                       Like(scopes[i], scopes'[i]) /\ (i < Top - 1 => scopes'[i] = scopes[i])
<1> DEFINE m == Top - 1
           g == [scopes[m] EXCEPT !.level = @ - 1]
           under == [scopes EXCEPT ![m] = g]
           d == IF scopes[m].role = "function" THEN 2 ELSE 1
<1>1. /\ TypeOK /\ EnvsGood /\ Top \in Nat
  BY ScopesTyped DEF IInv
<1>2. Top >= 3
  BY <1>1, ScopesTyped DEF LeaveBlock, EnvsGood, Placed, Current
<1>3. m \in 1 .. Top /\ m - 1 \in 1 .. Top /\ m < Top /\ d \in {1, 2}
  BY <1>1, <1>2
<1>4. g \in Envs /\ Like(scopes[m], g)
  <2>1. scopes[m] \in Envs
    BY <1>1, <1>3, ScopesTyped
  <2> QED
    BY <2>1 DEF Envs, Like, Kinds
<1> HIDE DEF g
<1>5. /\ under \in Seq(Envs) /\ Len(under) = Top
      /\ \A i \in 1 .. Top : under[i] = IF i = m THEN g ELSE scopes[i]
  BY <1>1, <1>3, <1>4, ScopesTyped, ExceptSeq DEF Top
<1>6. scopes' = IF scopes[m].role = "function"
                THEN SubSeq(SubSeq(under, 1, m), 1, Top - 2) ELSE SubSeq(under, 1, m)
  BY DEF LeaveBlock, g
<1> HIDE DEF under
<1>7. /\ SubSeq(under, 1, m) \in Seq(Envs) /\ Len(SubSeq(under, 1, m)) = m
      /\ \A i \in 1 .. m : SubSeq(under, 1, m)[i] = under[i]
  BY <1>1, <1>3, <1>5, SubSeqProperties
<1>8. /\ scopes' \in Seq(Envs) /\ Len(scopes') = Top - d
      /\ \A i \in 1 .. Top - d : scopes'[i] = under[i]
  <2>1. CASE scopes[m].role = "function"
    <3> DEFINE in == SubSeq(under, 1, m)
    <3> HIDE DEF in
    <3>1. /\ in \in Seq(Envs) /\ Len(in) = m /\ \A i \in 1 .. m : in[i] = under[i]
      BY <1>7 DEF in
    <3>2. d = 2 /\ scopes' = SubSeq(in, 1, Top - 2)
      BY <1>6, <2>1 DEF in
    <3>3. Top - 2 \in Int /\ 1 <= Top - 2 /\ Top - 2 <= m
      BY <1>1, <1>2
    <3>4. /\ SubSeq(in, 1, Top - 2) \in Seq(Envs) /\ Len(SubSeq(in, 1, Top - 2)) = Top - 2
          /\ \A i \in 1 .. Top - 2 : SubSeq(in, 1, Top - 2)[i] = in[i]
      BY <3>1, <3>3, SubSeqProperties
    <3> QED
      BY <1>1, <3>1, <3>2, <3>3, <3>4
  <2>2. CASE scopes[m].role # "function"
    BY <1>1, <1>6, <1>7, <2>2
  <2> QED
    BY <2>1, <2>2
<1>9. ASSUME NEW i \in 1 .. Top - d
      PROVE  Like(scopes[i], scopes'[i]) /\ (i < Top - 1 => scopes'[i] = scopes[i])
  <2>1. i \in 1 .. Top /\ scopes'[i] = IF i = m THEN g ELSE scopes[i]
    BY <1>1, <1>3, <1>5, <1>8
  <2>2. CASE i = m
    BY <1>1, <1>4, <2>1, <2>2
  <2>3. CASE i # m
    BY <2>1, <2>3 DEF Like
  <2> QED
    BY <2>2, <2>3
<1> HIDE DEF d
<1> QED
  BY <1>1, <1>2, <1>3, <1>8, <1>9

LEMMA LeaveKeeps ==
    ASSUME IInv, LeaveBlock
    PROVE  IInv'
<1>1. /\ TypeOK /\ EnvsGood /\ GlobalAlone /\ status = "running"
      /\ status' = status /\ answer' = answer /\ strays' = strays /\ defining' = FALSE
      /\ Top \in Nat /\ Top <= MaxDepth /\ MaxDepth \in Nat /\ Top >= 3
  BY BoundsAssumption, ScopesTyped, Leaving DEF IInv, LeaveBlock, Running
<1>2. PICK d \in {1, 2} :
        /\ scopes' \in Seq(Envs) /\ Top' = Top - d
        /\ \A i \in 1 .. Top - d :
              Like(scopes[i], scopes'[i]) /\ (i < Top - 1 => scopes'[i] = scopes[i])
  BY Leaving DEF Top
<1>3. EnvsGood'
  <2> SUFFICES ASSUME NEW i \in 1 .. Top - d
               PROVE  Placed(scopes'[i], i) /\ Probing(scopes'[i]) /\ Counting(scopes'[i])
    BY <1>2 DEF EnvsGood, Placed, Probing, Counting
  <2>1. Placed(scopes[i], i) /\ Probing(scopes[i]) /\ Counting(scopes[i])
    BY <1>1 DEF EnvsGood
  <2> QED
    BY <1>2, <2>1 DEF Like, Placed, Probing, Counting, Kinds
<1>4. GlobalAlone'
  <2>1. 1 \in 1 .. Top - d /\ 1 < Top - 1
    BY <1>1
  <2>2. scopes'[1] = scopes[1]
    BY <1>2, <2>1
  <2> QED
    BY <1>1, <2>2 DEF GlobalAlone
<1>5. Top' \in 1 .. MaxDepth
  BY <1>1, <1>2
<1>6. TypeOK'
  BY <1>1, <1>2, <1>5, Zenon DEF TypeOK
<1> QED
  BY <1>3, <1>4, <1>6 DEF IInv

LEMMA StrayKeeps ==
    ASSUME IInv, StrayBrace
    PROVE  IInv'
<1> DEFINE e == NewEnv("global", 2)
           g == [e EXCEPT !.selfUp = TRUE]
<1>1. /\ TypeOK /\ status = "running" /\ Top = 1 /\ strays \in 0 .. MaxStray
      /\ strays < MaxStray /\ scopes' = <<g>> /\ strays' = strays + 1
      /\ status' = status /\ answer' = answer /\ defining' = FALSE
  BY DEF IInv, TypeOK, StrayBrace, Running
<1>2. g \in Envs /\ Probing(g) /\ Counting(g) /\ Placed(g, 1)
  <2>1. e \in Envs /\ Probing(e) /\ Counting(e) /\ Placed(e, 1)
    BY NewEnvGood DEF NewEnv, Placed
  <2> HIDE DEF e
  <2> QED
    BY <2>1 DEF Envs, Probing, Counting, Placed, Kinds
<1> HIDE DEF g
<1>3. scopes' \in Seq(Envs) /\ Top' = 1 /\ scopes'[1] = g
  BY <1>1, <1>2 DEF Top
<1>4. EnvsGood'
  BY <1>2, <1>3 DEF EnvsGood, Placed, Probing, Counting
<1>5. strays' \in 0 .. MaxStray /\ strays' # 0
  BY <1>1, BoundsAssumption
<1>6. TypeOK'
  BY <1>1, <1>3, <1>5 DEF TypeOK, Top
<1> QED
  BY <1>4, <1>5, <1>6 DEF IInv, GlobalAlone

-----------------------------------------------------------------------------
(* The invariant is one.                                                   *)
LEMMA InitGood == Init => IInv
<1> SUFFICES ASSUME Init PROVE IInv
  OBVIOUS
<1> DEFINE e == NewEnv("global", 0)
<1>1. /\ e \in Envs /\ Probing(e) /\ Counting(e) /\ Placed(e, 1)
      /\ e.level = 0 /\ ~e.selfUp
  BY NewEnvGood DEF NewEnv, Placed
<1>2. scopes = <<e>>
  BY DEF Init
<1> HIDE DEF e
<1>3. scopes \in Seq(Envs) /\ Top = 1 /\ scopes[1] = e
  BY <1>1, <1>2 DEF Top
<1>4. EnvsGood /\ GlobalAlone
  BY <1>1, <1>3 DEF EnvsGood, GlobalAlone
<1>5. /\ Top \in 1 .. MaxDepth /\ status \in Statuses /\ defining \in BOOLEAN
      /\ answer \in [says : Says, depth : 0 .. MaxDepth] /\ strays \in 0 .. MaxStray
  <2>1. /\ status = "running" /\ defining = FALSE /\ strays = 0
        /\ answer = [says |-> "nothing", depth |-> 0]
    BY DEF Init
  <2>2. MaxDepth \in Nat /\ MaxDepth >= 1 /\ MaxStray \in Nat
    BY BoundsAssumption
  <2>3. Top \in 1 .. MaxDepth
    BY <1>3, <2>2
  <2>4. answer \in [says : Says, depth : 0 .. MaxDepth]
    BY <2>1, <2>2 DEF Says
  <2>5. strays \in 0 .. MaxStray
    BY <2>1, <2>2
  <2>6. status \in Statuses /\ defining \in BOOLEAN
    BY <2>1 DEF Statuses
  <2> QED
    BY <2>3, <2>4, <2>5, <2>6
<1>6. TypeOK
  BY <1>3, <1>5 DEF TypeOK
<1> QED
  BY <1>4, <1>6 DEF IInv

LEMMA StepGood == IInv /\ [Next]_vars => IInv'
<1> SUFFICES ASSUME IInv, [Next]_vars PROVE IInv'
  OBVIOUS
<1>1. ASSUME NEW n \in Name, NEW k \in Kinds, NewIdentifier(n, k) PROVE IInv'
  BY <1>1, NewIdentifierKeeps
<1>2. ASSUME NEW n \in Name, IDtree(n) PROVE IInv'
  BY <1>2, UseKeeps
<1>3. ASSUME EnterFunction PROVE IInv'
  BY <1>3, EnterKeeps DEF EnterFunction
<1>4. ASSUME EnterBlock PROVE IInv'
  BY <1>4, EnterKeeps DEF EnterBlock
<1>5. ASSUME LeaveBlock PROVE IInv'
  BY <1>5, LeaveKeeps
<1>6. ASSUME StrayBrace PROVE IInv'
  BY <1>6, StrayKeeps
<1>7. CASE UNCHANGED vars
  BY <1>7 DEF vars, IInv, TypeOK, EnvsGood, GlobalAlone, Top, Placed, Probing, Counting
<1> QED
  BY <1>1, <1>2, <1>3, <1>4, <1>5, <1>6, <1>7 DEF Next

LEMMA AlwaysGood == Spec => []IInv
<1> QED
  BY InitGood, StepGood, PTL DEF Spec

(* The environments, the answers and the counters keep their types         *)
(* whatever the table size, the hash and the program.                      *)
THEOREM TypeCorrect == Spec => []TypeOK
<1>1. IInv => TypeOK
  BY DEF IInv
<1> QED
  BY <1>1, AlwaysGood, PTL

(* For every table size and every hash: no slot between the home of a name *)
(* and its own is ever empty, and stored, the counters of the environment  *)
(* and the entries of the array agree (PutIntoTable(), newIdentifier()).   *)
THEOREM TablesCorrect == Spec => []TablesWellFormed
<1>1. ASSUME IInv PROVE TablesWellFormed
  <2>1. EnvsGood
    BY <1>1 DEF IInv
  <2>2. ProbesUnbroken
    BY <2>1 DEF EnvsGood, Probing, Unbroken, ProbesUnbroken, AllTables
  <2>3. CountsAgree
    BY <2>1 DEF EnvsGood, Counting, CountsAgree
  <2> QED
    BY <2>2, <2>3 DEF TablesWellFormed
<1> QED
  BY <1>1, AlwaysGood, PTL

(* For every table size and every hash: a declared name that find() misses *)
(* has another name of its scope and kind in its home slot.                *)
THEOREM CollisionsOnly == Spec => []OnlyCollisionsHide
<1>1. ASSUME IInv PROVE OnlyCollisionsHide
  <2> SUFFICES ASSUME NEW i \in 1 .. Top, NEW k \in Kinds, NEW n \in Held(scopes[i][k]),
                      ~Found(scopes[i][k], n), scopes[i][k].stored > 0
               PROVE  scopes[i][k].slot[Home[n]] \notin {n, Null}
    BY DEF OnlyCollisionsHide, AllTables
  <2> DEFINE t == scopes[i][k]
  <2>1. t \in Tables /\ Unbroken(t)
    BY <1>1, ScopesTyped DEF IInv, EnvsGood, Probing
  <2> HIDE DEF t
  <2>2. PICK j \in Slots : t.slot[j] = n /\ n # Null
    BY DEF Held, t
  <2>3. n \in Name
    BY <2>1, <2>2 DEF Tables
  <2>4. Home[n] \in Home[n] .. j
    BY <2>1, <2>2, <2>3, HomeIsSlot, TableSizeAssumption DEF Unbroken, Slots
  <2>5. t.slot[Home[n]] # Null
    BY <2>1, <2>2, <2>4 DEF Unbroken
  <2>6. t.slot[Home[n]] # n
    BY <2>1 DEF Found, Tables, t
  <2> QED
    BY <2>5, <2>6 DEF t
<1> QED
  BY <1>1, AlwaysGood, PTL

(* However blocks and functions nest and end, the global environment stays *)
(* at level 0 until a stray brace replaces it.                             *)
THEOREM GlobalCorrect == Spec => []GlobalStaysGlobal
<1>1. IInv => GlobalStaysGlobal
  BY DEF IInv, GlobalAlone, GlobalStaysGlobal
<1> QED
  BY <1>1, AlwaysGood, PTL

LEMMA FoundIsHeld ==
    ASSUME NEW t \in Tables, NEW n \in Name, Found(t, n)
    PROVE  n \in Held(t)
BY HomeIsSlot DEF Found, Held

(* TE01 is never a false alarm, for every table size and every hash: the   *)
(* name was declared before in this very scope, and as the same kind.      *)
THEOREM NoFalseAlarm == Spec => NoFalseRedeclaration
<1>1. ASSUME IInv, [Next]_vars
      PROVE  [\A n \in Name, k \in Kinds :
                NewIdentifier(n, k) /\ answer'.says = "redeclared" => n \in Held(Current[k])]_vars
  <2> SUFFICES ASSUME NEW n \in Name, NEW k \in Kinds,
                      NewIdentifier(n, k), answer'.says = "redeclared"
               PROVE  n \in Held(Current[k])
    OBVIOUS
  <2>1. Current[k] \in Tables
    BY <1>1, ScopesTyped DEF IInv, Current
  <2>2. Found(Current[k], n)
    BY DEF NewIdentifier
  <2> QED
    BY <2>1, <2>2, FoundIsHeld
<1> QED
  BY <1>1, AlwaysGood, PTL DEF Spec, NoFalseRedeclaration

(* A use never finds what the source text does not have in scope, and no   *)
(* scope further in could have told, for every table size and every hash.  *)
THEOREM UsesCorrect == Spec => UsesAreInScope
<1>1. ASSUME IInv, [Next]_vars
      PROVE  [\A n \in Name :
                IDtree(n) /\ answer'.says \in Kinds =>
                    /\ n \in Held(scopes[answer'.depth][answer'.says])
                    /\ \A i \in answer'.depth + 1 .. Top :
                          n \in Held(scopes[i][answer'.says]) =>
                              scopes[i][answer'.says].slot[Home[n]] # n]_vars
  <2> SUFFICES ASSUME NEW n \in Name, IDtree(n), answer'.says \in Kinds
               PROVE  /\ n \in Held(scopes[answer'.depth][answer'.says])
                      /\ \A i \in answer'.depth + 1 .. Top :
                            n \in Held(scopes[i][answer'.says]) =>
                                scopes[i][answer'.says].slot[Home[n]] # n
    OBVIOUS
  <2> DEFINE k == answer'.says
             d == answer'.depth
  <2>1. Depths(n, k) # {} /\ d = Innermost(Depths(n, k))
    BY DEF IDtree, Kinds
  <2> HIDE DEF k, d
  <2>2. /\ TypeOK /\ k \in Kinds
    BY <1>1 DEF IInv, k
  <2>3. d \in Depths(n, k) /\ \A j \in Depths(n, k) : j <= d
    BY <2>1, <2>2, ScopesTyped, InnermostExists DEF Depths
  <2>4. d \in 1 .. Top /\ Found(scopes[d][k], n) /\ scopes[d][k] \in Tables
    BY <2>2, <2>3, ScopesTyped DEF Depths
  <2>5. n \in Held(scopes[d][k])
    BY <2>4, FoundIsHeld
  <2>6. ASSUME NEW i \in d + 1 .. Top, n \in Held(scopes[i][k]),
               scopes[i][k].slot[Home[n]] = n
        PROVE  FALSE
    <3>1. i \in 1 .. Top /\ ~ (i <= d)
      BY <2>2, <2>4, ScopesTyped
    <3>2. scopes[i][k].stored # 0
      BY <1>1, <2>2, <2>6, <3>1, ScopesTyped, EmptyTable
         DEF IInv, EnvsGood, Counting, IDtree, Running
    <3>3. Found(scopes[i][k], n)
      BY <2>6, <3>2 DEF Found
    <3> QED
      BY <2>3, <3>1, <3>3 DEF Depths
  <2> QED
    BY <2>5, <2>6 DEF k, d
<1> QED
  BY <1>1, AlwaysGood, PTL DEF Spec, UsesAreInScope

-----------------------------------------------------------------------------
(* The environments are a scope stack.                                     *)
Stacked == [Kinds -> SUBSET Name]

LEMMA HeldNames ==
    ASSUME NEW t \in Tables
    PROVE  Held(t) \in SUBSET Name
BY DEF Held, Tables

DeclaredOf(e) == [k \in Kinds |-> Held(e[k])]

LEMMA DeclaredInSequence ==
    ASSUME NEW s \in Seq(Envs)
    PROVE  LET d == [i \in 1 .. Len(s) |-> DeclaredOf(s[i])]
           IN  d \in Seq(Stacked) /\ Len(d) = Len(s)
<1>1. \A i \in 1 .. Len(s) : s[i] \in Envs
  OBVIOUS
<1>2. ASSUME NEW e \in Envs PROVE DeclaredOf(e) \in Stacked
  <2>1. e["ids"] \in Tables /\ e["funcs"] \in Tables
    BY KindsOfTables
  <2>2. \A k \in Kinds : Held(e[k]) \in SUBSET Name
    BY <2>1, HeldNames DEF Kinds
  <2> QED
    BY <2>2 DEF DeclaredOf, Stacked
<1>3. \A i \in 1 .. Len(s) : DeclaredOf(s[i]) \in Stacked
  BY <1>1, <1>2
<1>4. Len(s) \in Nat
  OBVIOUS
<1> QED
  BY <1>3, <1>4

LEMMA DeclaredTyped ==
    ASSUME TypeOK
    PROVE  /\ Declared \in Seq(Stacked) /\ Len(Declared) = Top
           /\ \A i \in 1 .. Top : Declared[i] = DeclaredOf(scopes[i])
           /\ \A i \in 1 .. Top : \A k \in Kinds : Declared[i][k] = Held(scopes[i][k])
<1>1. Declared = [i \in 1 .. Len(scopes) |-> DeclaredOf(scopes[i])]
  BY DEF Declared, DeclaredOf, Top
<1>2. Declared \in Seq(Stacked) /\ Len(Declared) = Top
  BY <1>1, ScopesTyped, DeclaredInSequence DEF Top
<1> QED
  BY <1>1, <1>2 DEF DeclaredOf, Top

LEMMA DeclaredNext ==
    ASSUME scopes' \in Seq(Envs)
    PROVE  /\ Declared' \in Seq(Stacked) /\ Len(Declared') = Len(scopes')
           /\ \A i \in 1 .. Len(scopes') : Declared'[i] = DeclaredOf(scopes'[i])
<1>1. Declared' = [i \in 1 .. Len(scopes') |-> DeclaredOf(scopes'[i])]
  BY DEF Declared, DeclaredOf, Top
<1>2. Declared' \in Seq(Stacked) /\ Len(Declared') = Len(scopes')
  BY <1>1, DeclaredInSequence
<1> QED
  BY <1>1, <1>2

(* What a table finds is what it holds.                                    *)
LEMMA FoundIsDeclared ==
    ASSUME IInv, Running, Apart, NEW i \in 1 .. Top, NEW k \in Kinds, NEW n \in Name
    PROVE  Found(scopes[i][k], n) <=> n \in Declared[i][k]
<1> DEFINE t == scopes[i][k]
<1>1. t \in Tables /\ AtHome(t) /\ t.stored = Occupied(t)
  BY ScopesTyped DEF IInv, EnvsGood, Probing, Counting, Running
<1>2. ApartIn(t)
  BY DEF Apart, ApartIn, AllTables
<1>3. Declared[i][k] = Held(t)
  BY DeclaredTyped DEF IInv
<1> HIDE DEF t
<1>4. Found(t, n) <=> n \in Held(t)
  BY <1>1, <1>2, EmptyTable, HeldIsFound
<1> QED
  BY <1>3, <1>4 DEF t

(* While every name has a home of its own, stored is how many there are.   *)
LEMMA StoredIsHeld ==
    ASSUME NEW t \in Tables, ApartIn(t), AtHome(t)
    PROVE  Cardinality(Held(t)) = Occupied(t)
<1> DEFINE D == {i \in Slots : t.slot[i] # Null}
           f == [i \in D |-> t.slot[i]]
<1>1. IsFiniteSet(D)
  BY SlotsFinite
<1>2. f \in Bijection(D, Held(t))
  <2>1. f \in [D -> Held(t)]
    BY DEF Held
  <2>2. \A i, j \in D : f[i] = f[j] => i = j
    BY DEF AtHome
  <2>3. \A n \in Held(t) : \E i \in D : f[i] = n
    BY DEF Held
  <2> QED
    BY <2>1, <2>2, <2>3 DEF Bijection, Injection, Surjection, IsInjective
<1>3. Cardinality(Held(t)) = Cardinality(D)
  BY <1>1, <1>2, FS_Bijection, Zenon DEF ExistsBijection
<1> QED
  BY <1>3 DEF Occupied

(* The set of scopes that find a name is the same to both.                 *)
LEMMA SameDepths ==
    ASSUME IInv, Running, Apart, NEW k \in Kinds, NEW n \in Name
    PROVE  Depths(n, k) = Abstract!Depths(n, k)
BY FoundIsDeclared, DeclaredTyped DEF IInv, Depths, Abstract!Depths, Abstract!Top

LEMMA SameCardinality ==
    ASSUME NEW S
    PROVE  Abstract!Cardinality(S) = Cardinality(S)
BY Zenon DEF Abstract!Cardinality, Cardinality

LEMMA DeclareSimulates ==
    ASSUME IInv, IInv', Apart, NEW n \in Name, NEW k \in Kinds, NewIdentifier(n, k),
           status' # "overrun"
    PROVE  Abstract!Declare(n, k)
<1>1. Running /\ TypeOK /\ Top \in 1 .. Top /\ Top = Abstract!Top
  BY ScopesTyped, DeclaredTyped DEF IInv, NewIdentifier, Abstract!Top
<1>2. Found(Current[k], n) <=> n \in Declared[Top][k]
  BY <1>1, FoundIsDeclared DEF Current
<1>3. CASE Found(Current[k], n)
  <2>1. scopes' = scopes /\ answer' = [says |-> "redeclared", depth |-> Top]
    BY <1>3 DEF NewIdentifier
  <2>2. Declared' = Declared
    BY <2>1 DEF Declared, Top
  <2> QED
    BY <1>1, <1>2, <1>3, <2>1, <2>2 DEF Abstract!Declare, Running
<1>4. CASE ~Found(Current[k], n)
  <2>1. answer' = [says |-> "declared", depth |-> Top]
    BY <1>4 DEF NewIdentifier
  <2>2. ~Overruns(Current[k], n)
    BY <1>4 DEF NewIdentifier
  <2>3. PICK g \in Envs :
          /\ scopes' = [scopes EXCEPT ![Top] = g]
          /\ SameBut(Current, g, k) /\ Filled(Current[k], g[k], n)
          /\ \/ status' = status
             \/ status' = "lost_in_rePut" /\ Grows(Current[k])
    <3>1. /\ Current \in Envs /\ Current[k] \in Tables
          /\ scopes' = [scopes EXCEPT ![Top] = Lost(Current, k, n)]
             \/ scopes' = [scopes EXCEPT ![Top] = Kept(Current, k, n)]
      BY <1>1, <1>4, <2>2, ScopesTyped, Declaring DEF Current
    <3> QED
      BY <1>1, <1>4, <2>2, <3>1, Declaring, Entered
  <2>4. Declared' = [Declared EXCEPT ![Top][k] = @ \cup {n}]
    <3>1. /\ Len(scopes') = Len(scopes)
          /\ \A i \in 1 .. Len(scopes) : scopes'[i] = IF i = Top THEN g ELSE scopes[i]
      BY <1>1, <2>3, ScopesTyped, ExceptSeq DEF Top
    <3>2. Declared' = [i \in 1 .. Top |-> [l \in Kinds |-> Held(scopes'[i][l])]]
      BY <3>1 DEF Declared, Top
    <3>3. Held(g[k]) = Held(Current[k]) \cup {n}
      <4>1. Current[k] \in Tables
        BY <1>1, ScopesTyped DEF Current
      <4> QED
        BY <2>2, <2>3, <4>1, FilledHolds
    <3>4. \A l \in Kinds \ {k} : Held(g[l]) = Held(Current[l])
      BY <2>3 DEF SameBut
    <3>5. ASSUME NEW i \in 1 .. Top
          PROVE  [l \in Kinds |-> Held(scopes'[i][l])] =
                   IF i = Top THEN [Declared[Top] EXCEPT ![k] = @ \cup {n}] ELSE Declared[i]
      <4>1. CASE i = Top
        BY <3>1, <3>3, <3>4, <4>1 DEF Declared, Current, Top
      <4>2. CASE i # Top
        BY <3>1, <4>2 DEF Declared, Top
      <4> QED
        BY <4>1, <4>2
    <3> QED
      BY <1>1, <3>2, <3>5 DEF Declared
  <2>5. Running' \in {TRUE, Cardinality(Declared[Top][k]) < Threshold}
    <3>1. CASE status' = status
      BY <1>1, <3>1 DEF Running
    <3>2. CASE status' = "lost_in_rePut" /\ Grows(Current[k])
      <4>1. /\ Current[k] \in Tables /\ AtHome(Current[k])
            /\ Current[k].stored = Occupied(Current[k])
        BY <1>1, ScopesTyped DEF IInv, EnvsGood, Probing, Counting, Running, Current
      <4>2. ApartIn(Current[k])
        BY <1>1 DEF Apart, ApartIn, AllTables, Current
      <4>3. Cardinality(Declared[Top][k]) = Current[k].stored
        BY <1>1, <4>1, <4>2, StoredIsHeld, DeclaredTyped DEF Current
      <4>4. (Cardinality(Declared[Top][k]) < Threshold) = FALSE
        <5>1. Current[k].stored \in Int /\ Threshold \in Int
          BY <4>1, TableSizeAssumption DEF Tables, Threshold
        <5> QED
          BY <3>2, <4>3, <5>1 DEF Grows
      <4>5. Running' = FALSE
        BY <3>2 DEF Running
      <4> QED
        BY <4>4, <4>5, Zenon
    <3> QED
      BY <2>3, <3>1, <3>2
  <2> QED
    BY <1>1, <1>2, <1>4, <2>1, <2>4, <2>5, SameCardinality, Zenon DEF Abstract!Declare
<1> QED
  BY <1>3, <1>4

LEMMA UseSimulates ==
    ASSUME IInv, Apart, NEW n \in Name, IDtree(n), strays = 0
    PROVE  Abstract!Use(n) \/ UNCHANGED Abstract!scopeVars
<1>1. Running /\ scopes' = scopes /\ ~scopes[1].selfUp
  BY DEF IInv, GlobalAlone, IDtree
<1>2. \A k \in Kinds : Depths(n, k) = Abstract!Depths(n, k)
  BY <1>1, SameDepths
<1>3. Declared' = Declared
  BY <1>1 DEF Declared, Top
<1>4. status' = status
  BY <1>1 DEF IDtree
<1>5. answer' = IF Depths(n, "ids") # {}
                THEN [says |-> "ids", depth |-> Innermost(Depths(n, "ids"))]
                ELSE IF Depths(n, "funcs") # {}
                THEN [says |-> "funcs", depth |-> Innermost(Depths(n, "funcs"))]
                ELSE [says |-> "unknown", depth |-> 0]
  BY <1>1 DEF IDtree
<1> QED
  BY <1>2, <1>3, <1>4, <1>5 DEF Abstract!Use, Abstract!Innermost, Innermost, Running, Kinds

LEMMA EnterSimulates ==
    ASSUME IInv, IInv', NEW role \in {"function", "block"}, EnterEnv(role)
    PROVE  Abstract!Enter
<1> DEFINE g == [Current EXCEPT !.declaring = (role = "function")]
           e == NewEnv(role, 2)
           under == [scopes EXCEPT ![Top] = g]
<1>1. /\ TypeOK /\ TypeOK' /\ Top \in 1 .. Top /\ Top \in Nat /\ Current \in Envs
      /\ Top = Len(scopes)
  BY ScopesTyped DEF IInv, Top
<1>2. scopes' = Append(under, e)
  BY <1>1 DEF EnterEnv, Current
<1>3. g \in Envs /\ \A k \in Kinds : g[k] = Current[k]
  BY <1>1 DEF Envs, Kinds
<1>4. e \in Envs
  BY NewEnvGood
<1>5. \A k \in Kinds : Held(e[k]) = {}
  BY DEF NewEnv, Kinds, NewTable, Held
<1> HIDE DEF g, e
<1>6. /\ under \in Seq(Envs) /\ Len(under) = Top
      /\ \A i \in 1 .. Top : under[i] = IF i = Top THEN g ELSE scopes[i]
  BY <1>1, <1>3, ScopesTyped, ExceptSeq
<1> HIDE DEF under
<1>7. /\ Len(scopes') = Top + 1
      /\ \A i \in 1 .. Top : scopes'[i] = IF i = Top THEN g ELSE scopes[i]
      /\ scopes'[Top + 1] = e
  BY <1>2, <1>4, <1>6, AppendProperties
<1> DEFINE none == [k \in Kinds |-> {}]
<1>8. none \in Stacked /\ DeclaredOf(e) = none /\ DeclaredOf(g) = DeclaredOf(Current)
  BY <1>3, <1>5 DEF Stacked, DeclaredOf
<1> HIDE DEF none
<1>9. /\ Declared \in Seq(Stacked) /\ Len(Declared) = Top
      /\ Declared' \in Seq(Stacked) /\ Len(Declared') = Top + 1
      /\ \A i \in 1 .. Top + 1 : Declared'[i] = DeclaredOf(scopes'[i])
      /\ \A i \in 1 .. Top : Declared[i] = DeclaredOf(scopes[i])
  <2>1. scopes' \in Seq(Envs)
    BY <1>1 DEF TypeOK
  <2> QED
    BY <1>1, <1>7, <2>1, DeclaredTyped, DeclaredNext
<1>10. /\ Append(Declared, none) \in Seq(Stacked) /\ Len(Append(Declared, none)) = Top + 1
       /\ \A i \in 1 .. Top : Append(Declared, none)[i] = Declared[i]
       /\ Append(Declared, none)[Top + 1] = none
  BY <1>8, <1>9, AppendProperties
<1>11. \A i \in 1 .. Top + 1 : Declared'[i] = Append(Declared, none)[i]
  <2> SUFFICES ASSUME NEW i \in 1 .. Top + 1
               PROVE  Declared'[i] = Append(Declared, none)[i]
    OBVIOUS
  <2>1. CASE i = Top + 1
    BY <1>1, <1>7, <1>8, <1>9, <1>10, <2>1
  <2>2. CASE i \in 1 .. Top
    <3>1. DeclaredOf(scopes'[i]) = DeclaredOf(scopes[i])
      BY <1>7, <1>8, <2>2 DEF Current
    <3>2. Declared'[i] = DeclaredOf(scopes'[i]) /\ Declared[i] = DeclaredOf(scopes[i])
      BY <1>9, <2>2
    <3>3. Append(Declared, none)[i] = Declared[i]
      BY <1>10, <2>2
    <3> QED
      BY <3>1, <3>2, <3>3
  <2>3. Top \in Nat
    BY <1>1
  <2>4. i = Top + 1 \/ i \in 1 .. Top
    BY <2>3
  <2> QED
    BY <2>1, <2>2, <2>4
<1>12. Declared' = Append(Declared, none)
  BY <1>1, <1>9, <1>10, <1>11, SeqEqual
<1>13. none = Abstract!Empty
  BY DEF none, Abstract!Empty, Kinds, Abstract!Kinds
<1>14. answer' = answer /\ Running' = Running
  BY DEF EnterEnv, Running
<1> QED
  BY <1>12, <1>13, <1>14 DEF Abstract!Enter

LEMMA LeaveSimulates ==
    ASSUME IInv, IInv', LeaveBlock
    PROVE  Abstract!Leave
<1>1. Top \in Nat /\ Top >= 3
  BY Leaving
<1>2. PICK d \in {1, 2} :
        /\ scopes' \in Seq(Envs) /\ Len(scopes') = Top - d
        /\ \A i \in 1 .. Top - d : DeclaredOf(scopes'[i]) = DeclaredOf(scopes[i])
  BY Leaving DEF Like, DeclaredOf
<1>3. /\ Declared \in Seq(Stacked) /\ Len(Declared) = Top
      /\ Declared' \in Seq(Stacked) /\ Len(Declared') = Top - d
      /\ \A i \in 1 .. Top - d : Declared'[i] = DeclaredOf(scopes'[i])
      /\ \A i \in 1 .. Top : Declared[i] = DeclaredOf(scopes[i])
  BY <1>1, <1>2, DeclaredTyped, DeclaredNext DEF IInv
<1> DEFINE left == SubSeq(Declared, 1, Top - d)
<1>4. Top - d \in Int /\ 1 <= Top - d /\ Top - d <= Top
  BY <1>1
<1>5. left \in Seq(Stacked) /\ Len(left) = Top - d /\ \A i \in 1 .. Top - d : left[i] = Declared[i]
  <2>1. \A i \in 1 .. Top - d : Declared[i] \in Stacked
    BY <1>3, <1>4, ElementOfSeq
  <2> QED
    BY <1>4, <2>1, SubSeqProperties
<1> HIDE DEF left
<1>6. \A i \in 1 .. Top - d : Declared'[i] = left[i]
  <2> SUFFICES ASSUME NEW i \in 1 .. Top - d PROVE Declared'[i] = left[i]
    OBVIOUS
  <2>1. i \in 1 .. Top
    BY <1>1, <1>4
  <2>2. Declared'[i] = DeclaredOf(scopes'[i]) /\ Declared[i] = DeclaredOf(scopes[i])
    BY <1>3, <2>1, Zenon
  <2>3. DeclaredOf(scopes'[i]) = DeclaredOf(scopes[i]) /\ left[i] = Declared[i]
    BY <1>2, <1>5, Zenon
  <2> QED
    BY <2>2, <2>3, Zenon
<1>7. Declared' = left
  BY <1>3, <1>5, <1>6, SeqEqual
<1>8. answer' = answer /\ Running' = Running
  BY DEF LeaveBlock, Running
<1>9. Abstract!Top = Top /\ Top > d
  BY <1>1, <1>3 DEF Abstract!Top
<1> QED
  BY <1>7, <1>8, <1>9 DEF Abstract!Leave, left

(* For every table size and every hash: as long as no table holds two      *)
(* names of one home slot, no stray brace came and the array is not left,  *)
(* every step of the environments is a step of a scope stack.              *)
THEOREM ImplementsScopeStack == Spec => ScopeStackSpec
<1>1. ASSUME Init PROVE Abstract!Init
  <2>1. /\ scopes = <<NewEnv("global", 0)>> /\ Running
        /\ answer = [says |-> "nothing", depth |-> 0]
    BY <1>1 DEF Init, Running
  <2>2. Declared = <<Abstract!Empty>>
    <3>1. \A k \in Kinds : Held(NewEnv("global", 0)[k]) = {}
      BY DEF NewEnv, Kinds, NewTable, Held
    <3>2. Len(scopes) = 1 /\ scopes[1] = NewEnv("global", 0)
      BY <2>1
    <3>3. Declared = [i \in 1 .. 1 |-> [k \in Kinds |-> {}]]
      BY <3>1, <3>2 DEF Declared, Top
    <3> QED
      BY <3>3 DEF Abstract!Empty, Abstract!Kinds, Kinds
  <2> QED
    BY <2>1, <2>2 DEF Abstract!Init
<1>2. ASSUME IInv, IInv', [Next]_vars
      PROVE  [Apart /\ Apart' /\ strays' = 0 /\ status' # "overrun" =>
                [Abstract!Next]_(Abstract!scopeVars)]_vars
  <2> SUFFICES ASSUME Next, Apart, strays' = 0, status' # "overrun"
               PROVE  [Abstract!Next]_(Abstract!scopeVars)
    BY <1>2
  <2>1. ASSUME NEW n \in Name, NEW k \in Kinds, NewIdentifier(n, k)
        PROVE  Running /\ Abstract!Declare(n, k)
    BY <1>2, <2>1, DeclareSimulates DEF NewIdentifier
  <2>2. ASSUME NEW n \in Name, IDtree(n)
        PROVE  Running /\ (Abstract!Use(n) \/ UNCHANGED Abstract!scopeVars)
    BY <1>2, <2>2, UseSimulates DEF IDtree
  <2>3. ASSUME EnterFunction \/ EnterBlock PROVE Running /\ Abstract!Enter
    BY <1>2, <2>3, EnterSimulates DEF EnterFunction, EnterBlock, EnterEnv
  <2>4. ASSUME LeaveBlock PROVE Running /\ Abstract!Leave
    BY <1>2, <2>4, LeaveSimulates DEF LeaveBlock
  <2>5. ~StrayBrace
    BY <1>2 DEF StrayBrace, IInv, TypeOK
  <2> QED
    BY <2>1, <2>2, <2>3, <2>4, <2>5 DEF Next, Abstract!Next, Kinds, Abstract!Kinds
<1> QED
  BY <1>1, <1>2, AlwaysGood, PTL DEF Spec, ScopeStackSpec
=============================================================================
