------------------------- MODULE ParserCode_proofs -------------------------
(***************************************************************************)
(* What is proved of the intermediate code that StatementParser writes for *)
(* every text: whatever a link, a jump or a list of open jumps names is    *)
(* there, and in a text without a for the links back follow the links on.  *)
(***************************************************************************)
EXTENDS Parser_proofs, NaturalsInduction, WellFoundedInduction

-----------------------------------------------------------------------------
(* The instructions.  Their links, destinations and lists name what there  *)
(* is, and the links back follow those on.                                 *)
Reasons == {"no", "fatal", "assert", "pushback", "undefined", "beyond", "thrown"}
InstructionsOf(n, m) == [op : Ops, dest : {Unset} \cup 1 .. m, next : 0 .. n, pre : 0 .. n]
Coded(p) ==
    /\ p.stop \in Reasons
    /\ p.labels \in Nat
    /\ p.code \in Seq(InstructionsOf(Len(p.code), p.labels))
    /\ p.lists \in Seq(Seq(1 .. Len(p.code)))
    /\ p.tail \in 0 .. Len(p.code)
Linked(p) == \A i \in 1 .. Len(p.code) : p.code[i].next # Null => p.code[p.code[i].next].pre = i
Well(p) == IsParser(p) /\ Coded(p) /\ (~HasFor => Linked(p))

(* p is well and has what b has; what has no link back in b gets none, but *)
(* the instruction x may.                                                  *)
GoodBut(b, p, x) ==
    /\ Well(p)
    /\ Running(p) =>
          /\ Running(b)
          /\ Len(b.code) <= Len(p.code) /\ b.labels <= p.labels /\ Len(b.lists) <= Len(p.lists)
          /\ ~HasFor => \A i \in 1 .. Len(b.code) : i # x /\ b.code[i].pre = Null => p.code[i].pre = Null
Good(b, p) == GoodBut(b, p, Null)
GrowsBy(b, p, n, m, k) ==
    Running(p) =>
        /\ Running(b)
        /\ Len(p.code) = Len(b.code) + n /\ p.labels = b.labels + m /\ Len(p.lists) = Len(b.lists) + k

(* One operation after another.                                            *)
LEMMA GoodChain ==
    ASSUME NEW b, NEW p, NEW q, NEW x
    PROVE  /\ Well(b) => Good(b, b) /\ GrowsBy(b, b, 0, 0, 0)
           /\ Good(b, p) => Well(p) /\ IsParser(p) /\ GoodBut(b, p, x)
           /\ Well(b) /\ Good(b, p) /\ Good(p, q) => Good(b, q)
           /\ Well(b) /\ GoodBut(b, p, x) /\ Good(p, q) => GoodBut(b, q, x)
           /\ Well(b) /\ Good(b, p) /\ GoodBut(p, q, x) => GoodBut(b, q, x)
           /\ Well(b) /\ Good(b, p) /\ GoodBut(p, q, x) /\ (Running(q) => x \notin 1 .. Len(b.code)) => Good(b, q)
<1>1. Well(b) => Len(b.code) \in Nat /\ Len(b.lists) \in Nat /\ b.labels \in Nat
  BY DEF Well, Coded
<1>2. Well(b) => Good(b, b) /\ GrowsBy(b, b, 0, 0, 0)
  BY <1>1 DEF Good, GoodBut, GrowsBy
<1>3. \A y : GoodBut(p, q, y) => (Well(q) /\ Len(q.code) \in Nat /\ Len(q.lists) \in Nat /\ q.labels \in Nat)
  BY DEF GoodBut, Well, Coded
<1>4. \A y : GoodBut(b, p, y) => (Well(p) /\ IsParser(p) /\ Len(p.code) \in Nat /\ Len(p.lists) \in Nat /\ p.labels \in Nat)
  BY DEF GoodBut, Well, Coded
<1>5. Good(b, p) => GoodBut(b, p, x)
  <2>1. \A i \in 1 .. Len(b.code) : i # Null
    BY DEF Null
  <2> QED
    BY <2>1 DEF Good, GoodBut
<1>6. ASSUME NEW y, NEW z, Well(b), GoodBut(b, p, y), GoodBut(p, q, z)
      PROVE  /\ Well(q)
             /\ Running(q) =>
                   /\ Running(b)
                   /\ Len(b.code) <= Len(q.code) /\ b.labels <= q.labels /\ Len(b.lists) <= Len(q.lists)
                   /\ ~HasFor => \A i \in 1 .. Len(b.code) : i # y /\ i # z /\ b.code[i].pre = Null => q.code[i].pre = Null
  <2>1. Running(q) => /\ Running(p) /\ Running(b)
                      /\ Len(b.code) <= Len(p.code) /\ b.labels <= p.labels /\ Len(b.lists) <= Len(p.lists)
                      /\ Len(p.code) <= Len(q.code) /\ p.labels <= q.labels /\ Len(p.lists) <= Len(q.lists)
    BY <1>6 DEF GoodBut
  <2>2. Running(q) => Len(b.code) <= Len(q.code) /\ b.labels <= q.labels /\ Len(b.lists) <= Len(q.lists)
    BY <2>1, <1>1, <1>3, <1>4, <1>6
  <2>3. Running(q) => \A i \in 1 .. Len(b.code) : i \in 1 .. Len(p.code)
    BY <2>1, <1>1, <1>4, <1>6
  <2> QED
    BY <1>6, <2>1, <2>2, <2>3 DEF GoodBut
<1>7. \A i \in 1 .. Len(b.code) : i # Null
  BY DEF Null
<1>8. Well(b) /\ Good(b, p) /\ Good(p, q) => Good(b, q)
  <2> SUFFICES ASSUME Well(b), Good(b, p), Good(p, q) PROVE Good(b, q)
    OBVIOUS
  <2>1. /\ Well(q)
           /\ Running(q) =>
                 /\ Running(b)
                 /\ Len(b.code) <= Len(q.code) /\ b.labels <= q.labels /\ Len(b.lists) <= Len(q.lists)
                 /\ ~HasFor => \A i \in 1 .. Len(b.code) : i # Null /\ i # Null /\ b.code[i].pre = Null => q.code[i].pre = Null
    BY <1>6 DEF Good
  <2> QED
    BY <2>1, <1>7 DEF Good, GoodBut
<1>9. Well(b) /\ GoodBut(b, p, x) /\ Good(p, q) => GoodBut(b, q, x)
  <2> SUFFICES ASSUME Well(b), GoodBut(b, p, x), Good(p, q) PROVE GoodBut(b, q, x)
    OBVIOUS
  <2>1. /\ Well(q)
           /\ Running(q) =>
                 /\ Running(b)
                 /\ Len(b.code) <= Len(q.code) /\ b.labels <= q.labels /\ Len(b.lists) <= Len(q.lists)
                 /\ ~HasFor => \A i \in 1 .. Len(b.code) : i # x /\ i # Null /\ b.code[i].pre = Null => q.code[i].pre = Null
    BY <1>6 DEF Good
  <2> QED
    BY <2>1, <1>7 DEF Good, GoodBut
<1>10. Well(b) /\ Good(b, p) /\ GoodBut(p, q, x) => GoodBut(b, q, x)
  <2> SUFFICES ASSUME Well(b), Good(b, p), GoodBut(p, q, x) PROVE GoodBut(b, q, x)
    OBVIOUS
  <2>1. /\ Well(q)
           /\ Running(q) =>
                 /\ Running(b)
                 /\ Len(b.code) <= Len(q.code) /\ b.labels <= q.labels /\ Len(b.lists) <= Len(q.lists)
                 /\ ~HasFor => \A i \in 1 .. Len(b.code) : i # Null /\ i # x /\ b.code[i].pre = Null => q.code[i].pre = Null
    BY <1>6 DEF Good
  <2> QED
    BY <2>1, <1>7 DEF Good, GoodBut
<1>11. Well(b) /\ Good(b, p) /\ GoodBut(p, q, x) /\ (Running(q) => x \notin 1 .. Len(b.code)) => Good(b, q)
  <2> SUFFICES ASSUME Well(b), Good(b, p), GoodBut(p, q, x), (Running(q) => x \notin 1 .. Len(b.code)) PROVE Good(b, q)
    OBVIOUS
  <2>1. /\ Well(q)
           /\ Running(q) =>
                 /\ Running(b)
                 /\ Len(b.code) <= Len(q.code) /\ b.labels <= q.labels /\ Len(b.lists) <= Len(q.lists)
                 /\ ~HasFor => \A i \in 1 .. Len(b.code) : i # Null /\ i # x /\ b.code[i].pre = Null => q.code[i].pre = Null
    BY <1>6 DEF Good
  <2> QED
    BY <2>1, <1>7 DEF Good, GoodBut
<1>12. Good(b, p) => Well(p) /\ IsParser(p)
  BY <1>4 DEF Good
<1> QED
  BY <1>2, <1>5, <1>8, <1>9, <1>10, <1>11, <1>12

(* Setting one field of one instruction.                                   *)
LEMMA SetNext ==
    ASSUME NEW n \in Nat, NEW m \in Nat, NEW chain \in Seq(InstructionsOf(n, m)), NEW i \in 1 .. Len(chain), NEW x \in 0 .. n
    PROVE  LET c == [chain EXCEPT ![i].next = x]
           IN  /\ c \in Seq(InstructionsOf(n, m)) /\ Len(c) = Len(chain)
               /\ \A j \in 1 .. Len(chain) : c[j].pre = chain[j].pre /\ c[j].next = IF j = i THEN x ELSE chain[j].next
<1> DEFINE r == [chain[i] EXCEPT !.next = x]
<1>1. chain[i] \in InstructionsOf(n, m)
  OBVIOUS
<1>2. r \in InstructionsOf(n, m) /\ r.next = x /\ r.pre = chain[i].pre
  BY <1>1 DEF InstructionsOf
<1> HIDE DEF r
<1>3. /\ [chain EXCEPT ![i] = r] \in Seq(InstructionsOf(n, m))
      /\ Len([chain EXCEPT ![i] = r]) = Len(chain)
      /\ \A j \in 1 .. Len(chain) : [chain EXCEPT ![i] = r][j] = IF j = i THEN r ELSE chain[j]
  BY <1>2, ExceptSeq
<1>4. [chain EXCEPT ![i].next = x] = [chain EXCEPT ![i] = r]
  BY DEF r
<1> QED
  BY <1>2, <1>3, <1>4

(* The link back.                                                          *)
LEMMA SetPre ==
    ASSUME NEW n \in Nat, NEW m \in Nat, NEW chain \in Seq(InstructionsOf(n, m)), NEW i \in 1 .. Len(chain), NEW x \in 0 .. n
    PROVE  LET c == [chain EXCEPT ![i].pre = x]
           IN  /\ c \in Seq(InstructionsOf(n, m)) /\ Len(c) = Len(chain)
               /\ \A j \in 1 .. Len(chain) : c[j].next = chain[j].next /\ c[j].pre = IF j = i THEN x ELSE chain[j].pre
<1> DEFINE r == [chain[i] EXCEPT !.pre = x]
<1>1. chain[i] \in InstructionsOf(n, m)
  OBVIOUS
<1>2. r \in InstructionsOf(n, m) /\ r.pre = x /\ r.next = chain[i].next
  BY <1>1 DEF InstructionsOf
<1> HIDE DEF r
<1>3. /\ [chain EXCEPT ![i] = r] \in Seq(InstructionsOf(n, m))
      /\ Len([chain EXCEPT ![i] = r]) = Len(chain)
      /\ \A j \in 1 .. Len(chain) : [chain EXCEPT ![i] = r][j] = IF j = i THEN r ELSE chain[j]
  BY <1>2, ExceptSeq
<1>4. [chain EXCEPT ![i].pre = x] = [chain EXCEPT ![i] = r]
  BY DEF r
<1> QED
  BY <1>2, <1>3, <1>4

(* The destination.                                                        *)
LEMMA SetDest ==
    ASSUME NEW n \in Nat, NEW m \in Nat, NEW chain \in Seq(InstructionsOf(n, m)), NEW i \in 1 .. Len(chain), NEW x \in 1 .. m
    PROVE  LET c == [chain EXCEPT ![i].dest = x]
           IN  /\ c \in Seq(InstructionsOf(n, m)) /\ Len(c) = Len(chain)
               /\ \A j \in 1 .. Len(chain) : c[j].next = chain[j].next /\ c[j].pre = chain[j].pre
<1> DEFINE r == [chain[i] EXCEPT !.dest = x]
<1>1. chain[i] \in InstructionsOf(n, m)
  OBVIOUS
<1>2. r \in InstructionsOf(n, m) /\ r.pre = chain[i].pre /\ r.next = chain[i].next
  BY <1>1 DEF InstructionsOf
<1> HIDE DEF r
<1>3. /\ [chain EXCEPT ![i] = r] \in Seq(InstructionsOf(n, m))
      /\ Len([chain EXCEPT ![i] = r]) = Len(chain)
      /\ \A j \in 1 .. Len(chain) : [chain EXCEPT ![i] = r][j] = IF j = i THEN r ELSE chain[j]
  BY <1>2, ExceptSeq
<1>4. [chain EXCEPT ![i].dest = x] = [chain EXCEPT ![i] = r]
  BY DEF r
<1> QED
  BY <1>2, <1>3, <1>4

(* What is of a smaller code is of a larger one.                           *)
LEMMA CodeWidens ==
    ASSUME NEW n \in Nat, NEW m \in Nat, NEW k \in Nat, NEW j \in Nat, n <= k, m <= j
    PROVE  /\ InstructionsOf(n, m) \subseteq InstructionsOf(k, j)
           /\ Seq(InstructionsOf(n, m)) \subseteq Seq(InstructionsOf(k, j))
           /\ Seq(Seq(1 .. n)) \subseteq Seq(Seq(1 .. k))
<1>1. InstructionsOf(n, m) \subseteq InstructionsOf(k, j)
  BY DEF InstructionsOf
<1>2. \A S, T : S \subseteq T => Seq(S) \subseteq Seq(T)
  OBVIOUS
<1>3. 1 .. n \subseteq 1 .. k
  OBVIOUS
<1>4. Seq(1 .. n) \subseteq Seq(1 .. k)
  BY <1>2, <1>3
<1> QED
  BY <1>1, <1>2, <1>4

(* The operations of the tokens and of the names change no instruction.    *)
LEMMA SilentGood ==
    ASSUME NEW b, NEW p, Well(b), SameCode(b, p), p.stop \in Reasons
    PROVE  Good(b, p) /\ GrowsBy(b, p, 0, 0, 0)
<1>1. Well(p)
  BY DEF Well, SameCode, ComesFrom, Coded, Linked
<1>2. Len(b.code) \in Nat /\ Len(b.lists) \in Nat /\ b.labels \in Nat
  BY DEF Well, Coded
<1> QED
  BY <1>1, <1>2 DEF Good, GoodBut, GrowsBy, SameCode, ComesFrom

(* newIR() makes an instruction that is linked to none.                    *)
LEMMA MakeGood ==
    ASSUME NEW p, Well(p), NEW op \in Ops, NEW d, Running(p) => d \in {Unset} \cup 1 .. p.labels
    PROVE  LET q == Make(p, op, d)
           IN  /\ Good(p, q) /\ GrowsBy(p, q, 1, 0, 0)
               /\ Running(q) => q.code[Len(q.code)].pre = Null /\ q.code[Len(q.code)].next = Null
               /\ Running(q) => q.tail = p.tail
               /\ Running(q) => \A j \in 1 .. Len(p.code) : q.code[j] = p.code[j]
<1>1. CASE ~Running(p)
  BY <1>1, GoodChain DEF Make, GrowsBy
<1>2. CASE Running(p)
  <2> DEFINE e == [op |-> op, dest |-> d, next |-> Null, pre |-> Null]
  <2> DEFINE n == Len(p.code)
  <2> DEFINE q == Make(p, op, d)
  <2>1. q = [p EXCEPT !.code = Append(p.code, e)]
    BY <1>2 DEF Make
  <2>2. DOMAIN p = Fields
    BY DEF Well, IsParser
  <2>3. /\ IsParser(q) /\ q.code = Append(p.code, e) /\ q.tail = p.tail /\ q.labels = p.labels
        /\ q.lists = p.lists /\ q.stop = p.stop
    BY <2>1, <2>2 DEF IsParser, Fields
  <2> HIDE DEF q
  <2>4. /\ n \in Nat /\ p.labels \in Nat /\ p.code \in Seq(InstructionsOf(n, p.labels)) /\ p.stop \in Reasons
        /\ p.lists \in Seq(Seq(1 .. n)) /\ p.tail \in 0 .. n /\ Len(p.lists) \in Nat
    BY DEF Well, Coded
  <2>5. e \in InstructionsOf(n + 1, p.labels) /\ e.next = Null /\ e.pre = Null
    BY <1>2, <2>4 DEF InstructionsOf, Null
  <2>6. n + 1 \in Nat /\ n <= n + 1 /\ p.labels <= p.labels
    BY <2>4
  <2> HIDE DEF n, e
  <2>7. p.code \in Seq(InstructionsOf(n + 1, p.labels)) /\ p.lists \in Seq(Seq(1 .. (n + 1)))
    BY <2>4, <2>6, CodeWidens
  <2>8. n = Len(p.code)
    BY DEF n
  <2>9. /\ Append(p.code, e) \in Seq(InstructionsOf(n + 1, p.labels)) /\ Len(Append(p.code, e)) = n + 1
        /\ Append(p.code, e)[n + 1] = e
        /\ \A j \in 1 .. n : Append(p.code, e)[j] = p.code[j]
    BY <2>5, <2>7, <2>8
  <2>10. Coded(q)
    BY <2>3, <2>4, <2>6, <2>7, <2>9 DEF Coded
  <2>11. ~HasFor => Linked(q)
    <3> SUFFICES ASSUME ~HasFor, NEW i \in 1 .. Len(q.code), q.code[i].next # Null
                 PROVE  q.code[q.code[i].next].pre = i
      BY DEF Linked
    <3>1. i \in 1 .. n /\ q.code[i] = p.code[i]
      BY <2>3, <2>4, <2>5, <2>9
    <3>2. p.code[i].next \in 1 .. n
      <4>1. p.code[i] \in InstructionsOf(n, p.labels)
        BY <3>1, <2>4, <2>8
      <4>2. p.code[i].next \in 0 .. n /\ p.code[i].next # 0
        BY <4>1, <3>1 DEF InstructionsOf, Null
      <4> QED
        BY <4>2, <2>4
    <3>3. p.code[p.code[i].next].pre = i
      BY <3>1, <2>8 DEF Well, Linked
    <3> QED
      BY <3>1, <3>2, <3>3, <2>3, <2>9
  <2>12. Well(q)
    BY <2>3, <2>10, <2>11 DEF Well
  <2>13. Good(p, q)
    BY <1>2, <2>3, <2>4, <2>6, <2>8, <2>9, <2>12 DEF Good, GoodBut
  <2>14. GrowsBy(p, q, 1, 0, 0)
    BY <1>2, <2>3, <2>4, <2>8, <2>9 DEF GrowsBy
  <2> QED
    BY <2>3, <2>5, <2>8, <2>9, <2>13, <2>14 DEF q
<1> QED
  BY <1>1, <1>2

(* The current instruction is set by hand.                                 *)
LEMMA TailGood ==
    ASSUME NEW p, Well(p), NEW i, Running(p) => i \in 0 .. Len(p.code), Running(p)
    PROVE  LET q == [p EXCEPT !.tail = i]
           IN  Good(p, q) /\ GrowsBy(p, q, 0, 0, 0) /\ q.tail = i /\ Running(q)
<1> DEFINE q == [p EXCEPT !.tail = i]
<1>1. DOMAIN p = Fields
  BY DEF Well, IsParser
<1>2. /\ IsParser(q) /\ q.code = p.code /\ q.tail = i /\ q.labels = p.labels
      /\ q.lists = p.lists /\ q.stop = p.stop
  BY <1>1 DEF IsParser, Fields
<1> HIDE DEF q
<1>3. Well(q)
  BY <1>2 DEF Well, Coded, Linked
<1>4. Len(p.code) \in Nat /\ Len(p.lists) \in Nat /\ p.labels \in Nat
  BY DEF Well, Coded
<1>5. Good(p, q) /\ GrowsBy(p, q, 0, 0, 0) /\ Running(q)
  BY <1>2, <1>3, <1>4 DEF Good, GoodBut, GrowsBy, Running
<1> QED
  BY <1>2, <1>5 DEF q

(* A chain of its own begins with a head.                                  *)
LEMMA HeadGood ==
    ASSUME NEW p, Well(p)
    PROVE  LET q == MakeHead(p) IN Good(p, q) /\ GrowsBy(p, q, 1, 0, 0)
<1>1. CASE ~Running(p)
  BY <1>1, GoodChain DEF MakeHead, GrowsBy
<1>2. CASE Running(p)
  <2> DEFINE m == Make(p, "head", Unset)
  <2>1. "head" \in Ops
    BY DEF Ops
  <2>2. Good(p, m) /\ GrowsBy(p, m, 1, 0, 0) /\ Well(m)
    BY <2>1, MakeGood, GoodChain
  <2>3. Running(m)
    <3>1. DOMAIN p = Fields
      BY DEF Well, IsParser
    <3> QED
      BY <1>2, <3>1 DEF Make, Running, Fields
  <2>4. Len(p.code) \in Nat /\ Len(m.code) = Len(p.code) + 1
    BY <2>2, <2>3 DEF GrowsBy, Well, Coded
  <2>5. MakeHead(p) = [m EXCEPT !.tail = Newest(p) + 1]
    BY <1>2 DEF MakeHead
  <2> HIDE DEF m
  <2>6. Newest(p) + 1 \in 0 .. Len(m.code)
    BY <2>4 DEF Newest
  <2>7. Good(m, MakeHead(p)) /\ GrowsBy(m, MakeHead(p), 0, 0, 0)
    BY <2>2, <2>3, <2>5, <2>6, TailGood
  <2>8. Good(p, MakeHead(p))
    BY <2>2, <2>7, GoodChain
  <2>9. GrowsBy(p, MakeHead(p), 1, 0, 0)
    BY <2>2, <2>4, <2>7 DEF GrowsBy, Well, Coded
  <2> QED
    BY <2>8, <2>9
<1> QED
  BY <1>1, <1>2

(* The code with other links and destinations.                             *)
LEMMA RecodeGood ==
    ASSUME NEW p, Well(p), Running(p), NEW x,
           NEW c \in Seq(InstructionsOf(Len(p.code), p.labels)), Len(c) = Len(p.code),
           ~HasFor => \A j \in 1 .. Len(p.code) : c[j].next # Null => c[c[j].next].pre = j,
           ~HasFor => \A j \in 1 .. Len(p.code) : j # x /\ p.code[j].pre = Null => c[j].pre = Null
    PROVE  LET q == [p EXCEPT !.code = c]
           IN  GoodBut(p, q, x) /\ GrowsBy(p, q, 0, 0, 0) /\ Well(q) /\ Running(q) /\ q.tail = p.tail /\ q.code = c
<1> DEFINE q == [p EXCEPT !.code = c]
<1>1. DOMAIN p = Fields
  BY DEF Well, IsParser
<1>2. /\ IsParser(q) /\ q.code = c /\ q.tail = p.tail /\ q.labels = p.labels
      /\ q.lists = p.lists /\ q.stop = p.stop
  BY <1>1 DEF IsParser, Fields
<1> HIDE DEF q
<1>3. Coded(q)
  BY <1>2 DEF Well, Coded
<1>4. ~HasFor => Linked(q)
  BY <1>2 DEF Linked
<1>5. Len(p.code) \in Nat /\ Len(p.lists) \in Nat /\ p.labels \in Nat
  BY DEF Well, Coded
<1>6. GoodBut(p, q, x) /\ GrowsBy(p, q, 0, 0, 0) /\ Running(q) /\ Well(q)
  BY <1>2, <1>3, <1>4, <1>5 DEF GoodBut, GrowsBy, Running, Well
<1> QED
  BY <1>2, <1>6 DEF q

(* appendIR(ir) of an instruction that is linked to none.                  *)
LEMMA AppendGood ==
    ASSUME NEW p, Well(p), NEW i, Running(p) => i \in 1 .. Len(p.code) /\ (~HasFor => p.code[i].pre = Null)
    PROVE  LET q == Append1(p, i)
           IN  GoodBut(p, q, i) /\ GrowsBy(p, q, 0, 0, 0) /\ Well(q) /\ (Running(q) => q.tail = i)
<1>1. CASE ~Running(p)
  BY <1>1, GoodChain DEF Append1, GrowsBy
<1>2. CASE Running(p) /\ p.tail = Null
  <2>1. SameCode(p, Stop(p, "undefined")) /\ ~Running(Stop(p, "undefined")) /\ Stop(p, "undefined").stop = "undefined"
    <3>1. DOMAIN p = Fields
      BY DEF Well, IsParser
    <3> QED
      BY <1>2, <3>1 DEF SameCode, ComesFrom, IsParser, Fields, Stop, Running
  <2>2. Good(p, Stop(p, "undefined")) /\ GrowsBy(p, Stop(p, "undefined"), 0, 0, 0)
    BY <2>1, SilentGood DEF Reasons
  <2>3. Append1(p, i) = Stop(p, "undefined")
    BY <1>2 DEF Append1
  <2>4. GoodBut(p, Stop(p, "undefined"), i) /\ Well(Stop(p, "undefined"))
    BY <2>2, GoodChain
  <2> QED
    BY <2>1, <2>2, <2>3, <2>4
<1>3. CASE Running(p) /\ p.tail # Null
  <2> DEFINE n == Len(p.code)
  <2> DEFINE m == p.labels
  <2> DEFINE t == p.tail
  <2>1. /\ n \in Nat /\ m \in Nat /\ p.code \in Seq(InstructionsOf(n, m)) /\ t \in 1 .. n
    BY <1>3 DEF Well, Coded, Null
  <2>2. i \in 1 .. n /\ (~HasFor => p.code[i].pre = Null)
    BY <1>3
  <2>3. ~HasFor => \A j \in 1 .. n : p.code[j].next # Null => p.code[p.code[j].next].pre = j
    BY DEF Well, Linked
  <2>4. \A j \in 1 .. n : p.code[j].next \in 0 .. n
    <3> TAKE j \in 1 .. n
    <3>1. p.code[j] \in InstructionsOf(n, m)
      BY <2>1
    <3> QED
      BY <3>1 DEF InstructionsOf
  <2> DEFINE c1 == [p.code EXCEPT ![t].next = i]
  <2> DEFINE c2 == [c1 EXCEPT ![i].pre = t]
  <2> DEFINE c3 == [c2 EXCEPT ![i].next = Null]
  <2>5. Append1(p, i) = [[p EXCEPT !.code = c3] EXCEPT !.tail = i]
    <3>1. Append1(p, i) = [p EXCEPT !.code = [p.code EXCEPT ![p.tail].next = i, ![i].pre = p.tail, ![i].next = Null], !.tail = i]
      BY <1>3 DEF Append1
    <3> QED
      BY ONLY <3>1 DEF c1, c2, c3, t
  <2>6. n = Len(p.code) /\ t = p.tail /\ m = p.labels
    OBVIOUS
  <2>7. i \in 0 .. n /\ t \in 0 .. n /\ 0 \in 0 .. n
    BY <2>1, <2>2
  <2> HIDE DEF n, m, t
  <2>8. /\ c1 \in Seq(InstructionsOf(n, m)) /\ Len(c1) = n
        /\ \A j \in 1 .. n : c1[j].pre = p.code[j].pre /\ c1[j].next = IF j = t THEN i ELSE p.code[j].next
    <3>1. /\ c1 \in Seq(InstructionsOf(n, m)) /\ Len(c1) = Len(p.code)
          /\ \A j \in 1 .. Len(p.code) : c1[j].pre = p.code[j].pre /\ c1[j].next = IF j = t THEN i ELSE p.code[j].next
      <4> DEFINE c == p.code
      <4>1. c \in Seq(InstructionsOf(n, m)) /\ t \in 1 .. Len(c) /\ i \in 0 .. n /\ n \in Nat /\ m \in Nat
        BY <2>1, <2>6, <2>7
      <4> HIDE DEF c
      <4>2. /\ [c EXCEPT ![t].next = i] \in Seq(InstructionsOf(n, m)) /\ Len([c EXCEPT ![t].next = i]) = Len(c)
            /\ \A j \in 1 .. Len(c) : /\ [c EXCEPT ![t].next = i][j].pre = c[j].pre
                                      /\ [c EXCEPT ![t].next = i][j].next = IF j = t THEN i ELSE c[j].next
        BY <4>1, SetNext
      <4> QED
        BY <4>2 DEF c
    <3> QED
      BY <3>1, <2>6
  <2> HIDE DEF c1
  <2>9. /\ c2 \in Seq(InstructionsOf(n, m)) /\ Len(c2) = n
        /\ \A j \in 1 .. n : c2[j].next = c1[j].next /\ c2[j].pre = IF j = i THEN t ELSE c1[j].pre
    BY <2>1, <2>2, <2>7, <2>8, SetPre
  <2> HIDE DEF c2
  <2>10. /\ c3 \in Seq(InstructionsOf(n, m)) /\ Len(c3) = n
         /\ \A j \in 1 .. n : c3[j].pre = c2[j].pre /\ c3[j].next = IF j = i THEN 0 ELSE c2[j].next
    <3>1. i \in 1 .. Len(c2) /\ n \in Nat /\ m \in Nat /\ 0 \in 0 .. n
      BY <2>1, <2>2, <2>7, <2>9
    <3>2. /\ [c2 EXCEPT ![i].next = 0] \in Seq(InstructionsOf(n, m)) /\ Len([c2 EXCEPT ![i].next = 0]) = Len(c2)
          /\ \A j \in 1 .. Len(c2) : /\ [c2 EXCEPT ![i].next = 0][j].pre = c2[j].pre
                                     /\ [c2 EXCEPT ![i].next = 0][j].next = IF j = i THEN 0 ELSE c2[j].next
      BY ONLY <2>9, <3>1, SetNext
    <3> QED
      BY ONLY <2>9, <3>2 DEF Null
  <2> HIDE DEF c3
  <2>11. \A j \in 1 .. n : /\ c3[j].pre = IF j = i THEN t ELSE p.code[j].pre
                           /\ c3[j].next = IF j = i THEN 0 ELSE IF j = t THEN i ELSE p.code[j].next
    BY <2>8, <2>9, <2>10
  <2>12. ~HasFor => \A j \in 1 .. n : c3[j].next # Null => c3[c3[j].next].pre = j
    <3> SUFFICES ASSUME ~HasFor, NEW j \in 1 .. n, c3[j].next # 0 PROVE c3[c3[j].next].pre = j
      BY DEF Null
    <3>1. j # i
      BY <2>11
    <3>2. CASE j = t
      BY <3>1, <3>2, <2>2, <2>11
    <3>3. CASE j # t
      <4>1. c3[j].next = p.code[j].next /\ p.code[j].next \in 1 .. n
        BY <2>1, <2>4, <2>11, <3>1, <3>3
      <4>2. p.code[p.code[j].next].pre = j
        BY <2>3, <4>1 DEF Null
      <4>3. p.code[j].next # i
        BY <2>1, <2>2, <4>2 DEF Null
      <4> QED
        BY <2>11, <4>1, <4>2, <4>3
    <3> QED
      BY <3>2, <3>3
  <2>13. ~HasFor => \A j \in 1 .. n : j # i /\ p.code[j].pre = Null => c3[j].pre = Null
    BY <2>11
  <2> DEFINE r == [p EXCEPT !.code = c3]
  <2>14. GoodBut(p, r, i) /\ GrowsBy(p, r, 0, 0, 0) /\ Well(r) /\ Running(r) /\ r.code = c3
    BY <1>3, <2>6, <2>10, <2>12, <2>13, RecodeGood
  <2> DEFINE q == [r EXCEPT !.tail = i]
  <2> HIDE DEF r
  <2>15. Good(r, q) /\ GrowsBy(r, q, 0, 0, 0) /\ q.tail = i
    BY <2>7, <2>10, <2>14, TailGood
  <2> HIDE DEF q
  <2>16. GoodBut(p, q, i) /\ Well(q)
    BY <2>14, <2>15, GoodChain
  <2>17. GrowsBy(p, q, 0, 0, 0)
    BY <2>1, <2>6, <2>14, <2>15 DEF GrowsBy, Well, Coded
  <2> QED
    BY <2>5, <2>15, <2>16, <2>17 DEF q, r
<1> QED
  BY <1>1, <1>2, <1>3

(* A pointer that must be followed and cannot stops the program.           *)
LEMMA StopGood ==
    ASSUME NEW p, Well(p), NEW w \in Reasons
    PROVE  Good(p, Stop(p, w)) /\ GrowsBy(p, Stop(p, w), 0, 0, 0) /\ (w # "no" => ~Running(Stop(p, w)))
<1>1. SameCode(p, Stop(p, w)) /\ (w # "no" => ~Running(Stop(p, w)))
  BY Stops DEF Keeps, Well
<1>2. Stop(p, w).stop \in Reasons
  <2>1. DOMAIN p = Fields /\ p.stop \in Reasons
    BY DEF Well, IsParser, Coded
  <2> QED
    BY <2>1 DEF Stop, Fields
<1> QED
  BY <1>1, <1>2, SilentGood

(* appendIR(first, second) of an instruction that is linked to none.       *)
LEMMA InsertGood ==
    ASSUME NEW p, Well(p), NEW i, NEW k,
           Running(p) => k \in {Unset} \cup 0 .. Len(p.code),
           Running(p) => i \in 1 .. Len(p.code) /\ (~HasFor => p.code[i].pre = Null)
    PROVE  LET q == InsertAfter(p, k, i)
           IN  GoodBut(p, q, i) /\ GrowsBy(p, q, 0, 0, 0) /\ Well(q)
<1>1. CASE ~Running(p)
  BY <1>1, GoodChain DEF InsertAfter, GrowsBy
<1>2. CASE Running(p) /\ k \in {Null, Unset}
  <2>1. InsertAfter(p, k, i) = Stop(p, "undefined")
    BY <1>2 DEF InsertAfter
  <2>2. "undefined" \in Reasons
    BY DEF Reasons
  <2>3. Good(p, Stop(p, "undefined")) /\ GrowsBy(p, Stop(p, "undefined"), 0, 0, 0)
    BY <2>2, StopGood
  <2> QED
    BY ONLY <2>1, <2>3, GoodChain
<1>3. CASE Running(p) /\ k \notin {Null, Unset}
  <2> DEFINE n == Len(p.code)
  <2> DEFINE m == p.labels
  <2> DEFINE c0 == p.code
  <2> DEFINE f == c0[k].next
  <2> DEFINE c1 == [c0 EXCEPT ![i].next = f]
  <2> DEFINE c2 == [c1 EXCEPT ![i].pre = k]
  <2> DEFINE c3 == [c2 EXCEPT ![k].next = i]
  <2> DEFINE c4 == IF f = Null THEN c3 ELSE [c3 EXCEPT ![f].pre = i]
  <2>1. InsertAfter(p, k, i) = [p EXCEPT !.code = c4]
    <3>1. InsertAfter(p, k, i) =
             [p EXCEPT !.code = IF p.code[k].next = Null
                                THEN [p.code EXCEPT ![i].next = p.code[k].next, ![i].pre = k, ![k].next = i]
                                ELSE [[p.code EXCEPT ![i].next = p.code[k].next, ![i].pre = k, ![k].next = i]
                                         EXCEPT ![p.code[k].next].pre = i]]
      BY <1>3 DEF InsertAfter
    <3> QED
      BY ONLY <3>1 DEF c0, c1, c2, c3, c4, f
  <2>2. /\ n \in Nat /\ m \in Nat /\ c0 \in Seq(InstructionsOf(n, m)) /\ Len(c0) = n
        /\ i \in 1 .. n /\ (~HasFor => c0[i].pre = Null) /\ k \in 1 .. n
    BY <1>3 DEF Well, Coded, Null, Unset
  <2>3. ~HasFor => \A j \in 1 .. n : c0[j].next # Null => c0[c0[j].next].pre = j
    BY DEF Well, Linked
  <2>4. n = Len(p.code) /\ m = p.labels /\ c0 = p.code
    OBVIOUS
  <2> HIDE DEF n, m, c0
  <2>5. \A j \in 1 .. n : c0[j].next \in 0 .. n
    <3> TAKE j \in 1 .. n
    <3>1. c0[j] \in InstructionsOf(n, m)
      BY <2>2
    <3> QED
      BY <3>1 DEF InstructionsOf
  <2>6. f \in 0 .. n /\ f = c0[k].next
    BY <2>2, <2>5
  <2> HIDE DEF f
  <2>7. i \in 0 .. n /\ k \in 0 .. n
    BY <2>2
  <2>8. /\ c1 \in Seq(InstructionsOf(n, m)) /\ Len(c1) = n
        /\ \A j \in 1 .. n : c1[j].pre = c0[j].pre /\ c1[j].next = IF j = i THEN f ELSE c0[j].next
    BY <2>2, <2>6, SetNext
  <2> HIDE DEF c1
  <2>9. /\ c2 \in Seq(InstructionsOf(n, m)) /\ Len(c2) = n
        /\ \A j \in 1 .. n : c2[j].next = c1[j].next /\ c2[j].pre = IF j = i THEN k ELSE c1[j].pre
    BY <2>2, <2>7, <2>8, SetPre
  <2> HIDE DEF c2
  <2>10. /\ c3 \in Seq(InstructionsOf(n, m)) /\ Len(c3) = n
         /\ \A j \in 1 .. n : c3[j].pre = c2[j].pre /\ c3[j].next = IF j = k THEN i ELSE c2[j].next
    BY <2>2, <2>7, <2>9, SetNext
  <2> HIDE DEF c3
  <2>11. /\ c4 \in Seq(InstructionsOf(n, m)) /\ Len(c4) = n
         /\ \A j \in 1 .. n : c4[j].next = c3[j].next /\ c4[j].pre = IF f # 0 /\ j = f THEN i ELSE c3[j].pre
    <3>1. CASE f = Null
      BY <3>1, <2>10 DEF Null
    <3>2. CASE f # Null
      <4>1. f \in 1 .. Len(c3)
        BY <3>2, <2>2, <2>6, <2>10 DEF Null
      <4>2. c4 = [c3 EXCEPT ![f].pre = i]
        BY <3>2
      <4> HIDE DEF c4
      <4> QED
        BY <3>2, <4>1, <4>2, <2>2, <2>7, <2>10, SetPre DEF Null
    <3> QED
      BY <3>1, <3>2
  <2> HIDE DEF c4
  <2>12. \A j \in 1 .. n : /\ c4[j].pre = IF f # 0 /\ j = f THEN i ELSE IF j = i THEN k ELSE c0[j].pre
                           /\ c4[j].next = IF j = k THEN i ELSE IF j = i THEN f ELSE c0[j].next
    BY <2>8, <2>9, <2>10, <2>11
  <2>13. ~HasFor => (f # 0 => f \in 1 .. n /\ c0[f].pre = k) /\ f # i
    BY <2>2, <2>3, <2>6 DEF Null
  <2>14. ~HasFor => \A j \in 1 .. n : c4[j].next # Null => c4[c4[j].next].pre = j
    <3> SUFFICES ASSUME ~HasFor, NEW j \in 1 .. n, c4[j].next # 0 PROVE c4[c4[j].next].pre = j
      BY DEF Null
    <3>1. CASE j = k
      BY <3>1, <2>2, <2>12, <2>13
    <3>2. CASE j # k /\ j = i
      BY <3>2, <2>2, <2>12, <2>13
    <3>3. CASE j # k /\ j # i
      <4>1. c4[j].next = c0[j].next /\ c0[j].next \in 1 .. n
        BY <2>2, <2>5, <2>12, <3>3
      <4>2. c0[c0[j].next].pre = j
        BY <2>3, <4>1 DEF Null
      <4>3. c0[j].next # i
        BY <2>2, <4>2 DEF Null
      <4>4. c0[j].next # f
        BY <2>13, <4>1, <4>2, <3>3
      <4> QED
        BY <2>12, <4>1, <4>2, <4>3, <4>4
    <3> QED
      BY <3>1, <3>2, <3>3
  <2>15. ~HasFor => \A j \in 1 .. n : j # i /\ c0[j].pre = Null => c4[j].pre = Null
    BY <2>2, <2>12, <2>13 DEF Null
  <2> DEFINE r == [p EXCEPT !.code = c4]
  <2>16. GoodBut(p, r, i) /\ GrowsBy(p, r, 0, 0, 0) /\ Well(r)
    <3>1. c4 \in Seq(InstructionsOf(Len(p.code), p.labels)) /\ Len(c4) = Len(p.code)
      BY <2>4, <2>11
    <3>2. ~HasFor => \A j \in 1 .. Len(p.code) : c4[j].next # Null => c4[c4[j].next].pre = j
      BY ONLY <2>4, <2>14
    <3>3. ~HasFor => \A j \in 1 .. Len(p.code) : j # i /\ p.code[j].pre = Null => c4[j].pre = Null
      BY ONLY <2>4, <2>15
    <3> QED
      BY ONLY Well(p), <1>3, <3>1, <3>2, <3>3, RecodeGood, ZenonT(60)
  <2> QED
    BY <2>1, <2>16
<1> QED
  BY <1>1, <1>2, <1>3

(* In front of an instruction a new one goes behind the one before it.     *)
LEMMA BeforeGood ==
    ASSUME NEW p, Well(p), NEW i, NEW k,
           Running(p) => k \in {Unset} \cup 0 .. Len(p.code),
           Running(p) => i \in 1 .. Len(p.code) /\ (~HasFor => p.code[i].pre = Null)
    PROVE  LET q == InsertBefore(p, k, i)
           IN  GoodBut(p, q, i) /\ GrowsBy(p, q, 0, 0, 0) /\ Well(q)
<1>1. CASE ~Running(p)
  BY <1>1, GoodChain DEF InsertBefore, GrowsBy
<1>2. CASE Running(p) /\ k \in {Null, Unset}
  <2>1. InsertBefore(p, k, i) = Stop(p, "undefined")
    BY <1>2 DEF InsertBefore
  <2>2. "undefined" \in Reasons
    BY DEF Reasons
  <2>3. Good(p, Stop(p, "undefined")) /\ GrowsBy(p, Stop(p, "undefined"), 0, 0, 0)
    BY <2>2, StopGood
  <2> QED
    BY ONLY <2>1, <2>3, GoodChain
<1>3. CASE Running(p) /\ k \notin {Null, Unset}
  <2>1. InsertBefore(p, k, i) = InsertAfter(p, p.code[k].pre, i)
    BY <1>3 DEF InsertBefore
  <2>2. p.code[k].pre \in 0 .. Len(p.code)
    <3>1. p.code[k] \in InstructionsOf(Len(p.code), p.labels)
      BY <1>3 DEF Well, Coded, Null, Unset
    <3> QED
      BY <3>1 DEF InstructionsOf
  <2> QED
    BY <2>1, <2>2, InsertGood
<1> QED
  BY <1>1, <1>2, <1>3

(* Label().                                                                *)
LEMMA LabelGood ==
    ASSUME NEW p, Well(p)
    PROVE  LET q == FreshLabel(p) IN Good(p, q) /\ GrowsBy(p, q, 0, 1, 0) /\ Well(q)
<1>1. CASE ~Running(p)
  BY <1>1, GoodChain DEF FreshLabel, GrowsBy
<1>2. CASE Running(p)
  <2> DEFINE q == FreshLabel(p)
  <2>1. DOMAIN p = Fields
    BY DEF Well, IsParser
  <2>2. q = [p EXCEPT !.labels = p.labels + 1]
    BY <1>2 DEF FreshLabel
  <2>3. /\ IsParser(q) /\ q.code = p.code /\ q.tail = p.tail /\ q.labels = p.labels + 1
        /\ q.lists = p.lists /\ q.stop = p.stop
    BY <2>1, <2>2 DEF IsParser, Fields
  <2> HIDE DEF q
  <2>4. Len(p.code) \in Nat /\ Len(p.lists) \in Nat /\ p.labels \in Nat /\ p.labels + 1 \in Nat
        /\ p.labels <= p.labels + 1 /\ Len(p.code) <= Len(p.code)
    BY DEF Well, Coded
  <2>5. p.code \in Seq(InstructionsOf(Len(p.code), p.labels + 1))
    BY <2>4, CodeWidens DEF Well, Coded
  <2>6. Well(q)
    BY <2>3, <2>4, <2>5 DEF Well, Coded, Linked
  <2>7. Good(p, q) /\ GrowsBy(p, q, 0, 1, 0)
    BY <1>2, <2>3, <2>4, <2>6 DEF Good, GoodBut, GrowsBy
  <2> QED
    BY <2>6, <2>7 DEF q
<1> QED
  BY <1>1, <1>2

(* The lists may change, as long as they hold instructions there are.      *)
LEMMA RelistGood ==
    ASSUME NEW p, Well(p), Running(p), NEW k \in Nat, NEW l \in Seq(Seq(1 .. Len(p.code))), Len(l) = Len(p.lists) + k
    PROVE  LET q == [p EXCEPT !.lists = l] IN Good(p, q) /\ GrowsBy(p, q, 0, 0, k) /\ Well(q)
<1> DEFINE q == [p EXCEPT !.lists = l]
<1>1. DOMAIN p = Fields
  BY DEF Well, IsParser
<1>2. /\ IsParser(q) /\ q.code = p.code /\ q.tail = p.tail /\ q.labels = p.labels
      /\ q.lists = l /\ q.stop = p.stop
  BY <1>1 DEF IsParser, Fields
<1> HIDE DEF q
<1>3. Well(q)
  BY <1>2 DEF Well, Coded, Linked
<1>4. Len(p.code) \in Nat /\ Len(p.lists) \in Nat /\ p.labels \in Nat /\ Len(p.lists) <= Len(p.lists) + k
  BY DEF Well, Coded
<1>5. Good(p, q) /\ GrowsBy(p, q, 0, 0, k)
  BY <1>2, <1>3, <1>4 DEF Good, GoodBut, GrowsBy
<1> QED
  BY <1>3, <1>5 DEF q

(* makeIRList() of an instruction there is.                                *)
LEMMA ListGood ==
    ASSUME NEW p, Well(p), NEW i, Running(p) => i \in 1 .. Len(p.code)
    PROVE  LET q == MakeList(p, i) IN Good(p, q) /\ GrowsBy(p, q, 0, 0, 1) /\ Well(q)
<1>1. CASE ~Running(p)
  BY <1>1, GoodChain DEF MakeList, GrowsBy
<1>2. CASE Running(p)
  <2>1. MakeList(p, i) = [p EXCEPT !.lists = Append(p.lists, <<i>>)]
    BY <1>2 DEF MakeList
  <2> DEFINE z == Append(p.lists, <<i>>)
  <2>2. <<i>> \in Seq(1 .. Len(p.code)) /\ p.lists \in Seq(Seq(1 .. Len(p.code))) /\ 1 \in Nat
    BY <1>2 DEF Well, Coded
  <2>3. z \in Seq(Seq(1 .. Len(p.code))) /\ Len(z) = Len(p.lists) + 1
    BY <2>2
  <2>4. MakeList(p, i) = [p EXCEPT !.lists = z]
    BY <2>1
  <2> HIDE DEF z
  <2>5. Good(p, [p EXCEPT !.lists = z]) /\ GrowsBy(p, [p EXCEPT !.lists = z], 0, 0, 1) /\ Well([p EXCEPT !.lists = z])
    BY <1>2, <2>2, <2>3, RelistGood
  <2> QED
    BY <2>4, <2>5
<1> QED
  BY <1>1, <1>2

(* A list there is, or none.                                               *)
IsListOf(p, l) == l \in {Null, Unset} \cup 1 .. Len(p.lists)

(* A list that is null or not set stops the parser.                        *)
LEMMA FollowGood ==
    ASSUME NEW p, Well(p), NEW l
    PROVE  Good(p, Follow(p, l)) /\ GrowsBy(p, Follow(p, l), 0, 0, 0) /\ Well(Follow(p, l))
<1>1. "undefined" \in Reasons
  BY DEF Reasons
<1>2. Good(p, Stop(p, "undefined")) /\ GrowsBy(p, Stop(p, "undefined"), 0, 0, 0)
  BY <1>1, StopGood
<1> QED
  BY <1>2, GoodChain DEF Follow

(* mergeChain() of two lists there are, or of none.                        *)
LEMMA MergeGood ==
    ASSUME NEW p, Well(p), NEW k, NEW l, Running(p) => IsListOf(p, k) /\ IsListOf(p, l)
    PROVE  LET q == Merge(p, k, l) IN Good(p, q) /\ GrowsBy(p, q, 0, 0, 0) /\ Well(q)
<1>1. CASE ~(CanFollow(p, k) /\ CanFollow(p, l))
  <2> DEFINE a == Follow(p, k)
  <2>1. Good(p, a) /\ GrowsBy(p, a, 0, 0, 0) /\ Well(a)
    BY FollowGood
  <2>2. Merge(p, k, l) = Follow(a, l)
    BY <1>1 DEF Merge
  <2> HIDE DEF a
  <2>3. Good(a, Follow(a, l)) /\ GrowsBy(a, Follow(a, l), 0, 0, 0) /\ Well(Follow(a, l))
    BY <2>1, FollowGood
  <2>4. Good(p, Follow(a, l))
    BY <2>1, <2>3, GoodChain
  <2>5. GrowsBy(p, Follow(a, l), 0, 0, 0)
    <3>1. Len(p.code) \in Nat /\ Len(p.lists) \in Nat /\ p.labels \in Nat
      BY DEF Well, Coded
    <3> QED
      BY <2>1, <2>3, <3>1 DEF GrowsBy
  <2> QED
    BY <2>2, <2>3, <2>4, <2>5
<1>2. CASE CanFollow(p, k) /\ CanFollow(p, l)
  <2>1. Running(p) /\ k \in 1 .. Len(p.lists) /\ l \in 1 .. Len(p.lists)
    BY <1>2 DEF CanFollow, IsListOf
  <2> DEFINE s == p.lists
  <2> DEFINE e == s[k] \o s[l]
  <2>2. Merge(p, k, l) = [p EXCEPT !.lists = [s EXCEPT ![k] = e]]
    BY <1>2 DEF Merge
  <2>3. s \in Seq(Seq(1 .. Len(p.code))) /\ k \in 1 .. Len(s) /\ l \in 1 .. Len(s)
    BY <2>1 DEF Well, Coded
  <2>4. s = p.lists /\ e = s[k] \o s[l]
    OBVIOUS
  <2> HIDE DEF s, e
  <2>5. e \in Seq(1 .. Len(p.code))
    BY <2>3, <2>4
  <2>6. [s EXCEPT ![k] = e] \in Seq(Seq(1 .. Len(p.code))) /\ Len([s EXCEPT ![k] = e]) = Len(s)
    BY <2>3, <2>5, ExceptSeq
  <2>7. Len(s) = Len(p.lists) + 0 /\ 0 \in Nat
    BY <2>3, <2>4
  <2> DEFINE z == [s EXCEPT ![k] = e]
  <2>8. z \in Seq(Seq(1 .. Len(p.code))) /\ Len(z) = Len(p.lists) + 0
    BY <2>6, <2>7
  <2> HIDE DEF z
  <2>9. Good(p, [p EXCEPT !.lists = z]) /\ GrowsBy(p, [p EXCEPT !.lists = z], 0, 0, 0) /\ Well([p EXCEPT !.lists = z])
    BY <2>1, <2>7, <2>8, RelistGood
  <2> QED
    BY <2>2, <2>9 DEF z
<1> QED
  BY <1>1, <1>2

(* mergeChain() of a list and one instruction.                             *)
LEMMA MergeOneGood ==
    ASSUME NEW p, Well(p), NEW l, Running(p) => IsListOf(p, l), NEW i, Running(p) => i \in 1 .. Len(p.code)
    PROVE  LET q == MergeOne(p, l, i) IN Good(p, q) /\ GrowsBy(p, q, 0, 0, 0) /\ Well(q)
<1>1. CASE ~CanFollow(p, l)
  BY <1>1, FollowGood DEF MergeOne
<1>2. CASE CanFollow(p, l)
  <2>1. Running(p) /\ l \in 1 .. Len(p.lists) /\ i \in 1 .. Len(p.code)
    BY <1>2 DEF CanFollow, IsListOf
  <2> DEFINE s == p.lists
  <2> DEFINE e == Append(s[l], i)
  <2>2. MergeOne(p, l, i) = [p EXCEPT !.lists = [s EXCEPT ![l] = e]]
    BY <1>2 DEF MergeOne
  <2>3. s \in Seq(Seq(1 .. Len(p.code))) /\ l \in 1 .. Len(s)
    BY <2>1 DEF Well, Coded
  <2>4. s = p.lists /\ e = Append(s[l], i)
    OBVIOUS
  <2> HIDE DEF s, e
  <2>5. e \in Seq(1 .. Len(p.code))
    BY <2>1, <2>3, <2>4
  <2>6. [s EXCEPT ![l] = e] \in Seq(Seq(1 .. Len(p.code))) /\ Len([s EXCEPT ![l] = e]) = Len(s)
    BY <2>3, <2>5, ExceptSeq
  <2>7. Len(s) = Len(p.lists) + 0 /\ 0 \in Nat
    BY <2>3, <2>4
  <2> DEFINE z == [s EXCEPT ![l] = e]
  <2>8. z \in Seq(Seq(1 .. Len(p.code))) /\ Len(z) = Len(p.lists) + 0
    BY <2>6, <2>7
  <2> HIDE DEF z
  <2>9. Good(p, [p EXCEPT !.lists = z]) /\ GrowsBy(p, [p EXCEPT !.lists = z], 0, 0, 0) /\ Well([p EXCEPT !.lists = z])
    BY <2>1, <2>7, <2>8, RelistGood
  <2> QED
    BY <2>2, <2>9 DEF z
<1> QED
  BY <1>1, <1>2

(* backPatch() of a list there is, with a label there is.                  *)
LEMMA PatchAllGood ==
    ASSUME NEW p, Well(p), NEW l, Running(p) => IsListOf(p, l), NEW label, Running(p) => label \in 1 .. p.labels
    PROVE  LET q == PatchAll(p, l, label) IN Good(p, q) /\ GrowsBy(p, q, 0, 0, 0) /\ Well(q)
<1>0. PatchAll(p, l, label) = Follow(PatchList(p, l, label), l)
  BY ONLY DEF PatchAll
<1>1. CASE ~CanFollow(p, l)
  <2>1. PatchAll(p, l, label) = Follow(p, l)
    BY <1>0, <1>1 DEF PatchList
  <2>2. Good(p, Follow(p, l)) /\ GrowsBy(p, Follow(p, l), 0, 0, 0) /\ Well(Follow(p, l))
    BY FollowGood
  <2> QED
    BY ONLY <2>1, <2>2
<1>2. CASE CanFollow(p, l)
  <2> DEFINE n == Len(p.code)
  <2> DEFINE m == p.labels
  <2> DEFINE c == Patched(p, l, label)
  <2>1. Running(p) /\ label \in 1 .. m
    BY <1>2 DEF CanFollow
  <2>2. n \in Nat /\ m \in Nat /\ p.code \in Seq(InstructionsOf(n, m)) /\ DOMAIN p.code = 1 .. n
    BY DEF Well, Coded
  <2>3. PatchAll(p, l, label) = [p EXCEPT !.code = c]
    <3> DEFINE z == [p EXCEPT !.code = c]
    <3>1. PatchList(p, l, label) = z
      BY ONLY <1>2 DEF PatchList
    <3> HIDE DEF z
    <3>2. Follow(z, l) = z
      BY ONLY <1>2 DEF Follow, CanFollow
    <3> QED
      BY ONLY <1>0, <3>1, <3>2 DEF z
  <2>4. \A i \in 1 .. n : c[i] = IF InList(p, l, i) THEN [p.code[i] EXCEPT !.dest = label] ELSE p.code[i]
    BY <2>2 DEF Patched
  <2>5. DOMAIN c = 1 .. n
    BY <2>2 DEF Patched
  <2>6. n = Len(p.code) /\ m = p.labels
    OBVIOUS
  <2>7. c = [i \in 1 .. n |-> c[i]]
    BY <2>2 DEF Patched
  <2> HIDE DEF c, n, m
  <2>8. \A i \in 1 .. n : c[i] \in InstructionsOf(n, m) /\ c[i].next = p.code[i].next /\ c[i].pre = p.code[i].pre
    <3> SUFFICES ASSUME NEW i \in 1 .. n
                 PROVE  c[i] \in InstructionsOf(n, m) /\ c[i].next = p.code[i].next /\ c[i].pre = p.code[i].pre
      OBVIOUS
    <3> DEFINE e == p.code[i]
    <3> DEFINE r == [e EXCEPT !.dest = label]
    <3>1. e \in InstructionsOf(n, m)
      BY <2>2, <2>6
    <3>2. c[i] = r \/ c[i] = e
      BY <2>4
    <3> HIDE DEF e
    <3>3. r \in InstructionsOf(n, m) /\ r.next = e.next /\ r.pre = e.pre
      BY <3>1, <2>1 DEF InstructionsOf
    <3> QED
      BY <3>1, <3>2, <3>3 DEF e
  <2>9. c \in [1 .. n -> InstructionsOf(n, m)]
    BY <2>7, <2>8
  <2>10. c \in Seq(InstructionsOf(n, m)) /\ Len(c) = n
    BY <2>2, <2>9
  <2>11. ~HasFor => \A j \in 1 .. n : p.code[j].next # Null => p.code[p.code[j].next].pre = j
    BY <2>6 DEF Well, Linked
  <2>12. \A j \in 1 .. n : p.code[j].next \in 0 .. n
    <3> TAKE j \in 1 .. n
    <3>1. p.code[j] \in InstructionsOf(n, m)
      BY <2>2, <2>6
    <3> QED
      BY <3>1 DEF InstructionsOf
  <2>13. ~HasFor => \A j \in 1 .. n : c[j].next # Null => c[c[j].next].pre = j
    <3> SUFFICES ASSUME ~HasFor, NEW j \in 1 .. n, c[j].next # 0 PROVE c[c[j].next].pre = j
      BY DEF Null
    <3>1. c[j].next = p.code[j].next /\ p.code[j].next \in 1 .. n
      BY <2>2, <2>8, <2>12
    <3>2. p.code[p.code[j].next].pre = j
      BY <2>11, <3>1 DEF Null
    <3> QED
      BY <2>8, <3>1, <3>2
  <2>14. ~HasFor => \A j \in 1 .. n : j # Null /\ p.code[j].pre = Null => c[j].pre = Null
    BY <2>8
  <2>15. GoodBut(p, [p EXCEPT !.code = c], Null) /\ GrowsBy(p, [p EXCEPT !.code = c], 0, 0, 0) /\ Well([p EXCEPT !.code = c])
    <3>1. c \in Seq(InstructionsOf(Len(p.code), p.labels)) /\ Len(c) = Len(p.code)
      BY <2>6, <2>10
    <3>2. ~HasFor => \A j \in 1 .. Len(p.code) : c[j].next # Null => c[c[j].next].pre = j
      BY ONLY <2>6, <2>13
    <3>3. ~HasFor => \A j \in 1 .. Len(p.code) : j # Null /\ p.code[j].pre = Null => c[j].pre = Null
      BY ONLY <2>6, <2>14
    <3> QED
      BY ONLY Well(p), <2>1, <3>1, <3>2, <3>3, RecodeGood, ZenonT(60)
  <2> QED
    BY <2>3, <2>15 DEF Good
<1> QED
  BY <1>1, <1>2

(* backPatch() of one instruction.                                         *)
LEMMA PatchOneGood ==
    ASSUME NEW p, Well(p), NEW i, Running(p) => i \in 1 .. Len(p.code),
           NEW label, Running(p) => label \in 1 .. p.labels
    PROVE  LET q == PatchOne(p, i, label) IN Good(p, q) /\ GrowsBy(p, q, 0, 0, 0) /\ Well(q)
<1>1. CASE ~Running(p)
  BY <1>1, GoodChain DEF PatchOne, GrowsBy
<1>2. CASE Running(p)
  <2> DEFINE n == Len(p.code)
  <2> DEFINE m == p.labels
  <2> DEFINE c0 == p.code
  <2> DEFINE c == [c0 EXCEPT ![i].dest = label]
  <2>1. PatchOne(p, i, label) = [p EXCEPT !.code = c]
    BY <1>2 DEF PatchOne
  <2>2. n \in Nat /\ m \in Nat /\ c0 \in Seq(InstructionsOf(n, m)) /\ i \in 1 .. Len(c0) /\ label \in 1 .. m
    BY <1>2 DEF Well, Coded
  <2>3. n = Len(p.code) /\ m = p.labels /\ c0 = p.code
    OBVIOUS
  <2> HIDE DEF n, m, c0
  <2>4. /\ c \in Seq(InstructionsOf(n, m)) /\ Len(c) = Len(c0)
        /\ \A j \in 1 .. Len(c0) : c[j].next = c0[j].next /\ c[j].pre = c0[j].pre
    BY <2>2, SetDest
  <2> HIDE DEF c
  <2>5. ~HasFor => \A j \in 1 .. n : c0[j].next # Null => c0[c0[j].next].pre = j
    BY <2>3 DEF Well, Linked
  <2>6. \A j \in 1 .. n : c0[j].next \in 0 .. n
    <3> TAKE j \in 1 .. n
    <3>1. c0[j] \in InstructionsOf(n, m)
      BY <2>2, <2>3
    <3> QED
      BY <3>1 DEF InstructionsOf
  <2>7. ~HasFor => \A j \in 1 .. n : c[j].next # Null => c[c[j].next].pre = j
    <3> SUFFICES ASSUME ~HasFor, NEW j \in 1 .. n, c[j].next # 0 PROVE c[c[j].next].pre = j
      BY DEF Null
    <3>1. c[j].next = c0[j].next /\ c0[j].next \in 1 .. n
      BY <2>2, <2>3, <2>4, <2>6
    <3>2. c0[c0[j].next].pre = j
      BY <2>5, <3>1 DEF Null
    <3> QED
      BY <2>3, <2>4, <3>1, <3>2
  <2>8. GoodBut(p, [p EXCEPT !.code = c], Null) /\ GrowsBy(p, [p EXCEPT !.code = c], 0, 0, 0) /\ Well([p EXCEPT !.code = c])
    <3>1. c \in Seq(InstructionsOf(Len(p.code), p.labels)) /\ Len(c) = Len(p.code)
      BY <2>3, <2>4
    <3>2. ~HasFor => \A j \in 1 .. Len(p.code) : c[j].next # Null => c[c[j].next].pre = j
      BY ONLY <2>3, <2>7
    <3>3. ~HasFor => \A j \in 1 .. Len(p.code) : j # Null /\ p.code[j].pre = Null => c[j].pre = Null
      BY <2>3, <2>4
    <3> QED
      BY ONLY Well(p), <1>2, <3>1, <3>2, <3>3, RecodeGood, ZenonT(60)
  <2> QED
    BY <2>1, <2>8 DEF Good
<1> QED
  BY <1>1, <1>2

(* q is p with so many instructions, labels and lists more.                *)
Adds(p, q, n, m, k) == Well(p) /\ Good(p, q) /\ GrowsBy(p, q, n, m, k) /\ n \in Nat /\ m \in Nat /\ k \in Nat
Extends(p, q) == Well(p) /\ Good(p, q)

(* What is added in two operations is the sum.                             *)
LEMMA AddsChain ==
    ASSUME NEW b, NEW p, NEW q, NEW n, NEW m, NEW k, NEW n2, NEW m2, NEW k2, Adds(p, q, n2, m2, k2)
    PROVE  /\ Adds(b, p, n, m, k) => Adds(b, q, n + n2, m + m2, k + k2)
           /\ Extends(b, p) => Extends(b, q)
           /\ Extends(p, q) /\ Well(q) /\ IsParser(q)
<1>1. Extends(p, q) /\ Well(q) /\ IsParser(q)
  BY GoodChain DEF Adds, Extends
<1>2. Extends(b, p) => Extends(b, q)
  BY <1>1, GoodChain DEF Extends
<1>3. ASSUME Adds(b, p, n, m, k) PROVE Adds(b, q, n + n2, m + m2, k + k2)
  <2>1. Good(b, q) /\ Well(b)
    BY <1>3, <1>2 DEF Adds, Extends
  <2>2. /\ n \in Nat /\ m \in Nat /\ k \in Nat /\ n2 \in Nat /\ m2 \in Nat /\ k2 \in Nat
        /\ Len(b.code) \in Nat /\ Len(b.lists) \in Nat /\ b.labels \in Nat
    BY <1>3 DEF Adds, Well, Coded
  <2>3. n + n2 \in Nat /\ m + m2 \in Nat /\ k + k2 \in Nat
    BY <2>2
  <2>4. GrowsBy(b, q, n + n2, m + m2, k + k2)
    <3> SUFFICES ASSUME Running(q)
                 PROVE  /\ Running(b)
                        /\ Len(q.code) = Len(b.code) + (n + n2) /\ q.labels = b.labels + (m + m2)
                        /\ Len(q.lists) = Len(b.lists) + (k + k2)
      BY DEF GrowsBy
    <3>1. /\ Running(p)
          /\ Len(q.code) = Len(p.code) + n2 /\ q.labels = p.labels + m2 /\ Len(q.lists) = Len(p.lists) + k2
      BY DEF Adds, GrowsBy
    <3>2. /\ Running(b)
          /\ Len(p.code) = Len(b.code) + n /\ p.labels = b.labels + m /\ Len(p.lists) = Len(b.lists) + k
      BY <1>3, <3>1 DEF Adds, GrowsBy
    <3>4. Len(q.code) = Len(b.code) + (n + n2)
      <4> DEFINE x == Len(b.code)
      <4> DEFINE y == Len(p.code)
      <4> DEFINE z == Len(q.code)
      <4>1. x \in Nat /\ y = x + n /\ z = y + n2 /\ n \in Nat /\ n2 \in Nat
        BY ONLY <2>2, <3>1, <3>2
      <4> HIDE DEF x, y, z
      <4>2. z = x + (n + n2)
        BY ONLY <4>1
      <4> QED
        BY ONLY <4>2 DEF x, y, z
    <3>5. q.labels = b.labels + (m + m2)
      <4> DEFINE x == b.labels
      <4> DEFINE y == p.labels
      <4> DEFINE z == q.labels
      <4>1. x \in Nat /\ y = x + m /\ z = y + m2 /\ m \in Nat /\ m2 \in Nat
        BY ONLY <2>2, <3>1, <3>2
      <4> HIDE DEF x, y, z
      <4>2. z = x + (m + m2)
        BY ONLY <4>1
      <4> QED
        BY ONLY <4>2 DEF x, y, z
    <3>6. Len(q.lists) = Len(b.lists) + (k + k2)
      <4> DEFINE x == Len(b.lists)
      <4> DEFINE y == Len(p.lists)
      <4> DEFINE z == Len(q.lists)
      <4>1. x \in Nat /\ y = x + k /\ z = y + k2 /\ k \in Nat /\ k2 \in Nat
        BY ONLY <2>2, <3>1, <3>2
      <4> HIDE DEF x, y, z
      <4>2. z = x + (k + k2)
        BY ONLY <4>1
      <4> QED
        BY ONLY <4>2 DEF x, y, z
    <3> QED
      BY ONLY <3>2, <3>4, <3>5, <3>6
  <2> QED
    BY <2>1, <2>3, <2>4 DEF Adds
<1> QED
  BY <1>1, <1>2, <1>3

(* How long the code and the lists are then.                               *)
LEMMA AddsLength ==
    ASSUME NEW b, NEW p, NEW n, NEW m, NEW k, Adds(b, p, n, m, k)
    PROVE  /\ Running(p) => Running(b)
           /\ Running(p) => Len(p.code) = Len(b.code) + n /\ p.labels = b.labels + m /\ Len(p.lists) = Len(b.lists) + k
           /\ Len(b.code) \in Nat /\ Len(b.lists) \in Nat /\ b.labels \in Nat
           /\ Len(p.code) \in Nat /\ Len(p.lists) \in Nat /\ p.labels \in Nat
           /\ Well(b) /\ Well(p) /\ IsParser(b) /\ IsParser(p)
<1>1. Well(b) /\ Well(p) /\ IsParser(p) /\ IsParser(b)
  BY GoodChain DEF Adds, Well
<1> QED
  BY <1>1 DEF Adds, GrowsBy, Well, Coded

(* What takes a new instruction in stays well linked.                      *)
LEMMA NewPlaced ==
    ASSUME NEW b, NEW p, NEW n, NEW m, NEW k, Adds(b, p, n, m, k), NEW i, NEW q,
           GoodBut(p, q, i), GrowsBy(p, q, 0, 0, 0), Running(p) => i \notin 1 .. Len(b.code)
    PROVE  Adds(b, q, n, m, k)
<1>1. Running(q) => i \notin 1 .. Len(b.code)
  BY DEF GoodBut
<1>2. Good(b, q) /\ Well(b)
  BY <1>1, GoodChain DEF Adds
<1>3. /\ n \in Nat /\ m \in Nat /\ k \in Nat
      /\ Len(b.code) \in Nat /\ Len(b.lists) \in Nat /\ b.labels \in Nat
  BY DEF Adds, Well, Coded
<1>4. GrowsBy(b, q, n, m, k)
  BY <1>3 DEF Adds, GrowsBy
<1> QED
  BY <1>2, <1>3, <1>4 DEF Adds

(* An instruction that is made and appended.                               *)
LEMMA NewAppended ==
    ASSUME NEW p, Well(p), NEW op \in Ops, NEW d, Running(p) => d \in {Unset} \cup 1 .. p.labels,
           NEW i, Running(p) => i = Len(p.code) + 1
    PROVE  LET q == Append1(Make(p, op, d), i)
           IN  Adds(p, q, 1, 0, 0) /\ (Running(q) => q.tail = i)
<1> DEFINE m == Make(p, op, d)
           q == Append1(m, i)
<1>1. /\ Good(p, m) /\ GrowsBy(p, m, 1, 0, 0)
      /\ Running(m) => m.code[Len(m.code)].pre = Null
  BY MakeGood
<1>2. Adds(p, m, 1, 0, 0)
  BY <1>1 DEF Adds
<1> HIDE DEF m
<1>3. Running(m) => Len(m.code) = i /\ i \in 1 .. Len(m.code) /\ i \notin 1 .. Len(p.code)
  BY <1>2, AddsLength
<1>4. Running(m) => i \in 1 .. Len(m.code) /\ (~HasFor => m.code[i].pre = Null)
  BY <1>1, <1>3
<1>5. Well(m)
  BY <1>2, AddsLength
<1>6. GoodBut(m, q, i) /\ GrowsBy(m, q, 0, 0, 0) /\ (Running(q) => q.tail = i)
  BY <1>4, <1>5, AppendGood
<1> HIDE DEF q
<1>7. Adds(p, q, 1, 0, 0)
  BY <1>2, <1>3, <1>6, NewPlaced
<1> QED
  BY <1>6, <1>7 DEF q, m

(* An instruction that is made and put behind another.                     *)
LEMMA NewInserted ==
    ASSUME NEW p, Well(p), NEW op \in Ops, NEW d, Running(p) => d \in {Unset} \cup 1 .. p.labels,
           NEW i, Running(p) => i = Len(p.code) + 1,
           NEW at, Running(p) => at \in {Unset} \cup 0 .. Len(p.code)
    PROVE  Adds(p, InsertAfter(Make(p, op, d), at, i), 1, 0, 0)
<1> DEFINE m == Make(p, op, d)
           q == InsertAfter(m, at, i)
<1>1. /\ Good(p, m) /\ GrowsBy(p, m, 1, 0, 0)
      /\ Running(m) => m.code[Len(m.code)].pre = Null
  BY MakeGood
<1>2. Adds(p, m, 1, 0, 0)
  BY <1>1 DEF Adds
<1> HIDE DEF m
<1>3. Running(m) => /\ Len(m.code) = i /\ i \in 1 .. Len(m.code) /\ i \notin 1 .. Len(p.code)
                    /\ at \in {Unset} \cup 0 .. Len(m.code)
  BY <1>2, AddsLength
<1>4. Running(m) => i \in 1 .. Len(m.code) /\ (~HasFor => m.code[i].pre = Null)
  BY <1>1, <1>3
<1>5. Well(m)
  BY <1>2, AddsLength
<1>6. GoodBut(m, q, i) /\ GrowsBy(m, q, 0, 0, 0)
  BY <1>3, <1>4, <1>5, InsertGood
<1> HIDE DEF q
<1>7. Adds(p, q, 1, 0, 0)
  BY <1>2, <1>3, <1>6, NewPlaced
<1> QED
  BY <1>7 DEF q, m

(* A list, a label and an instruction there are.                           *)
ListAt(p, l) == Running(p) => IsListOf(p, l)
LabelAt(p, label) == Running(p) => label \in 1 .. p.labels
InstructionAt(p, i) == Running(p) => i \in 1 .. Len(p.code)

(* What each operation of the code adds.                                   *)
LEMMA OperationsAdd ==
    ASSUME NEW p, Well(p)
    PROVE  /\ Adds(p, p, 0, 0, 0)
           /\ \A op \in Ops : Adds(p, Make(p, op, Unset), 1, 0, 0)
           /\ \A op \in Ops : Adds(p, Emit(p, op), 1, 0, 0) /\ (Running(Emit(p, op)) => Emit(p, op).tail = Newest(p) + 1)
           /\ Adds(p, MakeHead(p), 1, 0, 0)
           /\ Adds(p, FreshLabel(p), 0, 1, 0)
           /\ \A i : InstructionAt(p, i) => Adds(p, MakeList(p, i), 0, 0, 1)
           /\ \A k, l : ListAt(p, k) /\ ListAt(p, l) => Adds(p, Merge(p, k, l), 0, 0, 0)
           /\ \A l, i : ListAt(p, l) /\ InstructionAt(p, i) => Adds(p, MergeOne(p, l, i), 0, 0, 0)
           /\ \A l, label : ListAt(p, l) /\ LabelAt(p, label) => Adds(p, PatchAll(p, l, label), 0, 0, 0)
           /\ \A i, label : InstructionAt(p, i) /\ LabelAt(p, label) => Adds(p, PatchOne(p, i, label), 0, 0, 0)
           /\ \A l : Adds(p, Follow(p, l), 0, 0, 0)
           /\ \A w \in Reasons : Adds(p, Stop(p, w), 0, 0, 0)
           /\ \A t : Adds(p, Needed(p, t), 0, 0, 0)
           /\ \A block : Adds(p, Read(p, block), 0, 0, 0)
<1>1. 0 \in Nat /\ 1 \in Nat
  OBVIOUS
<1>2. Adds(p, p, 0, 0, 0)
  BY <1>1, GoodChain DEF Adds
<1>3. ASSUME NEW op \in Ops PROVE Adds(p, Make(p, op, Unset), 1, 0, 0)
  BY <1>1, MakeGood DEF Adds
<1>4. ASSUME NEW op \in Ops
      PROVE  Adds(p, Emit(p, op), 1, 0, 0) /\ (Running(Emit(p, op)) => Emit(p, op).tail = Newest(p) + 1)
  <2> DEFINE i == Newest(p) + 1
  <2>1. i = Len(p.code) + 1
    BY DEF Newest
  <2>2. Emit(p, op) = Append1(Make(p, op, Unset), i)
    BY DEF Emit
  <2> HIDE DEF i
  <2>3. Adds(p, Append1(Make(p, op, Unset), i), 1, 0, 0) /\ (Running(Append1(Make(p, op, Unset), i)) => Append1(Make(p, op, Unset), i).tail = i)
    BY <2>1, NewAppended
  <2> QED
    BY <2>2, <2>3 DEF i
<1>5. Adds(p, MakeHead(p), 1, 0, 0)
  BY <1>1, HeadGood DEF Adds
<1>6. Adds(p, FreshLabel(p), 0, 1, 0)
  BY <1>1, LabelGood DEF Adds
<1>7. ASSUME NEW i, InstructionAt(p, i) PROVE Adds(p, MakeList(p, i), 0, 0, 1)
  BY <1>1, <1>7, ListGood DEF Adds, InstructionAt
<1>8. ASSUME NEW k, NEW l, ListAt(p, k), ListAt(p, l) PROVE Adds(p, Merge(p, k, l), 0, 0, 0)
  BY <1>1, <1>8, MergeGood DEF Adds, ListAt
<1>9. ASSUME NEW l, NEW i, ListAt(p, l), InstructionAt(p, i) PROVE Adds(p, MergeOne(p, l, i), 0, 0, 0)
  BY <1>1, <1>9, MergeOneGood DEF Adds, ListAt, InstructionAt
<1>10. ASSUME NEW l, NEW label, ListAt(p, l), LabelAt(p, label) PROVE Adds(p, PatchAll(p, l, label), 0, 0, 0)
  BY <1>1, <1>10, PatchAllGood DEF Adds, ListAt, LabelAt
<1>11. ASSUME NEW i, NEW label, InstructionAt(p, i), LabelAt(p, label) PROVE Adds(p, PatchOne(p, i, label), 0, 0, 0)
  BY <1>1, <1>11, PatchOneGood DEF Adds, LabelAt, InstructionAt
<1>12. ASSUME NEW l PROVE Adds(p, Follow(p, l), 0, 0, 0)
  BY <1>1, FollowGood DEF Adds
<1>13. ASSUME NEW w \in Reasons PROVE Adds(p, Stop(p, w), 0, 0, 0)
  BY <1>1, StopGood DEF Adds
<1>14. "undefined" \in Reasons
  BY DEF Reasons
<1>15. ASSUME NEW t PROVE Adds(p, Needed(p, t), 0, 0, 0)
  BY <1>2, <1>13, <1>14 DEF Needed
<1>16. ASSUME NEW block PROVE Adds(p, Read(p, block), 0, 0, 0)
  BY <1>2, <1>13, <1>14 DEF Read
<1> QED
  BY ONLY <1>2, <1>3, <1>4, <1>5, <1>6, <1>7, <1>8, <1>9, <1>10, <1>11, <1>12, <1>13, <1>15, <1>16

(* The same, after operations on b.                                        *)
LEMMA CodeAdds ==
    ASSUME NEW b, NEW p, NEW n, NEW m, NEW k, Adds(b, p, n, m, k)
    PROVE  /\ \A op \in Ops : Adds(b, Emit(p, op), n + 1, m, k)
           /\ \A op \in Ops : Adds(b, EmitListed(p, op), n + 1, m, k + 1)
           /\ Adds(b, MakeHead(p), n + 1, m, k)
           /\ Adds(b, FreshLabel(p), n, m + 1, k)
           /\ \A i : InstructionAt(p, i) => Adds(b, MakeList(p, i), n, m, k + 1)
           /\ \A j, l : ListAt(p, j) /\ ListAt(p, l) => Adds(b, Merge(p, j, l), n, m, k)
           /\ \A l, i : ListAt(p, l) /\ InstructionAt(p, i) => Adds(b, MergeOne(p, l, i), n, m, k)
           /\ \A l, label : ListAt(p, l) /\ LabelAt(p, label) => Adds(b, PatchAll(p, l, label), n, m, k)
           /\ \A i, label : InstructionAt(p, i) /\ LabelAt(p, label) => Adds(b, PatchOne(p, i, label), n, m, k)
           /\ \A l : Adds(b, Follow(p, l), n, m, k)
           /\ \A w \in Reasons : Adds(b, Stop(p, w), n, m, k)
           /\ \A t : Adds(b, Needed(p, t), n, m, k)
           /\ \A block : Adds(b, Read(p, block), n, m, k)
<1>1. Well(p) /\ Len(p.code) \in Nat
  BY AddsLength
<1>2. n \in Nat /\ m \in Nat /\ k \in Nat
  BY DEF Adds
<1>3. n + 0 = n /\ m + 0 = m /\ k + 0 = k
  BY <1>2
<1>4. ASSUME NEW q, Adds(p, q, 0, 0, 0) PROVE Adds(b, q, n, m, k)
  <2>1. Adds(b, q, n + 0, m + 0, k + 0)
    BY <1>4, AddsChain
  <2> QED
    BY <2>1, <1>3
<1>5. ASSUME NEW q, Adds(p, q, 1, 0, 0) PROVE Adds(b, q, n + 1, m, k)
  <2>1. Adds(b, q, n + 1, m + 0, k + 0)
    BY <1>5, AddsChain
  <2> QED
    BY <2>1, <1>3
<1>6. ASSUME NEW q, Adds(p, q, 0, 1, 0) PROVE Adds(b, q, n, m + 1, k)
  <2>1. Adds(b, q, n + 0, m + 1, k + 0)
    BY <1>6, AddsChain
  <2> QED
    BY <2>1, <1>3
<1>7. ASSUME NEW q, Adds(p, q, 0, 0, 1) PROVE Adds(b, q, n, m, k + 1)
  <2>1. Adds(b, q, n + 0, m + 0, k + 1)
    BY <1>7, AddsChain
  <2> QED
    BY <2>1, <1>3
<1>8. ASSUME NEW op \in Ops PROVE Adds(b, EmitListed(p, op), n + 1, m, k + 1)
  <2> DEFINE e == Emit(p, op)
  <2>1. Adds(p, e, 1, 0, 0)
    BY <1>1, OperationsAdd
  <2>2. EmitListed(p, op) = MakeList(e, Newest(p) + 1)
    BY DEF EmitListed
  <2> HIDE DEF e
  <2>3. Well(e) /\ (Running(e) => Len(e.code) = Len(p.code) + 1)
    BY <2>1, AddsLength
  <2>4. InstructionAt(e, Newest(p) + 1)
    BY <1>1, <2>3 DEF InstructionAt, Newest
  <2>5. Adds(e, MakeList(e, Newest(p) + 1), 0, 0, 1)
    BY <2>3, <2>4, OperationsAdd
  <2>6. Adds(b, e, n + 1, m, k)
    BY <2>1, <1>5
  <2>7. Adds(b, MakeList(e, Newest(p) + 1), (n + 1) + 0, m + 0, k + 1)
    BY <2>5, <2>6, AddsChain
  <2>8. (n + 1) + 0 = n + 1
    BY <1>2
  <2> QED
    BY <2>2, <2>7, <2>8, <1>3
<1>9. /\ \A op \in Ops : Adds(p, Emit(p, op), 1, 0, 0)
      /\ Adds(p, MakeHead(p), 1, 0, 0)
      /\ Adds(p, FreshLabel(p), 0, 1, 0)
      /\ \A i : InstructionAt(p, i) => Adds(p, MakeList(p, i), 0, 0, 1)
      /\ \A j, l : ListAt(p, j) /\ ListAt(p, l) => Adds(p, Merge(p, j, l), 0, 0, 0)
      /\ \A l, i : ListAt(p, l) /\ InstructionAt(p, i) => Adds(p, MergeOne(p, l, i), 0, 0, 0)
      /\ \A l, label : ListAt(p, l) /\ LabelAt(p, label) => Adds(p, PatchAll(p, l, label), 0, 0, 0)
      /\ \A i, label : InstructionAt(p, i) /\ LabelAt(p, label) => Adds(p, PatchOne(p, i, label), 0, 0, 0)
      /\ \A l : Adds(p, Follow(p, l), 0, 0, 0)
      /\ \A w \in Reasons : Adds(p, Stop(p, w), 0, 0, 0)
      /\ \A t : Adds(p, Needed(p, t), 0, 0, 0)
      /\ \A block : Adds(p, Read(p, block), 0, 0, 0)
  BY ONLY <1>1, OperationsAdd
<1>10. \A op \in Ops : Adds(b, Emit(p, op), n + 1, m, k)
  BY ONLY <1>9, <1>5
<1>11. Adds(b, MakeHead(p), n + 1, m, k) /\ Adds(b, FreshLabel(p), n, m + 1, k)
  BY ONLY <1>9, <1>5, <1>6
<1>12. \A i : InstructionAt(p, i) => Adds(b, MakeList(p, i), n, m, k + 1)
  BY ONLY <1>9, <1>7
<1>13. \A j, l : ListAt(p, j) /\ ListAt(p, l) => Adds(b, Merge(p, j, l), n, m, k)
  BY ONLY <1>9, <1>4
<1>14. \A l, i : ListAt(p, l) /\ InstructionAt(p, i) => Adds(b, MergeOne(p, l, i), n, m, k)
  BY ONLY <1>9, <1>4
<1>15. \A l, label : ListAt(p, l) /\ LabelAt(p, label) => Adds(b, PatchAll(p, l, label), n, m, k)
  BY ONLY <1>9, <1>4
<1>16. \A i, label : InstructionAt(p, i) /\ LabelAt(p, label) => Adds(b, PatchOne(p, i, label), n, m, k)
  BY ONLY <1>9, <1>4
<1>17. /\ \A l : Adds(b, Follow(p, l), n, m, k)
       /\ \A w \in Reasons : Adds(b, Stop(p, w), n, m, k)
  BY ONLY <1>9, <1>4
<1>18. /\ \A t : Adds(b, Needed(p, t), n, m, k)
       /\ \A block : Adds(b, Read(p, block), n, m, k)
  BY ONLY <1>9, <1>4
<1> QED
  BY ONLY <1>8, <1>10, <1>11, <1>12, <1>13, <1>14, <1>15, <1>16, <1>17, <1>18

(* The operations of tokens, reports and names add nothing.                *)
LEMMA SilentAdds ==
    ASSUME NEW p, Well(p)
    PROVE  \A q : SameCode(p, q) /\ q.stop \in Reasons => Adds(p, q, 0, 0, 0)
<1>1. 0 \in Nat
  OBVIOUS
<1> QED
  BY <1>1, SilentGood DEF Adds

(* Why they stop the program.                                              *)
LEMMA StopReasons ==
    ASSUME NEW p, Well(p)
    PROVE  /\ NextToken(p).stop \in Reasons /\ PushBack(p).stop \in Reasons
           /\ Report(p).stop \in Reasons /\ EnterEnv(p).stop \in Reasons /\ ExitEnv(p).stop \in Reasons
           /\ Finished(p).stop \in Reasons
           /\ \A x : /\ [p EXCEPT !.isFinish = x].stop \in Reasons /\ [p EXCEPT !.verdict = x].stop \in Reasons
                     /\ [p EXCEPT !.trees = x].stop \in Reasons /\ [p EXCEPT !.printed = x].stop \in Reasons
<1>1. DOMAIN p = Fields /\ p.stop \in Reasons
  BY DEF Well, IsParser, Coded
<1>2. \A w \in Reasons : Stop(p, w).stop \in Reasons
  BY <1>1 DEF Stop, Fields
<1>3. "no" \in Reasons /\ "fatal" \in Reasons /\ "pushback" \in Reasons
  BY DEF Reasons
<1>4. NextToken(p).stop \in Reasons
  BY <1>1, <1>3 DEF NextToken, Fields
<1>5. PushBack(p).stop \in Reasons
  BY <1>1, <1>2, <1>3 DEF PushBack, Fields
<1>6. Report(p).stop \in Reasons /\ Finished(p).stop \in Reasons
  BY <1>1 DEF Report, Finished, Fields
<1>7. EnterEnv(p).stop \in Reasons /\ ExitEnv(p).stop \in Reasons
  BY <1>1 DEF EnterEnv, ExitEnv, Fields
<1>8. \A x : /\ [p EXCEPT !.isFinish = x].stop \in Reasons /\ [p EXCEPT !.verdict = x].stop \in Reasons
             /\ [p EXCEPT !.trees = x].stop \in Reasons /\ [p EXCEPT !.printed = x].stop \in Reasons
  BY <1>1 DEF Fields
<1> QED
  BY <1>4, <1>5, <1>6, <1>7, <1>8

(* next(), pushBack(), need(), the reports and the environments.           *)
LEMMA TokensAdd ==
    ASSUME NEW p, Well(p)
    PROVE  /\ Adds(p, NextToken(p), 0, 0, 0) /\ Adds(p, PushBack(p), 0, 0, 0)
           /\ \A k : Adds(p, Need(p, k), 0, 0, 0)
           /\ Adds(p, NeedConstant(p), 0, 0, 0)
           /\ Adds(p, Report(p), 0, 0, 0) /\ Adds(p, Misreport(p), 0, 0, 0)
           /\ Adds(p, EnterEnv(p), 0, 0, 0) /\ Adds(p, ExitEnv(p), 0, 0, 0)
           /\ \A name, ty : Adds(p, NewIdentifier(p, name, ty), 0, 0, 0)
           /\ Adds(p, Finished(p), 0, 0, 0)
           /\ \A x : /\ Adds(p, [p EXCEPT !.isFinish = x], 0, 0, 0) /\ Adds(p, [p EXCEPT !.verdict = x], 0, 0, 0)
                     /\ Adds(p, [p EXCEPT !.trees = x], 0, 0, 0) /\ Adds(p, [p EXCEPT !.printed = x], 0, 0, 0)
<1>1. ASSUME NEW q, Well(q)
      PROVE  /\ Adds(q, NextToken(q), 0, 0, 0) /\ Adds(q, PushBack(q), 0, 0, 0) /\ Adds(q, Report(q), 0, 0, 0)
             /\ Adds(q, EnterEnv(q), 0, 0, 0) /\ Adds(q, ExitEnv(q), 0, 0, 0) /\ Adds(q, Finished(q), 0, 0, 0)
             /\ \A x : /\ Adds(q, [q EXCEPT !.isFinish = x], 0, 0, 0) /\ Adds(q, [q EXCEPT !.verdict = x], 0, 0, 0)
                       /\ Adds(q, [q EXCEPT !.trees = x], 0, 0, 0) /\ Adds(q, [q EXCEPT !.printed = x], 0, 0, 0)
  <2>0. IsParser(q)
    BY <1>1 DEF Well
  <2>1. SameCode(q, NextToken(q)) /\ SameCode(q, PushBack(q))
    BY <2>0, TokenScans DEF Scans
  <2>2. /\ SameCode(q, Report(q)) /\ SameCode(q, q)
        /\ \A x : /\ SameCode(q, [q EXCEPT !.isFinish = x]) /\ SameCode(q, [q EXCEPT !.verdict = x])
                  /\ SameCode(q, [q EXCEPT !.trees = x]) /\ SameCode(q, [q EXCEPT !.printed = x])
    BY <2>0, Stops, Chains DEF Keeps
  <2>3. SameCode(q, EnterEnv(q)) /\ SameCode(q, ExitEnv(q))
    BY <2>0, NamesDeclare DEF Declares
  <2>4. SameCode(q, Finished(q))
    BY <2>2 DEF Finished
  <2> QED
    BY <1>1, <2>1, <2>2, <2>3, <2>4, StopReasons, SilentAdds
<1>2. ASSUME NEW q, NEW r, Adds(p, q, 0, 0, 0), Adds(q, r, 0, 0, 0) PROVE Adds(p, r, 0, 0, 0)
  <2>1. Adds(p, r, 0 + 0, 0 + 0, 0 + 0)
    BY <1>2, AddsChain
  <2>2. 0 + 0 = 0
    OBVIOUS
  <2> QED
    BY <2>1, <2>2
<1>3. ASSUME NEW q, Well(q), NEW w \in Reasons PROVE Adds(q, Stop(q, w), 0, 0, 0)
  BY <1>3, OperationsAdd
<1>4. ASSUME NEW q, Adds(p, q, 0, 0, 0)
      PROVE  /\ Well(q)
             /\ Adds(p, Report(q), 0, 0, 0) /\ Well(Report(q)) /\ Adds(p, Misreport(q), 0, 0, 0)
             /\ Adds(p, PushBack(Report(q)), 0, 0, 0) /\ Adds(p, Stop(Report(q), "assert"), 0, 0, 0)
  <2>1. Well(q)
    BY <1>4, AddsLength
  <2>2. Adds(q, Report(q), 0, 0, 0)
    BY <2>1, <1>1
  <2>3. Adds(p, Report(q), 0, 0, 0) /\ Well(Report(q))
    BY <2>2, <1>2, <1>4, AddsLength
  <2>4. "undefined" \in Reasons /\ "assert" \in Reasons
    BY DEF Reasons
  <2>5. Adds(Report(q), Stop(Report(q), "undefined"), 0, 0, 0) /\ Adds(Report(q), Stop(Report(q), "assert"), 0, 0, 0)
    BY <2>3, <2>4, <1>3
  <2>6. Adds(Report(q), PushBack(Report(q)), 0, 0, 0)
    BY <2>3, <1>1
  <2>7. Adds(p, Stop(Report(q), "undefined"), 0, 0, 0) /\ Adds(p, Stop(Report(q), "assert"), 0, 0, 0)
    BY <2>3, <2>5, <1>2
  <2>8. Adds(p, PushBack(Report(q)), 0, 0, 0)
    BY <2>3, <2>6, <1>2
  <2> QED
    BY <2>1, <2>3, <2>7, <2>8 DEF Misreport
<1>5. Adds(p, p, 0, 0, 0)
  BY OperationsAdd
<1>6. Adds(p, NextToken(p), 0, 0, 0)
  BY <1>1
<1>7. ASSUME NEW k PROVE Adds(p, Need(p, k), 0, 0, 0)
  <2> DEFINE q == NextToken(p)
  <2>1. Need(p, k) = MustBe(q, k)
    BY DEF Need
  <2>2. Adds(p, q, 0, 0, 0)
    BY <1>6
  <2> HIDE DEF q
  <2>3. MustBe(q, k) \in {q, PushBack(Report(q)), Misreport(q)}
    BY DEF MustBe
  <2> QED
    BY <2>1, <2>2, <2>3, <1>4
<1>8. Adds(p, NeedConstant(p), 0, 0, 0)
  <2> DEFINE q == NextToken(p)
  <2>1. NeedConstant(p) = MustBeConstant(q)
    BY DEF NeedConstant
  <2>2. Adds(p, q, 0, 0, 0)
    BY <1>6
  <2> HIDE DEF q
  <2>3. MustBeConstant(q) \in {q, Stop(Report(q), "assert"), Misreport(q)}
    BY DEF MustBeConstant
  <2> QED
    BY <2>1, <2>2, <2>3, <1>4
<1>9. Adds(p, Misreport(p), 0, 0, 0)
  BY <1>4, <1>5
<1>10. ASSUME NEW name, NEW ty PROVE Adds(p, NewIdentifier(p, name, ty), 0, 0, 0)
  <2>1. SameCode(p, NewIdentifier(p, name, ty))
    BY NamesDeclare DEF Declares, Well
  <2>2. NewIdentifier(p, name, ty) = Misreport(p) \/ NewIdentifier(p, name, ty).stop = p.stop
    <3>1. DOMAIN p = Fields
      BY DEF Well, IsParser
    <3> QED
      BY <3>1 DEF NewIdentifier, Fields
  <2>3. p.stop \in Reasons
    BY DEF Well, Coded
  <2> QED
    BY <2>1, <2>2, <2>3, <1>9, SilentAdds
<1> QED
  BY <1>1, <1>7, <1>8, <1>9, <1>10

(* The same, after operations on b.                                        *)
LEMMA TokensExtend ==
    ASSUME NEW b, NEW p, Extends(b, p)
    PROVE  /\ Well(p) /\ IsParser(p) /\ Well(b)
           /\ Extends(b, NextToken(p)) /\ Extends(b, PushBack(p))
           /\ \A k : Extends(b, Need(p, k))
           /\ Extends(b, NeedConstant(p))
           /\ Extends(b, Report(p)) /\ Extends(b, Misreport(p))
           /\ Extends(b, EnterEnv(p)) /\ Extends(b, ExitEnv(p))
           /\ \A name, ty : Extends(b, NewIdentifier(p, name, ty))
           /\ Extends(b, Finished(p))
           /\ \A x : /\ Extends(b, [p EXCEPT !.isFinish = x]) /\ Extends(b, [p EXCEPT !.verdict = x])
                     /\ Extends(b, [p EXCEPT !.trees = x]) /\ Extends(b, [p EXCEPT !.printed = x])
<1>1. Well(p) /\ IsParser(p) /\ Well(b)
  BY GoodChain DEF Extends
<1>2. ASSUME NEW q, Adds(p, q, 0, 0, 0) PROVE Extends(b, q)
  BY <1>2, AddsChain
<1> QED
  BY <1>1, <1>2, TokensAdd

(* The operations of the code keep what there was.                         *)
LEMMA CodeExtends ==
    ASSUME NEW b, NEW p, Extends(b, p)
    PROVE  /\ \A op \in Ops : Extends(b, Emit(p, op)) /\ Extends(b, EmitListed(p, op))
           /\ Extends(b, MakeHead(p))
           /\ Extends(b, FreshLabel(p))
           /\ \A i : InstructionAt(p, i) => Extends(b, MakeList(p, i))
           /\ \A j, l : ListAt(p, j) /\ ListAt(p, l) => Extends(b, Merge(p, j, l))
           /\ \A l, i : ListAt(p, l) /\ InstructionAt(p, i) => Extends(b, MergeOne(p, l, i))
           /\ \A l, label : ListAt(p, l) /\ LabelAt(p, label) => Extends(b, PatchAll(p, l, label))
           /\ \A i, label : InstructionAt(p, i) /\ LabelAt(p, label) => Extends(b, PatchOne(p, i, label))
           /\ \A l : Extends(b, Follow(p, l))
           /\ \A w \in Reasons : Extends(b, Stop(p, w))
           /\ \A t : Extends(b, Needed(p, t))
           /\ \A block : Extends(b, Read(p, block))
<1>1. Adds(p, p, 0, 0, 0)
  BY TokensExtend, OperationsAdd
<1>2. ASSUME NEW q, NEW n, NEW m, NEW k, Adds(p, q, n, m, k) PROVE Extends(b, q)
  BY <1>2, AddsChain
<1> QED
  BY <1>1, <1>2, CodeAdds

(* What was there before is there after.                                   *)
TreeAt(p, t) ==
    Running(p) => IsListOf(p, t.true) /\ IsListOf(p, t.false) /\ t.begin \in {Unset} \cup 0 .. Len(p.code)
BlockAt(p, block) ==
    Running(p) => /\ DOMAIN block = {"next", "break", "continue"}
                  /\ IsListOf(p, block.next) /\ IsListOf(p, block.break) /\ IsListOf(p, block.continue)
CondAt(p, c) == Running(p) => IsListOf(p, c.true) /\ IsListOf(p, c.false)
PlaceAt(p, i) == Running(p) => i \in 0 .. Len(p.code)

(* What was there is there after operations that keep it.                  *)
LEMMA ThereStill ==
    ASSUME NEW b, NEW p, NEW x, Well(b), GoodBut(b, p, x)
    PROVE  /\ \A l : ListAt(b, l) => ListAt(p, l)
           /\ \A l : LabelAt(b, l) => LabelAt(p, l)
           /\ \A i : InstructionAt(b, i) => InstructionAt(p, i)
           /\ \A i : PlaceAt(b, i) => PlaceAt(p, i)
           /\ \A t : TreeAt(b, t) => TreeAt(p, t)
           /\ \A t : BlockAt(b, t) => BlockAt(p, t)
           /\ \A c : CondAt(b, c) => CondAt(p, c)
<1>1. Running(p) => /\ Running(b)
                    /\ Len(b.code) \in Nat /\ b.labels \in Nat /\ Len(b.lists) \in Nat
                    /\ Len(p.code) \in Nat /\ p.labels \in Nat /\ Len(p.lists) \in Nat
                    /\ Len(b.code) <= Len(p.code) /\ b.labels <= p.labels /\ Len(b.lists) <= Len(p.lists)
  BY DEF GoodBut, Well, Coded
<1>2. Running(p) => \A l : IsListOf(b, l) => IsListOf(p, l)
  BY <1>1 DEF IsListOf
<1>3. Running(p) => \A i : /\ i \in 1 .. b.labels => i \in 1 .. p.labels
                           /\ i \in 1 .. Len(b.code) => i \in 1 .. Len(p.code)
                           /\ i \in 0 .. Len(b.code) => i \in 0 .. Len(p.code)
  BY <1>1
<1> QED
  BY <1>1, <1>2, <1>3 DEF ListAt, LabelAt, InstructionAt, PlaceAt, TreeAt, BlockAt, CondAt

-----------------------------------------------------------------------------
(* The walks along the chain and the part of a for that is linked by hand. *)
(* Of the numbers of a set one is the least.                               *)
LEMMA LeastExists ==
    ASSUME NEW D \in SUBSET Nat, D # {}
    PROVE  \E i \in D : \A j \in D : i <= j
<1>1. PICK i \in D : \A j \in D : ~(<<j, i>> \in OpToRel(<, Nat))
  BY WFMin, NatLessThanWellFounded, Zenon
<1>2. \A j \in D : ~(j < i)
  BY <1>1, Zenon DEF OpToRel
<1> QED
  BY <1>2

(* What holds of 0 and is passed on holds of every number.                 *)
LEMMA AllNumbers ==
    ASSUME NEW D \in SUBSET Nat, 0 \in D, \A n \in Nat : n \in D => n + 1 \in D
    PROVE  D = Nat
<1> SUFFICES ASSUME Nat \ D # {} PROVE FALSE
  OBVIOUS
<1>1. PICK i \in Nat \ D : \A j \in Nat \ D : i <= j
  BY LeastExists
<1>2. i # 0 /\ i - 1 \in Nat /\ ~(i <= i - 1)
  BY <1>1
<1>3. i - 1 \in D
  BY <1>1, <1>2
<1>4. (i - 1) + 1 \in D
  BY <1>2, <1>3
<1> QED
  BY <1>1, <1>4

(* A walk of n steps within S, from z and by h.                            *)
Leads(f, z, h, n) == /\ f[0] = z
                      /\ \A i \in 1..n : f[i] = h[f[i - 1]]
Walks(S, f, z, h, n) == f \in [0..n -> S] /\ Leads(f, z, h, n)

(* There are walks of any number of steps.                                 *)
LEMMA WalksOn ==
    ASSUME NEW S, NEW z \in S, NEW h \in [S -> S]
    PROVE  \A n \in Nat : \E f : Walks(S, f, z, h, n)
<1> DEFINE D == {n \in Nat : \E f : Walks(S, f, z, h, n)}
<1>1. 0 \in D
  <2> DEFINE f == [i \in 0..0 |-> z]
  <2>1. Walks(S, f, z, h, 0)
    BY DEF Walks, Leads
  <2> QED
    BY <2>1
<1>2. ASSUME NEW n \in Nat, n \in D PROVE n + 1 \in D
  <2>1. PICK f : Walks(S, f, z, h, n)
    BY <1>2
  <2> DEFINE e == [i \in 0..n + 1 |-> IF i = n + 1 THEN h[f[n]] ELSE f[i]]
  <2>2. f \in [0..n -> S] /\ f[0] = z /\ \A i \in 1..n : f[i] = h[f[i - 1]]
    BY <2>1 DEF Walks, Leads
  <2>3. f[n] \in S
    <3>1. n \in 0..n /\ n + 1 \in Nat
      OBVIOUS
    <3> QED
      BY <2>2, <3>1
  <2>4. e \in [0..n + 1 -> S]
    <3>1. h[f[n]] \in S
      BY <2>3
    <3>2. \A i \in 0..n + 1 : i # n + 1 => i \in 0..n
      OBVIOUS
    <3> QED
      BY <2>2, <3>1, <3>2
  <2>5. e[0] = z
    <3>1. 0 \in 0..n + 1 /\ 0 # n + 1
      OBVIOUS
    <3> QED
      BY <2>2, <3>1
  <2>6. ASSUME NEW i \in 1..n + 1 PROVE e[i] = h[e[i - 1]]
    <3>1. i - 1 \in 0..n + 1 /\ i - 1 # n + 1 /\ i \in 0..n + 1
      OBVIOUS
    <3>2. e[i - 1] = f[i - 1]
      BY <3>1
    <3>3. CASE i = n + 1
      BY <3>2, <3>3
    <3>4. CASE i # n + 1
      <4>1. i \in 1..n
        BY <3>4
      <4> QED
        BY <2>2, <3>1, <3>2, <3>4, <4>1
    <3> QED
      BY <3>3, <3>4
  <2> HIDE DEF e
  <2>7. Walks(S, e, z, h, n + 1)
    BY <2>4, <2>5, <2>6 DEF Walks, Leads
  <2> QED
    BY <2>7
<1> HIDE DEF D
<1>3. D = Nat
  BY <1>1, <1>2, AllNumbers DEF D
<1> QED
  BY <1>3 DEF D

(* Two walks agree as far as both go.                                      *)
LEMMA WalksAgree ==
    ASSUME NEW S, NEW z, NEW h, NEW n \in Nat, NEW m \in Nat, n <= m,
           NEW f, NEW e, Walks(S, f, z, h, n), Walks(S, e, z, h, m)
    PROVE  \A i \in 0..n : f[i] = e[i]
<1> DEFINE D == {i \in Nat : i <= n => f[i] = e[i]}
<1>1. 0 \in D
  BY DEF Walks, Leads
<1>2. ASSUME NEW i \in Nat, i \in D PROVE i + 1 \in D
  <2> SUFFICES ASSUME i + 1 <= n PROVE f[i + 1] = e[i + 1]
    OBVIOUS
  <2>1. i + 1 \in 1..n /\ i + 1 \in 1..m /\ (i + 1) - 1 = i /\ i <= n
    OBVIOUS
  <2>2. f[i] = e[i]
    BY <1>2, <2>1
  <2>3. f[i + 1] = h[f[(i + 1) - 1]] /\ e[i + 1] = h[e[(i + 1) - 1]]
    BY <2>1 DEF Walks, Leads
  <2> QED
    BY <2>1, <2>2, <2>3
<1> HIDE DEF D
<1>3. D = Nat
  BY <1>1, <1>2, AllNumbers DEF D
<1> QED
  BY <1>3 DEF D

(* The shorter one ends where the longer one is then.                      *)
LEMMA WalksMeet ==
    ASSUME NEW S, NEW z, NEW h, NEW k \in Nat, NEW n \in Nat, n = k + 1,
           NEW p, NEW q, Walks(S, p, z, h, k), Walks(S, q, z, h, n)
    PROVE  p[k] = q[k]
<1>1. k <= n /\ k \in 0..k
  OBVIOUS
<1>2. \A i \in 0..k : p[i] = q[i]
  BY <1>1, WalksAgree
<1> QED
  BY <1>1, <1>2

(* A walk of any length within S exists.                                   *)
LEMMA WalkExists ==
    ASSUME NEW S, NEW z \in S, NEW h \in [S -> S]
    PROVE  \E f \in [Nat -> S] : f = [n \in Nat |-> IF n = 0 THEN z ELSE h[f[n - 1]]]
<1> DEFINE Up(n) == CHOOSE f : Walks(S, f, z, h, n)
           f == [n \in Nat |-> Up(n)[n]]
<1>1. \A n \in Nat : Walks(S, Up(n), z, h, n)
  BY WalksOn
<1> HIDE DEF Up
<1>2. ASSUME NEW n \in Nat PROVE f[n] = IF n = 0 THEN z ELSE h[f[n - 1]]
  <2>1. CASE n = 0
    BY <1>1, <2>1 DEF Walks, Leads
  <2>2. CASE n # 0
    <3>1. n \in 1..n /\ n - 1 \in Nat /\ n - 1 <= n /\ n - 1 \in 0..n - 1
      BY <2>2
    <3>2. Up(n)[n] = h[Up(n)[n - 1]]
      BY <1>1, <3>1 DEF Walks, Leads
    <3>3. Walks(S, Up(n - 1), z, h, n - 1) /\ Walks(S, Up(n), z, h, n)
      BY <1>1, <3>1
    <3>4. Up(n - 1)[n - 1] = Up(n)[n - 1]
      <4> DEFINE k == n - 1
      <4>1. k \in Nat /\ n = k + 1 /\ Walks(S, Up(k), z, h, k) /\ Walks(S, Up(n), z, h, n)
        BY <3>1, <3>3
      <4> HIDE DEF k, f
      <4>2. Up(k)[k] = Up(n)[k]
        BY <4>1, WalksMeet
      <4> QED
        BY <4>2 DEF k
    <3> QED
      BY <2>2, <3>1, <3>2, <3>4
  <2> QED
    BY <2>1, <2>2
<1> HIDE DEF f
<1>3. f = [n \in Nat |-> IF n = 0 THEN z ELSE h[f[n - 1]]]
  <2>1. f = [n \in Nat |-> f[n]]
    BY DEF f
  <2> QED
    BY <1>2, <2>1
<1>4. f \in [Nat -> S]
  <2>1. \A n \in Nat : Up(n)[n] \in S
    BY <1>1 DEF Walks
  <2> QED
    BY <2>1 DEF f
<1> QED
  BY <1>3, <1>4

(* Wherever it comes it is still within S.                                 *)
LEMMA WalkStays ==
    ASSUME NEW S, NEW f, f[0] \in S, \A n \in Nat : n # 0 /\ f[n - 1] \in S => f[n] \in S
    PROVE  \A n \in Nat : f[n] \in S
<1> DEFINE D == {n \in Nat : f[n] \in S}
<1>1. 0 \in D
  OBVIOUS
<1>2. ASSUME NEW n \in Nat, n \in D PROVE n + 1 \in D
  <2>1. n + 1 \in Nat /\ n + 1 # 0 /\ (n + 1) - 1 = n
    OBVIOUS
  <2> QED
    BY <1>2, <2>1
<1>3. D \in SUBSET Nat
  OBVIOUS
<1>4. D = Nat
  <2> HIDE DEF D
  <2> QED
    BY <1>1, <1>2, <1>3, AllNumbers
<1> QED
  BY <1>4

(* The links lead from instruction to instruction.                         *)
LEMMA LinksWithin ==
    ASSUME NEW p, Well(p), NEW i \in 1 .. Len(p.code)
    PROVE  /\ Onward(p.code, i) \in 1 .. Len(p.code) /\ Backward(p.code, i) \in 1 .. Len(p.code)
           /\ p.code[i].next \in 0 .. Len(p.code) /\ p.code[i].pre \in 0 .. Len(p.code)
<1>1. p.code[i] \in InstructionsOf(Len(p.code), p.labels)
  BY DEF Well, Coded
<1>2. p.code[i].next \in 0 .. Len(p.code) /\ p.code[i].pre \in 0 .. Len(p.code) /\ Len(p.code) \in Nat
  BY <1>1 DEF InstructionsOf, Well, Coded
<1> QED
  BY <1>2 DEF Onward, Backward, Null

(* reSetCurrent() ends at an instruction.                                  *)
LEMMA EndAdds ==
    ASSUME NEW p, Well(p), InstructionAt(p, p.tail)
    PROVE  Adds(p, ToEnd(p), 0, 0, 0)
<1>1. CASE ~Running(p)
  <2>1. ToEnd(p) = p
    BY <1>1 DEF ToEnd
  <2> QED
    BY <2>1, OperationsAdd
<1>0. Newest(p) \in Nat /\ 0 \in Nat
  BY DEF Newest, Well, Coded
<1>2. CASE Running(p)
  <2> DEFINE S == 1 .. Len(p.code)
  <2> DEFINE h == [i \in S |-> Onward(p.code, i)]
  <2> DEFINE Def(f) == [n \in Nat |-> IF n = 0 THEN p.tail ELSE Onward(p.code, f[n - 1])]
  <2> DEFINE last == CHOOSE f : f = Def(f)
  <2>1. ToEnd(p) = [p EXCEPT !.tail = last[Newest(p)]]
    BY <1>2 DEF ToEnd
  <2>2. p.tail \in S /\ h \in [S -> S]
    BY <1>2, LinksWithin DEF InstructionAt
  <2>3. PICK f \in [Nat -> S] : f = [n \in Nat |-> IF n = 0 THEN p.tail ELSE h[f[n - 1]]]
    <3> HIDE DEF h, S
    <3> QED
      BY <2>2, WalkExists
  <2>4. f = Def(f)
    <3>1. ASSUME NEW n \in Nat, n # 0 PROVE h[f[n - 1]] = Onward(p.code, f[n - 1])
      <4>1. n - 1 \in Nat
        BY <3>1
      <4> QED
        BY <4>1
    <3> HIDE DEF h
    <3> QED
      BY <2>3, <3>1
  <2>5. last = Def(last)
    <3> HIDE DEF Def
    <3> QED
      BY <2>4, Zenon
  <2> HIDE DEF last, h
  <2>6. last[0] = p.tail /\ \A n \in Nat : n # 0 => last[n] = Onward(p.code, last[n - 1])
    BY <2>5
  <2>7. \A n \in Nat : last[n] \in S
    <3>1. \A n \in Nat : n # 0 /\ last[n - 1] \in S => last[n] \in S
      BY <2>6, LinksWithin
    <3>2. last[0] \in S
      BY <2>2, <2>6
    <3> HIDE DEF S
    <3> QED
      BY ONLY <3>1, <3>2, WalkStays
  <2>8. Newest(p) \in Nat /\ 0 \in Nat
    BY ONLY <1>0
  <2>9. last[Newest(p)] \in 0 .. Len(p.code)
    BY ONLY <2>7, <2>8
  <2> DEFINE i == last[Newest(p)]
  <2>10. Running(p) => i \in 0 .. Len(p.code)
    BY <2>9
  <2> HIDE DEF i
  <2>11. Good(p, [p EXCEPT !.tail = i]) /\ GrowsBy(p, [p EXCEPT !.tail = i], 0, 0, 0)
    BY <1>2, <2>10, TailGood
  <2> QED
    BY <2>1, <2>8, <2>11 DEF Adds, i
<1> QED
  BY <1>1, <1>2

(* The first instruction of a chain is one, or none.                       *)
LEMMA StartWithin ==
    ASSUME NEW p, Well(p), NEW i, Running(p) => i \in {Unset} \cup 0 .. Len(p.code)
    PROVE  /\ StartOf(p, i).p = Follow(p, i)
           /\ StartOf(p, i).first \in 0 .. Len(p.code)
<1>0. Newest(p) \in Nat
  BY DEF Newest, Well, Coded
<1>1. StartOf(p, i).p = Follow(p, i)
  BY DEF StartOf
<1>2. CASE ~CanFollow(p, i)
  BY <1>1, <1>2 DEF StartOf, Null, Well, Coded
<1>3. CASE CanFollow(p, i)
  <2> DEFINE S == 1 .. Len(p.code)
  <2> DEFINE h == [j \in S |-> Backward(p.code, j)]
  <2> DEFINE Def(f) == [n \in Nat |-> IF n = 0 THEN i ELSE Backward(p.code, f[n - 1])]
  <2> DEFINE back == CHOOSE f : f = Def(f)
  <2>1. StartOf(p, i).first = p.code[back[Newest(p)]].next
    BY <1>3 DEF StartOf
  <2>2. i \in S /\ h \in [S -> S]
    BY <1>3, LinksWithin DEF CanFollow, Null
  <2>3. PICK f \in [Nat -> S] : f = [n \in Nat |-> IF n = 0 THEN i ELSE h[f[n - 1]]]
    <3> HIDE DEF h, S
    <3> QED
      BY <2>2, WalkExists
  <2>4. f = Def(f)
    <3>1. ASSUME NEW n \in Nat, n # 0 PROVE h[f[n - 1]] = Backward(p.code, f[n - 1])
      <4>1. n - 1 \in Nat
        BY <3>1
      <4> QED
        BY <4>1
    <3> HIDE DEF h
    <3> QED
      BY <2>3, <3>1
  <2>5. back = Def(back)
    <3> HIDE DEF Def
    <3> QED
      BY <2>4, Zenon
  <2> HIDE DEF back, h
  <2>6. back[0] = i /\ \A n \in Nat : n # 0 => back[n] = Backward(p.code, back[n - 1])
    BY <2>5
  <2>7. \A n \in Nat : back[n] \in S
    <3>1. \A n \in Nat : n # 0 /\ back[n - 1] \in S => back[n] \in S
      BY <2>6, LinksWithin
    <3>2. back[0] \in S
      BY <2>2, <2>6
    <3> HIDE DEF S
    <3> QED
      BY ONLY <3>1, <3>2, WalkStays
  <2>8. Newest(p) \in Nat
    BY ONLY <1>0
  <2> QED
    BY <1>1, <2>1, <2>7, <2>8, LinksWithin
<1> QED
  BY <1>2, <1>3

(* The third expression of a for is linked in.                             *)
LEMMA LinkAdds ==
    ASSUME NEW p, Well(p), HasFor, InstructionAt(p, p.tail),
           NEW first, PlaceAt(p, first), NEW at, PlaceAt(p, at)
    PROVE  Adds(p, LinkChain(p, first, at), 0, 0, 0) /\ InstructionAt(LinkChain(p, first, at), LinkChain(p, first, at).tail)
<1>1. CASE ~Running(p)
  <2>1. LinkChain(p, first, at) = p
    BY <1>1 DEF LinkChain
  <2> QED
    BY <1>1, <2>1, OperationsAdd
<1>2. CASE Running(p)
  <2> DEFINE n == Len(p.code)
  <2> DEFINE m == p.labels
  <2> DEFINE c0 == p.code
  <2> DEFINE t == p.tail
  <2> DEFINE c1 == [c0 EXCEPT ![t].next = first]
  <2> DEFINE c == [c1 EXCEPT ![first].pre = at]
  <2>1. LinkChain(p, first, at) = [p EXCEPT !.code = [p.code EXCEPT ![p.tail].next = first, ![first].pre = at]]
    BY <1>2, Zenon DEF LinkChain
  <2>2. LinkChain(p, first, at) = [p EXCEPT !.code = c]
    BY <2>1
  <2>3. n \in Nat /\ m \in Nat /\ c0 \in Seq(InstructionsOf(n, m)) /\ Len(c0) = n
    BY DEF Well, Coded
  <2>4. t \in 1 .. Len(c0) /\ first \in 0 .. n /\ at \in 0 .. n
    BY <1>2 DEF InstructionAt, PlaceAt
  <2>5. n = Len(p.code) /\ m = p.labels /\ t = p.tail
    OBVIOUS
  <2> HIDE DEF n, m, c0, t
  <2>6. c1 \in Seq(InstructionsOf(n, m)) /\ Len(c1) = n
    BY <2>3, <2>4, SetNext
  <2> HIDE DEF c1
  <2>7. c \in Seq(InstructionsOf(n, m)) /\ Len(c) = n
    <3>1. CASE first = 0
      <4>1. first \notin DOMAIN c1
        BY <2>3, <2>6, <3>1
      <4>2. c = c1
        BY <2>6, <4>1
      <4> QED
        BY <4>2, <2>6
    <3>2. CASE first # 0
      <4>1. first \in 1 .. Len(c1)
        BY <2>3, <2>4, <2>6, <3>2
      <4> QED
        BY <2>3, <2>4, <2>6, <4>1, SetPre
    <3> QED
      BY <3>1, <3>2
  <2> HIDE DEF c
  <2>8. c \in Seq(InstructionsOf(Len(p.code), p.labels)) /\ Len(c) = Len(p.code)
    BY <2>5, <2>7
  <2> DEFINE q == [p EXCEPT !.code = c]
  <2>9. GoodBut(p, q, Null) /\ GrowsBy(p, q, 0, 0, 0) /\ Well(q) /\ q.tail = p.tail /\ q.code = c
    BY ONLY Well(p), HasFor, <1>2, <2>8, RecodeGood, ZenonT(60)
  <2> HIDE DEF q
  <2>10. Adds(p, q, 0, 0, 0)
    BY <2>9 DEF Good, Adds
  <2>11. InstructionAt(q, q.tail)
    BY <1>2, <2>8, <2>9 DEF InstructionAt
  <2> QED
    BY <2>2, <2>10, <2>11 DEF q
<1> QED
  BY <1>1, <1>2

-----------------------------------------------------------------------------
(* The trees and blocks made of those there are name lists there are.  A   *)
(* tree without lists names none.                                          *)
LEMMA PlainTrees ==
    ASSUME NEW p
    PROVE  /\ TreeAt(p, NoTree)
           /\ \A name : TreeAt(p, CONSTtree(name))
           /\ \A node, name, ty : TreeAt(p, Leaf(node, name, ty))
           /\ \A node, args, ty : TreeAt(p, Node(node, args, ty))
           /\ BlockAt(p, EmptyBlock) /\ BlockAt(p, NoBlock)
<1>1. IsListOf(p, Unset) /\ IsListOf(p, Null)
  BY DEF IsListOf
<1>2. \A node, name, ty : LET t == Leaf(node, name, ty) IN t.true = Unset /\ t.false = Unset /\ t.begin = Unset
  BY DEF Leaf, NoTree
<1>3. \A node, args, ty : LET t == Node(node, args, ty) IN t.true = Unset /\ t.false = Unset /\ t.begin = Unset
  BY DEF Node, NoTree
<1>4. TreeAt(p, NoTree)
  BY <1>1 DEF TreeAt, NoTree
<1>5. \A node, name, ty : TreeAt(p, Leaf(node, name, ty))
  BY <1>1, <1>2 DEF TreeAt
<1>6. \A node, args, ty : TreeAt(p, Node(node, args, ty))
  BY <1>1, <1>3 DEF TreeAt
<1>7. \A name : TreeAt(p, CONSTtree(name))
  BY <1>5 DEF CONSTtree
<1>8. BlockAt(p, EmptyBlock) /\ BlockAt(p, NoBlock)
  BY <1>1 DEF BlockAt, EmptyBlock, NoBlock
<1> QED
  BY <1>4, <1>5, <1>6, <1>7, <1>8

(* A comparison adds its two jumps, and a list of each.                    *)
LEMMA SidesAdd ==
    ASSUME NEW p, Well(p), NEW left, NEW right
    PROVE  /\ Adds(p, BinaryOp(p, left, right), 0, 0, 0)
           /\ \A node : Adds(p, Arithmetic(p, node, left, right).p, 0, 0, 0)
           /\ \A node : Adds(p, CompareTree(p, node, left, right).p, 2, 0, 2)
           /\ \A node, q : TreeAt(q, Arithmetic(p, node, left, right).t)
           /\ \A node : TreeAt(CompareTree(p, node, left, right).p, CompareTree(p, node, left, right).t)
<1>0. "undefined" \in Reasons /\ "test" \in Ops /\ "goto" \in Ops
  BY DEF Reasons, Ops, Jumps
<1>1. Adds(p, p, 0, 0, 0) /\ Adds(p, Stop(p, "undefined"), 0, 0, 0) /\ Adds(p, Needed(p, left), 0, 0, 0)
  BY <1>0, OperationsAdd
<1>2. Adds(p, Needed(Needed(p, left), right), 0, 0, 0)
  BY <1>1, CodeAdds
<1>3. Adds(p, BinaryOp(p, left, right), 0, 0, 0)
  BY <1>1, <1>2 DEF BinaryOp
<1> DEFINE q == BinaryOp(p, left, right)
<1> DEFINE q1 == EmitListed(q, "test")
<1> DEFINE q2 == EmitListed(q1, "goto")
<1>4. \A node : Arithmetic(p, node, left, right).p = q /\ CompareTree(p, node, left, right).p = q2
  BY DEF Arithmetic, CompareTree
<1>5. \A node : LET t == CompareTree(p, node, left, right).t
                IN  t.begin = Newest(p) + 1 /\ t.true = NewestList(p) + 1 /\ t.false = NewestList(p) + 2
  BY DEF CompareTree, Node, NoTree
<1>6. \A node, r : TreeAt(r, Arithmetic(p, node, left, right).t)
  BY PlainTrees DEF Arithmetic
<1> HIDE DEF q
<1>7. Adds(p, q1, 0 + 1, 0, 0 + 1)
  BY <1>0, <1>3, CodeAdds DEF q
<1> HIDE DEF q1
<1>8. Adds(p, q2, (0 + 1) + 1, 0, (0 + 1) + 1)
  BY <1>0, <1>7, CodeAdds
<1> HIDE DEF q2
<1>9. Adds(p, q2, 2, 0, 2)
  <2>1. (0 + 1) + 1 = 2
    OBVIOUS
  <2> QED
    BY <2>1, <1>8
<1>10. Running(q2) => Len(q2.code) = Len(p.code) + 2 /\ Len(q2.lists) = Len(p.lists) + 2 /\ Len(p.code) \in Nat /\ Len(p.lists) \in Nat
  BY <1>9, AddsLength
<1>11. Running(q2) => /\ Newest(p) + 1 \in 0 .. Len(q2.code)
                      /\ NewestList(p) + 1 \in 1 .. Len(q2.lists) /\ NewestList(p) + 2 \in 1 .. Len(q2.lists)
  BY <1>10 DEF Newest, NewestList
<1>12. ASSUME NEW node PROVE TreeAt(q2, CompareTree(p, node, left, right).t)
  BY <1>5, <1>11 DEF TreeAt, IsListOf
<1>13. Adds(p, BinaryOp(p, left, right), 0, 0, 0)
  BY <1>3
<1>14. \A node : Adds(p, Arithmetic(p, node, left, right).p, 0, 0, 0)
  BY <1>4, <1>3 DEF q
<1>15. \A node : Adds(p, CompareTree(p, node, left, right).p, 2, 0, 2)
  BY <1>4, <1>9
<1>16. \A node : TreeAt(CompareTree(p, node, left, right).p, CompareTree(p, node, left, right).t)
  BY <1>4, <1>12
<1> QED
  BY ONLY <1>6, <1>13, <1>14, <1>15, <1>16

(* A side of && or || is a condition then.                                 *)
LEMMA ConditionAdds ==
    ASSUME NEW p, Well(p), NEW t, TreeAt(p, t)
    PROVE  Extends(p, Condition(p, t).p) /\ TreeAt(Condition(p, t).p, Condition(p, t).t)
<1>1. CASE IsCmpTree(t) \/ IsLogTree(t)
  <2>1. Condition(p, t).p = p /\ Condition(p, t).t = t
    BY <1>1 DEF Condition
  <2>2. Extends(p, p)
    BY GoodChain DEF Extends
  <2> QED
    BY <2>1, <2>2
<1>2. CASE ~(IsCmpTree(t) \/ IsLogTree(t))
  <2> DEFINE c == CompareTree(p, "eq", t, CONSTtree("0"))
  <2>1. Condition(p, t) = c
    BY <1>2 DEF Condition
  <2>2. Adds(p, c.p, 2, 0, 2) /\ TreeAt(c.p, c.t)
    BY SidesAdd
  <2> HIDE DEF c
  <2>3. Extends(p, c.p)
    BY <2>2 DEF Adds, Extends
  <2> QED
    BY <2>1, <2>2, <2>3
<1> QED
  BY <1>1, <1>2

(* The label between the sides is placed where the right one begins.       *)
LEMMA BetweenAdds ==
    ASSUME NEW p, Well(p), NEW right, TreeAt(p, right), NEW list, ListAt(p, list)
    PROVE  Extends(p, Between(p, right, list))
<1> DEFINE f == FreshLabel(p)
<1> DEFINE m == Make(f, "label", Unset)
<1> DEFINE i == Newest(p) + 1
<1> DEFINE l == MakeList(m, i)
<1> DEFINE placed == InsertBefore(l, right.begin, i)
<1> DEFINE merged == Merge(placed, list, NewestList(p) + 1)
<1>1. Between(p, right, list) = PatchAll(merged, list, p.labels + 1)
  BY DEF Between
<1>2. Adds(p, f, 0, 1, 0) /\ Well(f)
  BY OperationsAdd, AddsLength
<1> HIDE DEF f
<1>3. /\ Good(f, m) /\ GrowsBy(f, m, 1, 0, 0)
      /\ Running(m) => m.code[Len(m.code)].pre = Null
  <2>1. "label" \in Ops
    BY DEF Ops
  <2> QED
    BY <1>2, <2>1, MakeGood
<1>4. Adds(p, m, 0 + 1, 1 + 0, 0 + 0)
  <2>1. Adds(f, m, 1, 0, 0)
    BY <1>2, <1>3 DEF Adds
  <2> HIDE DEF m
  <2> QED
    BY <1>2, <2>1, AddsChain
<1> HIDE DEF m
<1>5. Adds(p, m, 1, 1, 0)
  <2>1. 0 + 1 = 1 /\ 1 + 0 = 1 /\ 0 + 0 = 0
    OBVIOUS
  <2> QED
    BY <2>1, <1>4
<1>6. Running(m) => i \in 1 .. Len(m.code) /\ Len(m.code) = i /\ i \notin 1 .. Len(p.code)
  BY <1>5, AddsLength DEF Newest
<1>7. InstructionAt(m, i)
  BY <1>6 DEF InstructionAt
<1>8. Adds(p, l, 1, 1, 0 + 1)
  BY <1>5, <1>7, CodeAdds
<1>9. IsParser(m) /\ (Running(l) => l.code = m.code)
  <2>1. IsParser(m)
    BY <1>5, AddsLength
  <2> QED
    BY <2>1 DEF MakeList, Running, IsParser, Fields
<1> HIDE DEF l
<1>10. /\ Well(l) /\ (Running(l) => Running(p) /\ Len(l.code) = Len(p.code) + 1 /\ l.labels = p.labels + 1 /\ Len(l.lists) = Len(p.lists) + 1)
       /\ Len(p.code) \in Nat /\ Len(p.lists) \in Nat /\ p.labels \in Nat
  <2>1. 0 + 1 = 1
    OBVIOUS
  <2>2. Adds(p, l, 1, 1, 1)
    BY <2>1, <1>8
  <2> QED
    BY <2>2, AddsLength
<1>11. Running(l) => Running(m)
  BY DEF l, MakeList
<1>12. Running(l) => right.begin \in {Unset} \cup 0 .. Len(l.code)
  BY <1>10 DEF TreeAt
<1>13. Running(l) => i \in 1 .. Len(l.code) /\ (~HasFor => l.code[i].pre = Null) /\ i \notin 1 .. Len(p.code)
  BY <1>3, <1>6, <1>9, <1>11
<1>14. GoodBut(l, placed, i) /\ GrowsBy(l, placed, 0, 0, 0)
  BY <1>10, <1>12, <1>13, BeforeGood
<1> HIDE DEF placed
<1>15. Adds(p, placed, 1, 1, 0 + 1)
  BY <1>8, <1>13, <1>14, NewPlaced
<1>16. /\ Well(placed)
       /\ Running(placed) => Running(p) /\ placed.labels = p.labels + 1 /\ Len(placed.lists) = Len(p.lists) + 1
  <2>1. 0 + 1 = 1
    OBVIOUS
  <2>2. Adds(p, placed, 1, 1, 1)
    BY <2>1, <1>15
  <2> QED
    BY <2>2, AddsLength
<1>17. ListAt(placed, list) /\ ListAt(placed, NewestList(p) + 1)
  BY <1>16, <1>10 DEF ListAt, IsListOf, NewestList
<1>18. Adds(p, merged, 1, 1, 0 + 1) /\ Adds(placed, merged, 0, 0, 0)
  <2>1. Adds(p, merged, 1, 1, 0 + 1)
    BY <1>15, <1>17, CodeAdds
  <2>2. Adds(placed, merged, 0, 0, 0)
    BY <1>16, <1>17, OperationsAdd
  <2> QED
    BY <2>1, <2>2
<1> HIDE DEF merged
<1>19. ListAt(merged, list)
  BY <1>18, <1>17, AddsLength DEF ListAt, IsListOf
<1>20. LabelAt(merged, p.labels + 1)
  BY <1>18, <1>16, <1>10, AddsLength DEF LabelAt
<1>21. Adds(p, PatchAll(merged, list, p.labels + 1), 1, 1, 0 + 1)
  BY <1>18, <1>19, <1>20, CodeAdds
<1> QED
  BY <1>1, <1>21 DEF Adds, Extends

(* What an extension of the parser keeps.                                  *)
LEMMA ExtendsKeeps ==
    ASSUME NEW b, NEW p, Extends(b, p)
    PROVE  /\ Well(p) /\ IsParser(p) /\ (Running(p) => Running(b))
           /\ \A q : Extends(p, q) => Extends(b, q)
           /\ \A l : ListAt(b, l) => ListAt(p, l)
           /\ \A l : LabelAt(b, l) => LabelAt(p, l)
           /\ \A i : InstructionAt(b, i) => InstructionAt(p, i)
           /\ \A i : PlaceAt(b, i) => PlaceAt(p, i)
           /\ \A t : TreeAt(b, t) => TreeAt(p, t)
           /\ \A t : BlockAt(b, t) => BlockAt(p, t)
           /\ \A c : CondAt(b, c) => CondAt(p, c)
<1>1. Well(b) /\ GoodBut(b, p, Null)
  BY DEF Extends, Good
<1>2. Well(p) /\ IsParser(p) /\ (Running(p) => Running(b))
  BY GoodChain DEF Extends, Good, GoodBut
<1>3. ASSUME NEW q, Extends(p, q) PROVE Extends(b, q)
  BY <1>3, GoodChain DEF Extends
<1> QED
  BY <1>1, <1>2, <1>3, ThereStill

(* The code of && and of ||.                                               *)
LEMMA LogicExtends ==
    ASSUME NEW b, NEW p, Extends(b, p), NEW l, NEW t, TreeAt(p, l.t), TreeAt(p, t)
    PROVE  LET r == [p |-> p, t |-> t]
           IN  /\ Extends(b, ANDtree(l, r).p) /\ TreeAt(ANDtree(l, r).p, ANDtree(l, r).t)
               /\ Extends(b, ORtree(l, r).p) /\ TreeAt(ORtree(l, r).p, ORtree(l, r).t)
<1>0. Well(p) /\ ListAt(p, l.t.true) /\ ListAt(p, l.t.false)
  BY ExtendsKeeps DEF TreeAt, ListAt
<1>1. ASSUME NEW k, ListAt(p, k), NEW f, NEW g, ListAt(p, f), ListAt(p, g)
      PROVE  LET q == Merge(Between(p, t, k), f, g)
             IN  Extends(b, q) /\ TreeAt(q, l.t) /\ TreeAt(q, t)
  <2> DEFINE m == Between(p, t, k)
  <2> DEFINE q == Merge(m, f, g)
  <2>1. Extends(p, m)
    BY <1>0, <1>1, BetweenAdds
  <2> HIDE DEF m
  <2>2. ListAt(m, f) /\ ListAt(m, g)
    BY <2>1, <1>1, ExtendsKeeps
  <2>3. Extends(p, q)
    BY <2>1, <2>2, CodeExtends
  <2> HIDE DEF q
  <2>4. Extends(b, q) /\ TreeAt(q, l.t) /\ TreeAt(q, t)
    BY <2>3, ExtendsKeeps
  <2> QED
    BY <2>4 DEF q, m
<1>2. ListAt(p, t.true) /\ ListAt(p, t.false)
  BY DEF TreeAt, ListAt
<1> DEFINE r == [p |-> p, t |-> t]
<1>3. Extends(b, ANDtree(l, r).p) /\ TreeAt(ANDtree(l, r).p, ANDtree(l, r).t)
  <2> DEFINE q == Merge(Between(p, t, l.t.true), l.t.false, t.false)
  <2>1. Extends(b, q) /\ TreeAt(q, l.t) /\ TreeAt(q, t)
    BY <1>0, <1>1, <1>2
  <2>2. ANDtree(l, r).p = q
    BY DEF ANDtree
  <2>3. ANDtree(l, r).t.true = t.true /\ ANDtree(l, r).t.false = l.t.false /\ ANDtree(l, r).t.begin = Unset
    BY DEF ANDtree, Node, NoTree
  <2> HIDE DEF q
  <2>4. TreeAt(q, ANDtree(l, r).t)
    BY <2>1, <2>3 DEF TreeAt
  <2> QED
    BY <2>1, <2>2, <2>4
<1>4. Extends(b, ORtree(l, r).p) /\ TreeAt(ORtree(l, r).p, ORtree(l, r).t)
  <2> DEFINE q == Merge(Between(p, t, l.t.false), l.t.true, t.true)
  <2>1. Extends(b, q) /\ TreeAt(q, l.t) /\ TreeAt(q, t)
    BY <1>0, <1>1, <1>2
  <2>2. ORtree(l, r).p = q
    BY DEF ORtree
  <2>3. ORtree(l, r).t.true = l.t.true /\ ORtree(l, r).t.false = t.false /\ ORtree(l, r).t.begin = l.t.begin
    BY DEF ORtree, Node, NoTree
  <2> HIDE DEF q
  <2>4. TreeAt(q, ORtree(l, r).t)
    BY <2>1, <2>3 DEF TreeAt
  <2> QED
    BY <2>1, <2>2, <2>4
<1> QED
  BY <1>3, <1>4

(* The tree of an operator names lists there are.                          *)
LEMMA TreeExtends ==
    ASSUME NEW p, Well(p), NEW t, TreeAt(p, t)
    PROVE  LET r == [p |-> p, t |-> t]
           IN  /\ \A op \in UnaryOperators : Extends(p, Applied(op, r).p) /\ TreeAt(Applied(op, r).p, Applied(op, r).t)
               /\ \A op \in BinaryOperators : \A left :
                     TreeAt(p, left) => Extends(p, Combine(op, left, r).p) /\ TreeAt(Combine(op, left, r).p, Combine(op, left, r).t)
               /\ \A left : TreeAt(p, left) => Extends(p, ASGNtree(r, left).p) /\ TreeAt(ASGNtree(r, left).p, ASGNtree(r, left).t)
               /\ \A array : Extends(p, ARRAYtree(array, r).p) /\ TreeAt(ARRAYtree(array, r).p, ARRAYtree(array, r).t)
               /\ Extends(p, Decided(r).p) /\ TreeAt(Decided(r).p, Decided(r).t)
<1> DEFINE r == [p |-> p, t |-> t]
<1>0. Extends(p, p) /\ "undefined" \in Reasons /\ "assert" \in Reasons /\ "thrown" \in Reasons
  BY GoodChain DEF Extends, Reasons
<1>1. \A w \in Reasons : Extends(p, Stop(p, w))
  BY <1>0, CodeExtends
<1>20. ASSUME NEW q, Well(q), NEW left, NEW right
       PROVE  /\ \A node : Extends(q, Arithmetic(q, node, left, right).p)
              /\ \A node, x : TreeAt(x, Arithmetic(q, node, left, right).t)
              /\ \A node : LET c == CompareTree(q, node, left, right) IN Extends(q, c.p) /\ TreeAt(c.p, c.t)
  <2>1. \A node : Adds(q, Arithmetic(q, node, left, right).p, 0, 0, 0)
    BY <1>20, SidesAdd
  <2>2. \A node : Adds(q, CompareTree(q, node, left, right).p, 2, 0, 2)
    BY <1>20, SidesAdd
  <2> QED
    BY <2>1, <2>2, <1>20, SidesAdd DEF Adds, Extends
<1>21. \A w \in Reasons : TreeAt(Stop(p, w), t)
  BY <1>1, ExtendsKeeps
<1>2. Extends(p, Indirect(r).p) /\ TreeAt(Indirect(r).p, Indirect(r).t)
  <2>1. CASE t.type.op \in {"array", "pointer"}
    BY <2>1, <1>0, PlainTrees DEF Indirect
  <2>2. CASE t.type.op = "function"
    BY <2>2, <1>0 DEF Indirect
  <2>3. CASE t.type.op \notin {"array", "pointer", "function"}
    <3>1. Indirect(r) = [r EXCEPT !.p = Stop(r.p, "assert")]
      BY <2>3 DEF Indirect
    <3>2. Indirect(r).p = Stop(p, "assert") /\ Indirect(r).t = t
      BY <3>1
    <3> QED
      BY <3>2, <1>0, <1>1, <1>21
  <2> QED
    BY <2>1, <2>2, <2>3
<1>3. Extends(p, Address(r).p) /\ TreeAt(Address(r).p, Address(r).t)
  BY <1>0, <1>1, PlainTrees DEF Address, Missing
<1>4. Extends(p, Signed(r).p) /\ TreeAt(Signed(r).p, Signed(r).t)
  <2> DEFINE q == IF t.type.op = "pointer" THEN Stop(p, "assert") ELSE p
  <2>1. Extends(p, q) /\ Signed(r) = Arithmetic(q, "add", CONSTtree("0"), t)
    BY <1>0, <1>1 DEF Signed
  <2> HIDE DEF q
  <2>2. Well(q)
    BY <2>1, ExtendsKeeps
  <2>3. Extends(q, Signed(r).p) /\ TreeAt(Signed(r).p, Signed(r).t)
    BY <2>1, <2>2, <1>20
  <2> QED
    BY <2>1, <2>3, ExtendsKeeps
<1>5. \A op \in UnaryOperators : Extends(p, Applied(op, r).p) /\ TreeAt(Applied(op, r).p, Applied(op, r).t)
  BY <1>2, <1>3, <1>4 DEF Applied, UnaryOperators
<1>6. ASSUME NEW op, NEW left, TreeAt(p, left)
      PROVE  LET c == LogicTree(op, Condition(p, left), t) IN Extends(p, c.p) /\ TreeAt(c.p, c.t)
  <2> DEFINE l == Condition(p, left)
             q == Condition(l.p, t).p
             u == Condition(l.p, t).t
  <2>1. Extends(p, l.p) /\ TreeAt(l.p, l.t)
    BY <1>6, ConditionAdds
  <2>2. Condition(l.p, t) = [p |-> q, t |-> u]
    BY ConditionPair
  <2> HIDE DEF l
  <2>3. Well(l.p) /\ TreeAt(l.p, t)
    BY <2>1, ExtendsKeeps
  <2>4. Extends(l.p, q) /\ TreeAt(q, u)
    BY <2>3, ConditionAdds
  <2> HIDE DEF q, u
  <2>5. Extends(p, q) /\ TreeAt(q, l.t)
    BY <2>1, <2>4, ExtendsKeeps
  <2> DEFINE z == [p |-> q, t |-> u]
  <2>6. Extends(p, ANDtree(l, z).p) /\ TreeAt(ANDtree(l, z).p, ANDtree(l, z).t)
    BY <2>4, <2>5, LogicExtends
  <2>7. Extends(p, ORtree(l, z).p) /\ TreeAt(ORtree(l, z).p, ORtree(l, z).t)
    BY <2>4, <2>5, LogicExtends
  <2>8. LogicTree(op, l, t) = IF op = "&&" THEN ANDtree(l, z) ELSE ORtree(l, z)
    BY <2>2 DEF LogicTree
  <2> QED
    BY <2>6, <2>7, <2>8 DEF l
<1>7. ASSUME NEW op \in BinaryOperators, NEW left, TreeAt(p, left)
      PROVE  Extends(p, Combine(op, left, r).p) /\ TreeAt(Combine(op, left, r).p, Combine(op, left, r).t)
  <2>2. CASE op \in {"&&", "||"}
    BY <2>2, <1>6, <1>7 DEF Combine
  <2>3. CASE op \in {"==", "!=", "<"}
    BY <2>3, <1>20 DEF Combine
  <2>4. CASE op \in {"|", "^", "&", "<<", "+", "*"}
    BY <2>4, <1>20 DEF Combine
  <2>5. CASE op = "++"
    <3>1. Combine(op, left, r) = [r EXCEPT !.p = Stop(r.p, "assert")]
      BY <2>5 DEF Combine
    <3>2. Combine(op, left, r).p = Stop(p, "assert") /\ Combine(op, left, r).t = t
      BY <3>1
    <3> QED
      BY <3>2, <1>0, <1>1, <1>21
  <2> QED
    BY <2>2, <2>3, <2>4, <2>5 DEF BinaryOperators
<1>8. ASSUME NEW left, TreeAt(p, left)
      PROVE  Extends(p, ASGNtree(r, left).p) /\ TreeAt(ASGNtree(r, left).p, ASGNtree(r, left).t)
  <2> DEFINE q == IF left.type.op \in {"array", "function"} THEN Stop(p, "thrown") ELSE p
  <2> DEFINE n == Needed(Needed(q, left), t)
  <2>1. Adds(p, q, 0, 0, 0)
    BY <1>0, OperationsAdd
  <2>2. ASGNtree(r, left).p = Emit(n, "code")
    BY DEF ASGNtree
  <2>3. LET z == ASGNtree(r, left).t IN z.begin = Newest(p) + 1 /\ z.true = Unset /\ z.false = Unset
    BY DEF ASGNtree, Node, NoTree
  <2> HIDE DEF q
  <2>4. Adds(p, n, 0, 0, 0)
    <3>1. Adds(p, Needed(q, left), 0, 0, 0)
      BY <2>1, CodeAdds
    <3> QED
      BY <3>1, CodeAdds
  <2> HIDE DEF n
  <2> DEFINE e == Emit(n, "code")
  <2>5. Adds(p, e, 0 + 1, 0, 0)
    <3>1. "code" \in Ops
      BY DEF Ops
    <3> QED
      BY <3>1, <2>4, CodeAdds
  <2> HIDE DEF e
  <2>6. Running(e) => Newest(p) + 1 \in 0 .. Len(e.code)
    <3>1. Running(e) => Len(e.code) = Len(p.code) + (0 + 1) /\ Len(p.code) \in Nat
      BY <2>5, AddsLength
    <3> QED
      BY <3>1 DEF Newest
  <2>7. TreeAt(e, ASGNtree(r, left).t)
    BY <2>3, <2>6 DEF TreeAt, IsListOf
  <2>8. Extends(p, e)
    BY <2>5 DEF Adds, Extends
  <2> QED
    BY <2>2, <2>7, <2>8 DEF e
<1>9. ASSUME NEW array
      PROVE  Extends(p, ARRAYtree(array, r).p) /\ TreeAt(ARRAYtree(array, r).p, ARRAYtree(array, r).t)
  <2> DEFINE n == Needed(p, array)
  <2> DEFINE offset == Arithmetic(n, "mul", CONSTtree("size"), t)
  <2> DEFINE sum == Arithmetic(offset.p, "add", array, offset.t)
  <2>1. Extends(p, n)
    BY <1>0, CodeExtends
  <2>5. ARRAYtree(array, r) = IF array.type.op \in {"null", "int"} THEN [p |-> Stop(p, "undefined"), t |-> NoTree]
                              ELSE [p |-> sum.p, t |-> Node("indr", <<sum.t>>, array.type.base)]
    BY DEF ARRAYtree
  <2> HIDE DEF n
  <2>2. Extends(n, offset.p)
    BY <2>1, <1>20, ExtendsKeeps
  <2> HIDE DEF offset
  <2>3. Extends(offset.p, sum.p)
    BY <2>2, <1>20, ExtendsKeeps
  <2> HIDE DEF sum
  <2>4. Extends(p, sum.p)
    BY <2>1, <2>2, <2>3, ExtendsKeeps
  <2>6. CASE array.type.op \in {"null", "int"}
    BY <2>5, <2>6, <1>0, <1>1, PlainTrees
  <2>7. CASE array.type.op \notin {"null", "int"}
    BY <2>4, <2>5, <2>7, PlainTrees
  <2> QED
    BY <2>6, <2>7
<1>10. Extends(p, Decided(r).p) /\ TreeAt(Decided(r).p, Decided(r).t)
  <2> DEFINE c == CompareTree(p, "eq", t, CONSTtree("0"))
  <2>1. Extends(p, c.p) /\ TreeAt(c.p, c.t)
    BY <1>20
  <2>2. CASE t.node = "id"
    <3>1. Decided(r).p = EmitListed(c.p, "pad") /\ Decided(r).t = c.t
      BY <2>2 DEF Decided, CompareTree
    <3> HIDE DEF c
    <3>2. Extends(c.p, c.p) /\ "pad" \in Ops
      BY <2>1, ExtendsKeeps, GoodChain DEF Extends, Ops
    <3>3. Extends(c.p, EmitListed(c.p, "pad"))
      BY <3>2, CodeExtends
    <3> QED
      BY <3>1, <3>3, <2>1, ExtendsKeeps
  <2>3. CASE t.node # "id"
    <3>1. Decided(r).p = Needed(p, t) /\ Decided(r).t = t
      BY <2>3 DEF Decided
    <3>2. Extends(p, Needed(p, t))
      BY <1>0, CodeExtends
    <3> QED
      BY <3>1, <3>2, ExtendsKeeps
  <2> QED
    BY <2>2, <2>3
<1> QED
  BY <1>5, <1>7, <1>8, <1>9, <1>10

(* The lists of a block with another or with no list in one place.         *)
LEMMA BlockChanged ==
    ASSUME NEW p, NEW block, BlockAt(p, block), NEW l, ListAt(p, l)
    PROVE  /\ BlockAt(p, [block EXCEPT !.next = l]) /\ BlockAt(p, [block EXCEPT !.break = l])
           /\ BlockAt(p, [block EXCEPT !.continue = l])
           /\ ListAt(p, block.next) /\ ListAt(p, block.break) /\ ListAt(p, block.continue)
<1>1. ListAt(p, block.next) /\ ListAt(p, block.break) /\ ListAt(p, block.continue)
  BY DEF BlockAt, ListAt
<1>2. CASE Running(p)
  <2>1. DOMAIN block = {"next", "break", "continue"} /\ IsListOf(p, l)
    BY <1>2 DEF BlockAt, ListAt
  <2>2. LET q == [block EXCEPT !.next = l]
        IN  DOMAIN q = {"next", "break", "continue"} /\ q.next = l /\ q.break = block.break /\ q.continue = block.continue
    BY <2>1
  <2>3. LET q == [block EXCEPT !.break = l]
        IN  DOMAIN q = {"next", "break", "continue"} /\ q.next = block.next /\ q.break = l /\ q.continue = block.continue
    BY <2>1
  <2>4. LET q == [block EXCEPT !.continue = l]
        IN  DOMAIN q = {"next", "break", "continue"} /\ q.next = block.next /\ q.break = block.break /\ q.continue = l
    BY <2>1
  <2>5. BlockAt(p, [block EXCEPT !.next = l])
    BY <2>1, <2>2 DEF BlockAt
  <2>6. BlockAt(p, [block EXCEPT !.break = l])
    BY <2>1, <2>3 DEF BlockAt
  <2>7. BlockAt(p, [block EXCEPT !.continue = l])
    BY <2>1, <2>4 DEF BlockAt
  <2> QED
    BY <1>1, <2>5, <2>6, <2>7
<1>3. CASE ~Running(p)
  BY <1>1, <1>3 DEF BlockAt
<1> QED
  BY <1>2, <1>3

(* Of two lists that are there the merge is.                               *)
LEMMA MergeExtends ==
    ASSUME NEW b, NEW p, Extends(b, p), NEW k, NEW l, ListAt(p, k), ListAt(p, l)
    PROVE  Extends(b, Merge(p, k, l)) /\ Extends(p, Merge(p, k, l))
<1>1. Extends(p, p)
  BY ExtendsKeeps, GoodChain DEF Extends
<1> QED
  BY <1>1, CodeExtends

(* A block takes the lists of a statement.                                 *)
LEMMA TakeExtends ==
    ASSUME NEW p, Well(p), NEW ret, NEW block, BlockAt(p, ret), BlockAt(p, block)
    PROVE  LET taken == TakeLists(p, ret, block) IN Extends(p, taken.p) /\ BlockAt(taken.p, taken.ret)
<1>0. Extends(p, p)
  BY GoodChain DEF Extends
<1> DEFINE q == IF block.next = Null THEN p ELSE Merge(p, ret.next, block.next)
<1> DEFINE breaks == TakeBreaks(q, ret, block)
<1> DEFINE continues == TakeContinues(breaks.p, breaks.ret, block)
<1>1. TakeLists(p, ret, block) = IF block = NoBlock THEN [p |-> p, ret |-> ret] ELSE continues
  BY DEF TakeLists
<1>2. Extends(p, q)
  BY <1>0, MergeExtends, BlockChanged DEF BlockAt, ListAt
<1> HIDE DEF q
<1>3. BlockAt(q, ret) /\ BlockAt(q, block) /\ Extends(q, q)
  BY <1>2, ExtendsKeeps, GoodChain DEF Extends
<1>4. ListAt(q, ret.break) /\ ListAt(q, block.break)
  BY <1>3 DEF BlockAt, ListAt
<1>5. Extends(q, breaks.p) /\ BlockAt(breaks.p, breaks.ret)
  <2>1. CASE block.break = Null
    BY <2>1, <1>3 DEF TakeBreaks
  <2>2. CASE block.break # Null /\ ret.break = Null
    BY <2>2, <1>3, <1>4, BlockChanged DEF TakeBreaks
  <2>3. CASE block.break # Null /\ ret.break # Null
    <3> DEFINE m == Merge(q, ret.break, block.break)
    <3>1. breaks.p = m /\ breaks.ret = [ret EXCEPT !.next = ret.break]
      BY <2>3 DEF TakeBreaks
    <3>2. Extends(q, m)
      BY <1>3, <1>4, MergeExtends
    <3> HIDE DEF m
    <3>3. BlockAt(m, ret) /\ ListAt(m, ret.break)
      BY <3>2, <1>3, <1>4, ExtendsKeeps
    <3>4. BlockAt(m, [ret EXCEPT !.next = ret.break])
      BY <3>3, BlockChanged
    <3> HIDE DEF breaks
    <3> QED
      BY <3>1, <3>2, <3>4
  <2> QED
    BY <2>1, <2>2, <2>3
<1> HIDE DEF breaks
<1>6. Extends(p, breaks.p) /\ BlockAt(breaks.p, block) /\ Extends(breaks.p, breaks.p)
  BY <1>2, <1>3, <1>5, ExtendsKeeps, GoodChain DEF Extends
<1>7. ListAt(breaks.p, breaks.ret.continue) /\ ListAt(breaks.p, block.continue)
  BY <1>5, <1>6 DEF BlockAt, ListAt
<1>8. Extends(breaks.p, continues.p) /\ BlockAt(continues.p, continues.ret)
  <2>1. CASE block.continue = Null
    BY <2>1, <1>5, <1>6 DEF TakeContinues
  <2>2. CASE block.continue # Null /\ breaks.ret.continue = Null
    BY <2>2, <1>5, <1>6, <1>7, BlockChanged DEF TakeContinues
  <2>3. CASE block.continue # Null /\ breaks.ret.continue # Null
    <3> DEFINE m == Merge(breaks.p, breaks.ret.continue, block.continue)
    <3>1. continues.p = m /\ continues.ret = breaks.ret
      BY <2>3 DEF TakeContinues
    <3>2. Extends(breaks.p, m)
      BY <1>6, <1>7, MergeExtends
    <3> HIDE DEF m
    <3>3. BlockAt(m, breaks.ret)
      BY <3>2, <1>5, ExtendsKeeps
    <3> QED
      BY <3>1, <3>2, <3>3
  <2> QED
    BY <2>1, <2>2, <2>3
<1> HIDE DEF continues
<1>9. Extends(p, continues.p)
  BY <1>6, <1>8, ExtendsKeeps
<1> QED
  BY <1>0, <1>1, <1>8, <1>9

(* And so does an if with an else those of its parts.                      *)
LEMMA JoinedExtends ==
    ASSUME NEW p, Well(p), NEW ret, NEW block, BlockAt(p, ret), BlockAt(p, block)
    PROVE  LET j == Joined(p, ret, block) IN Extends(p, j.p) /\ BlockAt(j.p, j.ret)
<1>0. Extends(p, p)
  BY GoodChain DEF Extends
<1>1. ASSUME NEW q, Extends(p, q), NEW k, NEW l, ListAt(q, k), ListAt(q, l)
      PROVE  LET r == IF l = Null THEN [p |-> q, l |-> k]
                      ELSE IF k = Null THEN [p |-> q, l |-> l]
                      ELSE [p |-> Merge(q, k, l), l |-> k]
             IN  Extends(q, r.p) /\ Extends(p, r.p) /\ ListAt(r.p, r.l)
  <2> DEFINE m == Merge(q, k, l)
  <2>1. Extends(q, m) /\ Extends(p, m)
    BY <1>1, MergeExtends
  <2> HIDE DEF m
  <2>2. ListAt(m, k) /\ Extends(q, q)
    BY <2>1, <1>1, ExtendsKeeps, GoodChain DEF Extends
  <2> QED
    BY <2>1, <2>2, <1>1 DEF m
<1> DEFINE breaks == IF block.break = Null THEN [p |-> p, l |-> ret.break]
                     ELSE IF ret.break = Null THEN [p |-> p, l |-> block.break]
                     ELSE [p |-> Merge(p, ret.break, block.break), l |-> ret.break]
<1> DEFINE continues == IF block.continue = Null THEN [p |-> breaks.p, l |-> ret.continue]
                        ELSE IF ret.continue = Null THEN [p |-> breaks.p, l |-> block.continue]
                        ELSE [p |-> Merge(breaks.p, ret.continue, block.continue), l |-> ret.continue]
<1>2. Joined(p, ret, block) = [p |-> continues.p, ret |-> [next |-> block.next, break |-> breaks.l, continue |-> continues.l]]
  BY DEF Joined
<1>3. /\ ListAt(p, ret.break) /\ ListAt(p, block.break) /\ ListAt(p, ret.continue) /\ ListAt(p, block.continue)
      /\ ListAt(p, block.next)
  BY DEF BlockAt, ListAt
<1>4. Extends(p, breaks.p) /\ ListAt(breaks.p, breaks.l)
  BY <1>0, <1>1, <1>3
<1> HIDE DEF breaks
<1>5. ListAt(breaks.p, ret.continue) /\ ListAt(breaks.p, block.continue) /\ ListAt(breaks.p, block.next)
  BY <1>3, <1>4, ExtendsKeeps
<1>6. Extends(breaks.p, continues.p) /\ Extends(p, continues.p) /\ ListAt(continues.p, continues.l)
  BY <1>1, <1>4, <1>5
<1> HIDE DEF continues
<1>7. ListAt(continues.p, breaks.l) /\ ListAt(continues.p, block.next)
  BY <1>4, <1>5, <1>6, ExtendsKeeps
<1>8. BlockAt(continues.p, [next |-> block.next, break |-> breaks.l, continue |-> continues.l])
  BY <1>6, <1>7 DEF BlockAt, ListAt
<1> QED
  BY <1>2, <1>6, <1>8

-----------------------------------------------------------------------------
(* The parts of the steps.  The closing of a condition, and the size of a  *)
(* name.                                                                   *)
LEMMA ClosingExtends ==
    ASSUME NEW b, NEW p, Extends(b, p)
    PROVE  Extends(b, CloseCondition(p)) /\ Extends(b, Semicolon(p)) /\ Extends(b, Sized(p))
<1>1. Extends(b, PushBack(p))
  BY TokensExtend
<1>2. Extends(b, Need(PushBack(p), ")")) /\ Extends(b, Need(PushBack(p), ";"))
  BY <1>1, TokensExtend
<1>3. Extends(b, CloseCondition(p)) /\ Extends(b, Semicolon(p))
  BY <1>2, TokensExtend DEF CloseCondition, Semicolon
<1> DEFINE q == IF Is(p, "(") THEN NextToken(p) ELSE p
<1>4. Extends(b, q)
  BY TokensExtend
<1> DEFINE r == IF Is(p, "(") THEN Need(q, ")") ELSE q
<1> HIDE DEF q
<1>5. Extends(b, r)
  BY <1>4, TokensExtend
<1>6. "assert" \in Reasons /\ "undefined" \in Reasons
  BY DEF Reasons
<1>7. Extends(b, Stop(q, "assert"))
  BY <1>4, <1>6, CodeExtends
<1> HIDE DEF r
<1>8. Extends(b, Stop(r, "undefined"))
  BY <1>5, <1>6, CodeExtends
<1>9. Sized(p) = Stop(q, "assert") \/ Sized(p) = q \/ Sized(p) = Stop(r, "undefined")
  BY DEF Sized, q, r
<1> QED
  BY <1>3, <1>4, <1>7, <1>8, <1>9

(* A declarator is checked and declared.                                   *)
LEMMA VerdictExtends ==
    ASSUME Well(parser), NEW d
    PROVE  Extends(parser, Verdict(d)) /\ Extends(parser, NextToken(Verdict(d)))
<1> DEFINE q == [parser EXCEPT !.verdict = Check(parser.verdict, d.ty)]
<1>1. Extends(parser, parser)
  BY GoodChain DEF Extends
<1>2. Extends(parser, q)
  BY <1>1, TokensExtend
<1>3. \/ Verdict(d) = NewIdentifier(q, q.text[d.name], d.ty)
      \/ Verdict(d) = Misreport(q)
      \/ Verdict(d) = Report(q)
  BY DEF Verdict
<1> HIDE DEF q
<1>4. Extends(parser, Verdict(d))
  BY <1>2, <1>3, TokensExtend
<1> QED
  BY <1>4, TokensExtend

(* The brace of a function is come to.                                     *)
LEMMA BraceExtends ==
    ASSUME NEW b, NEW p, Extends(b, p), NEW d
    PROVE  Extends(b, AtBrace(p, d))
<1>0. "assert" \in Reasons /\ "undefined" \in Reasons
  BY DEF Reasons
<1>1. ASSUME NEW a, Extends(b, a), NEW list, NEW i
      PROVE  Extends(b, ParseParameter(a, list, i))
  BY <1>1, TokensExtend DEF ParseParameter
<1>2. Extends(b, EnterEnv(p)) /\ Extends(b, Report(p))
  BY TokensExtend
<1>3. \A list : Extends(b, ParseParameters(EnterEnv(p), list))
  BY <1>1, <1>2 DEF ParseParameters
<1>4. ASSUME NEW a, Extends(b, a) PROVE Extends(b, Stop(a, "undefined")) /\ Extends(b, Stop(a, "assert"))
  BY <1>0, <1>4, CodeExtends
<1>5. \A ty : Extends(b, BeginFunction(p, ty))
  BY <1>3, <1>4 DEF BeginFunction
<1>6. Extends(b, Stop(Report(p), "assert")) /\ Extends(b, Stop(p, "undefined")) /\ Extends(b, Stop(p, "assert"))
  BY <1>2, <1>4
<1>7. \/ AtBrace(p, d) = Stop(Report(p), "assert")
      \/ AtBrace(p, d) = Stop(p, "undefined")
      \/ AtBrace(p, d) = Stop(p, "assert")
      \/ AtBrace(p, d) = BeginFunction(p, d.ty)
  BY DEF AtBrace
<1> QED
  BY <1>5, <1>6, <1>7

(* A label of a loop.                                                      *)
LEMMA LabelAdds ==
    ASSUME NEW p, Well(p)
    PROVE  Adds(p, Labelled(p), 1, 1, 0)
<1> DEFINE f == FreshLabel(p)
<1> DEFINE q == Emit(f, "label")
<1>0. "label" \in Ops
  BY DEF Ops
<1>1. Adds(p, f, 0, 1, 0)
  BY OperationsAdd
<1> HIDE DEF f
<1>2. Adds(p, q, 0 + 1, 1, 0)
  BY <1>0, <1>1, CodeAdds
<1>3. Labelled(p) = PatchOne(q, Newest(q), q.labels)
  BY DEF Labelled, f
<1> HIDE DEF q
<1>4. Running(q) => /\ Len(q.code) = Len(p.code) + (0 + 1) /\ q.labels = p.labels + 1
                    /\ Len(p.code) \in Nat /\ p.labels \in Nat
  BY <1>2, AddsLength
<1>5. InstructionAt(q, Newest(q)) /\ LabelAt(q, q.labels)
  BY <1>4 DEF InstructionAt, LabelAt, Newest
<1>6. Adds(p, PatchOne(q, Newest(q), q.labels), 0 + 1, 1, 0)
  BY <1>2, <1>5, CodeAdds
<1>7. 0 + 1 = 1
  OBVIOUS
<1> QED
  BY <1>3, <1>6, <1>7

(* The lists of a break or of a continue.                                  *)
LEMMA JumpAdds ==
    ASSUME Well(parser), NEW op \in Ops
    PROVE  Adds(parser, Jump(op), 2, 0, 2)
<1> DEFINE e == Emit(parser, "label")
<1> DEFINE q == EmitListed(e, op)
<1>0. "label" \in Ops
  BY DEF Ops
<1>1. Jump(op) = MakeList(q, Newest(q) - 1)
  BY DEF Jump
<1>2. Adds(parser, e, 1, 0, 0)
  BY <1>0, OperationsAdd
<1> HIDE DEF e
<1>3. Adds(parser, q, 1 + 1, 0, 0 + 1)
  BY <1>2, CodeAdds
<1> HIDE DEF q
<1>4. Running(q) => Len(q.code) = Len(parser.code) + (1 + 1) /\ Len(parser.code) \in Nat
  BY <1>3, AddsLength
<1>5. InstructionAt(q, Newest(q) - 1)
  BY <1>4 DEF InstructionAt, Newest
<1>6. Adds(parser, MakeList(q, Newest(q) - 1), 1 + 1, 0, (0 + 1) + 1)
  BY <1>3, <1>5, CodeAdds
<1>7. 1 + 1 = 2 /\ (0 + 1) + 1 = 2
  OBVIOUS
<1> QED
  BY <1>1, <1>6, <1>7

(* The label of the end of an if.                                          *)
LEMMA EndOfSelectExtends ==
    ASSUME NEW p, Well(p), NEW block, BlockAt(p, block), EndOfSelect(p, block)
    PROVE  /\ Extends(p, parser') /\ BlockAt(parser', block)
           /\ calls' = Popped /\ mode' = "back" /\ value' = block
<1> DEFINE f == FreshLabel(p)
<1> DEFINE i == Newest(f) + 1
<1> DEFINE m == Make(f, "label", p.labels + 1)
<1> DEFINE q == Append1(m, Newest(m))
<1> DEFINE r == PatchAll(q, block.next, m.labels)
<1>1. parser' = PushBack(r) /\ calls' = Popped /\ mode' = "back" /\ value' = block
  BY DEF EndOfSelect, Returns, Leaves
<1>2. Adds(p, f, 0, 1, 0)
  BY OperationsAdd
<1> HIDE DEF f
<1>3. /\ Well(f) /\ (Running(f) => Running(p) /\ f.labels = p.labels + 1 /\ p.labels \in Nat)
  BY <1>2, AddsLength
<1>4. "label" \in Ops /\ (Running(f) => p.labels + 1 \in {Unset} \cup 1 .. f.labels)
  BY <1>3 DEF Ops
<1>5. Good(f, m) /\ GrowsBy(f, m, 1, 0, 0)
  BY <1>3, <1>4, MakeGood
<1>6. Running(f) => Newest(m) = Len(f.code) + 1
  <2>1. CASE Running(m)
    BY <2>1, <1>5 DEF GrowsBy, Newest
  <2>2. CASE Running(f)
    <3>1. IsParser(f)
      BY <1>3 DEF Well
    <3>2. Running(m)
      BY <2>2, <3>1 DEF Make, Running, IsParser, Fields
    <3> QED
      BY <3>2, <1>5 DEF GrowsBy, Newest
  <2> QED
    BY <2>2
<1>7. Adds(f, q, 1, 0, 0)
  <2> DEFINE d == p.labels + 1
  <2> DEFINE n == Newest(m)
  <2>1. Running(f) => d \in {Unset} \cup 1 .. f.labels
    BY <1>4
  <2>2. Running(f) => n = Len(f.code) + 1
    BY <1>6
  <2>3. m = Make(f, "label", d)
    OBVIOUS
  <2> HIDE DEF d, n
  <2>4. Adds(f, Append1(Make(f, "label", d), n), 1, 0, 0)
    BY ONLY <2>1, <2>2, <1>3, <1>4, NewAppended
  <2> QED
    BY <2>4 DEF d, n
<1>8. m.labels = f.labels
  <2>1. DOMAIN f = Fields
    BY <1>3 DEF Well, IsParser
  <2> QED
    BY <2>1 DEF Make, Fields
<1> HIDE DEF m
<1>9. Extends(p, f) /\ Extends(f, q)
  BY <1>2, <1>7 DEF Adds, Extends
<1> HIDE DEF q
<1>10. Extends(p, q)
  BY <1>9, ExtendsKeeps
<1>11. BlockAt(q, block)
  BY <1>10, ExtendsKeeps
<1>12. ListAt(q, block.next)
  BY <1>11 DEF BlockAt, ListAt
<1>13. LabelAt(q, m.labels)
  <2>1. Running(q) => Running(f) /\ q.labels = f.labels + 0 /\ f.labels \in Nat
    BY <1>7, AddsLength
  <2> QED
    BY <2>1, <1>3, <1>8 DEF LabelAt
<1>14. Extends(p, r)
  BY <1>10, <1>12, <1>13, CodeExtends
<1> HIDE DEF r
<1>15. Extends(p, PushBack(r))
  BY <1>14, TokensExtend
<1>16. BlockAt(PushBack(r), block)
  BY <1>15, ExtendsKeeps
<1> QED
  BY <1>1, <1>15, <1>16

(* The head of a block.                                                    *)
LEMMA OpenBlockExtends ==
    ASSUME NEW p, Well(p), NEW under, OpenBlock(p, under)
    PROVE  \E block : /\ Extends(p, parser') /\ BlockAt(parser', block)
                      /\ calls' = Append(under, [kind |-> "block", ret |-> block])
                      /\ mode' = "declarations"
<1> DEFINE e == EnterEnv(p)
<1> DEFINE a == Emit(e, "pad")
<1> DEFINE q == EmitListed(a, "pad")
<1>0. "pad" \in Ops
  BY DEF Ops
<1>1. Adds(p, e, 0, 0, 0)
  BY TokensAdd
<1> HIDE DEF e
<1>2. Adds(p, a, 0 + 1, 0, 0)
  BY <1>0, <1>1, CodeAdds
<1> HIDE DEF a
<1>3. Adds(p, q, (0 + 1) + 1, 0, 0 + 1)
  BY <1>0, <1>2, CodeAdds
<1> DEFINE block == [EmptyBlock EXCEPT !.next = NewestList(q)]
<1>4. parser' = NextToken(q) /\ calls' = Append(under, [kind |-> "block", ret |-> block]) /\ mode' = "declarations"
  BY DEF OpenBlock, Leaves, e, a
<1> HIDE DEF q
<1>5. Running(q) => Len(q.lists) = Len(p.lists) + (0 + 1) /\ Len(p.lists) \in Nat
  BY <1>3, AddsLength
<1>6. ListAt(q, NewestList(q)) /\ BlockAt(q, EmptyBlock)
  BY <1>5, PlainTrees DEF ListAt, IsListOf, NewestList
<1>7. BlockAt(q, block)
  BY <1>6, BlockChanged
<1> HIDE DEF block
<1>8. Extends(p, q)
  BY <1>3 DEF Adds, Extends
<1>9. Extends(p, NextToken(q)) /\ Extends(q, NextToken(q))
  <2>1. Extends(q, q)
    BY <1>8, ExtendsKeeps, GoodChain DEF Extends
  <2> QED
    BY <2>1, <1>8, TokensExtend
<1>10. BlockAt(NextToken(q), block)
  BY <1>7, <1>9, ExtendsKeeps
<1> QED
  BY <1>4, <1>9, <1>10

-----------------------------------------------------------------------------
(* What the waiting functions hold is there; the jump over an else part,   *)
(* which is made before that part is read and linked in after it, has no   *)
(* link yet, and no two of them wait for the same one.                     *)
Bearing == {"right", "assign", "index", "argument", "listed", "block", "if", "else", "while condition", "while",
            "for condition", "for step", "for body"}
Held(p, f) ==
    /\ f.kind \in {"right", "assign"} => TreeAt(p, f.left)
    /\ f.kind = "index" => TreeAt(p, f.array)
    /\ f.kind = "argument" => TreeAt(p, f.function)
    /\ f.kind = "listed" => TreeAt(p, f.tree)
    /\ f.kind \in {"block", "if", "else"} => "ret" \in DOMAIN f /\ BlockAt(p, f.ret)
    /\ f.kind = "if" => {"kind", "cond", "at", "label"} \subseteq DOMAIN f
    /\ f.kind \in {"if", "else", "while", "for step", "for body"} => CondAt(p, f.cond)
    /\ f.kind \in {"if", "else"} => LabelAt(p, f.label) /\ PlaceAt(p, f.at)
    /\ f.kind = "else" => InstructionAt(p, f.before) /\ InstructionAt(p, f.skip)
    /\ f.kind = "else" /\ ~HasFor /\ Running(p) => p.code[f.skip].pre = Null
    /\ f.kind \in {"while condition", "while", "for condition", "for step", "for body"} => LabelAt(p, f.head)
    /\ f.kind \in {"while", "for step", "for body"} => LabelAt(p, f.body)
    /\ f.kind \in {"for condition", "for step", "for body"} => ListAt(p, f.starts)
    /\ f.kind \in {"for step", "for body"} => ListAt(p, f.next) /\ ListAt(p, f.enters) /\ PlaceAt(p, f.at)
    /\ f.kind = "for body" => PlaceAt(p, f.step)
Apart(s) ==
    \A d, e \in 1 .. Len(s) : d # e /\ s[d].kind = "else" /\ s[e].kind = "else" => s[d].skip # s[e].skip
HeldStack(p, s) == IsStack(s) /\ (\A f \in Frames(s) : Held(p, f)) /\ (Running(p) => Apart(s))

(* It stays there, unless the jump gets its link.                          *)
LEMMA HeldStill ==
    ASSUME NEW b, NEW p, NEW x, Well(b), GoodBut(b, p, x), NEW f, Held(b, f),
           Running(p) /\ f.kind = "else" => f.skip # x
    PROVE  Held(p, f)
<1>1. /\ \A l : ListAt(b, l) => ListAt(p, l)
      /\ \A l : LabelAt(b, l) => LabelAt(p, l)
      /\ \A i : InstructionAt(b, i) => InstructionAt(p, i)
      /\ \A i : PlaceAt(b, i) => PlaceAt(p, i)
      /\ \A t : TreeAt(b, t) => TreeAt(p, t)
      /\ \A t : BlockAt(b, t) => BlockAt(p, t)
      /\ \A c : CondAt(b, c) => CondAt(p, c)
  BY ThereStill
<1>2. f.kind = "else" /\ ~HasFor /\ Running(p) => p.code[f.skip].pre = Null
  <2> SUFFICES ASSUME f.kind = "else", ~HasFor, Running(p) PROVE p.code[f.skip].pre = Null
    OBVIOUS
  <2>1. Running(b) /\ \A i \in 1 .. Len(b.code) : i # x /\ b.code[i].pre = Null => p.code[i].pre = Null
    BY DEF GoodBut
  <2>2. f.skip \in 1 .. Len(b.code) /\ b.code[f.skip].pre = Null /\ f.skip # x
    BY <2>1 DEF Held, InstructionAt
  <2> QED
    BY <2>1, <2>2
<1> QED
  BY ONLY <1>1, <1>2, Held(b, f), ZenonT(60) DEF Held

(* The other frames hold nothing.                                          *)
LEMMA PlainHeld ==
    ASSUME NEW p, NEW f
    PROVE  /\ f.kind \notin Bearing => Held(p, f) /\ f.kind # "else"
           /\ f \in ExpressionSet => Held(p, f) /\ f.kind # "else"
<1>1. f.kind \notin Bearing => Held(p, f) /\ f.kind # "else"
  BY DEF Held, Bearing
<1>2. f \in ExpressionSet => f.kind \in {"conditional", "binary", "assignment", "expressions"}
  BY DEF ExpressionSet, BinaryFrame
<1>3. f \in ExpressionSet => f.kind \notin Bearing
  BY <1>2 DEF Bearing
<1> QED
  BY <1>1, <1>3

(* Under what extends the parser a stack stays held.                       *)
LEMMA StackStill ==
    ASSUME NEW b, NEW p, Extends(b, p), NEW s, HeldStack(b, s)
    PROVE  HeldStack(p, s)
<1>1. Well(b) /\ GoodBut(b, p, Null) /\ (Running(p) => Running(b))
  BY ExtendsKeeps DEF Extends, Good
<1>2. ASSUME NEW f \in Frames(s) PROVE Held(p, f)
  <2>1. Held(b, f)
    BY DEF HeldStack
  <2>2. Running(p) /\ f.kind = "else" => f.skip # Null
    BY <1>1, <2>1 DEF Held, InstructionAt, Null
  <2> QED
    BY <1>1, <2>1, <2>2, HeldStill
<1> QED
  BY <1>1, <1>2 DEF HeldStack

(* A call that holds what is there.                                        *)
LEMMA HeldPushed ==
    ASSUME NEW p, NEW s, HeldStack(p, s), NEW f, Held(p, f),
           Running(p) /\ f.kind = "else" => \A g \in Frames(s) : g.kind = "else" => g.skip # f.skip
    PROVE  HeldStack(p, Append(s, f)) /\ IsStack(Append(s, f)) /\ s \o <<f>> = Append(s, f)
<1> DEFINE t == Append(s, f)
<1>1. IsStack(s) /\ IsStack(t) /\ Frames(t) = Frames(s) \cup {f} /\ s \o <<f>> = t
  BY FramesAppended, Pushed DEF HeldStack
<1>2. Len(s) \in Nat /\ Len(t) = Len(s) + 1 /\ (\A d \in 1 .. Len(s) : t[d] = s[d]) /\ t[Len(s) + 1] = f
  <2>1. Len(s) \in Nat /\ Len(t) = Len(s) + 1 /\ Last(t) = f /\ \A d \in 1 .. Len(s) : t[d] = s[d]
    BY <1>1, Pushed
  <2> QED
    BY <2>1 DEF Last
<1> HIDE DEF t
<1>3. \A g \in Frames(t) : Held(p, g)
  BY <1>1 DEF HeldStack
<1>4. ASSUME Running(p) PROVE Apart(t)
  <2> SUFFICES ASSUME NEW d \in 1 .. Len(t), NEW e \in 1 .. Len(t), d # e, t[d].kind = "else", t[e].kind = "else"
               PROVE  t[d].skip # t[e].skip
    BY DEF Apart
  <2>1. (d \in 1 .. Len(s) \/ d = Len(s) + 1) /\ (e \in 1 .. Len(s) \/ e = Len(s) + 1)
    BY <1>2
  <2>2. \A c \in 1 .. Len(s) : s[c] \in Frames(s)
    BY DEF Frames
  <2>3. CASE d \in 1 .. Len(s) /\ e \in 1 .. Len(s)
    BY <1>2, <1>4, <2>3 DEF HeldStack, Apart
  <2>4. CASE d \in 1 .. Len(s) /\ e = Len(s) + 1
    BY <1>2, <1>4, <2>2, <2>4
  <2>5. CASE d = Len(s) + 1 /\ e \in 1 .. Len(s)
    BY <1>2, <1>4, <2>2, <2>5
  <2>6. CASE d = Len(s) + 1 /\ e = Len(s) + 1
    BY <2>6
  <2> QED
    BY <2>1, <2>3, <2>4, <2>5, <2>6
<1>5. HeldStack(p, t)
  BY <1>1, <1>3, <1>4 DEF HeldStack
<1> QED
  BY <1>1, <1>5 DEF t

(* A return leaves what the others hold.                                   *)
LEMMA HeldPopped ==
    ASSUME NEW p, NEW s, HeldStack(p, s), s # <<>>
    PROVE  HeldStack(p, SubSeq(s, 1, Len(s) - 1)) /\ Held(p, s[Len(s)])
<1> DEFINE t == SubSeq(s, 1, Len(s) - 1)
<1>1. IsStack(t) /\ Frames(t) \subseteq Frames(s) /\ s[Len(s)] \in Frames(s)
  BY FramesDropped DEF HeldStack
<1>2. Len(s) \in Nat \ {0} /\ Len(t) = Len(s) - 1 /\ \A d \in 1 .. Len(t) : t[d] = s[d]
  BY Dropped DEF HeldStack
<1> HIDE DEF t
<1>3. \A d \in 1 .. Len(t) : d \in 1 .. Len(s)
  BY <1>2
<1>4. Apart(s) => Apart(t)
  BY <1>2, <1>3 DEF Apart
<1>5. HeldStack(p, t) /\ Held(p, s[Len(s)])
  BY <1>1, <1>4 DEF HeldStack
<1> QED
  BY <1>5 DEF t

(* A call of an expression.                                                *)
LEMMA HeldExpression ==
    ASSUME NEW p, NEW s, HeldStack(p, s)
    PROVE  HeldStack(p, s \o Conditional) /\ HeldStack(p, s \o Assignment) /\ HeldStack(p, s \o Expressions)
<1>1. ASSUME NEW t, HeldStack(p, t), NEW f \in ExpressionSet PROVE HeldStack(p, Append(t, f)) /\ IsStack(Append(t, f))
  BY <1>1, PlainHeld, HeldPushed
<1>2. /\ [kind |-> "conditional"] \in ExpressionSet /\ BinaryFrame(4) \in ExpressionSet
      /\ [kind |-> "assignment"] \in ExpressionSet /\ [kind |-> "expressions"] \in ExpressionSet
  BY DEF ExpressionSet
<1>3. ASSUME NEW t, HeldStack(p, t) PROVE HeldStack(p, t \o Conditional)
  <2>1. HeldStack(p, Append(Append(t, [kind |-> "conditional"]), BinaryFrame(4)))
    BY <1>1, <1>2, <1>3
  <2> QED
    BY <1>3, <2>1, ExpressionPushed DEF HeldStack
<1>4. ASSUME NEW t, HeldStack(p, t) PROVE HeldStack(p, t \o Assignment)
  <2>1. HeldStack(p, Append(t, [kind |-> "assignment"]) \o Conditional)
    BY <1>1, <1>2, <1>3, <1>4
  <2> QED
    BY <1>4, <2>1, ExpressionPushed DEF HeldStack
<1>5. HeldStack(p, s \o Expressions)
  <2>1. HeldStack(p, Append(s, [kind |-> "expressions"]) \o Assignment)
    BY <1>1, <1>2, <1>4
  <2> QED
    BY <2>1, ExpressionPushed DEF HeldStack
<1> QED
  BY <1>3, <1>4, <1>5

(* The stacks that the steps leave.                                        *)
LEMMA StacksHeld ==
    ASSUME NEW b, NEW p, Extends(b, p), NEW s, HeldStack(b, s)
    PROVE  /\ HeldStack(p, s)
           /\ \A f : f.kind # "else" /\ Held(p, f) =>
                 /\ HeldStack(p, Append(s, f))
                 /\ HeldStack(p, (s \o <<f>>) \o Conditional) /\ HeldStack(p, (s \o <<f>>) \o Assignment)
                 /\ HeldStack(p, (s \o <<f>>) \o Expressions) /\ HeldStack(p, Append(s, f) \o Expressions)
                 /\ \A g : g.kind # "else" /\ Held(p, g) =>
                       /\ HeldStack(p, Append(Append(s, f), g))
                       /\ \A h : h.kind # "else" /\ Held(p, h) => HeldStack(p, s \o <<f, g, h>>)
<1>1. HeldStack(p, s)
  BY StackStill
<1>2. ASSUME NEW t, HeldStack(p, t), NEW f, f.kind # "else", Held(p, f)
      PROVE  HeldStack(p, Append(t, f)) /\ IsStack(Append(t, f)) /\ t \o <<f>> = Append(t, f)
  BY <1>2, HeldPushed
<1>3. ASSUME NEW f, f.kind # "else", Held(p, f)
      PROVE  /\ HeldStack(p, Append(s, f))
             /\ HeldStack(p, (s \o <<f>>) \o Conditional) /\ HeldStack(p, (s \o <<f>>) \o Assignment)
             /\ HeldStack(p, (s \o <<f>>) \o Expressions) /\ HeldStack(p, Append(s, f) \o Expressions)
  <2>1. HeldStack(p, Append(s, f)) /\ s \o <<f>> = Append(s, f)
    BY <1>1, <1>2, <1>3
  <2> QED
    BY <2>1, HeldExpression
<1>4. ASSUME NEW f, f.kind # "else", Held(p, f), NEW g, g.kind # "else", Held(p, g)
      PROVE  HeldStack(p, Append(Append(s, f), g))
  BY <1>1, <1>2, <1>4
<1>5. ASSUME NEW f, f.kind # "else", Held(p, f), NEW g, g.kind # "else", Held(p, g), NEW h, h.kind # "else", Held(p, h)
      PROVE  HeldStack(p, s \o <<f, g, h>>)
  <2>1. HeldStack(p, Append(Append(Append(s, f), g), h))
    BY <1>2, <1>4, <1>5
  <2>2. s \o <<f, g, h>> = Append(Append(Append(s, f), g), h)
    BY <1>1 DEF HeldStack, IsStack
  <2> QED
    BY <2>1, <2>2
<1> QED
  BY <1>1, <1>3, <1>4, <1>5

-----------------------------------------------------------------------------
(* What holds of the parser p before the waiting functions s go on in mode *)
(* m with the value v: the instructions are well linked, what is held is   *)
(* there, and so is what is given to the function that waits for it.       *)
Right(p, s, m, v) ==
    /\ Well(p) /\ HeldStack(p, s)
    /\ m = "postfix" => TreeAt(p, v)
    /\ m = "back" /\ Waits(Last(s)) = "tree" => TreeAt(p, v)
    /\ m = "back" /\ Waits(Last(s)) = "block" => BlockAt(p, v)
Holding == Right(parser, calls, mode, value)
StillRight == Right(parser', calls', mode', value')

(* What a step has to leave.                                               *)
LEMMA RightAfter ==
    ASSUME NEW p, Well(p), NEW s, HeldStack(p, s), NEW v
    PROVE  /\ \A m : m \notin {"postfix", "back"} => Right(p, s, m, v)
           /\ TreeAt(p, v) => Right(p, s, "postfix", v)
           /\ Fits(s, "tree") /\ TreeAt(p, v) => Right(p, s, "back", v)
           /\ Fits(s, "block") /\ BlockAt(p, v) => Right(p, s, "back", v)
           /\ Fits(s, "type") \/ Fits(s, "declarator") => Right(p, s, "back", v)
  BY DEF Right, Fits, Ready

(* What a step finds.                                                      *)
LEMMA RightBefore ==
    ASSUME Safe, Holding
    PROVE  /\ Well(parser) /\ Extends(parser, parser) /\ IsParser(parser)
           /\ HeldStack(parser, calls) /\ IsStack(calls) /\ Stacked(calls)
           /\ mode # "unit" =>
                 /\ calls # <<>> /\ HeldStack(parser, Popped) /\ Held(parser, Top) /\ Sound(Top)
                 /\ "kind" \in DOMAIN Top
                 /\ Top.kind \in GivesTree => Fits(Popped, "tree")
                 /\ Top.kind \in StatementsOfTrees \cup StatementsOfBlocks => Fits(Popped, "block")
                 /\ Top.kind \in DeclaratorsOfTypes \cup {"brackets"} => Fits(Popped, "declarator")
                 /\ Top.kind = "parameters" => Fits(Popped, "type")
           /\ mode = "postfix" => TreeAt(parser, value)
           /\ mode = "back" /\ Top.kind \in TreeKinds => TreeAt(parser, value)
           /\ mode = "back" /\ Top.kind \in BlockKinds => BlockAt(parser, value)
           /\ mode \in {"operand", "postfix"} => Fits(calls, "tree")
           /\ mode \in {"qualifiers", "suffix"} => Fits(calls, "type")
           /\ mode \in {"pointer", "direct"} => Fits(calls, "declarator")
           /\ mode \in {"statement", "stmt_list"} => Fits(calls, "block")
<1>1. Well(parser) /\ HeldStack(parser, calls) /\ IsParser(parser)
  BY DEF Holding, Right, Well
<1>2. Extends(parser, parser)
  BY <1>1, GoodChain DEF Extends
<1>3. /\ Stacked(calls) /\ IsStack(calls)
      /\ mode \in {"operand", "postfix"} => Fits(calls, "tree")
      /\ mode \in {"qualifiers", "suffix"} => Fits(calls, "type")
      /\ mode \in {"pointer", "direct"} => Fits(calls, "declarator")
      /\ mode \in {"statement", "stmt_list"} => Fits(calls, "block")
      /\ mode # "unit" => calls # <<>>
  BY Entering DEF Safe
<1>4. calls # <<>> =>
         /\ "kind" \in DOMAIN Top
         /\ Top.kind \in GivesTree => Fits(Popped, "tree")
         /\ Top.kind \in StatementsOfTrees \cup StatementsOfBlocks => Fits(Popped, "block")
         /\ Top.kind \in DeclaratorsOfTypes \cup {"brackets"} => Fits(Popped, "declarator")
         /\ Top.kind = "parameters" => Fits(Popped, "type")
  BY <1>3, Leaving
<1>5. calls # <<>> => HeldStack(parser, Popped) /\ Held(parser, Top)
  BY <1>1, HeldPopped DEF Popped, Top
<1>6. calls # <<>> => Sound(Top)
  BY <1>3, FramesDropped DEF Safe, Framed, Top
<1>7. Top.kind \in TreeKinds => Waits(Top) = "tree"
  BY DEF Waits
<1>8. Top.kind \in BlockKinds => Waits(Top) = "block"
  BY DEF Waits, TreeKinds, BlockKinds
<1>9. Top = Last(calls)
  BY DEF Top, Last
<1>10. /\ mode = "postfix" => TreeAt(parser, value)
       /\ mode = "back" /\ Top.kind \in TreeKinds => TreeAt(parser, value)
       /\ mode = "back" /\ Top.kind \in BlockKinds => BlockAt(parser, value)
  BY <1>7, <1>8, <1>9 DEF Holding, Right
<1> QED
  BY <1>1, <1>2, <1>3, <1>4, <1>5, <1>6, <1>10

(* Frames that hold what is there.                                         *)
LEMMA FramesHeld ==
    ASSUME NEW p
    PROVE  /\ \A t : TreeAt(p, t) =>
                 /\ Held(p, [kind |-> "assign", left |-> t])
                 /\ \A op : Held(p, [kind |-> "right", op |-> op, left |-> t])
                 /\ Held(p, [kind |-> "index", array |-> t])
                 /\ \A list : Held(p, [kind |-> "argument", function |-> t, list |-> list])
                 /\ Held(p, [kind |-> "listed", tree |-> t])
           /\ \A block : BlockAt(p, block) => Held(p, [kind |-> "block", ret |-> block])
<1>1. \A t : TreeAt(p, t) => Held(p, [kind |-> "assign", left |-> t])
  BY DEF Held
<1>2. \A t, op : TreeAt(p, t) => Held(p, [kind |-> "right", op |-> op, left |-> t])
  BY DEF Held
<1>3. \A t : TreeAt(p, t) => Held(p, [kind |-> "index", array |-> t])
  BY DEF Held
<1>4. \A t, list : TreeAt(p, t) => Held(p, [kind |-> "argument", function |-> t, list |-> list])
  BY DEF Held
<1>5. \A t : TreeAt(p, t) => Held(p, [kind |-> "listed", tree |-> t])
  BY DEF Held
<1>6. \A block : BlockAt(p, block) => Held(p, [kind |-> "block", ret |-> block])
  BY DEF Held
<1> QED
  BY <1>1, <1>2, <1>3, <1>4, <1>5, <1>6

(* A step that goes on in another mode.                                    *)
LEMMA RightOnward ==
    ASSUME Extends(parser, parser'), mode' \notin {"postfix", "back"}, HeldStack(parser', calls')
    PROVE  StillRight
  BY ExtendsKeeps, RightAfter DEF StillRight

(* A step that returns or goes on with a tree.                             *)
LEMMA RightTree ==
    ASSUME Extends(parser, parser'), HeldStack(parser, calls'), TreeAt(parser', value'),
           mode' = "postfix" \/ (mode' = "back" /\ Fits(calls', "tree"))
    PROVE  StillRight
  BY ExtendsKeeps, StackStill, RightAfter DEF StillRight

(* A step that returns a block.                                            *)
LEMMA RightBlock ==
    ASSUME Extends(parser, parser'), HeldStack(parser, calls'), BlockAt(parser', value'),
           mode' = "back" /\ Fits(calls', "block")
    PROVE  StillRight
  BY ExtendsKeeps, StackStill, RightAfter DEF StillRight

(* A step that returns a type or a declarator.                             *)
LEMMA RightPlain ==
    ASSUME Extends(parser, parser'), HeldStack(parser, calls'),
           mode' = "back" /\ (Fits(calls', "type") \/ Fits(calls', "declarator"))
    PROVE  StillRight
  BY ExtendsKeeps, StackStill, RightAfter DEF StillRight

(* What an expression reads is still well made: its steps that go on with  *)
(* an operand.                                                             *)
LEMMA OperandRight ==
    ASSUME Safe, Holding, Bracket \/ UnaryOperator \/ Index \/ Operator \/ Assign \/ Comma
    PROVE  StillRight
<1>1. /\ Extends(parser, parser) /\ HeldStack(parser, calls) /\ IsStack(calls)
      /\ mode # "unit" => HeldStack(parser, Popped) /\ Held(parser, Top)
      /\ mode = "postfix" => TreeAt(parser, value)
      /\ mode = "back" /\ Top.kind \in TreeKinds => TreeAt(parser, value)
  BY RightBefore
<1>2. Extends(parser, NextToken(parser))
  BY <1>1, TokensExtend
<1> DEFINE q == NextToken(parser)
<1>3. TreeAt(parser, value) => TreeAt(q, value)
  BY <1>2, ExtendsKeeps
<1>4. ASSUME NEW s, HeldStack(parser, s), NEW f, f.kind # "else", Held(q, f)
      PROVE  /\ HeldStack(q, Append(s, f))
             /\ HeldStack(q, (s \o <<f>>) \o Assignment) /\ HeldStack(q, (s \o <<f>>) \o Expressions)
             /\ \A g : g.kind # "else" /\ Held(q, g) =>
                  \A h : h.kind # "else" /\ Held(q, h) => HeldStack(q, s \o <<f, g, h>>)
  BY <1>2, <1>4, StacksHeld
<1>5. CASE Bracket
  <2>1. parser' = q /\ mode' = "operand" /\ calls' = (calls \o <<[kind |-> "bracket"]>>) \o Expressions
    BY <1>5 DEF Bracket, Reads, Leaves
  <2>2. Held(q, [kind |-> "bracket"])
    BY PlainHeld DEF Bearing
  <2> HIDE DEF q
  <2>3. HeldStack(q, (calls \o <<[kind |-> "bracket"]>>) \o Expressions)
    BY <1>1, <1>4, <2>2
  <2> QED
    BY <1>2, <2>1, <2>3, RightOnward DEF q
<1>6. CASE UnaryOperator
  <2> DEFINE f == [kind |-> "unary", op |-> Cur(parser)]
  <2>1. parser' = q /\ mode' = "operand" /\ calls' = Append(calls, f)
    BY <1>6 DEF UnaryOperator, Reads, Leaves
  <2>2. Held(q, f) /\ f.kind # "else"
    BY PlainHeld DEF Bearing
  <2> HIDE DEF q, f
  <2>3. HeldStack(q, Append(calls, f))
    BY <1>1, <1>4, <2>2
  <2> QED
    BY <1>2, <2>1, <2>3, RightOnward DEF q
<1>7. CASE Index
  <2> DEFINE f == [kind |-> "index", array |-> value]
  <2>1. parser' = q /\ mode' = "operand" /\ calls' = (calls \o <<f>>) \o Assignment /\ mode = "postfix"
    BY <1>7 DEF Index, Reads, Leaves, At
  <2>2. Held(q, f) /\ f.kind # "else"
    BY <1>1, <1>3, <2>1, FramesHeld
  <2> HIDE DEF q, f
  <2>3. HeldStack(q, (calls \o <<f>>) \o Assignment)
    BY <1>1, <1>4, <2>2
  <2> QED
    BY <1>2, <2>1, <2>3, RightOnward DEF q
<1>8. CASE Operator
  <2> DEFINE f == [Top EXCEPT !.most = Level(parser)]
             g == [kind |-> "right", op |-> Cur(parser), left |-> value]
             h == BinaryFrame(RightLevel(parser))
  <2>1. /\ parser' = q /\ mode' = "operand" /\ calls' = Popped \o <<f, g, h>>
        /\ mode = "back" /\ Top.kind = "binary"
    BY <1>8 DEF Operator, Reads, Leaves, Resumes, At
  <2>2. TreeAt(q, value)
    BY <1>1, <1>3, <2>1 DEF TreeKinds
  <2>3. Held(q, g) /\ g.kind # "else"
    BY <2>2, FramesHeld
  <2>4. Held(q, h) /\ h.kind # "else"
    <3>1. h.kind = "binary"
      BY DEF BinaryFrame
    <3> HIDE DEF h
    <3> QED
      BY <3>1, PlainHeld DEF Bearing
  <2>5. Held(q, f) /\ f.kind # "else"
    <3>1. "kind" \in DOMAIN Top
      BY <2>1, RightBefore
    <3>2. f.kind = "binary"
      BY <2>1, <3>1, Zenon
    <3> HIDE DEF f
    <3> QED
      BY <3>2, PlainHeld DEF Bearing
  <2> HIDE DEF q, f, g, h
  <2>6. HeldStack(q, Popped \o <<f, g, h>>)
    BY <1>1, <1>4, <2>1, <2>3, <2>4, <2>5
  <2> QED
    BY <1>2, <2>1, <2>6, RightOnward DEF q
<1>9. CASE Assign
  <2> DEFINE f == [kind |-> "assign", left |-> value]
  <2>1. /\ parser' = q /\ mode' = "operand" /\ calls' = (Popped \o <<f>>) \o Assignment
        /\ mode = "back" /\ Top.kind = "assignment"
    BY <1>9 DEF Assign, Reads, Leaves, Resumes, At
  <2>2. TreeAt(q, value)
    BY <1>1, <1>3, <2>1 DEF TreeKinds
  <2>3. Held(q, f) /\ f.kind # "else"
    BY <2>2, FramesHeld
  <2> HIDE DEF q, f
  <2>4. HeldStack(q, (Popped \o <<f>>) \o Assignment)
    BY <1>1, <1>4, <2>1, <2>3
  <2> QED
    BY <1>2, <2>1, <2>4, RightOnward DEF q
<1>10. CASE Comma
  <2> DEFINE f == [kind |-> "listed", tree |-> FirstTree]
  <2>1. /\ parser' = q /\ mode' = "operand" /\ calls' = (Popped \o <<f>>) \o Assignment
        /\ mode = "back" /\ Top.kind \in {"listed", "expressions"}
    BY <1>10 DEF Comma, Reads, Leaves, Listing, Resumes, At
  <2>2. TreeAt(parser, FirstTree)
    BY <1>1, <2>1 DEF FirstTree, TreeKinds, Held
  <2>3. TreeAt(q, FirstTree)
    BY <1>2, <2>2, ExtendsKeeps
  <2>4. Held(q, f) /\ f.kind # "else"
    BY <2>3, FramesHeld
  <2> HIDE DEF q, f
  <2>5. HeldStack(q, (Popped \o <<f>>) \o Assignment)
    BY <1>1, <1>4, <2>1, <2>4
  <2> QED
    BY <1>2, <2>1, <2>5, RightOnward DEF q
<1> QED
  BY <1>5, <1>6, <1>7, <1>8, <1>9, <1>10

(* The tree an operand or an operator gives is still there.                *)
LEMMA OperatorRight ==
    ASSUME Safe, Holding,
           \/ PrimaryOperand \/ EndBracket \/ EndUnary \/ NoOperand \/ Increment \/ EndIndex \/ EndPostfix
           \/ EndRight \/ EndBinary \/ EndConditional \/ EndAssign \/ EndAssignment \/ EndExpressions
    PROVE  StillRight
<1>1. /\ Well(parser) /\ Extends(parser, parser) /\ HeldStack(parser, calls)
      /\ mode # "unit" =>
            /\ HeldStack(parser, Popped) /\ Held(parser, Top) /\ Sound(Top)
            /\ Top.kind \in GivesTree => Fits(Popped, "tree")
      /\ mode = "postfix" => TreeAt(parser, value)
      /\ mode = "back" /\ Top.kind \in TreeKinds => TreeAt(parser, value)
      /\ mode \in {"operand", "postfix"} => Fits(calls, "tree")
  BY RightBefore
<1>2. "assert" \in Reasons /\ "undefined" \in Reasons /\ "pad" \in Ops
  BY DEF Reasons, Ops
<1>3. CASE PrimaryOperand
  <2>1. PICK r \in {Primary(parser)} : parser' = r.p /\ calls' = calls /\ mode' = "postfix" /\ value' = r.t
    BY <1>3 DEF PrimaryOperand, Leaves
  <2>2. Extends(parser, NextToken(parser)) /\ Extends(parser, NextToken(Misreport(parser)))
    <3>1. Extends(parser, Misreport(parser))
      BY <1>1, TokensExtend
    <3> QED
      BY <1>1, <3>1, TokensExtend
  <2>3. r.p \in {NextToken(parser), NextToken(Misreport(parser))}
    BY <2>1 DEF Primary, Identifier
  <2>4. \/ r.t = NoTree \/ r.t = CONSTtree(Cur(parser))
        \/ \E ty : r.t = Leaf("id", Cur(parser), ty)
    BY <2>1 DEF Primary, Identifier, IDtree
  <2>5. TreeAt(parser', r.t)
    BY <2>4, PlainTrees
  <2> QED
    BY <1>1, <2>1, <2>2, <2>3, <2>5, RightTree
<1>4. CASE EndBracket
  <2> DEFINE n == Needed(parser, value)
  <2>1. PICK c : c \in {n, Stop(n, "assert")} /\ parser' = NextToken(Need(PushBack(c), ")"))
    BY <1>4 DEF EndBracket, Leaves
  <2>2. /\ calls' = Popped /\ mode' = "postfix" /\ value' = value
        /\ mode = "back" /\ Top.kind = "bracket"
    BY <1>4 DEF EndBracket, Leaves, Resumes, At
  <2>3. Extends(parser, n)
    BY <1>1, CodeExtends
  <2> HIDE DEF n
  <2>4. Extends(parser, c)
    BY <1>2, <2>1, <2>3, CodeExtends
  <2>5. Extends(parser, PushBack(c))
    BY <2>4, TokensExtend
  <2>6. Extends(parser, Need(PushBack(c), ")"))
    BY <2>5, TokensExtend
  <2>7. Extends(parser, parser')
    BY <2>1, <2>6, TokensExtend
  <2>8. TreeAt(parser', value)
    BY <1>1, <2>2, <2>7, ExtendsKeeps DEF TreeKinds
  <2> QED
    BY <1>1, <2>2, <2>7, <2>8, RightTree
<1>5. CASE EndUnary
  <2>1. PICK r \in {Applied(Top.op, [p |-> parser, t |-> value])} :
            parser' = r.p /\ calls' = Popped /\ mode' = "back" /\ value' = r.t
    BY <1>5 DEF EndUnary, Returns, Leaves
  <2>2. mode = "back" /\ Top.kind = "unary"
    BY <1>5 DEF EndUnary, Resumes, At
  <2>3. TreeAt(parser, value) /\ Top.op \in UnaryOperators /\ Fits(Popped, "tree") /\ HeldStack(parser, Popped)
    BY <1>1, <2>2 DEF TreeKinds, GivesTree, Sound
  <2>4. Extends(parser, r.p) /\ TreeAt(r.p, r.t)
    BY <1>1, <2>1, <2>3, TreeExtends
  <2> QED
    BY <2>1, <2>3, <2>4, RightTree
<1>6. CASE NoOperand
  <2>1. /\ parser' \in {parser, Sized(NextToken(parser))}
        /\ calls' = calls /\ mode' = "back" /\ value' = NoTree /\ mode = "operand"
    BY <1>6 DEF NoOperand, Gives, Leaves, At
  <2>2. Extends(parser, Sized(NextToken(parser)))
    BY <1>1, TokensExtend, ClosingExtends
  <2> QED
    BY <1>1, <2>1, <2>2, PlainTrees, RightTree
<1>7. CASE Increment
  <2>1. parser' = NextToken(parser) /\ calls' = calls /\ mode' = "postfix" /\ value' = value /\ mode = "postfix"
    BY <1>7 DEF Increment, Stays, Leaves, At
  <2>2. Extends(parser, parser')
    BY <1>1, <2>1, TokensExtend
  <2>3. TreeAt(parser', value)
    BY <1>1, <2>1, <2>2, ExtendsKeeps
  <2> QED
    BY <1>1, <2>1, <2>2, <2>3, RightTree
<1>8. CASE EndIndex
  <2>1. PICK r \in {ARRAYtree(Top.array, [p |-> parser, t |-> value])} :
            /\ parser' = NextToken(Need(PushBack(r.p), "]"))
            /\ calls' = Popped /\ mode' = "postfix" /\ value' = r.t
    BY <1>8 DEF EndIndex, Leaves
  <2>2. mode = "back" /\ Top.kind = "index"
    BY <1>8 DEF EndIndex, Resumes, At
  <2>3. TreeAt(parser, value) /\ HeldStack(parser, Popped)
    BY <1>1, <2>2 DEF TreeKinds
  <2>4. Extends(parser, r.p) /\ TreeAt(r.p, r.t)
    BY <1>1, <2>1, <2>3, TreeExtends
  <2>5. Extends(r.p, r.p)
    BY <2>4, ExtendsKeeps, GoodChain DEF Extends
  <2>6. Extends(r.p, PushBack(r.p))
    BY <2>5, TokensExtend
  <2>7. Extends(r.p, Need(PushBack(r.p), "]"))
    BY <2>6, TokensExtend
  <2>8. Extends(r.p, parser')
    BY <2>1, <2>7, TokensExtend
  <2>9. Extends(parser, parser') /\ TreeAt(parser', r.t)
    BY <2>4, <2>8, ExtendsKeeps
  <2> QED
    BY <2>1, <2>3, <2>9, RightTree
<1>9. CASE EndPostfix
  <2>1. parser' = parser /\ calls' = calls /\ mode' = "back" /\ value' = value /\ mode = "postfix"
    BY <1>9 DEF EndPostfix, Gives, Leaves, At
  <2> QED
    BY <1>1, <2>1, RightTree
<1>10. CASE EndRight
  <2>1. PICK r \in {Combine(Top.op, Top.left, [p |-> parser, t |-> value])} :
            parser' = r.p /\ calls' = Popped /\ mode' = "back" /\ value' = r.t
    BY <1>10 DEF EndRight, Returns, Leaves
  <2>2. mode = "back" /\ Top.kind = "right"
    BY <1>10 DEF EndRight, Resumes, At
  <2>3. /\ TreeAt(parser, value) /\ Top.op \in BinaryOperators /\ TreeAt(parser, Top.left)
        /\ Fits(Popped, "tree") /\ HeldStack(parser, Popped)
    BY <1>1, <2>2 DEF TreeKinds, GivesTree, Sound, Held
  <2>4. Extends(parser, r.p) /\ TreeAt(r.p, r.t)
    BY <1>1, <2>1, <2>3, TreeExtends
  <2> QED
    BY <2>1, <2>3, <2>4, RightTree
<1>11. CASE EndBinary
  <2>1. /\ parser' = parser /\ calls' = Popped /\ mode' = "back" /\ value' = value
        /\ mode = "back" /\ Top.kind = "binary"
    BY <1>11 DEF EndBinary, Returns, Leaves, Resumes, At
  <2> QED
    BY <1>1, <2>1, RightTree DEF TreeKinds, GivesTree
<1>12. CASE EndConditional
  <2>1. /\ parser' \in {parser, Stop(parser, "undefined")}
        /\ calls' = Popped /\ mode' = "back" /\ value' = value
        /\ mode = "back" /\ Top.kind = "conditional"
    BY <1>12 DEF EndConditional, Returns, Leaves, Resumes, At
  <2>2. Extends(parser, parser')
    BY <1>1, <1>2, <2>1, CodeExtends
  <2>3. TreeAt(parser', value)
    BY <1>1, <2>1, <2>2, ExtendsKeeps DEF TreeKinds
  <2> QED
    BY <1>1, <2>1, <2>2, <2>3, RightTree DEF GivesTree
<1>13. CASE EndAssign
  <2>1. PICK r \in {ASGNtree([p |-> parser, t |-> value], Top.left)} :
            parser' = r.p /\ calls' = Popped /\ mode' = "back" /\ value' = r.t
    BY <1>13 DEF EndAssign, Returns, Leaves
  <2>2. mode = "back" /\ Top.kind = "assign"
    BY <1>13 DEF EndAssign, Resumes, At
  <2>3. /\ TreeAt(parser, value) /\ TreeAt(parser, Top.left)
        /\ Fits(Popped, "tree") /\ HeldStack(parser, Popped)
    BY <1>1, <2>2 DEF TreeKinds, GivesTree, Held
  <2>4. Extends(parser, r.p) /\ TreeAt(r.p, r.t)
    BY <1>1, <2>1, <2>3, TreeExtends
  <2> QED
    BY <2>1, <2>3, <2>4, RightTree
<1>14. CASE EndAssignment
  <2>1. /\ parser' = parser /\ calls' = Popped /\ mode' = "back" /\ value' = value
        /\ mode = "back" /\ Top.kind = "assignment"
    BY <1>14 DEF EndAssignment, Returns, Leaves, Resumes, At
  <2> QED
    BY <1>1, <2>1, RightTree DEF TreeKinds, GivesTree
<1>15. CASE EndExpressions
  <2>1. /\ parser' = EmitListed(parser, "pad") /\ calls' = Popped /\ mode' = "back" /\ value' = FirstTree
        /\ mode = "back" /\ Top.kind \in {"expressions", "listed"}
    BY <1>15 DEF EndExpressions, Returns, Leaves, Listing, Resumes, At
  <2>2. Extends(parser, parser')
    BY <1>1, <1>2, <2>1, CodeExtends
  <2>3. TreeAt(parser, FirstTree)
    BY <1>1, <2>1 DEF FirstTree, TreeKinds, Held
  <2>4. TreeAt(parser', FirstTree)
    BY <2>2, <2>3, ExtendsKeeps
  <2> QED
    BY <1>1, <2>1, <2>2, <2>4, RightTree DEF GivesTree
<1> QED
  BY <1>3, <1>4, <1>5, <1>6, <1>7, <1>8, <1>9, <1>10, <1>11, <1>12, <1>13, <1>14, <1>15

(* An argument is passed, or the function called.                          *)
LEMMA PassRight ==
    ASSUME NEW p, Extends(parser, p), NEW s, HeldStack(parser, s), Fits(s, "tree"),
           NEW function, TreeAt(parser, function), NEW list, Pass(p, s, function, list)
    PROVE  StillRight
<1>1. CASE list = <<>>
  <2>1. parser' = Emit(p, "call") /\ calls' = s /\ mode' = "back" /\ value' = function
    BY <1>1 DEF Pass, Leaves
  <2>2. "call" \in Ops
    BY DEF Ops
  <2>3. Extends(parser, parser')
    BY <2>1, <2>2, CodeExtends
  <2>4. TreeAt(parser', function)
    BY <2>3, ExtendsKeeps
  <2> QED
    BY <2>1, <2>3, <2>4, RightTree
<1>2. CASE list # <<>>
  <2> DEFINE f == [kind |-> "argument", function |-> function, list |-> list]
  <2>1. parser' = p /\ calls' = (s \o <<f>>) \o Conditional /\ mode' = "operand"
    BY <1>2 DEF Pass, Reads, Leaves
  <2>2. TreeAt(p, function)
    BY ExtendsKeeps
  <2>3. Held(p, f) /\ f.kind # "else"
    BY <2>2, FramesHeld
  <2> HIDE DEF f
  <2>4. HeldStack(p, (s \o <<f>>) \o Conditional)
    BY <2>3, StacksHeld
  <2> QED
    BY <2>1, <2>4, RightOnward
<1> QED
  BY <1>1, <1>2

(* The call of a function.                                                 *)
LEMMA CallRight ==
    ASSUME Safe, Holding, FunctionCall \/ EndArgument
    PROVE  StillRight
<1>1. /\ Well(parser) /\ Extends(parser, parser) /\ HeldStack(parser, calls)
      /\ mode # "unit" =>
            /\ HeldStack(parser, Popped) /\ Held(parser, Top)
            /\ Top.kind \in GivesTree => Fits(Popped, "tree")
      /\ mode = "postfix" => TreeAt(parser, value)
      /\ mode = "back" /\ Top.kind \in TreeKinds => TreeAt(parser, value)
      /\ mode \in {"operand", "postfix"} => Fits(calls, "tree")
      /\ calls # <<>> => Top = Last(calls)
  BY RightBefore DEF Top, Last
<1>2. "assert" \in Reasons /\ "para" \in Ops /\ "call" \in Ops
  BY DEF Reasons, Ops
<1>3. CASE FunctionCall
  <2>1. mode = "postfix"
    BY <1>3 DEF FunctionCall, At
  <2>2. CASE value.type.op # "function"
    <3>1. parser' = Stop(Needed(parser, value), "assert") /\ calls' = calls /\ mode' = mode /\ value' = value
      BY <1>3, <2>2 DEF FunctionCall, Stays, Leaves
    <3>2. Extends(parser, Needed(parser, value))
      BY <1>1, CodeExtends
    <3>3. Extends(parser, parser')
      BY <1>2, <3>1, <3>2, CodeExtends
    <3>4. TreeAt(parser', value)
      BY <1>1, <2>1, <3>3, ExtendsKeeps
    <3> QED
      BY <1>1, <2>1, <3>1, <3>3, <3>4, RightTree
  <2>3. CASE value.type.op = "function"
    <3>1. Pass(NextToken(parser), calls, value, value.type.list)
      BY <1>3, <2>3 DEF FunctionCall
    <3>2. Extends(parser, NextToken(parser))
      BY <1>1, TokensExtend
    <3> QED
      BY <1>1, <2>1, <3>1, <3>2, PassRight
  <2> QED
    BY <2>2, <2>3
<1>4. CASE EndArgument
  <2> DEFINE q == Emit(Needed(parser, value), "para")
  <2>1. mode = "back" /\ Top.kind = "argument"
    BY <1>4 DEF EndArgument, Resumes, At
  <2>2. \/ Returns(Emit(NextToken(q), "call"), Top.function)
        \/ Stays(Stop(q, "assert"))
        \/ Pass(IF Is(q, ",") THEN NextToken(q) ELSE q, Popped, Top.function, Tail(Top.list))
    BY <1>4 DEF EndArgument
  <2>3. Extends(parser, q)
    <3>1. Extends(parser, Needed(parser, value))
      BY <1>1, CodeExtends
    <3> QED
      BY <1>2, <3>1, CodeExtends
  <2>4. /\ TreeAt(parser, Top.function) /\ TreeAt(parser, value)
        /\ HeldStack(parser, Popped) /\ Fits(Popped, "tree")
    BY <1>1, <2>1 DEF Held, TreeKinds, GivesTree
  <2> HIDE DEF q
  <2>5. Extends(parser, NextToken(q))
    BY <2>3, TokensExtend
  <2>6. CASE Returns(Emit(NextToken(q), "call"), Top.function)
    <3>1. parser' = Emit(NextToken(q), "call") /\ calls' = Popped /\ mode' = "back" /\ value' = Top.function
      BY <2>6 DEF Returns, Leaves
    <3>2. Extends(parser, parser')
      BY <1>2, <2>5, <3>1, CodeExtends
    <3>3. TreeAt(parser', Top.function)
      BY <2>4, <3>2, ExtendsKeeps
    <3> QED
      BY <2>4, <3>1, <3>2, <3>3, RightTree
  <2>7. CASE Stays(Stop(q, "assert"))
    <3>1. parser' = Stop(q, "assert") /\ calls' = calls /\ mode' = "back" /\ value' = value
      BY <2>1, <2>7 DEF Stays, Leaves
    <3>2. Extends(parser, parser')
      BY <1>2, <2>3, <3>1, CodeExtends
    <3>3. TreeAt(parser', value)
      BY <2>4, <3>2, ExtendsKeeps
    <3>4. Fits(calls, "tree")
      <4>1. calls # <<>> /\ Stacked(calls) /\ Last(calls).kind = "argument"
        BY <2>1, RightBefore DEF Top, Last
      <4> QED
        BY <4>1 DEF Fits, Ready, Waits, TreeKinds
    <3> QED
      BY <1>1, <3>1, <3>2, <3>3, <3>4, RightTree
  <2>8. CASE Pass(IF Is(q, ",") THEN NextToken(q) ELSE q, Popped, Top.function, Tail(Top.list))
    <3> DEFINE r == IF Is(q, ",") THEN NextToken(q) ELSE q
    <3>1. Extends(parser, r)
      BY <2>3, <2>5
    <3> HIDE DEF r
    <3>2. Pass(r, Popped, Top.function, Tail(Top.list))
      BY <2>8 DEF r
    <3> QED
      BY <2>4, <3>1, <3>2, PassRight
  <2> QED
    BY <2>2, <2>6, <2>7, <2>8
<1> QED
  BY <1>3, <1>4

(* A step that goes on with calls of functions that hold nothing.          *)
LEMMA RightPushed ==
    ASSUME Extends(parser, parser'), mode' \notin {"postfix", "back"}, NEW s, HeldStack(parser, s)
    PROVE  /\ calls' = s => StillRight
           /\ \A f : f.kind \notin Bearing =>
                 /\ calls' = Append(s, f) \/ calls' = (s \o <<f>>) \o Expressions \/ calls' = Append(s, f) \o Expressions
                       => StillRight
                 /\ \A g : g.kind \notin Bearing /\ calls' = Append(Append(s, f), g) => StillRight
<1>1. calls' = s => StillRight
  BY StackStill, RightOnward
<1>2. ASSUME NEW f, f.kind \notin Bearing PROVE Held(parser', f) /\ f.kind # "else"
  BY <1>2, PlainHeld
<1>3. ASSUME NEW f, f.kind \notin Bearing,
             calls' = Append(s, f) \/ calls' = (s \o <<f>>) \o Expressions \/ calls' = Append(s, f) \o Expressions
      PROVE  StillRight
  <2>1. HeldStack(parser', calls')
    BY <1>2, <1>3, StacksHeld
  <2> QED
    BY <2>1, RightOnward
<1>4. ASSUME NEW f, f.kind \notin Bearing, NEW g, g.kind \notin Bearing, calls' = Append(Append(s, f), g)
      PROVE  StillRight
  <2>1. HeldStack(parser', calls')
    BY <1>2, <1>4, StacksHeld
  <2> QED
    BY <2>1, RightOnward
<1> QED
  BY <1>1, <1>3, <1>4

(* The frames of declarations hold nothing.                                *)
LEMMA DeclarationFrames ==
    /\ [kind |-> "specifiers"].kind \notin Bearing /\ [kind |-> "star"].kind \notin Bearing
    /\ [kind |-> "pointed"].kind \notin Bearing /\ [kind |-> "initializer"].kind \notin Bearing
    /\ \A n : [kind |-> "named", name |-> n].kind \notin Bearing
    /\ \A ty : [kind |-> "brackets", ty |-> ty].kind \notin Bearing
    /\ \A n, op : [kind |-> "closing", name |-> n, op |-> op].kind \notin Bearing
    /\ \A ty, list : [kind |-> "parameters", ty |-> ty, list |-> list].kind \notin Bearing
    /\ \A ty, n : [kind |-> "declaration", ty |-> ty, declared |-> n].kind \notin Bearing
    /\ \A begin : [kind |-> "function", begin |-> begin].kind \notin Bearing
  BY DEF Bearing

(* A declaration begins.                                                   *)
LEMMA DeclarationRight ==
    ASSUME Well(parser), HeldStack(parser, calls), Declaration
    PROVE  StillRight
<1> DEFINE q == [parser EXCEPT !.isFinish = FALSE]
           f == [kind |-> "declaration", ty |-> IntType, declared |-> 0]
           g == [kind |-> "specifiers"]
<1>1. parser' = NextToken(PushBack(q)) /\ calls' = Append(Append(calls, f), g) /\ mode' = "qualifiers"
  BY DEF Declaration, Specifies, Qualifies, Leaves
<1>2. Extends(parser, parser)
  BY GoodChain DEF Extends
<1>3. Extends(parser, q)
  BY <1>2, TokensExtend
<1>4. f.kind \notin Bearing /\ g.kind \notin Bearing
  BY DeclarationFrames
<1> HIDE DEF q, f, g
<1>5. Extends(parser, PushBack(q))
  BY <1>3, TokensExtend
<1>6. Extends(parser, parser')
  BY <1>1, <1>5, TokensExtend
<1>7. mode' \notin {"postfix", "back"}
  BY <1>1
<1> QED
  BY <1>1, <1>4, <1>6, <1>7, RightPushed

(* A declaration ends.                                                     *)
LEMMA EndsRight ==
    ASSUME NEW p, Extends(parser, p), HeldStack(parser, Popped), EndsDeclaration(p)
    PROVE  StillRight
<1>1. Extends(parser, Finished(p))
  BY TokensExtend
<1>2. parser' = NextToken(Finished(p)) /\ calls' = Popped /\ mode' \notin {"postfix", "back"}
  BY DEF EndsDeclaration, Leaves, Caller
<1>3. Extends(parser, parser')
  BY <1>1, <1>2, TokensExtend
<1> QED
  BY <1>2, <1>3, RightPushed

(* The steps of a declarator that return nothing yet.                      *)
LEMMA DeclaratorRight ==
    ASSUME Safe, Holding,
           \/ Qualifier \/ EndSpecifiers \/ Star \/ EndStar \/ QualifiedPointer \/ EndQualifiedPointer
           \/ EndPointer \/ Named \/ Bracketed \/ CloseBracketed \/ Dimension \/ Parameters \/ AnotherParameter
    PROVE  StillRight
<1>1. /\ Extends(parser, parser) /\ HeldStack(parser, calls)
      /\ mode # "unit" => HeldStack(parser, Popped) /\ "kind" \in DOMAIN Top
  BY RightBefore
<1>2. Extends(parser, NextToken(parser)) /\ Extends(parser, PushBack(NextToken(parser)))
  BY <1>1, TokensExtend
<1>3. CASE Qualifier
  <2>1. parser' = NextToken(parser) /\ calls' = calls /\ mode' = "qualifiers"
    BY <1>3 DEF Qualifier, Qualifies, Leaves
  <2> QED
    BY <1>1, <1>2, <2>1, RightPushed
<1>4. CASE EndSpecifiers
  <2>1. parser' = Report(parser) /\ calls' = Popped /\ mode' = "pointer" /\ mode = "back"
    BY <1>4 DEF EndSpecifiers, Leaves, Resumes, At
  <2>2. Extends(parser, parser')
    BY <1>1, <2>1, TokensExtend
  <2> QED
    BY <1>1, <2>1, <2>2, RightPushed
<1>5. CASE Star
  <2>1. parser' = NextToken(NextToken(parser)) /\ calls' = Append(calls, [kind |-> "star"]) /\ mode' = "qualifiers"
    BY <1>5 DEF Star, Qualifies, Leaves
  <2>2. Extends(parser, parser')
    BY <1>2, <2>1, TokensExtend
  <2> QED
    BY <1>1, <2>1, <2>2, RightPushed, DeclarationFrames
<1>6. CASE EndStar
  <2>1. parser' = parser /\ calls' = Popped /\ mode' = "pointer" /\ mode = "back"
    BY <1>6 DEF EndStar, Leaves, Resumes, At
  <2> QED
    BY <1>1, <2>1, RightPushed
<1>7. CASE QualifiedPointer
  <2>1. /\ parser' = NextToken(PushBack(NextToken(parser))) /\ calls' = Append(calls, [kind |-> "pointed"])
        /\ mode' = "qualifiers"
    BY <1>7 DEF QualifiedPointer, Qualifies, Leaves
  <2>2. Extends(parser, parser')
    BY <1>2, <2>1, TokensExtend
  <2> QED
    BY <1>1, <2>1, <2>2, RightPushed, DeclarationFrames
<1>8. CASE EndQualifiedPointer
  <2>1. parser' = NextToken(parser) /\ calls' = Popped /\ mode' = "direct" /\ mode = "back"
    BY <1>8 DEF EndQualifiedPointer, Leaves, Resumes, At
  <2> QED
    BY <1>1, <1>2, <2>1, RightPushed
<1>9. CASE EndPointer
  <2>1. parser' = NextToken(PushBack(NextToken(parser))) /\ calls' = calls /\ mode' = "direct"
    BY <1>9 DEF EndPointer, Leaves
  <2>2. Extends(parser, parser')
    BY <1>2, <2>1, TokensExtend
  <2> QED
    BY <1>1, <2>1, <2>2, RightPushed
<1>10. CASE Named
  <2>1. /\ parser' = NextToken(parser) /\ calls' = Append(calls, [kind |-> "named", name |-> parser.cur])
        /\ mode' = "suffix"
    BY <1>10 DEF Named, Leaves
  <2> QED
    BY <1>1, <1>2, <2>1, RightPushed, DeclarationFrames
<1>11. CASE Bracketed
  <2>1. parser' = parser /\ calls' = Append(calls, [kind |-> "brackets", ty |-> value]) /\ mode' = "pointer"
    BY <1>11 DEF Bracketed, Leaves
  <2> QED
    BY <1>1, <2>1, RightPushed, DeclarationFrames
<1>12. CASE CloseBracketed
  <2>1. /\ parser' = NextToken(Need(parser, ")"))
        /\ calls' = Append(Popped, [kind |-> "closing", name |-> value.name, op |-> value.ty.op])
        /\ mode' = "suffix" /\ mode = "back"
    BY <1>12 DEF CloseBracketed, Leaves, Resumes, At
  <2>2. Extends(parser, Need(parser, ")"))
    BY <1>1, TokensExtend
  <2>3. Extends(parser, parser')
    BY <2>1, <2>2, TokensExtend
  <2> QED
    BY <1>1, <2>1, <2>3, RightPushed, DeclarationFrames
<1>13. CASE Dimension
  <2>1. parser' = NextToken(Need(NeedConstant(parser), "]")) /\ calls' = calls /\ mode' = "suffix"
    BY <1>13 DEF Dimension, Leaves
  <2>2. Extends(parser, NeedConstant(parser))
    BY <1>1, TokensExtend
  <2>3. Extends(parser, Need(NeedConstant(parser), "]"))
    BY <2>2, TokensExtend
  <2>4. Extends(parser, parser')
    BY <2>1, <2>3, TokensExtend
  <2> QED
    BY <1>1, <2>1, <2>4, RightPushed
<1>14. CASE Parameters
  <2> DEFINE f == [kind |-> "parameters", ty |-> value, list |-> <<>>]
             g == [kind |-> "specifiers"]
  <2>1. /\ parser' = NextToken(PushBack(NextToken(parser))) /\ calls' = Append(Append(calls, f), g)
        /\ mode' = "qualifiers"
    BY <1>14 DEF Parameters, Specifies, Qualifies, Leaves
  <2>2. Extends(parser, parser')
    BY <1>2, <2>1, TokensExtend
  <2>3. f.kind \notin Bearing /\ g.kind \notin Bearing
    BY DeclarationFrames
  <2> HIDE DEF f, g
  <2>4. mode' \notin {"postfix", "back"}
    BY <2>1
  <2> QED
    BY <1>1, <2>1, <2>2, <2>3, <2>4, RightPushed
<1>15. CASE AnotherParameter
  <2> DEFINE f == [Top EXCEPT !.list = WithParameter(Top.list, value)]
             g == [kind |-> "specifiers"]
  <2>1. /\ parser' = NextToken(NextToken(parser)) /\ calls' = Append(Append(Popped, f), g)
        /\ mode' = "qualifiers" /\ mode = "back" /\ Top.kind = "parameters"
    BY <1>15 DEF AnotherParameter, Specifies, Qualifies, Leaves, Resumes, At
  <2>2. Extends(parser, parser')
    BY <1>2, <2>1, TokensExtend
  <2>3. g.kind \notin Bearing
    BY DeclarationFrames
  <2>4. f.kind \notin Bearing
    <3>1. "kind" \in DOMAIN Top
      BY <1>1, <2>1
    <3>2. f.kind = "parameters"
      BY <2>1, <3>1, Zenon
    <3> HIDE DEF f
    <3> QED
      BY <3>2 DEF Bearing
  <2> HIDE DEF f, g
  <2>5. mode' \notin {"postfix", "back"}
    BY <2>1
  <2> QED
    BY <1>1, <2>1, <2>2, <2>3, <2>4, <2>5, RightPushed
<1> QED
  BY <1>3, <1>4, <1>5, <1>6, <1>7, <1>8, <1>9, <1>10, <1>11, <1>12, <1>13, <1>14, <1>15

(* The steps of a declaration.                                             *)
LEMMA DeclaringRight ==
    ASSUME Safe, Holding,
           NotDeclared \/ AnotherDeclarator \/ Initializer \/ EndDeclarator \/ Recover
    PROVE  StillRight
<1>1. /\ Well(parser) /\ Extends(parser, parser) /\ HeldStack(parser, calls) /\ Stacked(calls)
      /\ mode # "unit" => calls # <<>> /\ HeldStack(parser, Popped) /\ "kind" \in DOMAIN Top
  BY RightBefore
<1> DEFINE q == NextToken(Verdict(value))
<1>2. Extends(parser, q)
  BY <1>1, VerdictExtends
<1>3. CASE NotDeclared
  <2>1. parser' = Misreport(parser) /\ calls' = calls /\ mode' = "back" /\ Top.kind = "declaration" /\ mode = "back"
    BY <1>3 DEF NotDeclared, Stays, Leaves, Resumes, At
  <2>2. Extends(parser, parser')
    BY <1>1, <2>1, TokensExtend
  <2>3. Fits(calls, "declarator")
    <3>1. Waits(Last(calls)) = "declarator"
      BY <2>1, SortOther DEF Top, Last
    <3> QED
      BY <1>1, <2>1, <3>1 DEF Fits, Ready
  <2> QED
    BY <1>1, <2>1, <2>2, <2>3, RightPlain
<1>4. CASE AnotherDeclarator
  <2> DEFINE f == [Top EXCEPT !.declared = Declared(value)]
  <2>1. /\ parser' = q /\ calls' = Append(Popped, f) /\ mode' = "pointer"
        /\ mode = "back" /\ Top.kind = "declaration"
    BY <1>4 DEF AnotherDeclarator, DeclaredTo, Leaves, Resumes, At
  <2>2. f.kind \notin Bearing
    <3>1. "kind" \in DOMAIN Top
      BY <1>1, <2>1
    <3>2. f.kind = "declaration"
      BY <2>1, <3>1, Zenon
    <3> HIDE DEF f
    <3> QED
      BY <3>2 DEF Bearing
  <2> HIDE DEF f, q
  <2>3. mode' \notin {"postfix", "back"}
    BY <2>1
  <2> QED
    BY <1>1, <1>2, <2>1, <2>2, <2>3, RightPushed
<1>5. CASE Initializer
  <2> DEFINE f == [kind |-> "initializer"]
  <2>1. /\ parser' = q /\ calls' = (Popped \o <<f>>) \o Expressions /\ mode' = "operand" /\ mode = "back"
    BY <1>5 DEF Initializer, DeclaredTo, Reads, Leaves, Resumes, At
  <2>2. f.kind \notin Bearing
    BY DeclarationFrames
  <2> HIDE DEF f, q
  <2> QED
    BY <1>1, <1>2, <2>1, <2>2, RightPushed
<1>6. CASE EndDeclarator
  <2> DEFINE p == Need(PushBack(q), ";")
  <2>1. /\ EndsDeclaration(p) \/ (parser' = NextToken(p) /\ calls' = calls /\ mode' = "recover")
        /\ mode = "back"
    BY <1>6 DEF EndDeclarator, Leaves, Resumes, At
  <2> HIDE DEF q
  <2>2. Extends(parser, PushBack(q))
    BY <1>2, TokensExtend
  <2>3. Extends(parser, p)
    BY <2>2, TokensExtend
  <2> HIDE DEF p
  <2>4. Extends(parser, NextToken(p))
    BY <2>3, TokensExtend
  <2>5. CASE EndsDeclaration(p)
    BY <1>1, <2>1, <2>3, <2>5, EndsRight
  <2>6. CASE parser' = NextToken(p) /\ calls' = calls /\ mode' = "recover"
    BY <1>1, <2>4, <2>6, RightPushed
  <2> QED
    BY <2>1, <2>5, <2>6
<1>7. CASE Recover
  <2>1. EndsDeclaration(parser) \/ (parser' = NextToken(parser) /\ calls' = calls /\ mode' = "recover")
    BY <1>7 DEF Recover, Stays, Leaves, At
  <2>2. mode = "recover"
    BY <1>7 DEF Recover, At
  <2>3. Extends(parser, NextToken(parser))
    BY <1>1, TokensExtend
  <2>4. CASE EndsDeclaration(parser)
    BY <1>1, <2>2, <2>4, EndsRight
  <2>5. CASE parser' = NextToken(parser) /\ calls' = calls /\ mode' = "recover"
    BY <1>1, <2>3, <2>5, RightPushed
  <2> QED
    BY <2>1, <2>4, <2>5
<1> QED
  BY <1>3, <1>4, <1>5, <1>6, <1>7

(* The steps that return a type or a declarator.                           *)
LEMMA FoundRight ==
    ASSUME Safe, Holding,
           \/ EndQualifiers \/ EndNamed \/ EndBracketed \/ NoDeclarator \/ NoSuffix \/ NoParameters
           \/ EndParameters
    PROVE  StillRight
<1>1. /\ Extends(parser, parser) /\ HeldStack(parser, calls)
      /\ mode # "unit" =>
            /\ HeldStack(parser, Popped)
            /\ Top.kind \in DeclaratorsOfTypes \cup {"brackets"} => Fits(Popped, "declarator")
            /\ Top.kind = "parameters" => Fits(Popped, "type")
      /\ mode \in {"qualifiers", "suffix"} => Fits(calls, "type")
      /\ mode \in {"pointer", "direct"} => Fits(calls, "declarator")
  BY RightBefore
<1>2. Extends(parser, NextToken(parser)) /\ Extends(parser, PushBack(parser)) /\ "undefined" \in Reasons
  BY <1>1, TokensExtend DEF Reasons
<1>3. CASE EndQualifiers
  <2>1. parser' = PushBack(parser) /\ calls' = calls /\ mode' = "back" /\ mode = "qualifiers"
    BY <1>3 DEF EndQualifiers, Gives, Leaves, At
  <2> QED
    BY <1>1, <1>2, <2>1, RightPlain
<1>4. CASE EndNamed
  <2>1. parser' = parser /\ calls' = Popped /\ mode' = "back" /\ mode = "back" /\ Top.kind = "named"
    BY <1>4 DEF EndNamed, Returns, Leaves, Resumes, At
  <2> QED
    BY <1>1, <2>1, RightPlain DEF DeclaratorsOfTypes
<1>5. CASE EndBracketed
  <2>1. /\ parser' \in {parser, Stop(parser, "undefined")}
        /\ calls' = Popped /\ mode' = "back" /\ mode = "back" /\ Top.kind = "closing"
    BY <1>5 DEF EndBracketed, Returns, Leaves, Resumes, At
  <2>2. Extends(parser, parser')
    BY <1>1, <1>2, <2>1, CodeExtends
  <2> QED
    BY <1>1, <2>1, <2>2, RightPlain DEF DeclaratorsOfTypes
<1>6. CASE NoDeclarator
  <2>1. parser' = parser /\ calls' = calls /\ mode' = "back" /\ mode = "direct"
    BY <1>6 DEF NoDeclarator, Gives, Leaves, At
  <2> QED
    BY <1>1, <2>1, RightPlain
<1>7. CASE NoSuffix
  <2>1. parser' = PushBack(parser) /\ calls' = calls /\ mode' = "back" /\ mode = "suffix"
    BY <1>7 DEF NoSuffix, Gives, Leaves, At
  <2> QED
    BY <1>1, <1>2, <2>1, RightPlain
<1>8. CASE NoParameters
  <2>1. /\ parser' \in {NextToken(parser), Need(NextToken(parser), ")")}
        /\ calls' = calls /\ mode' = "back" /\ mode = "suffix"
    BY <1>8 DEF NoParameters, Gives, Leaves, At
  <2>2. Extends(parser, parser')
    BY <1>2, <2>1, TokensExtend
  <2> QED
    BY <1>1, <2>1, <2>2, RightPlain
<1>9. CASE EndParameters
  <2>1. /\ parser' \in {NextToken(parser), Report(NextToken(parser))}
        /\ calls' = Popped /\ mode' = "back" /\ mode = "back" /\ Top.kind = "parameters"
    BY <1>9 DEF EndParameters, Returns, Leaves, Resumes, At
  <2>2. Extends(parser, parser')
    BY <1>2, <2>1, TokensExtend
  <2> QED
    BY <1>1, <2>1, <2>2, RightPlain
<1> QED
  BY <1>3, <1>4, <1>5, <1>6, <1>7, <1>8, <1>9

(* The steps of the file and of blocks that write nothing, and the         *)
(* statements that go on with an expression.                               *)
LEMMA CalmRight ==
    ASSUME Safe, Holding,
           \/ UnitDeclaration \/ UnitOther \/ BlockDeclaration \/ BlockStatements \/ BlockStatement
           \/ PassSemicolon \/ BlockGoesOn \/ EmptyStatement \/ SwitchStatement \/ LateDeclaration
           \/ ExpressionStatement \/ AfterExpression \/ ReturnStatement \/ IfStatement \/ ForStatement
           \/ EndFunction
    PROVE  StillRight
<1>1. /\ Well(parser) /\ Extends(parser, parser) /\ HeldStack(parser, calls)
      /\ mode # "unit" => HeldStack(parser, Popped)
  BY RightBefore
<1>2. /\ Extends(parser, NextToken(parser)) /\ Extends(parser, Misreport(parser))
      /\ Extends(parser, Report(parser)) /\ Extends(parser, Need(parser, "("))
  BY <1>1, TokensExtend
<1>3. "assert" \in Reasons /\ "beyond" \in Reasons /\ "pad" \in Ops
  BY DEF Reasons, Ops
<1>4. CASE UnitDeclaration
  BY <1>1, <1>4, DeclarationRight DEF UnitDeclaration
<1>5. CASE UnitOther
  <2>1. /\ parser' \in {NextToken(parser), NextToken(Stop(parser, "beyond"))} /\ calls' = calls
        /\ mode' = "unit"
    BY <1>5 DEF UnitOther, Turn, At, Stays, Leaves
  <2>2. Extends(parser, Stop(parser, "beyond"))
    BY <1>1, <1>3, CodeExtends
  <2>3. Extends(parser, parser')
    BY <1>2, <2>1, <2>2, TokensExtend
  <2> QED
    BY <1>1, <2>1, <2>3, RightPushed
<1>6. CASE BlockDeclaration
  BY <1>1, <1>6, DeclarationRight DEF BlockDeclaration
<1>7. CASE BlockStatements
  <2>1. parser' = parser /\ calls' = calls /\ mode' = "body"
    BY <1>7 DEF BlockStatements, Leaves
  <2> QED
    BY <1>1, <2>1, RightPushed
<1>8. CASE BlockStatement
  <2>1. parser' = parser /\ calls' = calls /\ mode' = "statement"
    BY <1>8 DEF BlockStatement, Begins, Leaves
  <2> QED
    BY <1>1, <2>1, RightPushed
<1>9. CASE PassSemicolon
  <2>1. parser' = NextToken(parser) /\ calls' = calls /\ mode' = "semicolons"
    BY <1>9 DEF PassSemicolon, At, Stays, Leaves
  <2> QED
    BY <1>1, <1>2, <2>1, RightPushed
<1>10. CASE BlockGoesOn
  <2>1. parser' = parser /\ calls' = calls /\ mode' = "body"
    BY <1>10 DEF BlockGoesOn, Leaves
  <2> QED
    BY <1>1, <2>1, RightPushed
<1>11. CASE EmptyStatement
  <2>1. parser' = NextToken(parser) /\ calls' = calls /\ mode' = "stmt_list"
    BY <1>11 DEF EmptyStatement, Leaves
  <2> QED
    BY <1>1, <1>2, <2>1, RightPushed
<1>12. CASE SwitchStatement
  <2>1. parser' = Stop(parser, "assert") /\ calls' = calls /\ mode' \in {"statement", "stmt_list"}
    BY <1>12 DEF SwitchStatement, AtStatement, Stays, Leaves
  <2>2. Extends(parser, parser')
    BY <1>1, <1>3, <2>1, CodeExtends
  <2> QED
    BY <1>1, <2>1, <2>2, RightPushed
<1>13. CASE LateDeclaration
  <2>1. parser' = Misreport(parser) /\ calls' = calls /\ mode' \in {"statement", "stmt_list"}
    BY <1>13 DEF LateDeclaration, AtStatement, Stays, Leaves
  <2> QED
    BY <1>1, <1>2, <2>1, RightPushed
<1>14. CASE ExpressionStatement
  <2> DEFINE f == [kind |-> "expression"]
  <2>1. /\ parser' \in {parser, NextToken(Report(parser))} /\ calls' = (calls \o <<f>>) \o Expressions
        /\ mode' = "operand"
    BY <1>14 DEF ExpressionStatement, Reads, Leaves
  <2>2. Extends(parser, parser')
    BY <1>1, <1>2, <2>1, TokensExtend
  <2>3. f.kind \notin Bearing
    BY DEF Bearing
  <2> HIDE DEF f
  <2> QED
    BY <1>1, <2>1, <2>2, <2>3, RightPushed
<1>15. CASE AfterExpression
  <2> DEFINE q == [parser EXCEPT !.trees = Append(parser.trees, value)]
  <2>1. parser' = NextToken(PushBack(q)) /\ calls' = calls /\ mode' = "semicolons"
    BY <1>15 DEF AfterExpression, Leaves
  <2>2. Extends(parser, q)
    BY <1>1, TokensExtend
  <2> HIDE DEF q
  <2>3. Extends(parser, PushBack(q))
    BY <2>2, TokensExtend
  <2>4. Extends(parser, parser')
    BY <2>1, <2>3, TokensExtend
  <2> QED
    BY <1>1, <2>1, <2>4, RightPushed
<1>16. CASE ReturnStatement
  <2> DEFINE f == [kind |-> "return"]
  <2>1. parser' = parser /\ calls' = (calls \o <<f>>) \o Expressions /\ mode' = "operand"
    BY <1>16 DEF ReturnStatement, Reads, Leaves
  <2>2. f.kind \notin Bearing
    BY DEF Bearing
  <2> HIDE DEF f
  <2> QED
    BY <1>1, <2>1, <2>2, RightPushed
<1>17. CASE IfStatement
  <2> DEFINE f == [kind |-> "if condition"]
  <2>1. parser' = NextToken(Need(parser, "(")) /\ calls' = (calls \o <<f>>) \o Expressions /\ mode' = "operand"
    BY <1>17 DEF IfStatement, OpenBracket, Reads, Leaves
  <2>2. Extends(parser, parser')
    BY <1>2, <2>1, TokensExtend
  <2>3. f.kind \notin Bearing
    BY DEF Bearing
  <2> HIDE DEF f
  <2> QED
    BY <1>1, <2>1, <2>2, <2>3, RightPushed
<1>18. CASE ForStatement
  <2> DEFINE f == [kind |-> "for"]
             q == EmitListed(parser, "pad")
  <2>1. parser' = NextToken(Need(q, "(")) /\ calls' = (calls \o <<f>>) \o Expressions /\ mode' = "operand"
    BY <1>18 DEF ForStatement, OpenBracket, Reads, Leaves
  <2>2. Extends(parser, q)
    BY <1>1, <1>3, CodeExtends
  <2> HIDE DEF q
  <2>3. Extends(parser, Need(q, "("))
    BY <2>2, TokensExtend
  <2>4. Extends(parser, parser')
    BY <2>1, <2>3, TokensExtend
  <2>5. f.kind \notin Bearing
    BY DEF Bearing
  <2> HIDE DEF f
  <2> QED
    BY <1>1, <2>1, <2>4, <2>5, RightPushed
<1>19. CASE EndFunction
  <2> DEFINE q == [parser EXCEPT !.printed = Append(parser.printed, Printed(parser.code, Top.begin))]
  <2>1. EndsDeclaration(Need(ExitEnv(q), "}")) /\ mode = "back"
    BY <1>19 DEF EndFunction, Resumes, At
  <2>2. Extends(parser, q)
    BY <1>1, TokensExtend
  <2> HIDE DEF q
  <2>3. Extends(parser, ExitEnv(q))
    BY <2>2, TokensExtend
  <2>4. Extends(parser, Need(ExitEnv(q), "}"))
    BY <2>3, TokensExtend
  <2> QED
    BY <1>1, <2>1, <2>4, EndsRight
<1> QED
  BY <1>4, <1>5, <1>6, <1>7, <1>8, <1>9, <1>10, <1>11, <1>12, <1>13, <1>14, <1>15, <1>16, <1>17, <1>18, <1>19

(* The statements that return a block of their own.                        *)
LEMMA SimpleRight ==
    ASSUME Safe, Holding,
           \/ CloseBlock \/ NoStatement \/ DoStatement \/ EndExpression \/ BreakStatement
           \/ ContinueStatement \/ EndReturn
    PROVE  StillRight
<1>1. /\ Well(parser) /\ Extends(parser, parser) /\ HeldStack(parser, calls)
      /\ mode # "unit" =>
            /\ HeldStack(parser, Popped) /\ Held(parser, Top)
            /\ Top.kind \in StatementsOfTrees \cup StatementsOfBlocks => Fits(Popped, "block")
      /\ AtStatement => Fits(calls, "block")
      /\ mode \in {"declarations", "body"} => Top.kind = "block"
  BY RightBefore, Entering DEF Safe, AtStatement
<1>2. "break" \in Ops /\ "continue" \in Ops /\ "ret" \in Ops
  BY DEF Ops, Jumps
<1>3. BlockAt(parser', EmptyBlock) /\ BlockAt(parser', NoBlock)
  BY PlainTrees
<1>4. CASE CloseBlock
  <2>1. parser' = PushBack(ExitEnv(parser)) /\ calls' = Popped /\ mode' = "back" /\ value' = Top.ret /\ mode = "body"
    BY <1>4 DEF CloseBlock, Returns, Leaves, At
  <2>2. Extends(parser, ExitEnv(parser))
    BY <1>1, TokensExtend
  <2>3. Extends(parser, parser')
    BY <2>1, <2>2, TokensExtend
  <2>4. BlockAt(parser, Top.ret)
    BY <1>1, <2>1 DEF Held
  <2>5. BlockAt(parser', Top.ret)
    BY <2>3, <2>4, ExtendsKeeps
  <2> QED
    BY <1>1, <2>1, <2>3, <2>5, RightBlock DEF StatementsOfBlocks
<1>5. CASE NoStatement
  <2>1. /\ parser' = parser /\ calls' = calls /\ mode' = "back" /\ value' = NoBlock
        /\ AtStatement
    BY <1>5 DEF NoStatement, Gives, Leaves
  <2> QED
    BY <1>1, <1>3, <2>1, RightBlock
<1>6. CASE DoStatement
  <2>1. /\ parser' = parser /\ calls' = calls /\ mode' = "back" /\ value' = EmptyBlock
        /\ AtStatement
    BY <1>6 DEF DoStatement, Gives, Leaves
  <2> QED
    BY <1>1, <1>3, <2>1, RightBlock
<1>7. CASE EndExpression
  <2> DEFINE block == [EmptyBlock EXCEPT !.next = NewestList(parser)]
  <2>1. /\ parser' = PushBack(parser) /\ calls' = Popped /\ mode' = "back" /\ value' = block
        /\ mode = "semicolons" /\ Top.kind = "expression"
    BY <1>7 DEF EndExpression, PastSemicolons, Returns, Leaves, At
  <2>2. Extends(parser, parser')
    BY <1>1, <2>1, TokensExtend
  <2>3. ListAt(parser, NewestList(parser))
    BY <1>1 DEF ListAt, IsListOf, NewestList, Well, Coded, Null
  <2>4. ListAt(parser', NewestList(parser))
    BY <2>2, <2>3, ExtendsKeeps
  <2>5. BlockAt(parser', block)
    BY <1>3, <2>4, BlockChanged
  <2> HIDE DEF block
  <2> QED
    BY <1>1, <2>1, <2>2, <2>5, RightBlock DEF StatementsOfTrees
<1>8. ASSUME NEW op \in {"break", "continue"}
      PROVE  /\ Extends(parser, Need(Jump(op), ";"))
             /\ ListAt(Need(Jump(op), ";"), NewestList(Jump(op)) - 1)
             /\ ListAt(Need(Jump(op), ";"), NewestList(Jump(op)))
  <2> DEFINE p == Jump(op)
  <2>1. Adds(parser, p, 2, 0, 2)
    BY <1>1, <1>2, <1>8, JumpAdds
  <2> HIDE DEF p
  <2>2. Running(p) => Len(p.lists) = Len(parser.lists) + 2 /\ Len(parser.lists) \in Nat
    BY <2>1, AddsLength
  <2>3. ListAt(p, NewestList(p) - 1) /\ ListAt(p, NewestList(p))
    BY <2>2 DEF ListAt, IsListOf, NewestList
  <2>4. Extends(parser, p) /\ Extends(p, p)
    BY <2>1, GoodChain DEF Adds, Extends
  <2>5. Extends(parser, Need(p, ";")) /\ Extends(p, Need(p, ";"))
    BY <2>4, TokensExtend
  <2> DEFINE r == Need(p, ";")
             l == NewestList(p)
  <2> HIDE DEF r, l
  <2>6. \A k : ListAt(p, k) => ListAt(r, k)
    BY <2>5, ExtendsKeeps DEF r
  <2>7. ListAt(r, l - 1) /\ ListAt(r, l)
    BY <2>3, <2>6 DEF l
  <2> QED
    BY <2>5, <2>7 DEF p, r, l
<1>9. CASE BreakStatement
  <2> DEFINE p == Jump("break")
             l == NewestList(p)
             one == [EmptyBlock EXCEPT !.break = l - 1]
             block == [one EXCEPT !.next = l]
  <2>1. /\ parser' = Need(p, ";") /\ calls' = calls /\ mode' = "back" /\ value' = block
        /\ AtStatement
    BY <1>9 DEF BreakStatement, Gives, Leaves, EmptyBlock
  <2>2. Extends(parser, parser') /\ ListAt(parser', l - 1) /\ ListAt(parser', l)
    BY <1>8, <2>1
  <2> HIDE DEF p, l
  <2>3. BlockAt(parser', one)
    BY <1>3, <2>2, BlockChanged
  <2> HIDE DEF one
  <2>4. BlockAt(parser', block)
    BY <2>2, <2>3, BlockChanged
  <2> HIDE DEF block
  <2> QED
    BY <1>1, <2>1, <2>2, <2>4, RightBlock
<1>10. CASE ContinueStatement
  <2> DEFINE p == Jump("continue")
             l == NewestList(p)
             one == [EmptyBlock EXCEPT !.continue = l - 1]
             block == [one EXCEPT !.next = l]
  <2>1. /\ parser' = Need(p, ";") /\ calls' = calls /\ mode' = "back" /\ value' = block
        /\ AtStatement
    BY <1>10 DEF ContinueStatement, Gives, Leaves, EmptyBlock
  <2>2. Extends(parser, parser') /\ ListAt(parser', l - 1) /\ ListAt(parser', l)
    BY <1>8, <2>1
  <2> HIDE DEF p, l
  <2>3. BlockAt(parser', one)
    BY <1>3, <2>2, BlockChanged
  <2> HIDE DEF one
  <2>4. BlockAt(parser', block)
    BY <2>2, <2>3, BlockChanged
  <2> HIDE DEF block
  <2> QED
    BY <1>1, <2>1, <2>2, <2>4, RightBlock
<1>11. CASE EndReturn
  <2>1. /\ parser' = Need(Emit(parser, "ret"), ";") /\ calls' = Popped /\ mode' = "back" /\ value' = EmptyBlock
        /\ mode = "back" /\ Top.kind = "return"
    BY <1>11 DEF EndReturn, Returns, Leaves, Resumes, At
  <2>2. Extends(parser, Emit(parser, "ret"))
    BY <1>1, <1>2, CodeExtends
  <2>3. Extends(parser, parser')
    BY <2>1, <2>2, TokensExtend
  <2> QED
    BY <1>1, <1>3, <2>1, <2>3, RightBlock DEF StatementsOfTrees
<1> QED
  BY <1>4, <1>5, <1>6, <1>7, <1>9, <1>10, <1>11

(* The blocks of functions and the inner ones begin.                       *)
LEMMA BlockRight ==
    ASSUME Safe, Holding, FunctionDefinition \/ InnerBlock \/ BlockTakes
    PROVE  StillRight
<1>1. /\ Well(parser) /\ Extends(parser, parser) /\ HeldStack(parser, calls)
      /\ mode # "unit" => HeldStack(parser, Popped) /\ Held(parser, Top) /\ "kind" \in DOMAIN Top
      /\ mode = "back" /\ Top.kind \in BlockKinds => BlockAt(parser, value)
  BY RightBefore
<1>2. CASE FunctionDefinition
  <2> DEFINE a == NextToken(Verdict(value))
             c == AtBrace(a, value)
             q == MakeHead(c)
             f == [kind |-> "function", begin |-> Newest(parser) + 1]
  <2>1. OpenBlock(q, Append(Popped, f)) /\ mode = "back"
    BY <1>2 DEF FunctionDefinition, DeclaredTo, Resumes, At
  <2>2. Extends(parser, a)
    BY <1>1, VerdictExtends
  <2> HIDE DEF a
  <2>3. Extends(parser, c)
    BY <2>2, BraceExtends
  <2> HIDE DEF c
  <2>4. Extends(parser, q)
    BY <2>3, CodeExtends
  <2> HIDE DEF q
  <2>5. f.kind \notin Bearing
    BY DeclarationFrames
  <2> HIDE DEF f
  <2>6. Well(q)
    BY <2>4, ExtendsKeeps
  <2>7. PICK block : /\ Extends(q, parser') /\ BlockAt(parser', block)
                     /\ calls' = Append(Append(Popped, f), [kind |-> "block", ret |-> block])
                     /\ mode' = "declarations"
    BY <2>1, <2>6, OpenBlockExtends
  <2>8. Extends(parser, parser')
    BY <2>4, <2>7, ExtendsKeeps
  <2> DEFINE g == [kind |-> "block", ret |-> block]
  <2>9. Held(parser', g) /\ g.kind # "else"
    BY <2>7, FramesHeld
  <2>10. Held(parser', f) /\ f.kind # "else"
    BY <2>5, PlainHeld
  <2>11. calls' = Append(Append(Popped, f), g)
    BY <2>7
  <2> HIDE DEF g
  <2>12. HeldStack(parser', Append(Append(Popped, f), g))
    BY <1>1, <2>1, <2>8, <2>9, <2>10, StacksHeld
  <2> QED
    BY <2>7, <2>8, <2>11, <2>12, RightOnward
<1>3. CASE InnerBlock
  <2>1. OpenBlock(parser, calls)
    BY <1>3 DEF InnerBlock
  <2>2. PICK block : /\ Extends(parser, parser') /\ BlockAt(parser', block)
                     /\ calls' = Append(calls, [kind |-> "block", ret |-> block])
                     /\ mode' = "declarations"
    BY <1>1, <2>1, OpenBlockExtends
  <2> DEFINE g == [kind |-> "block", ret |-> block]
  <2>3. Held(parser', g) /\ g.kind # "else"
    BY <2>2, FramesHeld
  <2>4. calls' = Append(calls, g)
    BY <2>2
  <2> HIDE DEF g
  <2>5. HeldStack(parser', Append(calls, g))
    BY <1>1, <2>2, <2>3, StacksHeld
  <2> QED
    BY <2>2, <2>4, <2>5, RightOnward
<1>4. CASE BlockTakes
  <2> DEFINE q == NextToken(parser)
  <2>1. mode = "back" /\ Top.kind = "block"
    BY <1>4 DEF BlockTakes, Resumes, At
  <2>2. PICK taken \in {TakeLists(q, Top.ret, value)} :
            /\ parser' = taken.p /\ calls' = Append(Popped, [Top EXCEPT !.ret = taken.ret])
            /\ mode' = "semicolons"
    BY <1>4 DEF BlockTakes, Takes, Leaves
  <2>3. Extends(parser, q)
    BY <1>1, TokensExtend
  <2>4. BlockAt(parser, Top.ret) /\ BlockAt(parser, value) /\ "ret" \in DOMAIN Top
    BY <1>1, <2>1 DEF Held, BlockKinds
  <2> HIDE DEF q
  <2>5. Well(q) /\ BlockAt(q, Top.ret) /\ BlockAt(q, value)
    BY <2>3, <2>4, ExtendsKeeps
  <2>6. Extends(q, taken.p) /\ BlockAt(taken.p, taken.ret)
    BY <2>2, <2>5, TakeExtends
  <2>7. Extends(parser, parser')
    BY <2>2, <2>3, <2>6, ExtendsKeeps
  <2> DEFINE f == [Top EXCEPT !.ret = taken.ret]
  <2>8. f.kind = "block" /\ f.ret = taken.ret /\ "ret" \in DOMAIN f
    <3>1. "kind" \in DOMAIN Top
      BY <1>1, <2>1
    <3> QED
      BY <2>1, <2>4, <3>1, Zenon
  <2>9. calls' = Append(Popped, f)
    BY <2>2
  <2> HIDE DEF f
  <2>10. Held(parser', f) /\ f.kind # "else"
    BY <2>2, <2>6, <2>8 DEF Held
  <2>11. HeldStack(parser', Append(Popped, f))
    BY <1>1, <2>1, <2>7, <2>10, StacksHeld
  <2> QED
    BY <2>2, <2>7, <2>9, <2>11, RightOnward
<1> QED
  BY <1>2, <1>3, <1>4

(* The condition of a statement keeps the lists of its tree.               *)
LEMMA CondOfTree ==
    ASSUME NEW p, NEW t, TreeAt(p, t)
    PROVE  CondAt(p, Open(t)) /\ ListAt(p, t.true) /\ ListAt(p, t.false)
  BY DEF TreeAt, CondAt, Open, ListAt

(* The number of a label, of a new instruction and of the current one.     *)
LEMMA NewNumbers ==
    ASSUME NEW p, Well(p)
    PROVE  /\ LabelAt(FreshLabel(p), FreshLabel(p).labels)
           /\ LabelAt(FreshLabel(p), p.labels + 1)
           /\ PlaceAt(p, p.tail)
           /\ \A op, d : Running(p) => Running(Make(p, op, d)) /\ Newest(Make(p, op, d)) = Len(p.code) + 1
           /\ \A op, d : Make(p, op, d).labels = p.labels
<1>1. Adds(p, FreshLabel(p), 0, 1, 0)
  BY OperationsAdd
<1>2. Running(FreshLabel(p)) => FreshLabel(p).labels = p.labels + 1 /\ p.labels \in Nat
  BY <1>1, AddsLength
<1>3. LabelAt(FreshLabel(p), FreshLabel(p).labels) /\ LabelAt(FreshLabel(p), p.labels + 1)
  BY <1>2 DEF LabelAt
<1>4. DOMAIN p = Fields /\ Len(p.code) \in Nat /\ p.tail \in 0 .. Len(p.code) /\ IsParser(p)
  BY DEF Well, IsParser, Coded
<1>5. PlaceAt(p, p.tail)
  BY <1>4 DEF PlaceAt
<1>6. ASSUME NEW op, NEW d PROVE Make(p, op, d).labels = p.labels
  BY <1>4 DEF Make, Fields
<1>7. ASSUME NEW op, NEW d, Running(p) PROVE Running(Make(p, op, d)) /\ Newest(Make(p, op, d)) = Len(p.code) + 1
  <2> DEFINE x == [op |-> op, dest |-> d, next |-> Null, pre |-> Null]
  <2>1. Make(p, op, d) = [p EXCEPT !.code = Append(p.code, x)]
    BY <1>7 DEF Make
  <2> HIDE DEF x
  <2>2. Make(p, op, d).code = Append(p.code, x) /\ Make(p, op, d).stop = p.stop
    BY <1>4, <2>1 DEF Fields
  <2>3. Len(Append(p.code, x)) = Len(p.code) + 1
    <3>1. p.code \in Seq(InstructionsOf(Len(p.code), p.labels))
      BY DEF Well, Coded
    <3>2. p.code \in Seq(InstructionsOf(Len(p.code), p.labels) \cup {x}) /\ x \in InstructionsOf(Len(p.code), p.labels) \cup {x}
      BY <3>1
    <3> QED
      BY <3>2
  <2> QED
    BY <1>7, <2>2, <2>3 DEF Running, Newest
<1> QED
  BY <1>3, <1>5, <1>6, <1>7

(* An if takes its condition, and its branch.                              *)
LEMMA IfRight ==
    ASSUME Safe, Holding, IfBranch \/ AfterBranch \/ EndIf
    PROVE  StillRight
<1>1. /\ Well(parser) /\ Extends(parser, parser) /\ HeldStack(parser, calls)
      /\ mode # "unit" =>
            /\ HeldStack(parser, Popped) /\ Held(parser, Top) /\ "kind" \in DOMAIN Top
            /\ Top.kind \in StatementsOfTrees \cup StatementsOfBlocks => Fits(Popped, "block")
      /\ mode = "back" /\ Top.kind \in TreeKinds => TreeAt(parser, value)
      /\ mode = "back" /\ Top.kind \in BlockKinds => BlockAt(parser, value)
  BY RightBefore
<1>2. CASE IfBranch
  <2>1. mode = "back" /\ Top.kind = "if condition"
    BY <1>2 DEF IfBranch, Resumes, At
  <2>2. TreeAt(parser, value)
    BY <1>1, <2>1 DEF TreeKinds
  <2> DEFINE e == Decided([p |-> parser, t |-> value])
  <2>3. Extends(parser, e.p) /\ TreeAt(e.p, e.t)
    BY <1>1, <2>2, TreeExtends
  <2> DEFINE c == CloseCondition(e.p)
             p == FreshLabel(c)
             f == [kind |-> "if", cond |-> Open(e.t), at |-> p.tail, label |-> p.labels, ret |-> EmptyBlock]
  <2>4. parser' = p /\ calls' = Append(Popped, f) /\ mode' = "statement"
    BY <1>2 DEF IfBranch, Begins, Leaves
  <2> HIDE DEF e
  <2>5. Extends(e.p, e.p)
    BY <2>3, ExtendsKeeps, GoodChain DEF Extends
  <2>6. Extends(e.p, c)
    BY <2>5, ClosingExtends
  <2> HIDE DEF c
  <2>7. Extends(e.p, p) /\ Well(c)
    BY <2>6, CodeExtends, ExtendsKeeps
  <2>8. LabelAt(p, p.labels)
    BY <2>7, NewNumbers
  <2>9. TreeAt(p, e.t) /\ Well(p)
    BY <2>3, <2>7, ExtendsKeeps
  <2>10. Extends(parser, p)
    BY <2>3, <2>7, ExtendsKeeps
  <2>11. f.kind = "if" /\ DOMAIN f = {"kind", "cond", "at", "label", "ret"}
    OBVIOUS
  <2>12. f.cond = Open(e.t) /\ f.at = p.tail /\ f.label = p.labels /\ f.ret = EmptyBlock
    OBVIOUS
  <2> HIDE DEF f, p
  <2>13. CondAt(p, f.cond) /\ PlaceAt(p, f.at) /\ LabelAt(p, f.label) /\ BlockAt(p, f.ret)
    BY <2>8, <2>9, <2>12, CondOfTree, NewNumbers, PlainTrees
  <2>14. Held(p, f) /\ f.kind # "else"
    BY <2>11, <2>13 DEF Held
  <2>15. HeldStack(p, Append(Popped, f))
    BY <1>1, <2>1, <2>10, <2>14, StacksHeld
  <2> QED
    BY <2>4, <2>10, <2>15, RightOnward
<1>3. CASE AfterBranch
  <2> DEFINE k == Newest(Make(parser, "label", Top.label))
             i == InsertAfter(Make(parser, "label", Top.label), Top.at, k)
             r == PatchAll(i, Top.cond.true, Top.label)
             b == Read(r, value)
             f == [Top EXCEPT !.ret = value]
  <2>1. /\ parser' = NextToken(b) /\ calls' = Append(Popped, f) /\ mode' = "semicolons"
        /\ mode = "back" /\ Top.kind = "if"
    BY <1>3 DEF AfterBranch, Leaves, Resumes, At
  <2>2. /\ LabelAt(parser, Top.label) /\ PlaceAt(parser, Top.at) /\ CondAt(parser, Top.cond)
        /\ {"kind", "cond", "at", "label", "ret"} \subseteq DOMAIN Top /\ BlockAt(parser, value)
    BY <1>1, <2>1 DEF Held, BlockKinds
  <2>3. Adds(parser, i, 1, 0, 0)
    <3>1. Running(parser) => k = Len(parser.code) + 1
      BY <1>1, NewNumbers
    <3>2. Running(parser) => Top.label \in {Unset} \cup 1 .. parser.labels
      BY <2>2 DEF LabelAt
    <3>3. Running(parser) => Top.at \in {Unset} \cup 0 .. Len(parser.code)
      BY <2>2 DEF PlaceAt
    <3>4. "label" \in Ops
      BY DEF Ops
    <3> HIDE DEF k
    <3> QED
      BY <1>1, <3>1, <3>2, <3>3, <3>4, NewInserted
  <2>4. Extends(parser, i)
    BY <2>3 DEF Adds, Extends
  <2> HIDE DEF k, i
  <2>5. LabelAt(i, Top.label) /\ ListAt(i, Top.cond.true)
    <3>1. ListAt(parser, Top.cond.true)
      BY <2>2 DEF CondAt, ListAt
    <3> QED
      BY <2>2, <2>4, <3>1, ExtendsKeeps
  <2>6. Extends(parser, r)
    BY <2>4, <2>5, CodeExtends
  <2> HIDE DEF r
  <2>7. Extends(parser, b)
    BY <2>6, CodeExtends
  <2> HIDE DEF b
  <2>8. Extends(parser, parser')
    BY <2>1, <2>7, TokensExtend
  <2>9. LabelAt(parser', Top.label) /\ PlaceAt(parser', Top.at) /\ CondAt(parser', Top.cond) /\ BlockAt(parser', value)
    BY <2>2, <2>8, ExtendsKeeps
  <2>10. DOMAIN f = DOMAIN Top /\ f.kind = "if" /\ f.cond = Top.cond
    BY <2>1, <2>2, Zenon
  <2>11. f.at = Top.at /\ f.label = Top.label /\ f.ret = value
    BY <2>1, <2>2, Zenon
  <2> HIDE DEF f
  <2>12. Held(parser', f) /\ f.kind # "else"
    BY <2>2, <2>9, <2>10, <2>11 DEF Held
  <2>13. HeldStack(parser', Append(Popped, f))
    BY <1>1, <2>1, <2>8, <2>12, StacksHeld
  <2> QED
    BY <2>1, <2>8, <2>13, RightOnward
<1>4. CASE EndIf
  <2> DEFINE p == NextToken(parser)
             q == IF Top.ret.next = Null THEN p ELSE Merge(p, Top.cond.false, Top.ret.next)
             block == [Top.ret EXCEPT !.next = Top.cond.false]
  <2>1. EndOfSelect(q, block) /\ mode = "semicolons" /\ Top.kind = "if"
    BY <1>4 DEF EndIf, PastSemicolons, At
  <2>2. BlockAt(parser, Top.ret) /\ ListAt(parser, Top.cond.false)
    BY <1>1, <2>1 DEF Held, CondAt, ListAt
  <2>3. ListAt(parser, Top.ret.next)
    BY <2>2 DEF BlockAt, ListAt
  <2>4. Extends(parser, p)
    BY <1>1, TokensExtend
  <2> HIDE DEF p
  <2>5. ListAt(p, Top.cond.false) /\ ListAt(p, Top.ret.next)
    BY <2>2, <2>3, <2>4, ExtendsKeeps
  <2>6. Extends(parser, q)
    BY <2>4, <2>5, CodeExtends
  <2> HIDE DEF q
  <2>7. BlockAt(parser, block)
    BY <2>2, BlockChanged
  <2> HIDE DEF block
  <2>8. BlockAt(q, block) /\ Well(q)
    BY <2>6, <2>7, ExtendsKeeps
  <2>9. /\ Extends(q, parser') /\ BlockAt(parser', block)
        /\ calls' = Popped /\ mode' = "back" /\ value' = block
    BY <2>1, <2>8, EndOfSelectExtends
  <2>10. Extends(parser, parser')
    BY <2>6, <2>9, ExtendsKeeps
  <2> QED
    BY <1>1, <2>1, <2>9, <2>10, RightBlock DEF StatementsOfBlocks
<1> QED
  BY <1>2, <1>3, <1>4

(* When the jump over an else part gets its link, the others keep none.    *)
LEMMA StackLinked ==
    ASSUME NEW b, NEW p, NEW s, HeldStack(b, s), s # <<>>, Last(s).kind = "else",
           Well(b), GoodBut(b, p, Last(s).skip)
    PROVE  HeldStack(p, SubSeq(s, 1, Len(s) - 1))
<1> DEFINE t == SubSeq(s, 1, Len(s) - 1)
<1>1. HeldStack(b, t)
  BY HeldPopped
<1>2. Len(s) \in Nat \ {0} /\ Len(t) = Len(s) - 1 /\ \A d \in 1 .. Len(t) : t[d] = s[d]
  BY Dropped DEF HeldStack
<1>3. Running(p) => Running(b)
  BY DEF GoodBut
<1> HIDE DEF t
<1>4. ASSUME NEW g \in Frames(t) PROVE Held(p, g)
  <2>1. Held(b, g)
    BY <1>1 DEF HeldStack
  <2>2. PICK d \in 1 .. Len(t) : g = t[d]
    BY DEF Frames
  <2>3. d \in 1 .. Len(s) /\ Len(s) \in 1 .. Len(s) /\ d # Len(s) /\ g = s[d]
    BY <1>2, <2>2
  <2>4. Running(p) /\ g.kind = "else" => g.skip # Last(s).skip
    BY <1>3, <2>3 DEF HeldStack, Apart, Last
  <2> QED
    BY <2>1, <2>4, HeldStill
<1>5. HeldStack(p, t)
  BY <1>1, <1>3, <1>4 DEF HeldStack
<1> QED
  BY <1>5 DEF t

(* The else part begins.                                                   *)
LEMMA ElseRight ==
    ASSUME Safe, Holding, ElseBranch
    PROVE  StillRight
<1>1. /\ Well(parser) /\ mode = "semicolons" /\ Top.kind = "if"
      /\ HeldStack(parser, Popped) /\ Held(parser, Top)
  BY RightBefore DEF ElseBranch, PastSemicolons, At
<1> DEFINE a == FreshLabel(parser)
           b == FreshLabel(a)
           p == NextToken(b)
           c == Make(p, "skip", Unset)
           q == Make(c, "skip", Unset)
           f == [kind |-> "else", cond |-> Top.cond, ret |-> Top.ret, label |-> parser.labels + 1,
                 before |-> Newest(q) - 1, skip |-> Newest(q), at |-> q.tail]
<1>2. parser' = q /\ calls' = Append(Popped, f) /\ mode' = "statement"
  BY DEF ElseBranch, Begins, Leaves
<1>3. "skip" \in Ops
  BY DEF Ops, Jumps
<1>4. Adds(parser, a, 0, 1, 0)
  BY <1>1, OperationsAdd
<1> HIDE DEF a
<1>5. Adds(parser, b, 0, 1 + 1, 0)
  BY <1>4, CodeAdds
<1> HIDE DEF b
<1>6. Well(b)
  BY <1>5, AddsLength
<1>7. Adds(b, p, 0, 0, 0)
  BY <1>6, TokensAdd
<1>8. Adds(parser, p, 0 + 0, (1 + 1) + 0, 0 + 0)
  BY <1>5, <1>7, AddsChain
<1> HIDE DEF p
<1>9. Well(p)
  BY <1>8, AddsLength
<1>10. Adds(p, c, 1, 0, 0)
  BY <1>3, <1>9, OperationsAdd
<1> HIDE DEF c
<1>11. Well(c)
  BY <1>10, AddsLength
<1>12. Adds(c, q, 1, 0, 0) /\ (Running(q) => q.code[Len(q.code)].pre = Null)
  <2>1. Running(c) => Unset \in {Unset} \cup 1 .. c.labels
    OBVIOUS
  <2>2. Running(q) => q.code[Len(q.code)].pre = Null
    BY <1>3, <1>11, <2>1, MakeGood
  <2> QED
    BY <1>3, <1>11, <2>2, OperationsAdd
<1>13. f.kind = "else" /\ f.cond = Top.cond /\ f.ret = Top.ret /\ f.label = parser.labels + 1 /\ "ret" \in DOMAIN f
  OBVIOUS
<1>14. f.before = Newest(q) - 1 /\ f.skip = Newest(q) /\ f.at = q.tail
  OBVIOUS
<1> HIDE DEF q, f
<1>15. Running(q) => /\ Running(parser)
                     /\ Len(q.code) = Len(c.code) + 1 /\ Len(c.code) = Len(p.code) + 1
                     /\ Len(p.code) = Len(parser.code) + (0 + 0) /\ Len(parser.code) \in Nat
                     /\ q.labels = c.labels + 0 /\ c.labels = p.labels + 0
                     /\ p.labels = parser.labels + ((1 + 1) + 0) /\ parser.labels \in Nat
  BY <1>8, <1>10, <1>12, AddsLength
<1>16. Running(q) => /\ Running(parser) /\ Len(parser.code) \in Nat /\ parser.labels \in Nat
                     /\ Len(q.code) = Len(parser.code) + 2 /\ q.labels = parser.labels + 2
  BY <1>15
<1>17. Extends(parser, q)
  <2>1. Extends(parser, p)
    BY <1>8 DEF Adds, Extends
  <2>2. Extends(parser, c)
    BY <2>1, <1>10, AddsChain
  <2> QED
    BY <2>2, <1>12, AddsChain
<1>18. Well(q)
  BY <1>17, ExtendsKeeps
<1>19. LabelAt(q, f.label) /\ InstructionAt(q, f.before) /\ InstructionAt(q, f.skip)
  BY <1>13, <1>14, <1>16 DEF LabelAt, InstructionAt, Newest
<1>20. Running(q) => q.code[f.skip].pre = Null
  BY <1>12, <1>14 DEF Newest
<1>21. PlaceAt(q, f.at)
  BY <1>14, <1>18, NewNumbers
<1>22. CondAt(q, f.cond) /\ BlockAt(q, f.ret)
  <2>1. CondAt(parser, Top.cond) /\ BlockAt(parser, Top.ret)
    BY <1>1 DEF Held
  <2> QED
    BY <1>13, <1>17, <2>1, ExtendsKeeps
<1>23. Held(q, f)
  BY <1>13, <1>19, <1>20, <1>21, <1>22 DEF Held
<1>24. HeldStack(q, Popped)
  BY <1>1, <1>17, StackStill
<1>25. ASSUME Running(q), NEW g \in Frames(Popped), g.kind = "else" PROVE g.skip # f.skip
  <2>1. Held(parser, g)
    BY <1>1 DEF HeldStack
  <2>2. g.skip \in 1 .. Len(parser.code)
    BY <1>16, <1>25, <2>1 DEF Held, InstructionAt
  <2> QED
    BY <1>14, <1>16, <1>25, <2>2 DEF Newest
<1>26. HeldStack(q, Append(Popped, f))
  BY <1>23, <1>24, <1>25, HeldPushed
<1> QED
  BY <1>2, <1>17, <1>26, RightOnward

(* One instruction gets a link back and then a new one does.               *)
LEMMA GoodTwice ==
    ASSUME NEW b, NEW p, NEW q, NEW x, NEW y, Well(b), GoodBut(b, p, x), GoodBut(p, q, y),
           Running(q) => y \notin 1 .. Len(b.code)
    PROVE  GoodBut(b, q, x)
<1>1. /\ Len(b.code) \in Nat /\ Len(b.lists) \in Nat /\ b.labels \in Nat
      /\ Len(p.code) \in Nat /\ Len(p.lists) \in Nat /\ p.labels \in Nat
      /\ Len(q.code) \in Nat /\ Len(q.lists) \in Nat /\ q.labels \in Nat
  BY DEF GoodBut, Well, Coded
<1>2. Running(q) => /\ Running(p) /\ Running(b)
                    /\ Len(b.code) <= Len(p.code) /\ b.labels <= p.labels /\ Len(b.lists) <= Len(p.lists)
                    /\ Len(p.code) <= Len(q.code) /\ p.labels <= q.labels /\ Len(p.lists) <= Len(q.lists)
  BY DEF GoodBut
<1>3. Running(q) => Len(b.code) <= Len(q.code) /\ b.labels <= q.labels /\ Len(b.lists) <= Len(q.lists)
  BY <1>1, <1>2
<1>4. Running(q) => \A i \in 1 .. Len(b.code) : i \in 1 .. Len(p.code) /\ i # y
  BY <1>1, <1>2
<1> QED
  BY <1>2, <1>3, <1>4 DEF GoodBut

(* The jump over the else part and the label of that part are linked in.   *)
LEMMA ElseLinked ==
    ASSUME NEW b, Well(b), NEW f, f.kind = "else", Held(b, f)
    PROVE  LET q == Make(b, "label", f.label)
               r == InsertBefore(InsertBefore(q, f.at, f.skip), f.at, Newest(q))
           IN  GoodBut(b, r, f.skip)
<1> DEFINE q == Make(b, "label", f.label)
           s == InsertBefore(q, f.at, f.skip)
           n == Newest(q)
           r == InsertBefore(s, f.at, n)
<1>1. /\ LabelAt(b, f.label) /\ PlaceAt(b, f.at) /\ InstructionAt(b, f.skip)
      /\ ~HasFor /\ Running(b) => b.code[f.skip].pre = Null
  BY DEF Held
<1>2. "label" \in Ops /\ (Running(b) => f.label \in {Unset} \cup 1 .. b.labels)
  BY <1>1 DEF Ops, LabelAt
<1>3. Good(b, q) /\ GrowsBy(b, q, 1, 0, 0) /\ (Running(q) => q.code[Len(q.code)].pre = Null)
  BY <1>2, MakeGood
<1> HIDE DEF q
<1>4. /\ Well(q) /\ GoodBut(b, q, f.skip) /\ GoodBut(b, q, Null) /\ Len(b.code) \in Nat
      /\ Len(q.code) \in Nat /\ (Running(q) => Running(b) /\ Len(q.code) = Len(b.code) + 1)
  <2>1. Well(q) /\ GoodBut(b, q, f.skip) /\ GoodBut(b, q, Null)
    BY <1>3, GoodChain
  <2>2. Len(b.code) \in Nat /\ Len(q.code) \in Nat
    BY <2>1 DEF Well, Coded
  <2> QED
    BY <1>3, <2>1, <2>2 DEF GrowsBy
<1>5. PlaceAt(q, f.at) /\ InstructionAt(q, f.skip)
  BY <1>1, <1>4, ThereStill
<1>6. Running(q) => f.at \in {Unset} \cup 0 .. Len(q.code)
  BY <1>5 DEF PlaceAt
<1>7. Running(q) => f.skip \in 1 .. Len(q.code) /\ f.skip \in 1 .. Len(b.code) /\ f.skip # Null
  BY <1>1, <1>4, <1>5 DEF InstructionAt, Null
<1>8. Running(q) /\ ~HasFor => q.code[f.skip].pre = Null
  BY <1>1, <1>4, <1>7 DEF GoodBut
<1>9. GoodBut(q, s, f.skip) /\ GrowsBy(q, s, 0, 0, 0) /\ Well(s)
  BY <1>4, <1>6, <1>7, <1>8, BeforeGood
<1> HIDE DEF s
<1>10. GoodBut(b, s, f.skip) /\ PlaceAt(s, f.at)
  BY <1>3, <1>5, <1>4, <1>9, GoodChain, ThereStill
<1>11. /\ Len(s.code) \in Nat
       /\ Running(s) => Running(q) /\ Len(s.code) = Len(q.code) + 0
  BY <1>9 DEF GrowsBy, Well, Coded
<1>12. Running(s) => n \in 1 .. Len(s.code) /\ n \in 1 .. Len(q.code) /\ n = Len(q.code) /\ n # f.skip
  BY <1>4, <1>7, <1>11 DEF Newest
<1>13. Running(s) /\ ~HasFor => s.code[n].pre = Null
  BY <1>3, <1>9, <1>11, <1>12 DEF GoodBut
<1>14. Running(s) => f.at \in {Unset} \cup 0 .. Len(s.code)
  BY <1>10 DEF PlaceAt
<1> HIDE DEF n
<1>15. GoodBut(s, r, n)
  BY <1>9, <1>12, <1>13, <1>14, BeforeGood
<1> HIDE DEF r
<1>16. Running(r) => Running(s)
  BY <1>15 DEF GoodBut
<1>17. Running(r) => n \notin 1 .. Len(b.code)
  BY <1>4, <1>11, <1>12, <1>16
<1>18. GoodBut(b, r, f.skip)
  BY <1>10, <1>15, <1>17, GoodTwice
<1> QED
  BY <1>18 DEF r, n, s, q

(* An else part ends.                                                      *)
LEMMA EndElseRight ==
    ASSUME Safe, Holding, EndElse
    PROVE  StillRight
<1>1. /\ Well(parser) /\ HeldStack(parser, calls) /\ mode = "back" /\ Top.kind = "else"
      /\ calls # <<>> /\ Held(parser, Top) /\ BlockAt(parser, value) /\ Fits(Popped, "block")
  BY RightBefore DEF EndElse, Resumes, At, BlockKinds, StatementsOfBlocks
<1> DEFINE f == Top
           q == Make(parser, "label", f.label)
           r == InsertBefore(InsertBefore(q, f.at, f.skip), f.at, Newest(q))
           l == MakeList(r, f.skip)
           s == MakeList(l, f.before)
           n == NewestList(s) - 1
           d == Read(s, value)
           t == Merge(d, value.next, n)
           c == PatchAll(t, f.cond.false, f.label)
           u == MergeOne(c, value.next, f.before)
           m == Merge(u, value.next, value.next)
           j == Joined(m, f.ret, value)
<1>2. EndOfSelect(j.p, j.ret)
  BY DEF EndElse
<1>3. GoodBut(parser, r, f.skip)
  BY <1>1, ElseLinked
<1>4. HeldStack(r, Popped)
  BY <1>1, <1>3, StackLinked DEF Popped, Top, Last
<1>5. Well(r)
  BY <1>3 DEF GoodBut
<1>6. /\ BlockAt(r, value) /\ BlockAt(r, f.ret) /\ CondAt(r, f.cond) /\ LabelAt(r, f.label)
      /\ InstructionAt(r, f.before) /\ InstructionAt(r, f.skip)
  <2>1. /\ BlockAt(parser, f.ret) /\ CondAt(parser, f.cond) /\ LabelAt(parser, f.label)
        /\ InstructionAt(parser, f.before) /\ InstructionAt(parser, f.skip)
    BY <1>1 DEF Held
  <2> HIDE DEF f, r
  <2> QED
    BY <1>1, <1>3, <2>1, ThereStill
<1>7. ListAt(r, value.next) /\ ListAt(r, f.cond.false)
  BY <1>6 DEF BlockAt, CondAt, ListAt
<1> HIDE DEF f, q, r
<1>8. Adds(r, l, 0, 0, 1) /\ Extends(r, l)
  BY <1>5, <1>6, OperationsAdd DEF Adds, Extends
<1> HIDE DEF l
<1>9. InstructionAt(l, f.before)
  BY <1>6, <1>8, ExtendsKeeps
<1>10. Adds(r, s, 0, 0, 1 + 1)
  BY <1>8, <1>9, CodeAdds
<1> HIDE DEF s
<1>11. Running(s) => Len(s.lists) = Len(r.lists) + (1 + 1) /\ Len(r.lists) \in Nat
  BY <1>10, AddsLength
<1>12. ListAt(s, n)
  BY <1>11 DEF ListAt, IsListOf, NewestList
<1> HIDE DEF n
<1>13. Extends(r, s) /\ Extends(s, s)
  BY <1>10, AddsChain, GoodChain DEF Adds, Extends
<1>14. Extends(r, d) /\ Extends(s, d)
  BY <1>13, CodeExtends
<1> HIDE DEF d
<1>15. ListAt(d, n) /\ ListAt(d, value.next)
  BY <1>7, <1>12, <1>14, ExtendsKeeps
<1>16. Extends(r, t)
  BY <1>14, <1>15, CodeExtends
<1> HIDE DEF t
<1>17. LabelAt(t, f.label) /\ ListAt(t, f.cond.false)
  BY <1>6, <1>7, <1>16, ExtendsKeeps
<1>18. Extends(r, c)
  BY <1>16, <1>17, CodeExtends
<1> HIDE DEF c
<1>19. ListAt(c, value.next) /\ InstructionAt(c, f.before)
  BY <1>6, <1>7, <1>18, ExtendsKeeps
<1>20. Extends(r, u)
  BY <1>18, <1>19, CodeExtends
<1> HIDE DEF u
<1>21. ListAt(u, value.next)
  BY <1>7, <1>20, ExtendsKeeps
<1>22. Extends(r, m)
  BY <1>20, <1>21, CodeExtends
<1> HIDE DEF m
<1>23. BlockAt(m, value) /\ BlockAt(m, f.ret) /\ Well(m)
  BY <1>6, <1>22, ExtendsKeeps
<1>24. Extends(m, j.p) /\ BlockAt(j.p, j.ret)
  BY <1>23, JoinedExtends
<1> HIDE DEF j
<1>25. Well(j.p)
  BY <1>24, ExtendsKeeps
<1>26. /\ Extends(j.p, parser') /\ BlockAt(parser', j.ret)
       /\ calls' = Popped /\ mode' = "back" /\ value' = j.ret
  BY <1>2, <1>24, <1>25, EndOfSelectExtends
<1>27. Extends(r, j.p)
  BY <1>22, <1>24, ExtendsKeeps
<1>28. Extends(r, parser')
  BY <1>26, <1>27, ExtendsKeeps
<1>29. HeldStack(parser', calls') /\ Well(parser')
  BY <1>4, <1>26, <1>28, StackStill, ExtendsKeeps
<1>30. Fits(calls', "block") /\ BlockAt(parser', value')
  BY <1>1, <1>26
<1>31. Right(parser', calls', "back", value')
  BY <1>29, <1>30, RightAfter
<1> QED
  BY <1>26, <1>31 DEF StillRight

(* A while: its label, its condition and its body.                         *)
LEMMA WhileRight ==
    ASSUME Safe, Holding, WhileStatement \/ WhileBody
    PROVE  StillRight
<1>1. /\ Well(parser) /\ Extends(parser, parser) /\ HeldStack(parser, calls)
      /\ mode # "unit" => HeldStack(parser, Popped) /\ Held(parser, Top)
      /\ mode = "back" /\ Top.kind \in TreeKinds => TreeAt(parser, value)
  BY RightBefore
<1>2. CASE WhileStatement
  <2> DEFINE h == Labelled(parser)
             p == NextToken(Need(h, "("))
             f == [kind |-> "while condition", head |-> parser.labels + 1]
  <2>1. parser' = p /\ calls' = calls \o <<f>> \o Expressions /\ mode' = "operand"
    BY <1>2 DEF WhileStatement, OpenBracket, Reads, Leaves
  <2>2. Adds(parser, h, 1, 1, 0)
    BY <1>1, LabelAdds
  <2> HIDE DEF h
  <2>3. Running(h) => h.labels = parser.labels + 1 /\ parser.labels \in Nat
    BY <2>2, AddsLength
  <2>4. LabelAt(h, f.head)
    BY <2>3 DEF LabelAt
  <2>5. Extends(parser, h) /\ Extends(h, h)
    BY <2>2, GoodChain, ExtendsKeeps DEF Adds, Extends
  <2>6. Extends(parser, Need(h, "(")) /\ Extends(h, Need(h, "("))
    BY <2>5, TokensExtend
  <2>7. Extends(parser, p) /\ Extends(h, p)
    BY <2>6, TokensExtend
  <2>8. f.kind = "while condition"
    OBVIOUS
  <2> HIDE DEF f, p
  <2>9. LabelAt(p, f.head)
    BY <2>4, <2>7, ExtendsKeeps
  <2>10. Held(p, f) /\ f.kind # "else"
    BY <2>8, <2>9 DEF Held
  <2>11. HeldStack(p, (calls \o <<f>>) \o Expressions)
    BY <1>1, <2>7, <2>10, StacksHeld
  <2> QED
    BY <2>1, <2>7, <2>11, RightOnward
<1>3. CASE WhileBody
  <2> DEFINE c == CloseCondition(parser)
             p == Labelled(c)
             f == [kind |-> "while", cond |-> Open(value), head |-> Top.head, body |-> p.labels]
  <2>1. /\ parser' = p /\ calls' = Append(Popped, f) /\ mode' = "statement"
        /\ mode = "back" /\ Top.kind = "while condition"
    BY <1>3 DEF WhileBody, Begins, Leaves, Resumes, At
  <2>2. TreeAt(parser, value) /\ LabelAt(parser, Top.head)
    BY <1>1, <2>1 DEF Held, TreeKinds
  <2>3. Extends(parser, c)
    BY <1>1, ClosingExtends
  <2> HIDE DEF c
  <2>4. Well(c)
    BY <2>3, ExtendsKeeps
  <2>5. Adds(c, p, 1, 1, 0)
    BY <2>4, LabelAdds
  <2>6. f.kind = "while" /\ f.cond = Open(value) /\ f.head = Top.head /\ f.body = p.labels
    OBVIOUS
  <2> HIDE DEF p, f
  <2>7. Running(p) => p.labels = c.labels + 1 /\ c.labels \in Nat
    BY <2>5, AddsLength
  <2>8. LabelAt(p, f.body)
    BY <2>6, <2>7 DEF LabelAt
  <2>9. Extends(parser, p)
    BY <2>3, <2>5, AddsChain
  <2>10. LabelAt(p, f.head) /\ CondAt(p, f.cond)
    BY <2>2, <2>6, <2>9, ExtendsKeeps, CondOfTree
  <2>11. Held(p, f) /\ f.kind # "else"
    BY <2>6, <2>8, <2>10 DEF Held
  <2>12. HeldStack(p, Append(Popped, f))
    BY <1>1, <2>1, <2>9, <2>11, StacksHeld
  <2> QED
    BY <2>1, <2>9, <2>12, RightOnward
<1> QED
  BY <1>2, <1>3

(* The jumps of a list there is go to a label there is.                    *)
LEMMA PatchExtends ==
    ASSUME NEW b, NEW p, Extends(b, p), NEW l, ListAt(b, l), NEW label, LabelAt(b, label)
    PROVE  Extends(b, PatchAll(p, l, label))
<1>1. ListAt(p, l) /\ LabelAt(p, label)
  BY ExtendsKeeps
<1> QED
  BY <1>1, CodeExtends

(* A while ends: the jump back, the label after it and the open jumps.     *)
LEMMA EndWhileRight ==
    ASSUME Safe, Holding, EndWhile
    PROVE  StillRight
<1>1. /\ Well(parser) /\ HeldStack(parser, Popped) /\ mode = "back" /\ Top.kind = "while"
      /\ Held(parser, Top) /\ BlockAt(parser, value) /\ Fits(Popped, "block")
  BY RightBefore DEF EndWhile, Resumes, At, BlockKinds, StatementsOfBlocks
<1>2. LabelAt(parser, Top.head) /\ LabelAt(parser, Top.body) /\ CondAt(parser, Top.cond)
  BY <1>1 DEF Held
<1>3. /\ ListAt(parser, Top.cond.true) /\ ListAt(parser, Top.cond.false)
      /\ ListAt(parser, value.break) /\ ListAt(parser, value.continue)
  BY <1>1, <1>2 DEF CondAt, BlockAt, ListAt
<1>4. "back" \in Ops /\ "label" \in Ops
  BY DEF Ops, Jumps
<1> DEFINE f == Top
           b == Emit(parser, "back")
           back == PatchOne(b, Newest(b), f.head)
           a == FreshLabel(back)
           e == Emit(a, "label")
           d == PatchOne(e, Newest(e), e.labels)
           end == Read(d, value)
           breaks == IF value.break = Null THEN end ELSE PatchAll(end, value.break, end.labels)
           continues == IF value.continue = Null THEN breaks ELSE PatchAll(breaks, value.continue, f.head)
           enters == PatchAll(continues, f.cond.true, f.body)
           r == PatchAll(enters, f.cond.false, end.labels)
<1>5. parser' = r /\ calls' = Popped /\ mode' = "back" /\ value' = EmptyBlock
  BY DEF EndWhile, Returns, Leaves
<1>6. Adds(parser, b, 1, 0, 0)
  BY <1>1, <1>4, OperationsAdd
<1> HIDE DEF b, f
<1>7. Running(b) => Len(b.code) = Len(parser.code) + 1 /\ Len(parser.code) \in Nat
  BY <1>6, AddsLength
<1>8. InstructionAt(b, Newest(b)) /\ LabelAt(b, f.head)
  <2>1. InstructionAt(b, Newest(b))
    BY <1>7 DEF InstructionAt, Newest
  <2>2. Extends(parser, b)
    BY <1>6 DEF Adds, Extends
  <2> QED
    BY <1>2, <2>1, <2>2, ExtendsKeeps DEF f
<1>9. Adds(parser, back, 1, 0, 0)
  BY <1>6, <1>8, CodeAdds
<1> HIDE DEF back
<1>10. Adds(parser, a, 1, 0 + 1, 0)
  BY <1>9, CodeAdds
<1> HIDE DEF a
<1>11. Adds(parser, e, 1 + 1, 0 + 1, 0)
  BY <1>4, <1>10, CodeAdds
<1> HIDE DEF e
<1>12. Running(e) => /\ Len(e.code) = Len(parser.code) + (1 + 1) /\ Len(parser.code) \in Nat
                     /\ e.labels = parser.labels + (0 + 1) /\ parser.labels \in Nat
  BY <1>11, AddsLength
<1>13. InstructionAt(e, Newest(e)) /\ LabelAt(e, e.labels)
  BY <1>12 DEF InstructionAt, LabelAt, Newest
<1>14. Adds(parser, d, 1 + 1, 0 + 1, 0)
  BY <1>11, <1>13, CodeAdds
<1> HIDE DEF d
<1>15. Adds(parser, end, 1 + 1, 0 + 1, 0)
  BY <1>14, CodeAdds
<1> HIDE DEF end
<1>16. Running(end) => end.labels = parser.labels + (0 + 1) /\ parser.labels \in Nat
  BY <1>15, AddsLength
<1>17. LabelAt(end, end.labels)
  BY <1>16 DEF LabelAt
<1>18. Extends(parser, end)
  BY <1>15 DEF Adds, Extends
<1>19. /\ ListAt(end, f.cond.true) /\ ListAt(end, f.cond.false) /\ ListAt(end, value.break)
       /\ ListAt(end, value.continue) /\ LabelAt(end, f.head) /\ LabelAt(end, f.body)
  <2> USE DEF f
  <2> QED
    BY <1>2, <1>3, <1>18, ExtendsKeeps
<1>20. Extends(end, end)
  BY <1>18, ExtendsKeeps, GoodChain DEF Extends
<1>21. Extends(end, breaks)
  BY <1>17, <1>19, <1>20, PatchExtends
<1> HIDE DEF breaks
<1>22. Extends(end, continues)
  BY <1>19, <1>21, PatchExtends
<1> HIDE DEF continues
<1>23. Extends(end, enters)
  BY <1>19, <1>22, PatchExtends
<1> HIDE DEF enters
<1>24. Extends(end, r)
  BY <1>17, <1>19, <1>23, PatchExtends
<1> HIDE DEF r
<1>25. Extends(parser, r)
  BY <1>18, <1>24, ExtendsKeeps
<1>26. BlockAt(r, EmptyBlock)
  BY PlainTrees
<1> QED
  BY <1>1, <1>5, <1>25, <1>26, RightBlock

(* The first and the second expression of a for were read.                 *)
LEMMA ForRight ==
    ASSUME Safe, Holding, ForCondition \/ ForStep
    PROVE  StillRight
<1>1. /\ Well(parser) /\ Extends(parser, parser) /\ HeldStack(parser, calls)
      /\ mode # "unit" => HeldStack(parser, Popped) /\ Held(parser, Top)
      /\ mode = "back" /\ Top.kind \in TreeKinds => TreeAt(parser, value)
  BY RightBefore
<1>2. "label" \in Ops
  BY DEF Ops
<1>3. Extends(parser, Semicolon(parser))
  BY <1>1, ClosingExtends
<1> DEFINE c == Semicolon(parser)
<1>4. Well(c)
  BY <1>3, ExtendsKeeps
<1>5. CASE ForCondition
  <2> DEFINE a == FreshLabel(c)
             p == EmitListed(a, "label")
             f == [kind |-> "for condition", starts |-> NewestList(p), head |-> p.labels]
  <2>1. /\ parser' = p /\ calls' = Append(Popped, f) \o Expressions /\ mode' = "operand"
        /\ mode = "back" /\ Top.kind = "for"
    BY <1>5 DEF ForCondition, Reads, Leaves, Resumes, At
  <2> HIDE DEF c
  <2>2. Adds(c, a, 0, 1, 0)
    BY <1>4, OperationsAdd
  <2> HIDE DEF a
  <2>3. Adds(c, p, 0 + 1, 1, 0 + 1)
    BY <1>2, <2>2, CodeAdds
  <2>4. f.kind = "for condition" /\ f.starts = NewestList(p) /\ f.head = p.labels
    OBVIOUS
  <2> HIDE DEF p, f
  <2>5. Running(p) => /\ p.labels = c.labels + 1 /\ c.labels \in Nat
                      /\ Len(p.lists) = Len(c.lists) + (0 + 1) /\ Len(c.lists) \in Nat
    BY <2>3, AddsLength
  <2>6. LabelAt(p, f.head) /\ ListAt(p, f.starts)
    <3>1. Running(p) => p.labels \in 1 .. p.labels /\ Len(p.lists) \in 1 .. Len(p.lists)
      BY <2>5
    <3>2. LabelAt(p, p.labels) /\ ListAt(p, NewestList(p))
      BY <3>1 DEF LabelAt, ListAt, IsListOf, NewestList
    <3> QED
      BY <2>4, <3>2
  <2>7. Extends(parser, p)
    BY <1>3, <2>3, AddsChain DEF c
  <2>8. Held(p, f) /\ f.kind # "else"
    BY <2>4, <2>6 DEF Held
  <2>9. HeldStack(p, Append(Popped, f) \o Expressions)
    BY <1>1, <2>1, <2>7, <2>8, StacksHeld
  <2> QED
    BY <2>1, <2>7, <2>9, RightOnward
<1>6. CASE ForStep
  <2> DEFINE a == FreshLabel(c)
             b == FreshLabel(a)
             p == EmitListed(b, "label")
             h == MakeHead(p)
             f == [kind |-> "for step", starts |-> Top.starts, head |-> Top.head,
                   cond |-> Open(value), next |-> NewestList(parser),
                   enters |-> NewestList(p), body |-> p.labels - 1, at |-> p.tail]
  <2>1. /\ parser' = h /\ calls' = Append(Popped, f) \o Expressions /\ mode' = "operand"
        /\ mode = "back" /\ Top.kind = "for condition"
    BY <1>6 DEF ForStep, Reads, Leaves, Resumes, At
  <2> HIDE DEF c
  <2>2. TreeAt(parser, value) /\ LabelAt(parser, Top.head) /\ ListAt(parser, Top.starts)
    BY <1>1, <2>1 DEF Held, TreeKinds
  <2>3. Adds(c, a, 0, 1, 0)
    BY <1>4, OperationsAdd
  <2> HIDE DEF a
  <2>4. Adds(c, b, 0, 1 + 1, 0)
    BY <2>3, CodeAdds
  <2> HIDE DEF b
  <2>5. Adds(c, p, 0 + 1, 1 + 1, 0 + 1)
    BY <1>2, <2>4, CodeAdds
  <2>6. f.kind = "for step" /\ f.starts = Top.starts /\ f.head = Top.head /\ f.cond = Open(value)
    OBVIOUS
  <2>7. f.next = NewestList(parser) /\ f.enters = NewestList(p) /\ f.body = p.labels - 1 /\ f.at = p.tail
    OBVIOUS
  <2> HIDE DEF p, f
  <2>8. Running(p) => /\ p.labels = c.labels + (1 + 1) /\ c.labels \in Nat
                      /\ Len(p.lists) = Len(c.lists) + (0 + 1) /\ Len(c.lists) \in Nat
    BY <2>5, AddsLength
  <2>9. Running(p) => p.labels = c.labels + 2 /\ c.labels \in Nat
    BY <2>8
  <2>10. LabelAt(p, f.body) /\ ListAt(p, f.enters)
    BY <2>7, <2>8, <2>9 DEF LabelAt, ListAt, IsListOf, NewestList
  <2>11. Extends(parser, p)
    <3>1. Extends(parser, c) /\ Extends(c, p)
      BY <1>3, <2>5 DEF c, Adds, Extends
    <3> QED
      BY <3>1, ExtendsKeeps
  <2>12. Well(p) /\ PlaceAt(p, f.at)
    BY <2>7, <2>11, ExtendsKeeps, NewNumbers
  <2>13. Adds(p, h, 1, 0, 0)
    BY <2>12, OperationsAdd
  <2> HIDE DEF h
  <2>14. Extends(p, h) /\ Extends(parser, h)
    BY <2>11, <2>13, AddsChain DEF Adds, Extends
  <2>15. LabelAt(h, f.body) /\ ListAt(h, f.enters) /\ PlaceAt(h, f.at)
    BY <2>10, <2>12, <2>14, ExtendsKeeps
  <2>16. ListAt(parser, f.next)
    <3>1. Len(parser.lists) \in Nat
      BY <1>1 DEF Well, Coded
    <3> QED
      BY <2>7, <3>1 DEF ListAt, IsListOf, NewestList, Null
  <2>17. CondAt(parser, f.cond) /\ LabelAt(parser, f.head) /\ ListAt(parser, f.starts)
    BY <2>2, <2>6, CondOfTree
  <2>18. CondAt(h, f.cond) /\ LabelAt(h, f.head) /\ ListAt(h, f.starts) /\ ListAt(h, f.next)
    BY <2>14, <2>16, <2>17, ExtendsKeeps
  <2>19. Held(h, f) /\ f.kind # "else"
    BY <2>6, <2>15, <2>18 DEF Held
  <2>20. HeldStack(h, Append(Popped, f) \o Expressions)
    BY <1>1, <2>1, <2>14, <2>19, StacksHeld
  <2> QED
    BY <2>1, <2>14, <2>20, RightOnward
<1> QED
  BY <1>5, <1>6

(* The body of a for begins.                                               *)
LEMMA ForBodyRight ==
    ASSUME Safe, Holding, ForBody
    PROVE  StillRight
<1>1. /\ Well(parser) /\ Extends(parser, parser) /\ HeldStack(parser, Popped)
      /\ mode = "back" /\ Top.kind = "for step"
      /\ Held(parser, Top) /\ TreeAt(parser, value)
  BY RightBefore DEF ForBody, Resumes, At, TreeKinds
<1> DEFINE c == CloseCondition(parser)
           n == Needed(c, value)
           g == EmitListed(n, "back")
           back == PatchAll(g, NewestList(parser) + 1, Top.head)
           start == StartOf(back, value.begin)
           p == IF Running(start.p) THEN [start.p EXCEPT !.tail = Top.at] ELSE start.p
           f == [kind |-> "for body", starts |-> Top.starts, head |-> Top.head, cond |-> Top.cond,
                 next |-> Top.next, enters |-> Top.enters, body |-> Top.body, at |-> Top.at,
                 step |-> start.first]
<1>2. parser' = p /\ calls' = Append(Popped, f) /\ mode' = "statement"
  BY DEF ForBody, Begins, Leaves
<1>3. /\ LabelAt(parser, Top.head) /\ LabelAt(parser, Top.body) /\ CondAt(parser, Top.cond)
      /\ ListAt(parser, Top.starts) /\ ListAt(parser, Top.next) /\ ListAt(parser, Top.enters)
      /\ PlaceAt(parser, Top.at)
  BY <1>1 DEF Held
<1>4. "back" \in Ops
  BY DEF Ops, Jumps
<1>5. Extends(parser, c)
  BY <1>1, ClosingExtends
<1> HIDE DEF c
<1>6. Extends(parser, n)
  BY <1>5, CodeExtends
<1> HIDE DEF n
<1>7. Well(n)
  BY <1>6, ExtendsKeeps
<1>8. Adds(n, n, 0, 0, 0)
  BY <1>7, OperationsAdd
<1>9. Adds(n, g, 0 + 1, 0, 0 + 1)
  BY <1>4, <1>8, CodeAdds
<1>10. Extends(parser, g)
  BY <1>4, <1>6, CodeExtends
<1> HIDE DEF g
<1>11. Running(g) => /\ Len(g.lists) = Len(n.lists) + (0 + 1) /\ Len(n.lists) \in Nat
                     /\ Running(n)
  BY <1>9, AddsLength
<1>12. Len(parser.lists) \in Nat /\ (Running(n) => Len(parser.lists) <= Len(n.lists))
  BY <1>6 DEF Extends, Good, GoodBut, Well, Coded
<1>13. Running(g) => Len(parser.lists) + 1 \in 1 .. Len(g.lists)
  BY <1>11, <1>12
<1>14. ListAt(g, NewestList(parser) + 1) /\ LabelAt(g, Top.head)
  <2>1. ListAt(g, NewestList(parser) + 1)
    BY <1>13 DEF ListAt, IsListOf, NewestList
  <2> QED
    BY <1>3, <1>10, <2>1, ExtendsKeeps
<1>15. Extends(parser, back)
  BY <1>10, <1>14, CodeExtends
<1> HIDE DEF back
<1>16. TreeAt(back, value) /\ Well(back)
  BY <1>1, <1>15, ExtendsKeeps
<1>17. start.p = Follow(back, value.begin) /\ (Running(back) => start.first \in 0 .. Len(back.code))
  <2>1. CASE Running(back)
    <3>1. value.begin \in {Unset} \cup 0 .. Len(back.code)
      BY <1>16, <2>1 DEF TreeAt
    <3> QED
      BY <1>16, <3>1, StartWithin
  <2>2. CASE ~Running(back)
    BY <2>2 DEF StartOf
  <2> QED
    BY <2>1, <2>2
<1>18. PlaceAt(back, start.first)
  BY <1>17 DEF PlaceAt
<1> HIDE DEF start
<1>19. Extends(parser, start.p) /\ Extends(back, start.p)
  <2>1. Extends(back, back)
    BY <1>15, ExtendsKeeps, GoodChain DEF Extends
  <2> QED
    BY <1>15, <1>17, <2>1, CodeExtends
<1>20. Extends(start.p, p)
  <2>1. Well(start.p) /\ PlaceAt(start.p, Top.at)
    BY <1>3, <1>19, ExtendsKeeps
  <2>2. CASE Running(start.p)
    <3>1. Top.at \in 0 .. Len(start.p.code)
      BY <2>1, <2>2 DEF PlaceAt
    <3>2. Good(start.p, [start.p EXCEPT !.tail = Top.at])
      BY <2>1, <2>2, <3>1, TailGood
    <3> QED
      BY <2>1, <2>2, <3>2 DEF Extends
  <2>3. CASE ~Running(start.p)
    <3>1. p = start.p
      BY <2>3
    <3> HIDE DEF p
    <3> QED
      BY <2>1, <3>1, GoodChain DEF Extends
  <2> QED
    BY <2>2, <2>3
<1>21. /\ f.kind = "for body" /\ f.starts = Top.starts /\ f.head = Top.head /\ f.cond = Top.cond
       /\ f.next = Top.next
  OBVIOUS
<1>22. f.enters = Top.enters /\ f.body = Top.body /\ f.at = Top.at /\ f.step = start.first
  OBVIOUS
<1> HIDE DEF p, f
<1>23. Extends(parser, p) /\ Extends(back, p)
  BY <1>19, <1>20, ExtendsKeeps
<1>24. PlaceAt(p, f.step)
  BY <1>18, <1>22, <1>23, ExtendsKeeps
<1>25. LabelAt(p, f.head) /\ LabelAt(p, f.body) /\ CondAt(p, f.cond)
  BY <1>3, <1>21, <1>22, <1>23, ExtendsKeeps
<1>26. ListAt(p, f.starts) /\ ListAt(p, f.next) /\ ListAt(p, f.enters) /\ PlaceAt(p, f.at)
  BY <1>3, <1>21, <1>22, <1>23, ExtendsKeeps
<1>27. Held(p, f) /\ f.kind # "else"
  BY <1>21, <1>24, <1>25, <1>26 DEF Held
<1>28. HeldStack(p, Append(Popped, f))
  BY <1>1, <1>23, <1>27, StacksHeld
<1> QED
  BY <1>2, <1>23, <1>28, RightOnward

(* A for ends: its third expression is linked in, the label after it comes *)
(* and the open jumps go where they go.                                    *)
LEMMA EndForRight ==
    ASSUME Safe, Holding, EndFor
    PROVE  StillRight
<1>1. /\ Well(parser) /\ Extends(parser, parser) /\ HeldStack(parser, Popped)
      /\ mode = "back" /\ Top.kind = "for body"
      /\ Held(parser, Top) /\ Sound(Top) /\ Fits(Popped, "block")
  BY RightBefore DEF EndFor, Resumes, At, StatementsOfBlocks
<1>2. HasFor
  BY <1>1 DEF Sound, ForKinds
<1> DEFINE f == Top
           e == EmitListed(parser, "label")
           q == FreshLabel(e)
           k == LinkChain(q, f.step, f.at)
           linked == ToEnd(k)
           a == FreshLabel(linked)
           r == EmitListed(a, "label")
           p1 == PatchAll(r, f.cond.true, f.head)
           merged == Merge(p1, f.next, f.cond.true)
           p2 == PatchAll(merged, NewestList(r), r.labels)
           ends == PatchAll(p2, f.enters, f.body)
           p3 == PatchAll(ends, f.next, f.head)
           backs == PatchAll(p3, NewestList(q), q.labels)
           p4 == PatchAll(backs, f.cond.false, r.labels)
           exits == PatchAll(p4, f.cond.true, f.body)
           p == PatchAll(exits, f.starts, f.head)
           block == [EmptyBlock EXCEPT !.next = f.next]
<1>3. parser' = p /\ calls' = Popped /\ mode' = "back" /\ value' = block
  BY DEF EndFor, Returns, Leaves
<1>4. /\ LabelAt(parser, f.head) /\ LabelAt(parser, f.body) /\ CondAt(parser, f.cond)
      /\ ListAt(parser, f.starts) /\ ListAt(parser, f.next) /\ ListAt(parser, f.enters)
      /\ PlaceAt(parser, f.at) /\ PlaceAt(parser, f.step)
  BY <1>1 DEF Held
<1>5. ListAt(parser, f.cond.true) /\ ListAt(parser, f.cond.false)
  BY <1>4 DEF CondAt, ListAt
<1>6. BlockAt(parser, block)
  BY <1>4, BlockChanged, PlainTrees
<1>7. "label" \in Ops
  BY DEF Ops
<1> HIDE DEF f, block
<1>8. Adds(parser, parser, 0, 0, 0)
  BY <1>1, OperationsAdd
<1>9. Adds(parser, e, 0 + 1, 0, 0 + 1) /\ (Running(e) => e.tail = Newest(parser) + 1)
  <2>1. Adds(parser, e, 0 + 1, 0, 0 + 1)
    BY <1>7, <1>8, CodeAdds
  <2> DEFINE d == Emit(parser, "label")
  <2>2. Adds(parser, d, 1, 0, 0) /\ (Running(d) => d.tail = Newest(parser) + 1)
    BY <1>1, <1>7, OperationsAdd
  <2>3. e = IF Running(d) THEN [d EXCEPT !.lists = Append(@, <<Newest(parser) + 1>>)] ELSE d
    BY DEF EmitListed, MakeList
  <2>4. DOMAIN d = Fields
    BY <2>2, AddsLength DEF IsParser
  <2> HIDE DEF d, e
  <2>5. CASE Running(d)
    <3> DEFINE x == Append(d.lists, <<Newest(parser) + 1>>)
    <3>1. e = [d EXCEPT !.lists = x]
      BY <2>3, <2>5
    <3> HIDE DEF x
    <3>2. e.tail = d.tail
      BY <2>4, <3>1 DEF Fields
    <3> QED
      BY <2>1, <2>2, <2>5, <3>2
  <2>6. CASE ~Running(d)
    BY <2>1, <2>3, <2>6
  <2> QED
    BY <2>5, <2>6
<1> HIDE DEF e
<1>10. Adds(parser, q, 0 + 1, 0 + 1, 0 + 1)
  BY <1>9, CodeAdds
<1>11. Running(q) => q.tail = e.tail /\ Running(e)
  <2>1. DOMAIN e = Fields
    BY <1>9, AddsLength DEF IsParser
  <2>2. CASE Running(e)
    <3> DEFINE x == e.labels + 1
    <3>1. q = [e EXCEPT !.labels = x]
      BY <2>2 DEF FreshLabel
    <3> HIDE DEF x, q
    <3>2. q.tail = e.tail
      BY <2>1, <3>1 DEF Fields
    <3> QED
      BY <2>2, <3>2
  <2>3. CASE ~Running(e)
    BY <2>3 DEF FreshLabel
  <2> QED
    BY <2>2, <2>3
<1> HIDE DEF q
<1>12. Running(q) => /\ Len(q.code) = Len(parser.code) + (0 + 1) /\ Len(parser.code) \in Nat
                     /\ q.labels = parser.labels + (0 + 1) /\ parser.labels \in Nat
                     /\ Len(q.lists) = Len(parser.lists) + (0 + 1) /\ Len(parser.lists) \in Nat
  BY <1>10, AddsLength
<1>13. InstructionAt(q, q.tail)
  BY <1>9, <1>11, <1>12 DEF InstructionAt, Newest
<1>14. Running(q) => q.labels \in 1 .. q.labels /\ Len(q.lists) \in 1 .. Len(q.lists)
  BY <1>12
<1>15. LabelAt(q, q.labels) /\ ListAt(q, NewestList(q))
  BY <1>14 DEF LabelAt, ListAt, IsListOf, NewestList
<1>16. Extends(parser, q) /\ Well(q)
  BY <1>10, AddsLength DEF Adds, Extends
<1>17. PlaceAt(q, f.at) /\ PlaceAt(q, f.step)
  BY <1>4, <1>16, ExtendsKeeps
<1>18. Adds(q, k, 0, 0, 0) /\ InstructionAt(k, k.tail)
  BY <1>2, <1>13, <1>16, <1>17, LinkAdds
<1> HIDE DEF k
<1>19. Well(k)
  BY <1>18, AddsLength
<1>20. Adds(k, linked, 0, 0, 0)
  BY <1>18, <1>19, EndAdds
<1> HIDE DEF linked
<1>21. Extends(q, k) /\ Extends(k, linked)
  BY <1>18, <1>20 DEF Adds, Extends
<1>22. Extends(q, linked) /\ Well(linked)
  BY <1>21, ExtendsKeeps
<1>23. Adds(linked, a, 0, 1, 0)
  BY <1>22, OperationsAdd
<1> HIDE DEF a
<1>24. Adds(linked, r, 0 + 1, 1, 0 + 1)
  BY <1>7, <1>23, CodeAdds
<1> HIDE DEF r
<1>25. Running(r) => /\ r.labels = linked.labels + 1 /\ linked.labels \in Nat
                     /\ Len(r.lists) = Len(linked.lists) + (0 + 1) /\ Len(linked.lists) \in Nat
  BY <1>24, AddsLength
<1>26. Running(r) => r.labels \in 1 .. r.labels /\ Len(r.lists) \in 1 .. Len(r.lists)
  BY <1>25
<1>27. LabelAt(r, r.labels) /\ ListAt(r, NewestList(r))
  BY <1>26 DEF LabelAt, ListAt, IsListOf, NewestList
<1>28. Extends(linked, r)
  BY <1>24 DEF Adds, Extends
<1>29. Extends(q, r)
  BY <1>22, <1>28, ExtendsKeeps
<1>30. Extends(parser, r)
  BY <1>16, <1>29, ExtendsKeeps
<1>31. LabelAt(r, q.labels) /\ ListAt(r, NewestList(q))
  BY <1>15, <1>29, ExtendsKeeps
<1>32. /\ LabelAt(r, f.head) /\ LabelAt(r, f.body) /\ ListAt(r, f.starts) /\ ListAt(r, f.next)
       /\ ListAt(r, f.enters) /\ ListAt(r, f.cond.true) /\ ListAt(r, f.cond.false)
  BY <1>4, <1>5, <1>30, ExtendsKeeps
<1>33. Extends(r, r)
  BY <1>28, ExtendsKeeps, GoodChain DEF Extends
<1>34. Extends(r, p1)
  BY <1>32, <1>33, PatchExtends
<1> HIDE DEF p1
<1>35. ListAt(p1, f.next) /\ ListAt(p1, f.cond.true)
  BY <1>32, <1>34, ExtendsKeeps
<1>36. Extends(r, merged)
  BY <1>34, <1>35, CodeExtends
<1> HIDE DEF merged
<1>37. Extends(r, p2)
  BY <1>27, <1>36, PatchExtends
<1> HIDE DEF p2
<1>38. Extends(r, ends)
  BY <1>32, <1>37, PatchExtends
<1> HIDE DEF ends
<1>39. Extends(r, p3)
  BY <1>32, <1>38, PatchExtends
<1> HIDE DEF p3
<1>40. Extends(r, backs)
  BY <1>31, <1>39, PatchExtends
<1> HIDE DEF backs
<1>41. Extends(r, p4)
  BY <1>27, <1>32, <1>40, PatchExtends
<1> HIDE DEF p4
<1>42. Extends(r, exits)
  BY <1>32, <1>41, PatchExtends
<1> HIDE DEF exits
<1>43. Extends(r, p)
  BY <1>32, <1>42, PatchExtends
<1> HIDE DEF p
<1>44. Extends(parser, p)
  BY <1>30, <1>43, ExtendsKeeps
<1>45. BlockAt(p, block)
  BY <1>6, <1>44, ExtendsKeeps
<1> QED
  BY <1>1, <1>3, <1>44, <1>45, RightBlock

(* Every step leaves the instructions well linked and what is held there.  *)
LEMMA StepRight ==
    ASSUME Safe, Holding, [Next]_vars
    PROVE  StillRight
<1>1. CASE Expression
  BY <1>1, OperandRight, OperatorRight, CallRight DEF Expression
<1>2. CASE Declarators
  BY <1>2, DeclaratorRight, DeclaringRight, FoundRight DEF Declarators
<1>3. CASE Statements
  BY <1>3, CalmRight, SimpleRight, BlockRight, IfRight, ElseRight, EndElseRight, WhileRight, EndWhileRight,
     ForRight, ForBodyRight, EndForRight DEF Statements
<1>4. CASE UNCHANGED vars
  BY <1>4 DEF vars, Holding, StillRight
<1> QED
  BY <1>1, <1>2, <1>3, <1>4 DEF Next

(* The text is the same all along, and so is what is said of it.           *)
LEMMA HoldingAfter ==
    ASSUME parser'.text = parser.text, StillRight
    PROVE  Holding'
<1>1. HasFor' <=> HasFor
  BY DEF HasFor
<1>2. Well(parser') /\ HeldStack(parser', calls')
  BY DEF StillRight, Right
<1>3. Well(parser)'
  BY <1>1, <1>2 DEF Well
<1>4. ASSUME NEW f, Held(parser', f) PROVE Held(parser, f)'
  BY <1>1, <1>4 DEF Held
<1>5. HeldStack(parser, calls)'
  BY <1>2, <1>4 DEF HeldStack
<1> QED
  BY <1>3, <1>5 DEF Holding, StillRight, Right

(* Before the first token there is no instruction and nothing is held.     *)
LEMMA HoldingInit ==
    ASSUME Init
    PROVE  Holding
<1>1. /\ parser.code = <<>> /\ parser.lists = <<>> /\ parser.tail = Null /\ parser.labels = 0
      /\ parser.stop = "no" /\ calls = <<>> /\ mode = "unit"
  BY DEF Init
<1>2. IsParser(parser) /\ Stacked(calls) /\ IsStack(calls)
  BY SafeInit, Entering DEF Safe, TokenWaits
<1>3. Coded(parser) /\ Linked(parser)
  BY <1>1 DEF Coded, Linked, Reasons, Null
<1>4. Frames(calls) = {} /\ Apart(calls)
  BY <1>1 DEF Frames, Apart
<1>5. Well(parser) /\ HeldStack(parser, calls)
  BY <1>2, <1>3, <1>4 DEF Well, HeldStack
<1> QED
  BY <1>1, <1>5 DEF Holding, Right

(* So the instructions and what is held stay right, as the waiting        *)
(* functions and the tokens do.                                            *)
LEMMA HoldingStep ==
    ASSUME Safe, Holding, [Next]_vars
    PROVE  Holding'
<1>1. parser'.text = parser.text
  BY SafeStep DEF ComesFrom
<1> QED
  BY <1>1, StepRight, HoldingAfter

(* What a waiting function names are lists that were made.                 *)
LEMMA FrameListed ==
    ASSUME NEW f, Held(parser, f), Running(parser), NEW l \in FrameLists(f)
    PROVE  IsListOf(parser, l)
<1>1. CASE f.kind \in {"right", "assign"}
  BY <1>1 DEF FrameLists, TreeLists, Held, TreeAt
<1>2. CASE f.kind = "index"
  BY <1>2 DEF FrameLists, TreeLists, Held, TreeAt
<1>3. CASE f.kind = "argument"
  BY <1>3 DEF FrameLists, TreeLists, Held, TreeAt
<1>4. CASE f.kind = "listed"
  BY <1>4 DEF FrameLists, TreeLists, Held, TreeAt
<1>5. CASE f.kind = "block"
  BY <1>5 DEF FrameLists, BlockLists, Held, BlockAt
<1>6. CASE f.kind \in {"if", "else"}
  <2>1. FrameLists(f) = TreeLists(f.cond) \cup BlockLists(f.ret)
    BY <1>6 DEF FrameLists
  <2>2. CondAt(parser, f.cond) /\ BlockAt(parser, f.ret)
    BY <1>6 DEF Held
  <2> QED
    BY <2>1, <2>2 DEF TreeLists, BlockLists, CondAt, BlockAt
<1>7. CASE f.kind = "while"
  BY <1>7 DEF FrameLists, TreeLists, Held, CondAt
<1>8. CASE f.kind = "for condition"
  BY <1>8 DEF FrameLists, Held, ListAt
<1>9. CASE f.kind \in {"for step", "for body"}
  <2>1. FrameLists(f) = TreeLists(f.cond) \cup {f.next, f.starts, f.enters}
    BY <1>9 DEF FrameLists
  <2>2. CondAt(parser, f.cond) /\ ListAt(parser, f.next) /\ ListAt(parser, f.starts) /\ ListAt(parser, f.enters)
    BY <1>9 DEF Held
  <2> QED
    BY <2>1, <2>2 DEF TreeLists, CondAt, ListAt
<1>10. CASE f.kind \notin {"right", "assign", "index", "argument", "listed", "block", "if", "else", "while",
                          "for condition", "for step", "for body"}
  BY <1>10 DEF FrameLists
<1> QED
  BY <1>1, <1>2, <1>3, <1>4, <1>5, <1>6, <1>7, <1>8, <1>9, <1>10

(* So are those the waiting functions and the value name together.         *)
LEMMA HeldListed ==
    ASSUME Safe, Holding, Running(parser), NEW l \in AllHeld
    PROVE  IsList(l)
<1>1. Well(parser) /\ HeldStack(parser, calls)
  BY DEF Holding, Right
<1>2. DOMAIN parser.lists = 1 .. Len(parser.lists)
  BY <1>1 DEF Well, Coded
<1>3. CASE l \in UNION {FrameLists(calls[d]) : d \in DOMAIN calls}
  <2>1. PICK d \in DOMAIN calls : l \in FrameLists(calls[d])
    BY <1>3
  <2>2. DOMAIN calls = 1 .. Len(calls)
    BY <1>1 DEF HeldStack, IsStack
  <2>3. calls[d] \in Frames(calls)
    BY <2>1, <2>2 DEF Frames
  <2>4. Held(parser, calls[d])
    BY <1>1, <2>3 DEF HeldStack
  <2> QED
    BY <1>2, <2>1, <2>4, FrameListed DEF IsList, IsListOf
<1>4. CASE l \in ValueLists
  <2>1. CASE HasTree
    <3>1. TreeAt(parser, value)
      BY <2>1, RightBefore DEF HasTree
    <3>2. l \in {value.true, value.false}
      BY <1>4, <2>1 DEF ValueLists, TreeLists
    <3> QED
      BY <1>2, <3>1, <3>2 DEF TreeAt, IsList, IsListOf
  <2>2. CASE ~HasTree /\ HasBlock
    <3>1. BlockAt(parser, value)
      BY <2>2, RightBefore DEF HasBlock
    <3>2. l \in {value.next, value.break, value.continue}
      BY <1>4, <2>2 DEF ValueLists, BlockLists
    <3> QED
      BY <1>2, <3>1, <3>2 DEF BlockAt, IsList, IsListOf
  <2>3. CASE ~HasTree /\ ~HasBlock
    BY <1>4, <2>3 DEF ValueLists
  <2> QED
    BY <2>1, <2>2, <2>3
<1> QED
  <2> DEFINE held == UNION {FrameLists(calls[d]) : d \in DOMAIN calls}
  <2>1. AllHeld = held \cup ValueLists
    BY DEF AllHeld
  <2>2. l \in held => IsList(l)
    BY <1>3
  <2> HIDE DEF held
  <2> QED
    BY <1>4, <2>1, <2>2

(* What is well made has its type.                                         *)
LEMMA TypedWell ==
    ASSUME Safe, Holding
    PROVE  TypeOK
<1>1. Typed(parser) /\ mode \in Modes
  BY DEF Safe, TokenWaits, Situated, Situation
<1>2. parser.lexed \in 1 .. Len(parser.text) /\ {parser.cur, parser.pre, parser.prepre} \subseteq 0 .. parser.lexed
  BY <1>1 DEF Typed
<1>3. Coded(parser)
  BY DEF Holding, Right, Well
<1> DEFINE n == Len(parser.code)
<1>4. /\ n \in Nat /\ DOMAIN code = 1 .. n /\ DOMAIN parser.lists = 1 .. Len(parser.lists)
      /\ \A i \in DOMAIN code : code[i] \in InstructionsOf(n, parser.labels)
      /\ \A l \in DOMAIN parser.lists : parser.lists[l] \in Seq(1 .. n)
  BY <1>3 DEF Coded, code
<1>5. parser.stop \in Reasons /\ parser.tail \in 0 .. n
  BY <1>3 DEF Coded
<1> HIDE DEF n
<1>6. parser.stop \in {"no", "fatal", "assert", "pushback", "undefined", "beyond", "thrown"}
  BY <1>5 DEF Reasons
<1>7. 0 .. n = {Null} \cup DOMAIN code
  BY <1>4 DEF Null
<1>8. ASSUME NEW i \in DOMAIN code
      PROVE  /\ code[i].op \in Ops
             /\ code[i].dest \in {Unset} \cup 1 .. parser.labels
             /\ {code[i].next, code[i].pre} \subseteq {Null} \cup DOMAIN code
  <2>1. code[i] \in InstructionsOf(n, parser.labels)
    BY <1>4
  <2> QED
    BY <1>7, <2>1 DEF InstructionsOf
<1>9. ASSUME NEW l \in DOMAIN parser.lists, NEW k \in DOMAIN parser.lists[l]
      PROVE  parser.lists[l][k] \in DOMAIN code
  <2>1. parser.lists[l] \in Seq(1 .. n)
    BY <1>4
  <2> QED
    BY <1>4, <2>1
<1>10. Running(parser) => \A l \in AllHeld : IsList(l)
  BY HeldListed
<1> QED
  BY <1>1, <1>2, <1>5, <1>6, <1>7, <1>8, <1>9, <1>10 DEF TypeOK

(* For every text tokens, instructions, labels and lists are those there   *)
(* are, while the parser runs and after it stopped; what a waiting function*)
(* or a value names is a list that was made, or none: no list of another   *)
(* statement, no list that a merge left behind half made.                  *)
THEOREM TypeCorrect == Spec => []TypeOK
<1>1. Init => Safe /\ Holding
  BY SafeInit, HoldingInit
<1>2. Safe /\ Holding /\ [Next]_vars => (Safe /\ Holding)'
  BY SafeStep, HoldingStep
<1>3. Safe /\ Holding => TypeOK
  BY TypedWell
<1> QED
  BY <1>1, <1>2, <1>3, PTL DEF Spec

(* The instructions are a doubly linked list after every step of every     *)
(* function of the parser, in every text without a for: the jump over an   *)
(* else part, which is made long before it is linked in, is linked in once *)
(* and takes no instruction out of the chain.                              *)
THEOREM ChainCorrect == Spec => []ChainLinked
<1>1. Init => Safe /\ Holding
  BY SafeInit, HoldingInit
<1>2. Safe /\ Holding /\ [Next]_vars => (Safe /\ Holding)'
  BY SafeStep, HoldingStep
<1>3. Safe /\ Holding => ChainLinked
  <2> SUFFICES ASSUME Holding PROVE ChainLinked
    OBVIOUS
  <2>1. Coded(parser) /\ (~HasFor => Linked(parser))
    BY DEF Holding, Right, Well
  <2>2. DOMAIN code = 1 .. Len(code)
    BY <2>1 DEF Coded, code
  <2> QED
    BY <2>1, <2>2 DEF Linked, ChainLinked, code
<1> QED
  BY <1>1, <1>2, <1>3, PTL DEF Spec
=============================================================================
