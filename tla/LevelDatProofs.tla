--------------------------- MODULE LevelDatProofs ---------------------------
(***************************************************************************)
(* The codec of Nbt and the level.dat made of it, for every base, width of *)
(* a number and limit: what a game saves it gets back, a load is all or    *)
(* nothing, a file that a save was cut off in is refused, and what the     *)
(* reader makes of any bytes at all it can write and read again.           *)
(*                                                                         *)
(* Writer and reader recurse in the room below a tag, and the reader loops *)
(* over items and fields, so the first part has what a recursive function  *)
(* is from one number to the next.  On it rests the induction from the     *)
(* innermost tags outwards: a payload that was written, wherever it stands *)
(* in the bytes, is read back when its elements can be paid for            *)
(* (WriteReadBack), and what was read is a tag that can be written         *)
(* (ReadAccepts).  The rest is about the file: a header is right about the *)
(* payload it was written for (FramedOpens) and about no part of it        *)
(* (CutIsRefused), the root of a game is a tag that can be written and     *)
(* paid for (RootIsSound), so what was saved is what is loaded             *)
(* (SavedIsLoaded), and what is loaded is a game (LoadedIsGame), whose     *)
(* root can be written again.                                              *)
(***************************************************************************)
EXTENDS LevelDat, SequenceTheorems, FiniteSetTheorems, WellFoundedInduction, TLAPS

\* What every recursive function of Nbt does from one number to the next: v
\* is the value before, p what the function is given.
Step(loop, p, n, v) ==
    IF loop = "Power" THEN Base * v
    ELSE IF loop = "Within" THEN UNION {Range(Parts(t)) : t \in v}
    ELSE IF loop = "Payloads"
    THEN [t \in Within(p.tag)[MaxDepth + 1 - n] |-> WritePayload(t, p.endian, v)]
    ELSE IF loop = "Unsigned"
    THEN v + p.s[p.at + (IF p.endian = "Little" THEN n ELSE p.w + 1 - n)] * Power[n - 1]
    ELSE IF loop = "Items" THEN NextItem(v, p.type, p.inner)
    ELSE IF loop = "Fields" THEN NextField(p.s, v, p.endian, p.inner)
    ELSE IF loop = "Reads"
    THEN [q \in Nat \X Int \X (Types \cup {"End"}) |-> ReadPayload(p.s, q[1], q[2], q[3], p.endian, v)]
    ELSE IF loop = "Sum" THEN v + p[n]
    ELSE IF loop = "Costs" THEN [t \in Within(p)[MaxDepth + 1 - n] |-> Cost(t, v)]
    ELSE v \o p[n]

\* The function up to n.
UpTo(f, first, loop, p, n) ==
    /\ f = [i \in 0..n |-> f[i]]
    /\ f[0] = first
    /\ \A i \in 1..n : f[i] = Step(loop, p, i, f[i - 1])

LEMMA LeastNatural ==
    ASSUME NEW T, T \subseteq Nat, T # {}
    PROVE  \E m \in T : \A n \in T : m <= n
<1>1. PICK m \in T : \A n \in T : ~ (<<n, m>> \in OpToRel(<, Nat))
  BY NatLessThanWellFounded, WFMin
<1>2. ASSUME NEW n \in T PROVE m <= n
  <2>1. m \in Nat /\ n \in Nat
    OBVIOUS
  <2>2. ~ (n < m)
    BY <1>1, <2>1 DEF OpToRel
  <2> QED
    BY <2>1, <2>2
<1> QED
  BY <1>2

\* Induction, over a set: the numbers that something holds of.
LEMMA Induction ==
    ASSUME NEW S, 0 \in S, \A n \in Nat : n \in S => n + 1 \in S
    PROVE  \A n \in Nat : n \in S
<1> SUFFICES ASSUME Nat \ S # {} PROVE FALSE
  OBVIOUS
<1>1. PICK m \in Nat \ S : \A n \in Nat \ S : m <= n
  BY LeastNatural
<1>2. m # 0 /\ m \in Nat
  BY <1>1
<1>3. m - 1 \in Nat
  BY <1>2
<1>4. m - 1 \in S
  BY <1>1, <1>2, <1>3
<1>5. (m - 1) + 1 \in S
  BY <1>3, <1>4
<1> QED
  BY <1>1, <1>2, <1>5

LEMMA UpToExists ==
    ASSUME NEW first, NEW loop, NEW p
    PROVE  \A n \in Nat : \E f : UpTo(f, first, loop, p, n)
<1> DEFINE S == {n \in Nat : \E f : UpTo(f, first, loop, p, n)}
<1>1. 0 \in S
  <2>1. UpTo([i \in 0..0 |-> first], first, loop, p, 0)
    BY DEF UpTo
  <2> QED
    BY <2>1
<1>2. ASSUME NEW n \in Nat, n \in S PROVE n + 1 \in S
  <2>1. PICK f : UpTo(f, first, loop, p, n)
    BY <1>2
  <2> DEFINE g == [i \in 0..(n + 1) |-> IF i = n + 1 THEN Step(loop, p, n + 1, f[n]) ELSE f[i]]
  <2>2. g[0] = first
    <3>1. 0 \in 0..(n + 1) /\ 0 # n + 1 /\ f[0] = first
      BY <2>1 DEF UpTo
    <3> QED
      BY <3>1
  <2>3. ASSUME NEW i \in 1..(n + 1) PROVE g[i] = Step(loop, p, i, g[i - 1])
    <3>1. i - 1 \in 0..(n + 1) /\ i - 1 # n + 1 /\ i \in 0..(n + 1)
      OBVIOUS
    <3>2. g[i - 1] = f[i - 1]
      BY <3>1
    <3>3. CASE i = n + 1
      BY <3>2, <3>3
    <3>4. CASE i # n + 1
      <4>1. i \in 1..n
        BY <3>4
      <4>2. g[i] = f[i]
        BY <3>1, <3>4
      <4> QED
        BY <2>1, <3>2, <4>1, <4>2 DEF UpTo
    <3> QED
      BY <3>3, <3>4
  <2>4. g = [i \in 0..(n + 1) |-> g[i]]
    OBVIOUS
  <2> HIDE DEF g
  <2>5. UpTo(g, first, loop, p, n + 1)
    BY <2>2, <2>3, <2>4 DEF UpTo
  <2> QED
    BY <2>5
<1> HIDE DEF S
<1>3. \A n \in Nat : n \in S
  BY <1>1, <1>2, Induction
<1> QED
  BY <1>3 DEF S

LEMMA UpToUnique ==
    ASSUME NEW first, NEW loop, NEW p, NEW f, NEW g, NEW m \in Nat, NEW n \in Nat,
           UpTo(f, first, loop, p, m), UpTo(g, first, loop, p, n)
    PROVE  \A i \in Nat : i <= m /\ i <= n => f[i] = g[i]
<1> DEFINE S == {i \in Nat : i <= m /\ i <= n => f[i] = g[i]}
<1>1. 0 \in S
  BY DEF UpTo
<1>2. ASSUME NEW i \in Nat, i \in S PROVE i + 1 \in S
  <2> SUFFICES ASSUME i + 1 <= m, i + 1 <= n PROVE f[i + 1] = g[i + 1]
    OBVIOUS
  <2>1. i + 1 \in 1..m /\ i + 1 \in 1..n /\ (i + 1) - 1 = i
    OBVIOUS
  <2>2. f[i] = g[i]
    BY <1>2
  <2>3. f[i + 1] = Step(loop, p, i + 1, f[i]) /\ g[i + 1] = Step(loop, p, i + 1, g[i])
    BY <2>1 DEF UpTo
  <2> QED
    BY <2>2, <2>3
<1> HIDE DEF S
<1>3. \A i \in Nat : i \in S
  BY <1>1, <1>2, Induction
<1> QED
  BY <1>3 DEF S

\* The function altogether.
Loop(f, first, loop, p) ==
    /\ f = [n \in Nat |-> f[n]]
    /\ f[0] = first
    /\ \A n \in Nat \ {0} : f[n] = Step(loop, p, n, f[n - 1])

\* So every recursive function of Nbt is what its definition says.
LEMMA Recursion ==
    ASSUME NEW first, NEW loop, NEW p
    PROVE  \E f : Loop(f, first, loop, p)
<1> DEFINE F(n) == CHOOSE f : UpTo(f, first, loop, p, n)
           f == [n \in Nat |-> F(n)[n]]
<1>1. \A n \in Nat : UpTo(F(n), first, loop, p, n)
  BY UpToExists
<1> HIDE DEF F
<1>2. f[0] = first
  BY <1>1 DEF UpTo
<1>3. ASSUME NEW n \in Nat \ {0} PROVE f[n] = Step(loop, p, n, f[n - 1])
  <2>1. n - 1 \in Nat /\ n \in 1..n
    OBVIOUS
  <2>2. F(n)[n] = Step(loop, p, n, F(n)[n - 1])
    BY <1>1, <2>1 DEF UpTo
  <2>3. F(n)[n - 1] = F(n - 1)[n - 1]
    <3>1. UpTo(F(n), first, loop, p, n) /\ UpTo(F(n - 1), first, loop, p, n - 1)
      BY <1>1, <2>1
    <3>2. \A i \in Nat : i <= n /\ i <= n - 1 => F(n)[i] = F(n - 1)[i]
      BY <2>1, <3>1, UpToUnique
    <3> QED
      BY <2>1, <3>2
  <2> QED
    BY <2>1, <2>2, <2>3
<1>4. f = [n \in Nat |-> f[n]]
  OBVIOUS
<1> HIDE DEF f
<1>5. Loop(f, first, loop, p)
  BY <1>2, <1>3, <1>4 DEF Loop
<1> QED
  BY <1>5

\* The powers of the base.
LEMMA PowerDef ==
    /\ Power[0] = 1
    /\ \A w \in Nat \ {0} : Power[w] = Base * Power[w - 1]
<1> DEFINE Is(f) == f = [w \in Nat |-> IF w = 0 THEN 1 ELSE Base * f[w - 1]]
<1>1. PICK f : Loop(f, 1, "Power", 0)
  BY Recursion
<1>2. \A n, v : Step("Power", 0, n, v) = Base * v
  BY DEF Step
<1>3. \A n \in Nat : f[n] = IF n = 0 THEN 1 ELSE Base * f[n - 1]
  BY <1>1, <1>2 DEF Loop
<1>4. Is(f)
  BY <1>1, <1>3 DEF Loop
<1>5. Power = CHOOSE g : Is(g)
  BY DEF Power
<1> HIDE DEF Is
<1>6. Is(Power)
  BY <1>4, <1>5
<1> QED
  BY <1>6 DEF Is

LEMMA WithinDef ==
    ASSUME NEW tag
    PROVE  /\ Within(tag)[0] = {tag}
           /\ \A depth \in Nat \ {0} :
                 Within(tag)[depth] = UNION {Range(Parts(t)) : t \in Within(tag)[depth - 1]}
<1> DEFINE Is(f) == f = [depth \in Nat |-> IF depth = 0 THEN {tag}
                                        ELSE UNION {Range(Parts(t)) : t \in f[depth - 1]}]
<1>1. PICK f : Loop(f, {tag}, "Within", 0)
  BY Recursion
<1>2. \A n, v : Step("Within", 0, n, v) = UNION {Range(Parts(t)) : t \in v}
  BY DEF Step
<1>3. \A n \in Nat : f[n] = IF n = 0 THEN {tag} ELSE UNION {Range(Parts(t)) : t \in f[n - 1]}
  BY <1>1, <1>2 DEF Loop
<1>4. Is(f)
  BY <1>1, <1>3 DEF Loop
<1>5. Within(tag) = CHOOSE g : Is(g)
  BY DEF Within
<1> HIDE DEF Is
<1>6. Is(Within(tag))
  BY <1>4, <1>5
<1> QED
  BY <1>6 DEF Is
LEMMA PayloadsDef ==
    ASSUME NEW tag, NEW endian
    PROVE  /\ Payloads(tag, endian)[0] = <<>>
           /\ \A n \in Nat \ {0} :
                 Payloads(tag, endian)[n] = [t \in Within(tag)[MaxDepth + 1 - n]
                                                |-> WritePayload(t, endian, Payloads(tag, endian)[n - 1])]
<1> DEFINE Is(f) == f = [room \in Nat |-> IF room = 0 THEN <<>>
                                   ELSE [t \in Within(tag)[MaxDepth + 1 - room]
                                            |-> WritePayload(t, endian, f[room - 1])]]
<1>1. PICK f : Loop(f, <<>>, "Payloads", [tag |-> tag, endian |-> endian])
  BY Recursion
<1>2. \A n, v : Step("Payloads", [tag |-> tag, endian |-> endian], n, v)
          = [t \in Within(tag)[MaxDepth + 1 - n] |-> WritePayload(t, endian, v)]
  BY DEF Step
<1>3. ASSUME NEW room \in Nat
      PROVE  f[room] = IF room = 0 THEN <<>>
                       ELSE [t \in Within(tag)[MaxDepth + 1 - room] |-> WritePayload(t, endian, f[room - 1])]
  <2>1. room # 0 => f[room] = Step("Payloads", [tag |-> tag, endian |-> endian], room, f[room - 1])
    BY <1>1 DEF Loop
  <2>2. Step("Payloads", [tag |-> tag, endian |-> endian], room, f[room - 1])
            = [t \in Within(tag)[MaxDepth + 1 - room] |-> WritePayload(t, endian, f[room - 1])]
    BY <1>2
  <2> QED
    BY <1>1, <2>1, <2>2 DEF Loop
<1>4. Is(f)
  BY <1>1, <1>3 DEF Loop
<1>5. Payloads(tag, endian) = CHOOSE g : Is(g)
  BY DEF Payloads
<1> HIDE DEF Is
<1>6. Is(Payloads(tag, endian))
  BY <1>4, <1>5
<1> QED
  BY <1>6 DEF Is

LEMMA CostsDef ==
    ASSUME NEW tag
    PROVE  /\ Costs(tag)[0] = <<>>
           /\ \A n \in Nat \ {0} :
                 Costs(tag)[n] = [t \in Within(tag)[MaxDepth + 1 - n] |-> Cost(t, Costs(tag)[n - 1])]
<1> DEFINE Is(f) == f = [room \in Nat |-> IF room = 0 THEN <<>>
                                   ELSE [t \in Within(tag)[MaxDepth + 1 - room] |-> Cost(t, f[room - 1])]]
<1>1. PICK f : Loop(f, <<>>, "Costs", tag)
  BY Recursion
<1>2. \A n, v : Step("Costs", tag, n, v) = [t \in Within(tag)[MaxDepth + 1 - n] |-> Cost(t, v)]
  BY DEF Step
<1>3. ASSUME NEW room \in Nat
      PROVE  f[room] = IF room = 0 THEN <<>>
                       ELSE [t \in Within(tag)[MaxDepth + 1 - room] |-> Cost(t, f[room - 1])]
  <2>1. room # 0 => f[room] = Step("Costs", tag, room, f[room - 1])
    BY <1>1 DEF Loop
  <2>2. Step("Costs", tag, room, f[room - 1])
            = [t \in Within(tag)[MaxDepth + 1 - room] |-> Cost(t, f[room - 1])]
    BY <1>2
  <2> QED
    BY <1>1, <2>1, <2>2 DEF Loop
<1>4. Is(f)
  BY <1>1, <1>3 DEF Loop
<1>5. Costs(tag) = CHOOSE g : Is(g)
  BY DEF Costs
<1> HIDE DEF Is
<1>6. Is(Costs(tag))
  BY <1>4, <1>5
<1> QED
  BY <1>6 DEF Is

LEMMA ItemsDef ==
    ASSUME NEW at, NEW left, NEW type, NEW inner
    PROVE  /\ Items(at, left, type, inner)[0] = [ok |-> TRUE, items |-> <<>>, at |-> at, left |-> left]
           /\ \A n \in Nat \ {0} :
                 Items(at, left, type, inner)[n] = NextItem(Items(at, left, type, inner)[n - 1], type, inner)
<1> DEFINE Is(f) == f = [n \in Nat |-> IF n = 0 THEN [ok |-> TRUE, items |-> <<>>, at |-> at, left |-> left]
                                   ELSE NextItem(f[n - 1], type, inner)]
<1>1. PICK f : Loop(f, [ok |-> TRUE, items |-> <<>>, at |-> at, left |-> left],
          "Items", [type |-> type, inner |-> inner])
  BY Recursion
<1>2. \A n, v : Step("Items", [type |-> type, inner |-> inner], n, v) = NextItem(v, type, inner)
  BY DEF Step
<1>3. \A n \in Nat : f[n] = IF n = 0 THEN [ok |-> TRUE, items |-> <<>>, at |-> at, left |-> left]
                            ELSE NextItem(f[n - 1], type, inner)
  BY <1>1, <1>2 DEF Loop
<1>4. Is(f)
  BY <1>1, <1>3 DEF Loop
<1>5. Items(at, left, type, inner) = CHOOSE g : Is(g)
  BY DEF Items
<1> HIDE DEF Is
<1>6. Is(Items(at, left, type, inner))
  BY <1>4, <1>5
<1> QED
  BY <1>6 DEF Is

LEMMA FieldsDef ==
    ASSUME NEW s, NEW at, NEW left, NEW endian, NEW inner
    PROVE  /\ Fields(s, at, left, endian, inner)[0]
                  = [ok |-> TRUE, done |-> FALSE, fields |-> <<>>, at |-> at, left |-> left]
           /\ \A n \in Nat \ {0} :
                 Fields(s, at, left, endian, inner)[n]
                     = NextField(s, Fields(s, at, left, endian, inner)[n - 1], endian, inner)
<1> DEFINE Is(f) == f
    = [n \in Nat |-> IF n = 0 THEN [ok |-> TRUE, done |-> FALSE, fields |-> <<>>, at |-> at, left |-> left]
                                   ELSE NextField(s, f[n - 1], endian, inner)]
<1>1. PICK f : Loop(f, [ok |-> TRUE, done |-> FALSE, fields |-> <<>>, at |-> at, left |-> left],
          "Fields", [s |-> s, endian |-> endian, inner |-> inner])
  BY Recursion
<1>2. \A n, v : Step("Fields", [s |-> s, endian |-> endian, inner |-> inner], n, v)
          = NextField(s, v, endian, inner)
  BY DEF Step
<1>3. \A n \in Nat : f[n] = IF n = 0
          THEN [ok |-> TRUE, done |-> FALSE, fields |-> <<>>, at |-> at, left |-> left]
                            ELSE NextField(s, f[n - 1], endian, inner)
  BY <1>1, <1>2 DEF Loop
<1>4. Is(f)
  BY <1>1, <1>3 DEF Loop
<1>5. Fields(s, at, left, endian, inner) = CHOOSE g : Is(g)
  BY DEF Fields
<1> HIDE DEF Is
<1>6. Is(Fields(s, at, left, endian, inner))
  BY <1>4, <1>5
<1> QED
  BY <1>6 DEF Is

ReadsIs(s, endian) ==
    \A room \in Nat : \A at \in Nat, left \in Int, type \in Types \cup {"End"} :
        Reads(s, endian)[room][<<at, left, type>>] =
            IF room = 0 THEN Failed
            ELSE ReadPayload(s, at, left, type, endian, Reads(s, endian)[room - 1])

LEMMA ReadsDef ==
    ASSUME NEW s, NEW endian
    PROVE  ReadsIs(s, endian)
<1> DEFINE P == Nat \X Int \X (Types \cup {"End"})
           Is(f) == f = [room \in Nat |-> [p \in P |->
                            IF room = 0 THEN Failed
                            ELSE ReadPayload(s, p[1], p[2], p[3], endian, f[room - 1])]]
<1>1. PICK f : Loop(f, [p \in P |-> Failed], "Reads", [s |-> s, endian |-> endian])
  BY Recursion
<1>2. ASSUME NEW room \in Nat
      PROVE  f[room] = [p \in P |-> IF room = 0 THEN Failed
                                    ELSE ReadPayload(s, p[1], p[2], p[3], endian, f[room - 1])]
  <2>1. room # 0 => f[room] = Step("Reads", [s |-> s, endian |-> endian], room, f[room - 1])
    BY <1>1 DEF Loop
  <2>2. Step("Reads", [s |-> s, endian |-> endian], room, f[room - 1])
            = [q \in P |-> ReadPayload(s, q[1], q[2], q[3], endian, f[room - 1])]
    BY DEF Step
  <2> QED
    BY <1>1, <2>1, <2>2 DEF Loop
<1>3. Is(f)
  BY <1>1, <1>2 DEF Loop
<1>4. Reads(s, endian) = CHOOSE g : Is(g)
  BY DEF Reads
<1> HIDE DEF Is
<1>5. Is(Reads(s, endian))
  BY <1>3, <1>4
<1>6. ASSUME NEW room \in Nat, NEW at \in Nat, NEW left \in Int, NEW type \in Types \cup {"End"}
      PROVE  Reads(s, endian)[room][<<at, left, type>>] =
                  IF room = 0 THEN Failed
                  ELSE ReadPayload(s, at, left, type, endian, Reads(s, endian)[room - 1])
  <2> DEFINE q == <<at, left, type>>
  <2>1. q \in P /\ q[1] = at /\ q[2] = left /\ q[3] = type
    OBVIOUS
  <2>2. Reads(s, endian)[room] = [p \in P |-> IF room = 0 THEN Failed
               ELSE ReadPayload(s, p[1], p[2], p[3], endian, Reads(s, endian)[room - 1])]
    BY <1>5 DEF Is
  <2> HIDE DEF P
  <2> QED
    BY <2>1, <2>2
<1> QED
  BY <1>6 DEF ReadsIs

\* The number after i digits, the one of the least place first.
LEMMA UnsignedDef ==
    ASSUME NEW s, NEW at, NEW w, NEW endian
    PROVE  \E number : /\ number[0] = 0
                       /\ \A i \in Nat \ {0} : number[i] = number[i - 1]
                             + s[at + (IF endian = "Little" THEN i ELSE w + 1 - i)] * Power[i - 1]
                       /\ Unsigned(s, at, w, endian) = number[w]
<1> DEFINE Is(f) == f = [i \in Nat |-> IF i = 0 THEN 0 ELSE f[i - 1]
                             + s[at + (IF endian = "Little" THEN i ELSE w + 1 - i)] * Power[i - 1]]
           p == [s |-> s, at |-> at, w |-> w, endian |-> endian]
<1>1. PICK f : Loop(f, 0, "Unsigned", p)
  BY Recursion
<1>2. \A n, v : Step("Unsigned", p, n, v) =
                    v + s[at + (IF endian = "Little" THEN n ELSE w + 1 - n)] * Power[n - 1]
  BY DEF Step
<1>3. \A i \in Nat : f[i] = IF i = 0 THEN 0 ELSE f[i - 1]
                             + s[at + (IF endian = "Little" THEN i ELSE w + 1 - i)] * Power[i - 1]
  BY <1>1, <1>2 DEF Loop
<1>4. Is(f)
  BY <1>1, <1>3 DEF Loop
<1> DEFINE number == CHOOSE g : Is(g)
<1>5. Unsigned(s, at, w, endian) = number[w]
  BY DEF Unsigned
<1> HIDE DEF Is
<1>6. Is(number)
  BY <1>4
<1> HIDE DEF number
<1>7. \A i \in Nat : number[i] = IF i = 0 THEN 0 ELSE number[i - 1]
                             + s[at + (IF endian = "Little" THEN i ELSE w + 1 - i)] * Power[i - 1]
  BY <1>6 DEF Is
<1> QED
  BY <1>5, <1>7

LEMMA SumDef ==
    ASSUME NEW numbers
    PROVE  \E sum : /\ sum[0] = 0
                    /\ \A n \in Nat \ {0} : sum[n] = sum[n - 1] + numbers[n]
                    /\ Sum(numbers) = sum[Len(numbers)]
<1> DEFINE Is(f) == f = [n \in Nat |-> IF n = 0 THEN 0 ELSE f[n - 1] + numbers[n]]
<1>1. PICK f : Loop(f, 0, "Sum", numbers)
  BY Recursion
<1>2. \A n, v : Step("Sum", numbers, n, v) = v + numbers[n]
  BY DEF Step
<1>3. \A n \in Nat : f[n] = IF n = 0 THEN 0 ELSE f[n - 1] + numbers[n]
  BY <1>1, <1>2 DEF Loop
<1>4. Is(f)
  BY <1>1, <1>3 DEF Loop
<1> DEFINE sum == CHOOSE g : Is(g)
<1>5. Sum(numbers) = sum[Len(numbers)]
  BY DEF Sum
<1> HIDE DEF Is
<1>6. Is(sum)
  BY <1>4
<1> HIDE DEF sum
<1>7. \A n \in Nat : sum[n] = IF n = 0 THEN 0 ELSE sum[n - 1] + numbers[n]
  BY <1>6 DEF Is
<1> QED
  BY <1>5, <1>7

\* FlattenSeq, one part after the other.
Flat(parts) == CHOOSE f : Loop(f, <<>>, "FlattenSeq", parts)
Cat(a, b) == a \o b

LEMMA FlatDef ==
    ASSUME NEW parts
    PROVE  /\ Flat(parts)[0] = <<>>
           /\ \A n \in Nat : Flat(parts)[n + 1] = Cat(Flat(parts)[n], parts[n + 1])
<1>1. PICK f : Loop(f, <<>>, "FlattenSeq", parts)
  BY Recursion
<1>2. \A n, v : Step("FlattenSeq", parts, n, v) = Cat(v, parts[n])
  BY DEF Step, Cat
<1>3. Loop(Flat(parts), <<>>, "FlattenSeq", parts)
  BY <1>1 DEF Flat
<1>4. \A n \in Nat \ {0} : Flat(parts)[n] = Cat(Flat(parts)[n - 1], parts[n])
  BY <1>2, <1>3 DEF Loop
<1>5. ASSUME NEW n \in Nat PROVE Flat(parts)[n + 1] = Cat(Flat(parts)[n], parts[n + 1])
  <2>1. n + 1 \in Nat \ {0} /\ (n + 1) - 1 = n
    OBVIOUS
  <2> QED
    BY <1>4, <2>1
<1> QED
  BY <1>3, <1>5 DEF Loop

LEMMA FlatIsSeq ==
    ASSUME NEW S, NEW parts \in Seq(Seq(S))
    PROVE  \A n \in Nat : n <= Len(parts) => Flat(parts)[n] \in Seq(S)
<1> DEFINE N == {n \in Nat : n <= Len(parts) => Flat(parts)[n] \in Seq(S)}
<1>1. 0 \in N
  <2>1. Flat(parts)[0] = <<>>
    BY FlatDef
  <2>2. Flat(parts)[0] \in Seq(S)
    BY <2>1
  <2> QED
    BY <2>2
<1>2. ASSUME NEW n \in Nat, n \in N PROVE n + 1 \in N
  <2> SUFFICES ASSUME n + 1 <= Len(parts) PROVE Flat(parts)[n + 1] \in Seq(S)
    OBVIOUS
  <2>1. Flat(parts)[n] \in Seq(S) /\ parts[n + 1] \in Seq(S)
    BY <1>2
  <2>2. Cat(Flat(parts)[n], parts[n + 1]) \in Seq(S)
    BY <2>1 DEF Cat
  <2>3. Flat(parts)[n + 1] = Cat(Flat(parts)[n], parts[n + 1])
    BY FlatDef
  <2> QED
    BY <2>2, <2>3
<1> HIDE DEF N
<1>3. \A n \in Nat : n \in N
  BY <1>1, <1>2, Induction
<1> QED
  BY <1>3 DEF N

LEMMA FlattenSeqIsFlat ==
    ASSUME NEW S, NEW parts \in Seq(Seq(S))
    PROVE  FlattenSeq(parts) = Flat(parts)[Len(parts)]
<1>1. CASE Len(parts) = 0
  <2>1. parts = <<>>
    BY <1>1
  <2>2. Flat(parts)[0] = <<>>
    BY FlatDef
  <2>3. FlattenSeq(parts) = parts
    BY <1>1 DEF FlattenSeq
  <2> QED
    BY <1>1, <2>1, <2>2, <2>3
<1>2. CASE Len(parts) # 0
  <2> DEFINE I == 1..Len(parts)
             Is(f) == f = [i \in I |-> IF i = 1 THEN parts[i] ELSE Cat(f[i - 1], parts[i])]
             g == [i \in I |-> Flat(parts)[i]]
             flatten == CHOOSE f : Is(f)
  <2>1. FlattenSeq(parts) = flatten[Len(parts)]
    BY <1>2 DEF FlattenSeq, Cat
  <2>2. ASSUME NEW i \in I PROVE g[i] = IF i = 1 THEN parts[i] ELSE Cat(g[i - 1], parts[i])
    <3>1. i - 1 \in Nat /\ (i - 1) + 1 = i /\ parts[i] \in Seq(S)
      OBVIOUS
    <3>2. Flat(parts)[i] = Cat(Flat(parts)[i - 1], parts[i])
      BY <3>1, FlatDef
    <3>3. CASE i = 1
      <4>1. Flat(parts)[i - 1] = <<>>
        BY <3>3, FlatDef
      <4>2. Cat(<<>>, parts[i]) = parts[i]
        BY <3>1 DEF Cat
      <4> QED
        BY <3>2, <3>3, <4>1, <4>2
    <3>4. CASE i # 1
      <4>1. i - 1 \in I
        BY <3>4
      <4> QED
        BY <3>2, <3>4, <4>1
    <3> QED
      BY <3>3, <3>4
  <2>3. g = [i \in I |-> g[i]]
    OBVIOUS
  <2> HIDE DEF g
  <2>4. Is(g)
    BY <2>2, <2>3
  <2> HIDE DEF Is
  <2>5. Is(flatten)
    BY <2>4
  <2> HIDE DEF flatten
  <2>6. \A i \in I : flatten[i] = IF i = 1 THEN parts[i] ELSE Cat(flatten[i - 1], parts[i])
    BY <2>5 DEF Is
  <2> DEFINE N == {n \in Nat : n + 1 <= Len(parts) => flatten[n + 1] = Flat(parts)[n + 1]}
  <2>7. 0 \in N
    <3>1. parts[1] \in Seq(S) /\ 1 \in I
      BY <1>2
    <3>2. flatten[1] = parts[1]
      BY <2>6, <3>1
    <3>3. Flat(parts)[0 + 1] = Cat(Flat(parts)[0], parts[0 + 1]) /\ Flat(parts)[0] = <<>>
      BY FlatDef
    <3>4. Cat(<<>>, parts[1]) = parts[1]
      BY <3>1 DEF Cat
    <3> QED
      BY <3>2, <3>3, <3>4
  <2>8. ASSUME NEW n \in Nat, n \in N PROVE n + 1 \in N
    <3> SUFFICES ASSUME (n + 1) + 1 <= Len(parts)
                 PROVE  flatten[(n + 1) + 1] = Flat(parts)[(n + 1) + 1]
      OBVIOUS
    <3>1. flatten[n + 1] = Flat(parts)[n + 1]
      BY <2>8
    <3>2. (n + 1) + 1 \in I /\ (n + 1) + 1 # 1 /\ ((n + 1) + 1) - 1 = n + 1
      OBVIOUS
    <3>3. flatten[(n + 1) + 1] = Cat(flatten[n + 1], parts[(n + 1) + 1])
      BY <2>6, <3>2
    <3>4. Flat(parts)[(n + 1) + 1] = Cat(Flat(parts)[n + 1], parts[(n + 1) + 1])
      BY <3>2, FlatDef
    <3> QED
      BY <3>1, <3>3, <3>4
  <2> HIDE DEF N
  <2>9. \A n \in Nat : n \in N
    BY <2>7, <2>8, Induction
  <2>10. Len(parts) - 1 \in N /\ (Len(parts) - 1) + 1 = Len(parts)
    BY <1>2, <2>9
  <2> QED
    BY <2>1, <2>10 DEF N
<1> QED
  BY <1>1, <1>2

-----------------------------------------------------------------------------
(* Numbers and their digits.                                               *)

LEMMA PowerType == \A w \in Nat : Power[w] \in Nat \ {0}
<1> DEFINE N == {w \in Nat : Power[w] \in Nat \ {0}}
<1>1. 0 \in N
  BY PowerDef
<1>2. ASSUME NEW w \in Nat, w \in N PROVE w + 1 \in N
  <2>1. Power[w + 1] = Base * Power[w]
    <3>1. w + 1 \in Nat \ {0} /\ (w + 1) - 1 = w
      OBVIOUS
    <3> QED
      BY <3>1, PowerDef
  <2>2. \A p \in Nat \ {0} : Base * p \in Nat \ {0}
    BY BaseAssumption
  <2> QED
    BY <1>2, <2>1, <2>2
<1> HIDE DEF N
<1>3. \A w \in Nat : w \in N
  BY <1>1, <1>2, Induction
<1> QED
  BY <1>3 DEF N

LEMMA PowerNext == \A w \in Nat : Power[w + 1] = Base * Power[w]
<1> SUFFICES ASSUME NEW w \in Nat PROVE Power[w + 1] = Base * Power[w]
  OBVIOUS
<1>1. w + 1 \in Nat \ {0} /\ (w + 1) - 1 = w
  OBVIOUS
<1> QED
  BY <1>1, PowerDef

LEMMA PowerGrows ==
    ASSUME NEW v \in Nat, NEW w \in Nat, v < w
    PROVE  Base * Power[v] <= Power[w]
<1> DEFINE N == {n \in Nat : Base * Power[v] <= Power[v + 1 + n]}
<1>1. 0 \in N
  BY PowerNext, PowerType, BaseAssumption
<1>2. ASSUME NEW n \in Nat, n \in N PROVE n + 1 \in N
  <2>1. Power[v + 1 + (n + 1)] = Base * Power[v + 1 + n]
    BY PowerNext
  <2>2. Power[v + 1 + n] \in Nat /\ Power[v] \in Nat /\ Power[v + 1 + (n + 1)] \in Nat
    BY PowerType
  <2> DEFINE p == Power[v + 1 + n]
             q == Base * Power[v]
  <2>3. q \in Nat /\ q <= p /\ p \in Nat
    BY <1>2, <2>2, BaseAssumption
  <2> HIDE DEF p, q
  <2>4. Base * p >= p
    BY <2>3, BaseAssumption
  <2>5. q <= Base * p
    <3>1. Base * p \in Nat
      BY <2>3, BaseAssumption
    <3> QED
      BY <2>3, <2>4, <3>1
  <2> QED
    BY <2>1, <2>5 DEF p, q
<1> HIDE DEF N
<1>3. \A n \in Nat : n \in N
  BY <1>1, <1>2, Induction
<1>4. w - (v + 1) \in N /\ v + 1 + (w - (v + 1)) = w
  BY <1>3
<1> QED
  BY <1>4 DEF N

LEMMA Division ==
    ASSUME NEW a \in Int, NEW b \in Nat \ {0}
    PROVE  /\ a \div b \in Int /\ a % b \in 0..(b - 1)
           /\ a = b * (a \div b) + (a % b)
OBVIOUS

LEMMA DivisionIsUnique ==
    ASSUME NEW b \in Nat \ {0}, NEW q \in Int, NEW r \in 0..(b - 1)
    PROVE  (b * q + r) % b = r /\ (b * q + r) \div b = q
<1> DEFINE a == b * q + r
<1>1. a \in Int
  OBVIOUS
<1> HIDE DEF a
<1>2. PICK d \in Int, m \in 0..(b - 1) : d = a \div b /\ m = a % b /\ a = b * d + m
  BY <1>1, Division
<1>3. b * (d - q) = r - m
  <2>1. b * d + m = b * q + r
    BY <1>2 DEF a
  <2>2. b * (d - q) = b * d - b * q
    OBVIOUS
  <2> DEFINE x == b * d
             y == b * q
  <2>3. x \in Int /\ y \in Int
    OBVIOUS
  <2> HIDE DEF x, y
  <2>4. x + m = y + r => x - y = r - m
    BY <2>3
  <2> QED
    BY <2>1, <2>2, <2>4 DEF x, y
<1> DEFINE k == d - q
<1>4. k \in Int /\ b * k = r - m /\ d = q + k
  BY <1>3
<1> HIDE DEF k
<1>5. r - m < b /\ r - m > -b
  OBVIOUS
<1>6. ~(k >= 1)
  <2> SUFFICES ASSUME k >= 1 PROVE FALSE
    OBVIOUS
  <2>1. b * k >= b
    BY <1>4
  <2> QED
    BY <1>4, <1>5, <2>1
<1>7. ~(k <= -1)
  <2> SUFFICES ASSUME k <= -1 PROVE FALSE
    OBVIOUS
  <2>1. b * k <= -b
    BY <1>4
  <2> QED
    BY <1>4, <1>5, <2>1
<1>8. k = 0
  BY <1>4, <1>6, <1>7
<1>9. d = q /\ m = r
  BY <1>4, <1>8
<1> QED
  BY <1>2, <1>9 DEF a

\* One more digit of a number.
LEMMA OneMoreDigit ==
    ASSUME NEW n \in Int, NEW p \in Nat \ {0}, NEW b \in Nat \ {0}
    PROVE  (n % p) + ((n \div p) % b) * p = n % (b * p)
<1> DEFINE q == n \div p
           r == n % p
           e == q \div b
           d == q % b
<1>1. q \in Int /\ r \in 0..(p - 1) /\ n = p * q + r
  BY Division
<1> HIDE DEF q, r
<1>2. e \in Int /\ d \in 0..(b - 1) /\ q = b * e + d
  BY <1>1, Division
<1> HIDE DEF e, d
<1>3. b * p \in Nat \ {0}
  OBVIOUS
<1>4. n = (b * p) * e + (d * p + r)
  <2>1. n = p * (b * e + d) + r
    BY <1>1, <1>2
  <2>2. p * (b * e + d) = (b * p) * e + d * p
    BY <1>2
  <2> DEFINE x == (b * p) * e
             y == d * p
  <2>3. x \in Int /\ y \in Int /\ p * (b * e + d) = x + y
    BY <1>2, <2>2
  <2> HIDE DEF x, y
  <2>4. n = (x + y) + r
    BY <2>1, <2>3
  <2>5. n = x + (y + r)
    BY <1>1, <2>3, <2>4
  <2> QED
    BY <2>5 DEF x, y
<1>5. d * p + r \in 0..(b * p - 1)
  <2>1. d * p \in Nat /\ d * p <= (b - 1) * p
    BY <1>2
  <2>2. (b - 1) * p = b * p - p
    OBVIOUS
  <2> DEFINE x == d * p
             y == b * p
  <2>3. x \in Nat /\ y \in Nat /\ x <= y - p
    BY <2>1, <2>2
  <2> HIDE DEF x, y
  <2>4. x + r \in 0..(y - 1)
    BY <1>1, <2>3
  <2> QED
    BY <2>4 DEF x, y
<1>6. ((b * p) * e + (d * p + r)) % (b * p) = d * p + r
  BY <1>2, <1>3, <1>5, DivisionIsUnique
<1>7. n % (b * p) = d * p + r
  BY <1>4, <1>6
<1>8. d * p + r = r + d * p
  <2> DEFINE x == d * p
  <2>1. x \in Int
    BY <1>2
  <2> HIDE DEF x
  <2> QED
    BY <1>1, <2>1 DEF x
<1> QED
  BY <1>7, <1>8 DEF q, r, d

\* The bytes x are in s from offset at.
Holds(s, at, x) == at + Len(x) <= Len(s) /\ \A i \in 1..Len(x) : s[at + i] = x[i]

Place(i, w, endian) == IF endian = "Little" THEN i ELSE w + 1 - i

IsNumber(number, s, at, w, endian) ==
    /\ number[0] = 0
    /\ \A i \in Nat \ {0} :
          number[i] = number[i - 1] + s[at + Place(i, w, endian)] * Power[i - 1]
    /\ Unsigned(s, at, w, endian) = number[w]

LEMMA UnsignedPlaces ==
    ASSUME NEW s, NEW at, NEW w, NEW endian
    PROVE  \E number : IsNumber(number, s, at, w, endian)
BY UnsignedDef DEF Place, IsNumber

LEMMA DigitsType ==
    ASSUME NEW n \in Int, NEW w \in Nat, NEW endian
    PROVE  Digits(n, w, endian) \in Seq(Byte) /\ Len(Digits(n, w, endian)) = w
<1>1. ASSUME NEW i \in 1..w
      PROVE  (n \div Power[IF endian = "Little" THEN i - 1 ELSE w - i]) % Base \in Byte
  <2> DEFINE k == IF endian = "Little" THEN i - 1 ELSE w - i
  <2>1. k \in Nat
    OBVIOUS
  <2> HIDE DEF k
  <2>2. Power[k] \in Nat \ {0}
    BY <2>1, PowerType
  <2>3. n \div Power[k] \in Int
    BY <2>2, Division
  <2> DEFINE q == n \div Power[k]
  <2>4. q \in Int
    BY <2>3
  <2> HIDE DEF q
  <2>5. q % Base \in 0..(Base - 1)
    BY <2>4, BaseAssumption
  <2> QED
    BY <2>5 DEF k, q, Byte
<1> QED
  BY <1>1 DEF Digits

\* The digits of a number are read as the number, as far as they go.
LEMMA DigitsReadBack ==
    ASSUME NEW s, NEW at \in Nat, NEW n \in Int, NEW w \in Nat, NEW endian,
           Holds(s, at, Digits(n, w, endian))
    PROVE  Unsigned(s, at, w, endian) = n % Power[w]
<1>0. PICK number : IsNumber(number, s, at, w, endian)
  BY UnsignedPlaces
<1>1. /\ number[0] = 0
      /\ \A i \in Nat \ {0} : number[i] = number[i - 1] + s[at + Place(i, w, endian)] * Power[i - 1]
      /\ Unsigned(s, at, w, endian) = number[w]
  BY <1>0 DEF IsNumber
<1>2. ASSUME NEW i \in 1..w PROVE s[at + Place(i, w, endian)] = (n \div Power[i - 1]) % Base
  <2>1. Place(i, w, endian) \in 1..w
    BY DEF Place
  <2>2. Len(Digits(n, w, endian)) = w
    BY DigitsType
  <2>3. s[at + Place(i, w, endian)] = Digits(n, w, endian)[Place(i, w, endian)]
    BY <2>1, <2>2 DEF Holds
  <2>4. (IF endian = "Little" THEN Place(i, w, endian) - 1 ELSE w - Place(i, w, endian)) = i - 1
    BY DEF Place
  <2>5. \A j \in 1..w : Digits(n, w, endian)[j]
                = (n \div Power[IF endian = "Little" THEN j - 1 ELSE w - j]) % Base
    BY DEF Digits
  <2> QED
    BY <2>1, <2>3, <2>4, <2>5
<1> DEFINE N == {i \in Nat : i <= w => number[i] = n % Power[i]}
<1>3. 0 \in N
  <2>1. n % 1 = 0
    BY Division
  <2> QED
    BY <1>1, <2>1, PowerDef
<1>4. ASSUME NEW i \in Nat, i \in N PROVE i + 1 \in N
  <2> SUFFICES ASSUME i + 1 <= w PROVE number[i + 1] = n % Power[i + 1]
    OBVIOUS
  <2>1. number[i] = n % Power[i]
    BY <1>4
  <2>2. i + 1 \in 1..w /\ i + 1 \in Nat \ {0} /\ (i + 1) - 1 = i
    OBVIOUS
  <2>3. number[i + 1] = number[i] + s[at + Place(i + 1, w, endian)] * Power[i]
    BY <1>1, <2>2
  <2>4. s[at + Place(i + 1, w, endian)] = (n \div Power[i]) % Base
    BY <1>2, <2>2
  <2>5. Power[i] \in Nat \ {0} /\ Base \in Nat \ {0} /\ Power[i + 1] = Base * Power[i]
    <3>1. Base \in Nat \ {0}
      BY BaseAssumption
    <3> QED
      BY <3>1, PowerType, PowerNext
  <2>6. (n % Power[i]) + ((n \div Power[i]) % Base) * Power[i] = n % (Base * Power[i])
    BY <2>5, OneMoreDigit
  <2> QED
    BY <2>1, <2>3, <2>4, <2>5, <2>6
<1> HIDE DEF N
<1>5. \A i \in Nat : i \in N
  BY <1>3, <1>4, Induction
<1> QED
  BY <1>1, <1>5 DEF N

\* What is read is a number of so many digits.
LEMMA UnsignedType ==
    ASSUME NEW s \in Seq(Byte), NEW at \in Nat, NEW w \in Nat, NEW endian, Has(s, at, w)
    PROVE  Unsigned(s, at, w, endian) \in 0..(Power[w] - 1)
<1>0. PICK number : IsNumber(number, s, at, w, endian)
  BY UnsignedPlaces
<1>1. /\ number[0] = 0
      /\ \A i \in Nat \ {0} : number[i] = number[i - 1] + s[at + Place(i, w, endian)] * Power[i - 1]
      /\ Unsigned(s, at, w, endian) = number[w]
  BY <1>0 DEF IsNumber
<1>2. ASSUME NEW i \in 1..w PROVE s[at + Place(i, w, endian)] \in Byte
  <2>1. at + Place(i, w, endian) \in 1..Len(s)
    BY DEF Has, Place
  <2> QED
    BY <2>1
<1> DEFINE N == {i \in Nat : i <= w => number[i] \in 0..(Power[i] - 1)}
<1>3. 0 \in N
  BY <1>1, PowerDef
<1>4. ASSUME NEW i \in Nat, i \in N PROVE i + 1 \in N
  <2> SUFFICES ASSUME i + 1 <= w PROVE number[i + 1] \in 0..(Power[i + 1] - 1)
    OBVIOUS
  <2>1. number[i] \in 0..(Power[i] - 1)
    BY <1>4
  <2>2. i + 1 \in 1..w /\ i + 1 \in Nat \ {0} /\ (i + 1) - 1 = i
    OBVIOUS
  <2>3. number[i + 1] = number[i] + s[at + Place(i + 1, w, endian)] * Power[i]
    BY <1>1, <2>2
  <2>4. s[at + Place(i + 1, w, endian)] \in 0..(Base - 1)
    BY <1>2, <2>2 DEF Byte
  <2>5. Power[i] \in Nat \ {0} /\ Base \in Nat \ {0} /\ Power[i + 1] = Base * Power[i]
    <3>1. Base \in Nat \ {0}
      BY BaseAssumption
    <3> QED
      BY <3>1, PowerType, PowerNext
  <2> DEFINE d == s[at + Place(i + 1, w, endian)]
             p == Power[i]
             m == number[i]
  <2>6. d \in 0..(Base - 1) /\ p \in Nat \ {0} /\ m \in 0..(p - 1)
    BY <2>1, <2>4, <2>5
  <2> HIDE DEF d, p, m
  <2>7. d * p \in Nat /\ d * p <= (Base - 1) * p /\ (Base - 1) * p = Base * p - p
    BY <2>6, BaseAssumption
  <2>8. m + d * p \in 0..(Base * p - 1)
    <3> DEFINE x == d * p
               y == Base * p
    <3>1. x \in Nat /\ y \in Int /\ x <= y - p
      BY <2>6, <2>7, BaseAssumption
    <3> HIDE DEF x, y
    <3>2. m + x \in 0..(y - 1)
      BY <2>6, <3>1
    <3> QED
      BY <3>2 DEF x, y
  <2> QED
    BY <2>3, <2>5, <2>8 DEF d, p, m
<1> HIDE DEF N
<1>5. \A i \in Nat : i \in N
  BY <1>3, <1>4, Induction
<1> QED
  BY <1>1, <1>5 DEF N

LEMMA SignedType ==
    ASSUME NEW s \in Seq(Byte), NEW at \in Nat, NEW w \in Nat, NEW endian, Has(s, at, w)
    PROVE  Signed(s, at, w, endian) \in SignedRange(w)
<1>1. Unsigned(s, at, w, endian) \in 0..(Power[w] - 1)
  BY UnsignedType
<1>2. Power[w] \in Nat \ {0}
  BY PowerType
<1> QED
  BY <1>1, <1>2 DEF Signed, SignedRange

LEMMA SignedReadBack ==
    ASSUME NEW s, NEW at \in Nat, NEW w \in Nat, NEW endian, NEW n \in SignedRange(w),
           Holds(s, at, Digits(n, w, endian))
    PROVE  Signed(s, at, w, endian) = n
<1>1. Power[w] \in Nat \ {0}
  BY PowerType
<1> DEFINE p == Power[w]
<1>2. n \in Int /\ p \in Nat \ {0} /\ n \in (p \div 2 - p)..(p \div 2 - 1)
  BY <1>1 DEF SignedRange
<1>3. Unsigned(s, at, w, endian) = n % p
  BY <1>2, DigitsReadBack
<1> HIDE DEF p
<1>4. CASE n >= 0
  <2>1. (p * 0 + n) % p = n
    BY <1>2, <1>4, DivisionIsUnique
  <2>2. p * 0 + n = n
    BY <1>2
  <2> QED
    BY <1>2, <1>3, <1>4, <2>1, <2>2 DEF Signed, p
<1>5. CASE n < 0
  <2>1. n + p \in 0..(p - 1)
    BY <1>2, <1>5
  <2> DEFINE q == 0 - 1
             r == n + p
  <2>a. q \in Int /\ r \in 0..(p - 1)
    BY <2>1
  <2>3. p * q + r = n
    BY <1>2
  <2> HIDE DEF q, r
  <2>b. (p * q + r) % p = r
    BY <1>2, <2>a, DivisionIsUnique
  <2>2. n % p = n + p
    BY <2>3, <2>b DEF r
  <2>4. n % p = n + p /\ ~(n + p < p \div 2)
    BY <1>2, <1>5, <2>2
  <2> QED
    BY <1>2, <1>3, <2>4 DEF Signed, p
<1> QED
  BY <1>2, <1>4, <1>5

LEMMA UnsignedReadBack ==
    ASSUME NEW s, NEW at \in Nat, NEW w \in Nat, NEW endian, NEW n \in 0..(Power[w] - 1),
           Holds(s, at, Digits(n, w, endian))
    PROVE  Unsigned(s, at, w, endian) = n
<1>1. Power[w] \in Nat \ {0}
  BY PowerType
<1> DEFINE p == Power[w]
<1>2. Unsigned(s, at, w, endian) = n % p
  BY DigitsReadBack
<1>3. (p * 0 + n) % p = n
  BY <1>1, DivisionIsUnique
<1>4. p * 0 + n = n
  BY <1>1
<1> QED
  BY <1>2, <1>3, <1>4

LEMMA TypesAre ==
    /\ Types = {"Byte", "Short", "Int", "Long", "Float", "Double",
                "ByteArray", "String", "List", "Compound", "IntArray", "LongArray"}
    /\ DOMAIN Width = {"Byte", "Short", "Int", "Long", "Float", "Double"}
    /\ DOMAIN ElementOf = {"ByteArray", "IntArray", "LongArray"}
<1>1. DOMAIN Width = {"Byte", "Short", "Int", "Long", "Float", "Double"}
  BY WidthAssumption
<1>2. DOMAIN ElementOf = {"ByteArray", "IntArray", "LongArray"}
  BY DEF ElementOf
<1>3. DOMAIN TypeNames = 1..12
  BY DEF TypeNames
<1>4. Types = {TypeNames[i] : i \in 1..12}
  BY <1>3 DEF Types, Range
<1>5. 1..12 = {1, 2, 3, 4, 5, 6, 7, 8, 9, 10, 11, 12}
  OBVIOUS
<1>6. Types = {TypeNames[i] : i \in {1, 2, 3, 4, 5, 6, 7, 8, 9, 10, 11, 12}}
  BY <1>4, <1>5
<1>7. /\ TypeNames[1] = "Byte" /\ TypeNames[2] = "Short" /\ TypeNames[3] = "Int"
      /\ TypeNames[4] = "Long" /\ TypeNames[5] = "Float" /\ TypeNames[6] = "Double"
      /\ TypeNames[7] = "ByteArray" /\ TypeNames[8] = "String" /\ TypeNames[9] = "List"
      /\ TypeNames[10] = "Compound" /\ TypeNames[11] = "IntArray" /\ TypeNames[12] = "LongArray"
  BY DEF TypeNames
<1>8. Types = {"Byte", "Short", "Int", "Long", "Float", "Double",
                "ByteArray", "String", "List", "Compound", "IntArray", "LongArray"}
  BY <1>6, <1>7
<1> QED
  BY <1>1, <1>2, <1>8

\* The code of a type is a byte, and gives the type back.
LEMMA CodeType ==
    ASSUME NEW type \in Types \cup {"End"}
    PROVE  /\ Code(type) \in Byte /\ ValidType(Code(type))
           /\ TypeOf(Code(type)) = type
           /\ Code(type) = 0 <=> type = "End"
<1>1. DOMAIN TypeNames = 1..12 /\ Len(TypeNames) = 12
  BY DEF TypeNames
<1>2. "End" \notin Types
  BY TypesAre
<1>3. CASE type = "End"
  BY <1>1, <1>3, BaseAssumption DEF Code, TypeOf, ValidType, Byte
<1>4. CASE type # "End"
  <2>1. \E i \in DOMAIN TypeNames : TypeNames[i] = type
    BY <1>4 DEF Types, Range
  <2>2. Code(type) \in DOMAIN TypeNames /\ TypeNames[Code(type)] = type
    BY <1>4, <2>1 DEF Code
  <2>3. Code(type) \in 1..12
    BY <1>1, <2>2
  <2> QED
    BY <1>1, <1>4, <2>2, <2>3, BaseAssumption DEF TypeOf, ValidType, Byte
<1> QED
  BY <1>3, <1>4

LEMMA TypeOfType ==
    ASSUME NEW code \in Byte, ValidType(code)
    PROVE  TypeOf(code) \in Types \cup {"End"} /\ (TypeOf(code) = "End" <=> code = 0)
<1>1. DOMAIN TypeNames = 1..12 /\ Len(TypeNames) = 12
  BY DEF TypeNames
<1>2. "End" \notin Types
  BY TypesAre
<1>3. CASE code = 0
  BY <1>3 DEF TypeOf
<1>4. CASE code # 0
  <2>1. code \in DOMAIN TypeNames
    BY <1>1, <1>4, BaseAssumption DEF Byte, ValidType
  <2>2. TypeNames[code] \in Types
    BY <2>1 DEF Types, Range
  <2> QED
    BY <1>2, <1>4, <2>2 DEF TypeOf
<1> QED
  BY <1>3, <1>4

-----------------------------------------------------------------------------
(* Bytes at an offset.                                                     *)

LEMMA CatType ==
    ASSUME NEW S, NEW x \in Seq(S), NEW y \in Seq(S)
    PROVE  Cat(x, y) \in Seq(S) /\ Len(Cat(x, y)) = Len(x) + Len(y)
BY DEF Cat

LEMMA HoldsCat ==
    ASSUME NEW s \in Seq(Byte), NEW at \in Nat, NEW x \in Seq(Byte), NEW y \in Seq(Byte),
           Holds(s, at, Cat(x, y))
    PROVE  Holds(s, at, x) /\ Holds(s, at + Len(x), y)
<1>1. Len(Cat(x, y)) = Len(x) + Len(y) /\ Len(x) \in Nat /\ Len(y) \in Nat
  BY DEF Cat
<1>2. \A i \in 1..Len(x) : Cat(x, y)[i] = x[i]
  BY DEF Cat
<1>3. \A i \in 1..Len(y) : Cat(x, y)[Len(x) + i] = y[i]
  BY DEF Cat
<1>4. ASSUME NEW i \in 1..Len(x) PROVE s[at + i] = x[i]
  BY <1>1, <1>2 DEF Holds
<1>5. ASSUME NEW i \in 1..Len(y) PROVE s[(at + Len(x)) + i] = y[i]
  <2>1. Len(x) + i \in 1..Len(Cat(x, y)) /\ at + (Len(x) + i) = (at + Len(x)) + i
    BY <1>1
  <2> QED
    BY <1>3, <2>1 DEF Holds
<1> QED
  BY <1>1, <1>4, <1>5 DEF Holds

\* All bytes of a sequence are in it, and those of what stands there again.
LEMMA HoldsItself ==
    ASSUME NEW x \in Seq(Byte)
    PROVE  Holds(x, 0, x)
<1>1. Len(x) \in Nat
  OBVIOUS
<1> QED
  BY <1>1 DEF Holds

LEMMA HoldsEqual ==
    ASSUME NEW s \in Seq(Byte), NEW at \in Nat, NEW x \in Seq(Byte), Holds(s, at, x)
    PROVE  at + Len(x) <= Len(s) /\ SubSeq(s, at + 1, at + Len(x)) = x
<1>1. Len(x) \in Nat /\ Len(s) \in Nat /\ at + Len(x) <= Len(s)
  BY DEF Holds
<1> DEFINE y == SubSeq(s, at + 1, at + Len(x))
<1>2. y = [i \in 1..Len(x) |-> s[at + i]]
  BY <1>1
<1>3. \A i \in 1..Len(x) : s[at + i] = x[i]
  BY DEF Holds
<1>4. x = [i \in 1..Len(x) |-> x[i]]
  OBVIOUS
<1> HIDE DEF y
<1>5. y = x
  BY <1>2, <1>3, <1>4
<1> QED
  BY <1>1, <1>5 DEF y

LEMMA FlatLen ==
    ASSUME NEW parts \in Seq(Seq(Byte)), NEW n \in Nat, n < Len(parts)
    PROVE  /\ Flat(parts)[n] \in Seq(Byte) /\ parts[n + 1] \in Seq(Byte)
           /\ Flat(parts)[n + 1] \in Seq(Byte)
           /\ Len(Flat(parts)[n + 1]) = Len(Flat(parts)[n]) + Len(parts[n + 1])
<1>1. Flat(parts)[n] \in Seq(Byte) /\ Flat(parts)[n + 1] \in Seq(Byte)
  BY FlatIsSeq
<1>2. parts[n + 1] \in Seq(Byte)
  OBVIOUS
<1>3. Flat(parts)[n + 1] = Cat(Flat(parts)[n], parts[n + 1])
  BY FlatDef
<1> QED
  BY <1>1, <1>2, <1>3, CatType

LEMMA HoldsFlat ==
    ASSUME NEW s \in Seq(Byte), NEW at \in Nat, NEW parts \in Seq(Seq(Byte)),
           Holds(s, at, FlattenSeq(parts))
    PROVE  \A n \in Nat : n < Len(parts) => Holds(s, at + Len(Flat(parts)[n]), parts[n + 1])
<1>1. FlattenSeq(parts) = Flat(parts)[Len(parts)] /\ Len(parts) \in Nat
  BY FlattenSeqIsFlat
<1> DEFINE N == {n \in Nat : n <= Len(parts) => Holds(s, at, Flat(parts)[Len(parts) - n])}
<1>2. 0 \in N
  BY <1>1
<1>3. ASSUME NEW n \in Nat, n \in N PROVE n + 1 \in N
  <2> SUFFICES ASSUME n + 1 <= Len(parts) PROVE Holds(s, at, Flat(parts)[Len(parts) - (n + 1)])
    OBVIOUS
  <2> DEFINE m == Len(parts) - (n + 1)
  <2>1. m \in Nat /\ m < Len(parts) /\ m + 1 = Len(parts) - n
    BY <1>1
  <2>2. Holds(s, at, Flat(parts)[m + 1])
    BY <1>3, <2>1
  <2> HIDE DEF m
  <2>3. Flat(parts)[m] \in Seq(Byte) /\ parts[m + 1] \in Seq(Byte)
    BY <2>1, FlatLen
  <2>4. Flat(parts)[m + 1] = Cat(Flat(parts)[m], parts[m + 1])
    BY <2>1, FlatDef
  <2>5. Holds(s, at, Flat(parts)[m])
    BY <2>2, <2>3, <2>4, HoldsCat
  <2> QED
    BY <2>5 DEF m
<1> HIDE DEF N
<1>4. \A n \in Nat : n \in N
  BY <1>2, <1>3, Induction
<1>5. ASSUME NEW n \in Nat, n < Len(parts)
      PROVE  Holds(s, at + Len(Flat(parts)[n]), parts[n + 1])
  <2>1. Len(parts) - (n + 1) \in N /\ Len(parts) - (Len(parts) - (n + 1)) = n + 1
        /\ Len(parts) - (n + 1) <= Len(parts)
    BY <1>1, <1>4, <1>5
  <2>2. Holds(s, at, Flat(parts)[n + 1])
    BY <2>1 DEF N
  <2>3. Flat(parts)[n] \in Seq(Byte) /\ parts[n + 1] \in Seq(Byte)
    BY <1>5, FlatLen
  <2>4. Flat(parts)[n + 1] = Cat(Flat(parts)[n], parts[n + 1])
    BY FlatDef
  <2> QED
    BY <2>2, <2>3, <2>4, HoldsCat, ZenonT(40)
<1> QED
  BY <1>5

LEMMA FlattenSeqType ==
    ASSUME NEW parts \in Seq(Seq(Byte))
    PROVE  FlattenSeq(parts) \in Seq(Byte)
BY FlattenSeqIsFlat, FlatIsSeq

-----------------------------------------------------------------------------
(* Texts, numbers and arrays.                                              *)

LEMMA TextType ==
    ASSUME NEW text \in Seq(Byte), NEW endian
    PROVE  /\ Text(text, endian) = Cat(Digits(Len(text), TextWidth, endian), text)
           /\ Text(text, endian) \in Seq(Byte)
           /\ Len(Text(text, endian)) = TextWidth + Len(text)
<1>1. Len(text) \in Int /\ TextWidth \in Nat
  BY WidthAssumption
<1>2. Digits(Len(text), TextWidth, endian) \in Seq(Byte)
      /\ Len(Digits(Len(text), TextWidth, endian)) = TextWidth
  BY <1>1, DigitsType
<1>3. Text(text, endian) = Cat(Digits(Len(text), TextWidth, endian), text)
  BY DEF Text, Cat
<1> QED
  BY <1>2, <1>3, CatType

LEMMA TextReadBack ==
    ASSUME NEW s \in Seq(Byte), NEW at \in Nat, NEW text \in Seq(Byte), NEW endian,
           TextFits(text), Holds(s, at, Text(text, endian))
    PROVE  ReadText(s, at, endian)
               = [ok |-> TRUE, text |-> text, at |-> at + Len(Text(text, endian))]
<1> DEFINE d == Digits(Len(text), TextWidth, endian)
           n == Unsigned(s, at, TextWidth, endian)
<1>1. Len(text) \in Nat /\ TextWidth \in Nat
  BY WidthAssumption
<1>2. d \in Seq(Byte) /\ Len(d) = TextWidth
  BY <1>1, DigitsType
<1>3. Text(text, endian) = Cat(d, text)
  BY TextType
<1>t. Len(Text(text, endian)) = TextWidth + Len(text)
  BY TextType
<1> HIDE DEF d
<1>4. Holds(s, at, d) /\ Holds(s, at + Len(d), text)
  BY <1>2, <1>3, HoldsCat
<1>5. n = Len(text)
  <2>1. Power[TextWidth] \in Nat
    BY <1>1, PowerType
  <2>2. Len(text) \in 0..(Power[TextWidth] - 1)
    BY <1>1, <2>1 DEF TextFits
  <2> QED
    BY <1>1, <1>4, <2>2, UnsignedReadBack DEF d
<1>6. at + TextWidth <= Len(s)
  BY <1>2, <1>4 DEF Holds
<1> DEFINE a == at + TextWidth
<1>7. a \in Nat /\ Holds(s, a, text)
  BY <1>1, <1>2, <1>4
<1> HIDE DEF a
<1>8. a + Len(text) <= Len(s) /\ SubSeq(s, a + 1, a + Len(text)) = text
  BY <1>7, HoldsEqual
<1> HIDE DEF n
<1>9. ReadText(s, at, endian) = [ok |-> TRUE, text |-> SubSeq(s, at + TextWidth + 1, at + TextWidth + n),
                                at |-> at + TextWidth + n]
  BY <1>5, <1>6, <1>8 DEF ReadText, Has, n, a
<1>10. SubSeq(s, at + TextWidth + 1, at + TextWidth + n) = text
  BY <1>5, <1>8 DEF a
<1>11. at + TextWidth + n = at + (TextWidth + Len(text))
  BY <1>1, <1>5
<1> QED
  BY <1>9, <1>10, <1>11, <1>t

LEMMA ReadTextType ==
    ASSUME NEW s \in Seq(Byte), NEW at \in Nat, NEW endian
    PROVE  \/ ReadText(s, at, endian) = Failed
           \/ \E text \in Seq(Byte), end \in Nat :
                 /\ ReadText(s, at, endian) = [ok |-> TRUE, text |-> text, at |-> end]
                 /\ TextFits(text)
<1> DEFINE n == Unsigned(s, at, TextWidth, endian)
           text == SubSeq(s, at + TextWidth + 1, at + TextWidth + n)
<1> SUFFICES ASSUME Has(s, at, TextWidth), Has(s, at + TextWidth, n)
             PROVE  \E t \in Seq(Byte), end \in Nat :
                       /\ ReadText(s, at, endian) = [ok |-> TRUE, text |-> t, at |-> end]
                       /\ TextFits(t)
  BY DEF ReadText
<1>1. TextWidth \in Nat
  BY WidthAssumption
<1>2. Power[TextWidth] \in Nat /\ n \in 0..(Power[TextWidth] - 1)
  BY <1>1, PowerType, UnsignedType
<1>3. ReadText(s, at, endian) = [ok |-> TRUE, text |-> text, at |-> at + TextWidth + n]
  BY DEF ReadText
<1> HIDE DEF n
<1>4. text \in Seq(Byte) /\ Len(text) = n
  BY <1>1, <1>2 DEF Has
<1>5. TextFits(text)
  BY <1>2, <1>4 DEF TextFits
<1>6. at + TextWidth + n \in Nat
  BY <1>1, <1>2
<1> HIDE DEF text
<1> QED
  BY <1>3, <1>4, <1>5, <1>6

\* What a reader should make of the bytes of a tag: the tag, if it can pay.
Outcome(tag, bytes, cost, at, left) ==
    IF cost <= left THEN [ok |-> TRUE, tag |-> tag, at |-> at + Len(bytes), left |-> left - cost]
    ELSE Failed

LEMMA WidthType == \A type \in DOMAIN Width : Width[type] \in Nat \ {0}
BY WidthAssumption

LEMMA NumberReadBack ==
    ASSUME NEW s \in Seq(Byte), NEW at \in Nat, NEW left \in Nat, NEW endian,
           NEW type \in DOMAIN Width, NEW n \in SignedRange(Width[type]),
           Holds(s, at, Digits(n, Width[type], endian))
    PROVE  ReadNumber(s, at, left, type, endian)
               = Outcome(Number(type, n), Digits(n, Width[type], endian), 0, at, left)
<1> DEFINE w == Width[type]
<1>1. w \in Nat
  BY WidthType
<1>2. Power[w] \in Nat
  BY <1>1, PowerType
<1>3. n \in Int
  BY <1>2 DEF SignedRange
<1>4. Len(Digits(n, w, endian)) = w
  BY <1>1, <1>3, DigitsType
<1>5. Signed(s, at, w, endian) = n
  BY <1>1, SignedReadBack
<1>6. at + w <= Len(s)
  BY <1>4 DEF Holds
<1> HIDE DEF w
<1>7. ReadNumber(s, at, left, type, endian)
      = [ok |-> TRUE, tag |-> Number(type, n), at |-> at + w, left |-> left]
  BY <1>5, <1>6 DEF ReadNumber, Has, w
<1>8. left - 0 = left /\ 0 <= left
  OBVIOUS
<1> QED
  BY <1>4, <1>7, <1>8 DEF Outcome, w

LEMMA StringReadBack ==
    ASSUME NEW s \in Seq(Byte), NEW at \in Nat, NEW left \in Nat, NEW endian,
           NEW text \in Seq(Byte), TextFits(text), Holds(s, at, Text(text, endian))
    PROVE  ReadString(s, at, left, endian)
               = Outcome(String(text), Text(text, endian), 0, at, left)
<1>1. ReadText(s, at, endian) = [ok |-> TRUE, text |-> text, at |-> at + Len(Text(text, endian))]
  BY TextReadBack
<1>2. left - 0 = left /\ 0 <= left
  OBVIOUS
<1> QED
  BY <1>1, <1>2 DEF ReadString, Outcome

\* Parts of the same length.
LEMMA FlatEven ==
    ASSUME NEW parts \in Seq(Seq(Byte)), NEW w \in Nat, \A i \in 1..Len(parts) : Len(parts[i]) = w
    PROVE  \A n \in Nat : n <= Len(parts) => Len(Flat(parts)[n]) = n * w
<1> DEFINE N == {n \in Nat : n <= Len(parts) => Len(Flat(parts)[n]) = n * w}
<1>1. 0 \in N
  <2>1. Flat(parts)[0] = <<>>
    BY FlatDef
  <2>2. Len(Flat(parts)[0]) = 0 /\ 0 * w = 0
    BY <2>1
  <2> QED
    BY <2>2
<1>2. ASSUME NEW n \in Nat, n \in N PROVE n + 1 \in N
  <2> SUFFICES ASSUME n + 1 <= Len(parts) PROVE Len(Flat(parts)[n + 1]) = (n + 1) * w
    OBVIOUS
  <2>1. n < Len(parts) /\ n + 1 \in 1..Len(parts)
    OBVIOUS
  <2>2. Len(Flat(parts)[n + 1]) = Len(Flat(parts)[n]) + Len(parts[n + 1])
    BY <2>1, FlatLen
  <2>3. Len(Flat(parts)[n]) = n * w /\ Len(parts[n + 1]) = w
    BY <1>2, <2>1
  <2>4. (n + 1) * w = n * w + w
    OBVIOUS
  <2> QED
    BY <2>2, <2>3, <2>4
<1> HIDE DEF N
<1>3. \A n \in Nat : n \in N
  BY <1>1, <1>2, Induction
<1> QED
  BY <1>3 DEF N

LEMMA ElementWidth ==
    ASSUME NEW type \in DOMAIN ElementOf
    PROVE  ElementOf[type] \in DOMAIN Width /\ Width[ElementOf[type]] \in Nat \ {0}
<1>1. ElementOf[type] \in {"Byte", "Int", "Long"}
  BY TypesAre DEF ElementOf
<1> QED
  BY <1>1, TypesAre, WidthType

\* The number of items is a number of an int.
LEMMA LengthType ==
    ASSUME NEW n \in Nat, n <= MaxLength
    PROVE  n \in SignedRange(Width["Int"]) /\ n \in Int /\ Width["Int"] \in Nat
<1>1. Width["Int"] \in Nat
  BY TypesAre, WidthType
<1>2. Power[Width["Int"]] \in Nat \ {0}
  BY <1>1, PowerType
<1> QED
  BY <1>1, <1>2 DEF SignedRange, MaxLength

LEMMA LengthReadBack ==
    ASSUME NEW s \in Seq(Byte), NEW at \in Nat, NEW n \in Nat, n <= MaxLength, NEW endian,
           Holds(s, at, Digits(n, Width["Int"], endian))
    PROVE  HasLength(s, at, endian) /\ Signed(s, at, Width["Int"], endian) = n
<1>1. n \in SignedRange(Width["Int"]) /\ n \in Int /\ Width["Int"] \in Nat
  BY LengthType
<1>2. Signed(s, at, Width["Int"], endian) = n
  BY <1>1, SignedReadBack
<1>3. Len(Digits(n, Width["Int"], endian)) = Width["Int"]
  BY <1>1, DigitsType
<1> QED
  BY <1>2, <1>3 DEF HasLength, Has, Holds

Elems(tag, endian) ==
    [i \in DOMAIN tag.array |-> Digits(tag.array[i], Width[ElementOf[tag.type]], endian)]

LEMMA ElemsType ==
    ASSUME NEW type \in DOMAIN ElementOf, NEW w \in Nat, w = Width[ElementOf[type]],
           NEW numbers \in Seq(SignedRange(w)), NEW endian
    PROVE  /\ Elems(Array(type, numbers), endian) \in Seq(Seq(Byte))
           /\ Len(Elems(Array(type, numbers), endian)) = Len(numbers)
           /\ \A i \in 1..Len(numbers) :
                 /\ Elems(Array(type, numbers), endian)[i] = Digits(numbers[i], w, endian)
                 /\ Len(Digits(numbers[i], w, endian)) = w
<1>1. Array(type, numbers).type = type /\ Array(type, numbers).array = numbers
  BY DEF Array
<1>2. Elems(Array(type, numbers), endian) = [i \in 1..Len(numbers) |-> Digits(numbers[i], w, endian)]
  BY <1>1 DEF Elems
<1>3. Power[w] \in Nat
  BY PowerType
<1>4. ASSUME NEW i \in 1..Len(numbers)
      PROVE  Digits(numbers[i], w, endian) \in Seq(Byte) /\ Len(Digits(numbers[i], w, endian)) = w
  <2>1. numbers[i] \in Int
    BY <1>3 DEF SignedRange
  <2> QED
    BY <2>1, DigitsType
<1> QED
  BY <1>2, <1>4

LEMMA ArrayBytesType ==
    ASSUME NEW type \in DOMAIN ElementOf, NEW w \in Nat, w = Width[ElementOf[type]],
           NEW numbers \in Seq(SignedRange(w)), NEW endian
    PROVE  /\ ArrayBytes(Array(type, numbers), endian)
                  = Cat(Digits(Len(numbers), Width["Int"], endian),
                        FlattenSeq(Elems(Array(type, numbers), endian)))
           /\ Digits(Len(numbers), Width["Int"], endian) \in Seq(Byte)
           /\ Len(Digits(Len(numbers), Width["Int"], endian)) = Width["Int"]
           /\ FlattenSeq(Elems(Array(type, numbers), endian)) \in Seq(Byte)
           /\ Len(FlattenSeq(Elems(Array(type, numbers), endian))) = Len(numbers) * w
           /\ ArrayBytes(Array(type, numbers), endian) \in Seq(Byte)
<1> DEFINE e == Elems(Array(type, numbers), endian)
           d == Digits(Len(numbers), Width["Int"], endian)
<1>1. Array(type, numbers).array = numbers
  BY DEF Array
<1>2. ArrayBytes(Array(type, numbers), endian) = Cat(d, FlattenSeq(e))
  BY <1>1 DEF ArrayBytes, Elems, Cat
<1>3. d \in Seq(Byte) /\ Len(d) = Width["Int"]
  <2>1. Len(numbers) \in Int /\ Width["Int"] \in Nat
    BY TypesAre, WidthType
  <2> QED
    BY <2>1, DigitsType
<1>4. e \in Seq(Seq(Byte)) /\ Len(e) = Len(numbers) /\ \A i \in 1..Len(e) : Len(e[i]) = w
  BY ElemsType
<1> HIDE DEF d, e
<1>5. FlattenSeq(e) \in Seq(Byte) /\ FlattenSeq(e) = Flat(e)[Len(e)]
  BY <1>4, FlattenSeqIsFlat, FlattenSeqType
<1>6. Len(FlattenSeq(e)) = Len(numbers) * w
  <2>1. Len(e) \in Nat /\ Len(e) <= Len(e)
    BY <1>4
  <2>2. Len(Flat(e)[Len(e)]) = Len(e) * w
    BY <1>4, <2>1, FlatEven
  <2> QED
    BY <1>4, <1>5, <2>2
<1>7. Cat(d, FlattenSeq(e)) \in Seq(Byte)
  BY <1>3, <1>5, CatType
<1> QED
  BY <1>2, <1>3, <1>5, <1>6, <1>7 DEF d, e

LEMMA ArrayReadBack ==
    ASSUME NEW s \in Seq(Byte), NEW at \in Nat, NEW left \in Nat, NEW endian,
           NEW type \in DOMAIN ElementOf, NEW w \in Nat, w = Width[ElementOf[type]],
           NEW numbers \in Seq(SignedRange(w)), ArrayFits(type, Len(numbers)),
           Holds(s, at, ArrayBytes(Array(type, numbers), endian))
    PROVE  ReadArray(s, at, left, type, endian)
               = Outcome(Array(type, numbers), ArrayBytes(Array(type, numbers), endian),
                         Len(numbers), at, left)
<1> DEFINE t == Array(type, numbers)
           e == Elems(t, endian)
           d == Digits(Len(numbers), Width["Int"], endian)
           x == FlattenSeq(e)
           v == Width["Int"]
           n == Len(numbers)
           start == at + v
<1>1. ArrayBytes(t, endian) = Cat(d, x) /\ d \in Seq(Byte) /\ Len(d) = v
      /\ x \in Seq(Byte) /\ Len(x) = n * w
  BY ArrayBytesType
<1>2. e \in Seq(Seq(Byte)) /\ Len(e) = n
      /\ \A i \in 1..n : e[i] = Digits(numbers[i], w, endian) /\ Len(e[i]) = w
  BY ElemsType
<1>3. v \in Nat /\ n \in Nat /\ start \in Nat /\ n * w \in Nat
  BY TypesAre, WidthType, SMTT(30)
<1>4. Holds(s, at, d) /\ Holds(s, at + Len(d), x)
  <2> HIDE DEF d, x, t, v, n
  <2> QED
    BY <1>1, HoldsCat DEF t
<1>5. n <= MaxLength
  BY DEF ArrayFits
<1>6. HasLength(s, at, endian) /\ Signed(s, at, v, endian) = n
  BY <1>3, <1>4, <1>5, LengthReadBack
<1>7. Holds(s, start, x)
  BY <1>1, <1>4
<1>8. start + n * w <= Len(s)
  BY <1>1, <1>7 DEF Holds
<1>9. ASSUME NEW i \in 1..n PROVE Signed(s, start + (i - 1) * w, w, endian) = numbers[i]
  <2> HIDE DEF e, n, start, v
  <2>1. i - 1 \in Nat /\ i - 1 < Len(e) /\ (i - 1) + 1 = i /\ i - 1 <= Len(e)
    BY <1>2, <1>3
  <2>2. Holds(s, start + Len(Flat(e)[i - 1]), e[i])
    BY <1>2, <1>3, <1>7, <2>1, HoldsFlat
  <2>3. Len(Flat(e)[i - 1]) = (i - 1) * w
    BY <1>2, <2>1, FlatEven
  <2>4. start + (i - 1) * w \in Nat
    <3> DEFINE j == i - 1
    <3>1. j \in Nat
      BY <2>1
    <3> HIDE DEF j
    <3>2. j * w \in Nat
      BY <3>1
    <3> DEFINE y == j * w
    <3> HIDE DEF y
    <3>3. start + y \in Nat
      BY <1>3, <3>2 DEF y
    <3> QED
      BY <3>3 DEF y, j
  <2>5. numbers[i] \in SignedRange(w)
    BY DEF n
  <2> QED
    BY <1>2, <2>2, <2>3, <2>4, <2>5, SignedReadBack
<1>10. [i \in 1..n |-> Signed(s, start + (i - 1) * w, w, endian)] = numbers
  BY <1>9
<1>11. Len(ArrayBytes(t, endian)) = v + n * w
  BY <1>1, <1>3, CatType
<1>12. (at + v) + n * w = at + (v + n * w)
  <2> DEFINE y == n * w
  <2>1. y \in Nat
    BY <1>3
  <2> HIDE DEF y, v
  <2> QED
    BY <1>3, <2>1 DEF y
<1>13. CASE n <= left
  <2>1. ReadArray(s, at, left, type, endian)
        = [ok |-> TRUE, tag |-> Array(type, [i \in 1..n |-> Signed(s, start + (i - 1) * w, w, endian)]),
           at |-> start + n * w, left |-> left - n]
    BY <1>6, <1>8, <1>13 DEF ReadArray, Has, Affordable
  <2> HIDE DEF n, v
  <2>2. ReadArray(s, at, left, type, endian)
        = [ok |-> TRUE, tag |-> t, at |-> at + Len(ArrayBytes(t, endian)), left |-> left - n]
    BY <1>10, <1>11, <1>12, <2>1
  <2> QED
    BY <1>13, <2>2 DEF Outcome, n
<1>14. CASE ~(n <= left)
  <2>1. ReadArray(s, at, left, type, endian) = Failed
    BY <1>6, <1>14 DEF ReadArray, Affordable
  <2> QED
    BY <1>14, <2>1 DEF Outcome
<1> QED
  BY <1>13, <1>14

-----------------------------------------------------------------------------
(* The order of names, in which every name of a compound has its place.    *)

LEMMA BeforeTransitive ==
    ASSUME NEW a \in Seq(Byte), NEW b \in Seq(Byte), NEW c \in Seq(Byte),
           Before(a, b), Before(b, c)
    PROVE  Before(a, c)
<1>1. PICK i \in 1..Len(b) : /\ Len(a) >= i - 1 /\ \A j \in 1..(i - 1) : a[j] = b[j]
                             /\ Len(a) = i - 1 \/ a[i] < b[i]
  BY DEF Before
<1>2. PICK k \in 1..Len(c) : /\ Len(b) >= k - 1 /\ \A j \in 1..(k - 1) : b[j] = c[j]
                             /\ Len(b) = k - 1 \/ b[k] < c[k]
  BY DEF Before
<1>3. Len(a) \in Nat /\ Len(b) \in Nat /\ Len(c) \in Nat /\ i \in Nat /\ k \in Nat
  OBVIOUS
<1>4. CASE i < k
  <2>1. i \in 1..Len(c) /\ i \in 1..(k - 1)
    BY <1>3, <1>4
  <2>2. \A j \in 1..(i - 1) : a[j] = c[j]
    BY <1>1, <1>2, <1>3, <1>4
  <2>3. b[i] = c[i]
    BY <1>2, <2>1
  <2> QED
    BY <1>1, <2>1, <2>2, <2>3 DEF Before
<1>5. CASE k < i
  <2>1. k \in 1..(i - 1) /\ Len(a) >= k - 1 /\ Len(b) # k - 1
    BY <1>1, <1>3, <1>5
  <2>2. \A j \in 1..(k - 1) : a[j] = c[j]
    BY <1>1, <1>2, <1>3, <1>5
  <2>3. a[k] = b[k] /\ b[k] < c[k]
    BY <1>1, <1>2, <2>1
  <2> QED
    BY <2>1, <2>2, <2>3 DEF Before
<1>6. CASE k = i
  <2>1. Len(b) # k - 1
    BY <1>3, <1>6
  <2>2. b[i] < c[i]
    BY <1>2, <1>6, <2>1
  <2>3. \A j \in 1..(k - 1) : a[j] = c[j]
    BY <1>1, <1>2, <1>6
  <2>4. Len(a) = k - 1 \/ a[k] < c[k]
    <3>1. CASE Len(a) = i - 1
      BY <1>6, <3>1
    <3>2. CASE Len(a) # i - 1
      <4>1. a[i] < b[i] /\ Len(a) >= i
        BY <1>1, <1>3, <3>2
      <4>2. a[i] \in Int /\ b[i] \in Int /\ c[i] \in Int
        BY <1>3, <1>6, <4>1, BaseAssumption, SMTT(30) DEF Byte
      <4> QED
        BY <1>6, <2>2, <4>1, <4>2
    <3> QED
      BY <3>1, <3>2
  <2> QED
    BY <1>1, <1>6, <2>3, <2>4 DEF Before
<1> QED
  BY <1>3, <1>4, <1>5, <1>6

LEMMA BeforeIrreflexive ==
    ASSUME NEW a \in Seq(Byte)
    PROVE  ~Before(a, a)
<1> SUFFICES ASSUME NEW i \in 1..Len(a), Len(a) = i - 1 \/ a[i] < a[i] PROVE FALSE
  BY DEF Before
<1>1. Len(a) # i - 1
  OBVIOUS
<1>2. a[i] \in Int
  BY BaseAssumption DEF Byte
<1> QED
  BY <1>1, <1>2

LEMMA BeforeTotal ==
    ASSUME NEW a \in Seq(Byte), NEW b \in Seq(Byte), a # b
    PROVE  Before(a, b) \/ Before(b, a)
<1> DEFINE Differ == {j \in Nat \ {0} : j > Len(a) \/ j > Len(b) \/ a[j] # b[j]}
<1>1. Len(a) \in Nat /\ Len(b) \in Nat
  OBVIOUS
<1>2. Len(a) + 1 \in Differ
  BY <1>1
<1>3. PICK i \in Differ : \A j \in Differ : i <= j
  <2>1. Differ \subseteq Nat /\ Differ # {}
    BY <1>2
  <2> HIDE DEF Differ
  <2> QED
    BY <2>1, LeastNatural
<1>4. i \in Nat \ {0} /\ (i > Len(a) \/ i > Len(b) \/ a[i] # b[i])
  OBVIOUS
<1>5. ASSUME NEW j \in 1..(i - 1) PROVE j <= Len(a) /\ j <= Len(b) /\ a[j] = b[j]
  <2>1. j \in Nat \ {0} /\ ~(i <= j)
    BY <1>4
  <2>2. j \notin Differ
    BY <1>3, <2>1
  <2> QED
    BY <1>1, <2>1, <2>2
<1> HIDE DEF Differ
<1>6. Len(a) >= i - 1 /\ Len(b) >= i - 1
  <2>1. CASE i = 1
    BY <1>1, <2>1
  <2>2. CASE i # 1
    <3>1. i - 1 \in 1..(i - 1)
      BY <1>4, <2>2
    <3> QED
      BY <1>1, <1>4, <1>5, <3>1
  <2> QED
    BY <2>1, <2>2
<1>7. CASE i > Len(a) /\ i > Len(b)
  <2>1. Len(a) = i - 1 /\ Len(b) = i - 1
    BY <1>1, <1>4, <1>6, <1>7
  <2>2. a = [j \in 1..(i - 1) |-> a[j]] /\ b = [j \in 1..(i - 1) |-> b[j]]
    BY <2>1
  <2>3. a = b
    BY <1>5, <2>2
  <2> QED
    BY <2>3
<1>8. CASE i > Len(a) /\ ~(i > Len(b))
  <2>1. i \in 1..Len(b) /\ Len(a) = i - 1
    BY <1>1, <1>4, <1>6, <1>8
  <2> QED
    BY <1>5, <1>6, <2>1 DEF Before
<1>9. CASE ~(i > Len(a)) /\ i > Len(b)
  <2>1. i \in 1..Len(a) /\ Len(b) = i - 1
    BY <1>1, <1>4, <1>6, <1>9
  <2> QED
    BY <1>5, <1>6, <2>1 DEF Before
<1>10. CASE ~(i > Len(a)) /\ ~(i > Len(b))
  <2>1. i \in 1..Len(a) /\ i \in 1..Len(b) /\ a[i] # b[i]
    BY <1>1, <1>4, <1>10
  <2>2. a[i] \in Int /\ b[i] \in Int
    BY <2>1, BaseAssumption DEF Byte
  <2>3. a[i] < b[i] \/ b[i] < a[i]
    BY <2>1, <2>2
  <2>4. \A j \in 1..(i - 1) : a[j] = b[j]
    BY <1>5
  <2> QED
    BY <1>6, <2>1, <2>3, <2>4 DEF Before
<1> QED
  BY <1>7, <1>8, <1>9, <1>10

Rank(names, a) == Cardinality({b \in names : Before(b, a)})

LEMMA RankType ==
    ASSUME NEW names, names \subseteq Seq(Byte), IsFiniteSet(names), NEW a \in names
    PROVE  Rank(names, a) \in Nat /\ Rank(names, a) + 1 \in 1..Cardinality(names)
<1> DEFINE B == {b \in names : Before(b, a)}
<1>1. a \notin B /\ B \in SUBSET (names \ {a})
  BY BeforeIrreflexive
<1> HIDE DEF B
<1>2. IsFiniteSet(names \ {a}) /\ Cardinality(names \ {a}) = Cardinality(names) - 1
  BY FS_RemoveElement
<1>3. IsFiniteSet(B) /\ Cardinality(B) <= Cardinality(names \ {a})
  BY <1>1, <1>2, FS_Subset
<1>4. Cardinality(names) \in Nat /\ Cardinality(B) \in Nat
  BY <1>3, FS_CardinalityType
<1> QED
  BY <1>2, <1>3, <1>4 DEF B, Rank

LEMMA RankGrows ==
    ASSUME NEW names, names \subseteq Seq(Byte), IsFiniteSet(names),
           NEW a \in names, NEW c \in names, Before(a, c)
    PROVE  Rank(names, a) < Rank(names, c)
<1> DEFINE A == {b \in names : Before(b, a)}
           C == {b \in names : Before(b, c)}
<1>1. a \notin A /\ A \cup {a} \in SUBSET C
  BY BeforeIrreflexive, BeforeTransitive
<1>2. A \in SUBSET names /\ C \in SUBSET names
  OBVIOUS
<1> HIDE DEF A, C
<1>3. IsFiniteSet(A) /\ IsFiniteSet(C)
  BY <1>2, FS_Subset
<1>4. Cardinality(A \cup {a}) = Cardinality(A) + 1
  BY <1>1, <1>3, FS_AddElement
<1>5. Cardinality(A \cup {a}) <= Cardinality(C)
  BY <1>1, <1>3, FS_Subset
<1>6. Cardinality(A) \in Nat /\ Cardinality(C) \in Nat
  BY <1>3, FS_CardinalityType
<1> QED
  BY <1>4, <1>5, <1>6 DEF A, C, Rank

LEMMA RankIsUnique ==
    ASSUME NEW names, names \subseteq Seq(Byte), IsFiniteSet(names),
           NEW a \in names, NEW c \in names, Rank(names, a) = Rank(names, c)
    PROVE  a = c
<1> SUFFICES ASSUME a # c PROVE FALSE
  OBVIOUS
<1>1. a \in Seq(Byte) /\ c \in Seq(Byte)
  OBVIOUS
<1>2. Before(a, c) \/ Before(c, a)
  BY <1>1, BeforeTotal
<1>3. Rank(names, a) \in Nat /\ Rank(names, c) \in Nat
  BY RankType
<1>4. CASE Before(a, c)
  <2>1. Rank(names, a) < Rank(names, c)
    BY <1>4, RankGrows
  <2> QED
    BY <1>3, <2>1
<1>5. CASE Before(c, a)
  <2>1. Rank(names, c) < Rank(names, a)
    BY <1>5, RankGrows
  <2> QED
    BY <1>3, <2>1
<1> QED
  BY <1>2, <1>4, <1>5

LEMMA InOrderEnumerates ==
    ASSUME NEW names, names \subseteq Seq(Byte), IsFiniteSet(names)
    PROVE  /\ Cardinality(names) \in Nat
           /\ InOrder(names) \in Seq(names) /\ Len(InOrder(names)) = Cardinality(names)
           /\ \A i, j \in 1..Cardinality(names) : InOrder(names)[i] = InOrder(names)[j] => i = j
           /\ \A a \in names : \E i \in 1..Cardinality(names) : InOrder(names)[i] = a
<1> DEFINE n == Cardinality(names)
           f == [a \in names |-> Rank(names, a) + 1]
<1>1. n \in Nat
  BY FS_CardinalityType
<1>2. f \in [names -> 1..n]
  BY RankType
<1>3. \A a, c \in names : f[a] = f[c] => a = c
  <2> SUFFICES ASSUME NEW a \in names, NEW c \in names, f[a] = f[c] PROVE a = c
    OBVIOUS
  <2>1. Rank(names, a) \in Nat /\ Rank(names, c) \in Nat
    BY RankType
  <2>2. Rank(names, a) = Rank(names, c)
    BY <2>1
  <2> QED
    BY <2>2, RankIsUnique
<1>4. f \in Injection(names, 1..n)
  <2> HIDE DEF f, n
  <2> QED
    BY <1>2, <1>3 DEF Injection, IsInjective
<1>5. IsFiniteSet(1..n) /\ Cardinality(1..n) = n
  <2>1. IsFiniteSet(1..n) /\ Cardinality(1..n) = IF 1 > n THEN 0 ELSE n - 1 + 1
    BY <1>1, FS_Interval
  <2> HIDE DEF n
  <2> QED
    BY <1>1, <2>1
<1>6. f \in Surjection(names, 1..n)
  <2> HIDE DEF f
  <2> QED
    BY <1>4, <1>5, FS_Injection
<1>7. \A i \in 1..n : \E a \in names : f[a] = i
  <2> HIDE DEF f
  <2> QED
    BY <1>6 DEF Surjection
<1>8. ASSUME NEW i \in 1..n
      PROVE  InOrder(names)[i] \in names /\ Rank(names, InOrder(names)[i]) = i - 1
  <2>1. PICK a \in names : f[a] = i
    BY <1>7
  <2>2. Rank(names, a) \in Nat
    BY RankType
  <2>3. Rank(names, a) = i - 1
    BY <2>1, <2>2
  <2>4. InOrder(names)[i] = CHOOSE c \in names : Rank(names, c) = i - 1
    BY DEF InOrder, Rank
  <2> QED
    BY <2>3, <2>4
<1>9. ASSUME NEW a \in names PROVE \E i \in 1..n : InOrder(names)[i] = a
  <2> DEFINE i == Rank(names, a) + 1
  <2>1. i \in 1..n /\ i - 1 = Rank(names, a)
    BY RankType
  <2>2. InOrder(names)[i] \in names /\ Rank(names, InOrder(names)[i]) = i - 1
    BY <1>8, <2>1
  <2> HIDE DEF i, n
  <2>3. InOrder(names)[i] = a
    BY <2>1, <2>2, RankIsUnique
  <2> QED
    BY <2>1, <2>3
<1>10. InOrder(names) = [i \in 1..n |-> InOrder(names)[i]]
  <2> DEFINE chosen(i) == CHOOSE a \in names : Cardinality({b \in names : Before(b, a)}) = i - 1
  <2>1. InOrder(names) = [i \in 1..n |-> chosen(i)]
    BY DEF InOrder
  <2> HIDE DEF chosen, n
  <2> QED
    BY <2>1
<1> HIDE DEF n, f
<1>11. InOrder(names) \in Seq(names) /\ Len(InOrder(names)) = n
  BY <1>1, <1>8, <1>10
<1>12. \A i, j \in 1..n : InOrder(names)[i] = InOrder(names)[j] => i = j
  BY <1>1, <1>8
<1> QED
  BY <1>1, <1>9, <1>11, <1>12 DEF n

-----------------------------------------------------------------------------
(* Lists.                                                                  *)

\* The sum of the first numbers.
IsSum(sum, numbers) ==
    /\ sum[0] = 0
    /\ \A n \in Nat \ {0} : sum[n] = sum[n - 1] + numbers[n]
    /\ Sum(numbers) = sum[Len(numbers)]
Prefix(numbers) == CHOOSE sum : IsSum(sum, numbers)

LEMMA PrefixDef ==
    ASSUME NEW numbers
    PROVE  /\ Prefix(numbers)[0] = 0
           /\ \A n \in Nat : Prefix(numbers)[n + 1] = Prefix(numbers)[n] + numbers[n + 1]
           /\ Sum(numbers) = Prefix(numbers)[Len(numbers)]
<1>1. \E sum : IsSum(sum, numbers)
  BY SumDef DEF IsSum
<1>2. IsSum(Prefix(numbers), numbers)
  BY <1>1 DEF Prefix
<1>3. ASSUME NEW n \in Nat PROVE Prefix(numbers)[n + 1] = Prefix(numbers)[n] + numbers[n + 1]
  <2>1. n + 1 \in Nat \ {0} /\ (n + 1) - 1 = n
    OBVIOUS
  <2> QED
    BY <1>2, <2>1 DEF IsSum
<1> QED
  BY <1>2, <1>3 DEF IsSum

LEMMA PrefixType ==
    ASSUME NEW numbers \in Seq(Nat)
    PROVE  \A n \in Nat : n <= Len(numbers) => Prefix(numbers)[n] \in Nat
<1> DEFINE N == {n \in Nat : n <= Len(numbers) => Prefix(numbers)[n] \in Nat}
<1>1. 0 \in N
  <2>1. Prefix(numbers)[0] = 0
    BY PrefixDef
  <2> QED
    BY <2>1
<1>2. ASSUME NEW n \in Nat, n \in N PROVE n + 1 \in N
  <2> SUFFICES ASSUME n + 1 <= Len(numbers) PROVE Prefix(numbers)[n + 1] \in Nat
    OBVIOUS
  <2>1. Prefix(numbers)[n] \in Nat /\ numbers[n + 1] \in Nat
    BY <1>2
  <2>2. Prefix(numbers)[n + 1] = Prefix(numbers)[n] + numbers[n + 1]
    BY PrefixDef
  <2> QED
    BY <2>1, <2>2
<1> HIDE DEF N
<1>3. \A n \in Nat : n \in N
  BY <1>1, <1>2, Induction
<1> QED
  BY <1>3 DEF N

\* A reader makes of the bytes of a tag what it should.
Decodes(inner, s, tag, bytes, cost) ==
    \A at \in Nat, left \in Nat :
        Holds(s, at, bytes) => inner[<<at, left, tag.type>>] = Outcome(tag, bytes, cost, at, left)

\* Some tags of one type after the other.
Run(inner, s, type, tags, parts, costs) ==
    /\ tags \in Seq(Range(tags)) /\ parts \in Seq(Seq(Byte)) /\ costs \in Seq(Nat)
    /\ Len(parts) = Len(tags) /\ Len(costs) = Len(tags)
    /\ \A i \in 1..Len(tags) : tags[i].type = type /\ Decodes(inner, s, tags[i], parts[i], costs[i])

LEMMA ItemsNext ==
    ASSUME NEW at, NEW left, NEW type, NEW inner, NEW n \in Nat
    PROVE  Items(at, left, type, inner)[n + 1] = NextItem(Items(at, left, type, inner)[n], type, inner)
<1>1. /\ Items(at, left, type, inner)[0] = [ok |-> TRUE, items |-> <<>>, at |-> at, left |-> left]
      /\ \A m \in Nat \ {0} :
            Items(at, left, type, inner)[m] = NextItem(Items(at, left, type, inner)[m - 1], type, inner)
  BY ItemsDef
<1>2. n + 1 \in Nat \ {0} /\ (n + 1) - 1 = n
  OBVIOUS
<1> QED
  BY <1>1, <1>2

LEMMA FieldsNext ==
    ASSUME NEW s, NEW at, NEW left, NEW endian, NEW inner, NEW n \in Nat
    PROVE  Fields(s, at, left, endian, inner)[n + 1]
               = NextField(s, Fields(s, at, left, endian, inner)[n], endian, inner)
<1>1. /\ Fields(s, at, left, endian, inner)[0]
             = [ok |-> TRUE, done |-> FALSE, fields |-> <<>>, at |-> at, left |-> left]
      /\ \A m \in Nat \ {0} :
            Fields(s, at, left, endian, inner)[m]
                = NextField(s, Fields(s, at, left, endian, inner)[m - 1], endian, inner)
  BY FieldsDef
<1>2. n + 1 \in Nat \ {0} /\ (n + 1) - 1 = n
  OBVIOUS
<1> QED
  BY <1>1, <1>2

LEMMA ItemsReadBack ==
    ASSUME NEW s \in Seq(Byte), NEW at \in Nat, NEW left \in Nat, NEW type, NEW inner,
           NEW tags, NEW parts, NEW costs, Run(inner, s, type, tags, parts, costs),
           Holds(s, at, FlattenSeq(parts))
    PROVE  \A k \in Nat : k <= Len(tags) =>
              Items(at, left, type, inner)[k] =
                  IF Prefix(costs)[k] <= left
                  THEN [ok |-> TRUE, items |-> SubSeq(tags, 1, k),
                        at |-> at + Len(Flat(parts)[k]), left |-> left - Prefix(costs)[k]]
                  ELSE Failed
<1> DEFINE State(k) == IF Prefix(costs)[k] <= left
                       THEN [ok |-> TRUE, items |-> SubSeq(tags, 1, k),
                             at |-> at + Len(Flat(parts)[k]), left |-> left - Prefix(costs)[k]]
                       ELSE Failed
           read == Items(at, left, type, inner)
           N == {k \in Nat : k <= Len(tags) => read[k] = State(k)}
<1>0. /\ tags \in Seq(Range(tags)) /\ parts \in Seq(Seq(Byte)) /\ costs \in Seq(Nat)
      /\ Len(parts) = Len(tags) /\ Len(costs) = Len(tags) /\ Len(tags) \in Nat
      /\ \A i \in 1..Len(tags) : tags[i].type = type /\ Decodes(inner, s, tags[i], parts[i], costs[i])
  BY DEF Run
<1>1. 0 \in N
  <2>1. Prefix(costs)[0] = 0 /\ Flat(parts)[0] = <<>>
    BY PrefixDef, FlatDef
  <2>2. SubSeq(tags, 1, 0) = <<>>
    BY <1>0
  <2>3. at + Len(Flat(parts)[0]) = at /\ left - Prefix(costs)[0] = left /\ Prefix(costs)[0] <= left
    BY <2>1
  <2>4. read[0] = [ok |-> TRUE, items |-> <<>>, at |-> at, left |-> left]
    BY ItemsDef
  <2> QED
    BY <2>2, <2>3, <2>4
<1>2. ASSUME NEW k \in Nat, k \in N PROVE k + 1 \in N
  <2> SUFFICES ASSUME k + 1 <= Len(tags) PROVE read[k + 1] = State(k + 1)
    OBVIOUS
  <2> DEFINE c == Prefix(costs)[k]
             a == at + Len(Flat(parts)[k])
             t == tags[k + 1]
             x == parts[k + 1]
             d == costs[k + 1]
  <2>1. k < Len(tags) /\ k <= Len(tags) /\ k + 1 \in 1..Len(tags) /\ k + 1 \in Nat \ {0} /\ (k + 1) - 1 = k
    BY <1>0
  <2>2. read[k + 1] = NextItem(read[k], type, inner)
    <3>1. Items(at, left, type, inner)[k + 1] = NextItem(Items(at, left, type, inner)[k], type, inner)
      BY ItemsNext
    <3> QED
      BY <3>1
  <2>3. c \in Nat /\ d \in Nat /\ Prefix(costs)[k + 1] = c + d
    <3>1. \A j \in Nat : j <= Len(costs) => Prefix(costs)[j] \in Nat
      BY <1>0, PrefixType
    <3>2. c \in Nat
      BY <1>0, <2>1, <3>1
    <3>3. d \in Nat
      BY <1>0, <2>1
    <3>4. Prefix(costs)[k + 1] = Prefix(costs)[k] + costs[k + 1]
      BY PrefixDef
    <3> QED
      BY <3>2, <3>3, <3>4
  <2>4. /\ Len(Flat(parts)[k]) \in Nat /\ x \in Seq(Byte)
        /\ Len(Flat(parts)[k + 1]) = Len(Flat(parts)[k]) + Len(x)
    <3>1. k < Len(parts)
      BY <1>0, <2>1
    <3>2. Flat(parts)[k] \in Seq(Byte) /\ parts[k + 1] \in Seq(Byte)
          /\ Len(Flat(parts)[k + 1]) = Len(Flat(parts)[k]) + Len(parts[k + 1])
      BY <1>0, <3>1, FlatLen
    <3> DEFINE f == Flat(parts)[k]
    <3>3. f \in Seq(Byte)
      BY <3>2
    <3> HIDE DEF f
    <3>4. Len(f) \in Nat
      BY <3>3
    <3> QED
      BY <3>2, <3>4 DEF f
  <2>5. a \in Nat /\ Holds(s, a, x)
    BY <1>0, <2>1, <2>4, HoldsFlat
  <2>6. t.type = type /\ Decodes(inner, s, t, x, d)
    BY <1>0, <2>1
  <2>7. read[k] = State(k)
    BY <1>2, <2>1
  <2>8. CASE c <= left
    <3> DEFINE l == left - c
    <3>1. l \in Nat
      BY <2>3, <2>8
    <3>2. read[k] = [ok |-> TRUE, items |-> SubSeq(tags, 1, k), at |-> a, left |-> l]
      BY <2>7, <2>8
    <3> HIDE DEF a, l, t, x, d, c, read
    <3>3. inner[<<a, l, type>>] = Outcome(t, x, d, a, l)
      BY <2>5, <2>6, <3>1 DEF Decodes
    <3>4. CASE d <= l
      <4>1. inner[<<a, l, type>>] = [ok |-> TRUE, tag |-> t, at |-> a + Len(x), left |-> l - d]
        BY <3>3, <3>4 DEF Outcome
      <4> DEFINE r == read[k]
                 one == inner[<<a, l, type>>]
      <4>a. r.ok /\ r.items = SubSeq(tags, 1, k) /\ r.at = a /\ r.left = l
        BY <3>2
      <4>b. one.ok /\ one.tag = t /\ one.at = a + Len(x) /\ one.left = l - d
        BY <4>1
      <4>2. read[k + 1]
                = [ok |-> TRUE, items |-> Append(SubSeq(tags, 1, k), t), at |-> a + Len(x), left |-> l - d]
        <5> HIDE DEF r, one
        <5>1. NextItem(r, type, inner)
                  = [ok |-> TRUE, items |-> Append(r.items, one.tag), at |-> one.at, left |-> one.left]
          BY <4>a, <4>b DEF NextItem, one
        <5> QED
          BY <2>2, <4>a, <4>b, <5>1 DEF r
      <4>3. Append(SubSeq(tags, 1, k), t) = SubSeq(tags, 1, k + 1)
        BY <1>0, <2>1 DEF t
      <4>4. a + Len(x) = at + Len(Flat(parts)[k + 1])
        BY <2>4 DEF a
      <4>5. l - d = left - Prefix(costs)[k + 1] /\ Prefix(costs)[k + 1] <= left
        BY <2>3, <3>4 DEF l
      <4> QED
        BY <4>2, <4>3, <4>4, <4>5
    <3>5. CASE ~(d <= l)
      <4>1. inner[<<a, l, type>>] = Failed
        BY <3>3, <3>5 DEF Outcome
      <4>2. read[k + 1] = Failed
        BY <2>2, <3>2, <4>1 DEF NextItem, Failed
      <4>3. ~(Prefix(costs)[k + 1] <= left)
        BY <2>3, <3>5 DEF l
      <4> QED
        BY <4>2, <4>3
    <3> QED
      BY <3>4, <3>5
  <2>9. CASE ~(c <= left)
    <3>1. read[k] = Failed
      BY <2>7, <2>9
    <3>2. ~(Prefix(costs)[k + 1] <= left)
      BY <2>3, <2>9
    <3> HIDE DEF read
    <3>3. read[k + 1] = Failed
      BY <2>2, <3>1 DEF NextItem, Failed
    <3> QED
      BY <3>2, <3>3
  <2> QED
    BY <2>8, <2>9
<1> HIDE DEF N
<1>3. \A k \in Nat : k \in N
  BY <1>1, <1>2, Induction
<1> QED
  BY <1>3 DEF N

ListBytes(type, n, parts, endian) ==
    Cat(Cat(<<Code(type)>>, Digits(n, Width["Int"], endian)), FlattenSeq(parts))

LEMMA ListBytesType ==
    ASSUME NEW type \in Types \cup {"End"}, NEW n \in Nat, NEW parts \in Seq(Seq(Byte)), NEW endian
    PROVE  /\ ListBytes(type, n, parts, endian) \in Seq(Byte)
           /\ Len(ListBytes(type, n, parts, endian)) = 1 + Width["Int"] + Len(Flat(parts)[Len(parts)])
<1> DEFINE d == Digits(n, Width["Int"], endian)
           c == <<Code(type)>>
           x == FlattenSeq(parts)
<1>1. Width["Int"] \in Nat /\ n \in Int
  BY TypesAre, WidthType
<1>2. d \in Seq(Byte) /\ Len(d) = Width["Int"]
  BY <1>1, DigitsType
<1>3. c \in Seq(Byte) /\ Len(c) = 1
  BY CodeType
<1>4. x \in Seq(Byte) /\ x = Flat(parts)[Len(parts)]
  BY FlattenSeqIsFlat, FlattenSeqType
<1> HIDE DEF d, c, x
<1>5. Cat(c, d) \in Seq(Byte) /\ Len(Cat(c, d)) = 1 + Width["Int"]
  BY <1>2, <1>3, CatType
<1>6. Cat(Cat(c, d), x) \in Seq(Byte) /\ Len(Cat(Cat(c, d), x)) = 1 + Width["Int"] + Len(x)
  BY <1>4, <1>5, CatType
<1> QED
  BY <1>4, <1>6 DEF ListBytes, c, d, x

\* What is charged for tags that are charged for in turn.
Charge(costs) == Len(costs) + Sum(costs)

\* What is written of a list may be.
FitsList(type, tags) ==
    /\ type \in Types \cup {"End"}
    /\ Len(tags) <= MaxElements /\ Len(tags) <= MaxLength
    /\ Len(tags) = 0 \/ type # "End"

LEMMA ListReadBack ==
    ASSUME NEW s \in Seq(Byte), NEW at \in Nat, NEW left \in Nat, NEW endian, NEW inner,
           NEW type, NEW tags, NEW parts, NEW costs,
           Run(inner, s, type, tags, parts, costs), FitsList(type, tags),
           Holds(s, at, ListBytes(type, Len(tags), parts, endian))
    PROVE  ReadList(s, at, left, endian, inner)
               = Outcome(List(type, tags), ListBytes(type, Len(tags), parts, endian),
                         Charge(costs), at, left)
<1> DEFINE n == Len(tags)
           v == Width["Int"]
           d == Digits(n, v, endian)
           c == <<Code(type)>>
           x == FlattenSeq(parts)
           sum == Prefix(costs)[n]
           start == at + 1 + v
           read == Items(start, left - n, type, inner)[n]
<1>0. /\ tags \in Seq(Range(tags)) /\ parts \in Seq(Seq(Byte)) /\ costs \in Seq(Nat)
      /\ Len(parts) = n /\ Len(costs) = n /\ n \in Nat
  BY DEF Run
<1>f. /\ type \in Types \cup {"End"}
      /\ n <= MaxElements /\ n <= MaxLength /\ (n = 0 \/ type # "End")
  BY DEF FitsList
<1>1. v \in Nat /\ start \in Nat
  BY TypesAre, WidthType
<1>2. d \in Seq(Byte) /\ Len(d) = v
  BY <1>0, <1>1, DigitsType
<1>3. c \in Seq(Byte) /\ Len(c) = 1 /\ c[1] = Code(type)
  BY <1>f, CodeType
<1>4. x \in Seq(Byte)
  BY <1>0, FlattenSeqType
<1>5. Cat(c, d) \in Seq(Byte) /\ Len(Cat(c, d)) = 1 + v
  <2> HIDE DEF c, d, v
  <2> QED
    BY <1>2, <1>3, CatType
<1>6. Holds(s, at, Cat(c, d)) /\ Holds(s, at + (1 + v), x)
  <2> HIDE DEF c, d, v, x, n
  <2>1. Holds(s, at, Cat(Cat(c, d), x))
    BY DEF ListBytes, c, d, v, x, n
  <2> QED
    BY <1>4, <1>5, <2>1, HoldsCat
<1>7. Holds(s, at, c) /\ Holds(s, at + 1, d)
  <2> HIDE DEF c, d
  <2> QED
    BY <1>2, <1>3, <1>6, HoldsCat
<1>8. s[at + 1] = Code(type) /\ at + 1 <= Len(s)
  <2> HIDE DEF c
  <2> QED
    BY <1>3, <1>7 DEF Holds
<1>9. HasLength(s, at + 1, endian) /\ Signed(s, at + 1, v, endian) = n
  BY <1>0, <1>7, <1>f, LengthReadBack
<1>10. TypeOf(Code(type)) = type /\ ValidType(Code(type)) /\ (n = 0 \/ Code(type) # 0)
  BY <1>f, CodeType
<1>11. Holds(s, start, x)
  <2>1. at + (1 + v) = start
    BY <1>1
  <2> HIDE DEF start, x
  <2> QED
    BY <1>6, <2>1
<1>12. sum \in Nat /\ Sum(costs) = sum
  <2>1. \A j \in Nat : j <= Len(costs) => Prefix(costs)[j] \in Nat
    BY <1>0, PrefixType
  <2>2. n \in Nat /\ n <= Len(costs)
    BY <1>0
  <2>3. sum \in Nat
    BY <2>1, <2>2
  <2>4. Sum(costs) = Prefix(costs)[Len(costs)]
    BY PrefixDef
  <2> QED
    BY <1>0, <2>3, <2>4
<1>13. ReadList(s, at, left, endian, inner) =
         IF n <= left /\ read.ok
         THEN [ok |-> TRUE, tag |-> List(type, read.items), at |-> read.at, left |-> read.left]
         ELSE Failed
  <2> HIDE DEF n, v
  <2> QED
    BY <1>8, <1>9, <1>10, <1>f DEF ReadList, Has, Affordable, n, v
<1>14. Len(ListBytes(type, n, parts, endian)) = 1 + v + Len(Flat(parts)[n])
       /\ Len(Flat(parts)[n]) \in Nat
  <2>1. Len(ListBytes(type, n, parts, endian)) = 1 + v + Len(Flat(parts)[Len(parts)])
    BY <1>0, <1>f, ListBytesType
  <2> DEFINE f == Flat(parts)[n]
  <2>2. f \in Seq(Byte)
    <3>1. \A j \in Nat : j <= Len(parts) => Flat(parts)[j] \in Seq(Byte)
      BY <1>0, FlatIsSeq
    <3>2. n \in Nat /\ n <= Len(parts)
      BY <1>0
    <3> QED
      BY <3>1, <3>2
  <2> HIDE DEF f
  <2>3. Len(f) \in Nat
    BY <2>2
  <2> QED
    BY <1>0, <2>1, <2>3 DEF f
<1>15. ASSUME n <= left
       PROVE  ReadList(s, at, left, endian, inner)
                = Outcome(List(type, tags), ListBytes(type, n, parts, endian), n + Sum(costs), at, left)
  <2> DEFINE l == left - n
  <2>1. l \in Nat /\ n <= n
    BY <1>0, <1>15
  <2>2. read = IF sum <= l
               THEN [ok |-> TRUE, items |-> SubSeq(tags, 1, n),
                     at |-> start + Len(Flat(parts)[n]), left |-> l - sum]
               ELSE Failed
    <3>1. Holds(s, start, FlattenSeq(parts))
      BY <1>11
    <3> HIDE DEF l, start, x
    <3>2. \A k \in Nat : k <= Len(tags) =>
              Items(start, l, type, inner)[k] =
                  IF Prefix(costs)[k] <= l
                  THEN [ok |-> TRUE, items |-> SubSeq(tags, 1, k),
                        at |-> start + Len(Flat(parts)[k]), left |-> l - Prefix(costs)[k]]
                  ELSE Failed
      BY <1>1, <2>1, <3>1, ItemsReadBack
    <3>3. n \in Nat /\ n <= Len(tags)
      BY <1>0
    <3> HIDE DEF n
    <3>4. Items(start, l, type, inner)[n] =
                  IF Prefix(costs)[n] <= l
                  THEN [ok |-> TRUE, items |-> SubSeq(tags, 1, n),
                        at |-> start + Len(Flat(parts)[n]), left |-> l - Prefix(costs)[n]]
                  ELSE Failed
      BY <3>2, <3>3
    <3> QED
      BY <3>4 DEF l
  <2> HIDE DEF sum, read, start
  <2>3. CASE sum <= l
    <3>1. SubSeq(tags, 1, n) = tags
      BY <1>0
    <3>2. read = [ok |-> TRUE, items |-> tags, at |-> start + Len(Flat(parts)[n]), left |-> l - sum]
      BY <2>2, <2>3, <3>1
    <3>3. ReadList(s, at, left, endian, inner)
            = [ok |-> TRUE, tag |-> List(type, tags), at |-> start + Len(Flat(parts)[n]), left |-> l - sum]
      BY <1>13, <1>15, <3>2
    <3>4. start + Len(Flat(parts)[n]) = at + Len(ListBytes(type, n, parts, endian))
      <4> DEFINE y == Len(Flat(parts)[n])
      <4>1. y \in Nat /\ Len(ListBytes(type, n, parts, endian)) = 1 + v + y
        BY <1>14
      <4> HIDE DEF y, v, n
      <4>2. (at + 1 + v) + y = at + (1 + v + y)
        BY <1>1, <4>1
      <4> QED
        BY <4>1, <4>2 DEF start, y
    <3>5. n + sum <= left /\ l - sum = left - (n + sum)
      BY <1>0, <1>12, <2>3
    <3> QED
      BY <1>12, <3>3, <3>4, <3>5 DEF Outcome
  <2>4. CASE ~(sum <= l)
    <3>1. ReadList(s, at, left, endian, inner) = Failed
      BY <1>13, <2>2, <2>4 DEF Failed
    <3>2. ~(n + sum <= left)
      BY <1>0, <1>12, <2>4
    <3> QED
      BY <1>12, <3>1, <3>2 DEF Outcome
  <2> QED
    BY <2>3, <2>4
<1>16. ASSUME ~(n <= left)
       PROVE  ReadList(s, at, left, endian, inner)
                = Outcome(List(type, tags), ListBytes(type, n, parts, endian), n + Sum(costs), at, left)
  <2>1. ReadList(s, at, left, endian, inner) = Failed
    BY <1>13, <1>16
  <2>2. ~(n + sum <= left)
    BY <1>0, <1>12, <1>16
  <2> QED
    BY <1>12, <2>1, <2>2 DEF Outcome
<1>17. Charge(costs) = n + Sum(costs)
  BY <1>0 DEF Charge
<1> HIDE DEF n
<1>18. ReadList(s, at, left, endian, inner)
         = Outcome(List(type, tags), ListBytes(type, n, parts, endian), n + Sum(costs), at, left)
  BY <1>15, <1>16
<1> QED
  BY <1>17, <1>18 DEF n

-----------------------------------------------------------------------------
(* Compounds.                                                              *)

LEMMA HeaderType ==
    ASSUME NEW name \in Seq(Byte), NEW type \in Types \cup {"End"}, NEW endian
    PROVE  /\ Header(name, type, endian) = Cat(<<Code(type)>>, Text(name, endian))
           /\ <<Code(type)>> \in Seq(Byte) /\ Len(<<Code(type)>>) = 1
           /\ Text(name, endian) \in Seq(Byte)
           /\ Header(name, type, endian) \in Seq(Byte)
           /\ Len(Header(name, type, endian)) = 1 + Len(Text(name, endian))
<1>1. <<Code(type)>> \in Seq(Byte) /\ Len(<<Code(type)>>) = 1
  BY CodeType
<1>2. Text(name, endian) \in Seq(Byte)
  BY TextType
<1>3. Header(name, type, endian) = Cat(<<Code(type)>>, Text(name, endian))
  BY DEF Header, Cat
<1> DEFINE c == <<Code(type)>>
           x == Text(name, endian)
<1> HIDE DEF c, x
<1>4. Cat(c, x) \in Seq(Byte) /\ Len(Cat(c, x)) = 1 + Len(x)
  BY <1>1, <1>2, CatType DEF c, x
<1> QED
  BY <1>1, <1>2, <1>3, <1>4 DEF c, x

TextResult(text, end) == [ok |-> TRUE, text |-> text, at |-> end]

LEMMA HeaderReadBack ==
    ASSUME NEW s \in Seq(Byte), NEW at \in Nat, NEW endian,
           NEW name \in Seq(Byte), NEW type \in Types \cup {"End"}, TextFits(name),
           Holds(s, at, Header(name, type, endian))
    PROVE  /\ Has(s, at, 1) /\ s[at + 1] = Code(type)
           /\ ReadText(s, at + 1, endian) = TextResult(name, at + Len(Header(name, type, endian)))
<1> DEFINE c == <<Code(type)>>
           x == Text(name, endian)
<1>1. /\ Header(name, type, endian) = Cat(c, x) /\ c \in Seq(Byte) /\ Len(c) = 1
      /\ x \in Seq(Byte) /\ Len(Header(name, type, endian)) = 1 + Len(x)
  BY HeaderType
<1>2. c[1] = Code(type)
  OBVIOUS
<1> HIDE DEF c
<1>3. Holds(s, at, c) /\ Holds(s, at + 1, x)
  <2> HIDE DEF x
  <2> QED
    BY <1>1, HoldsCat, ZenonT(40)
<1>4. Has(s, at, 1) /\ s[at + 1] = Code(type)
  BY <1>1, <1>2, <1>3 DEF Holds, Has
<1>5. ReadText(s, at + 1, endian) = [ok |-> TRUE, text |-> name, at |-> (at + 1) + Len(x)]
  <2>1. at + 1 \in Nat
    OBVIOUS
  <2>2. Holds(s, at + 1, Text(name, endian))
    BY <1>3
  <2> DEFINE b == at + 1
  <2> HIDE DEF b
  <2>3. ReadText(s, b, endian) = [ok |-> TRUE, text |-> name, at |-> b + Len(x)]
    BY <2>1, <2>2, TextReadBack, ZenonT(40) DEF b
  <2> QED
    BY <2>3 DEF b
<1>6. (at + 1) + Len(x) = at + Len(Header(name, type, endian))
  <2> HIDE DEF x
  <2>1. Len(x) \in Nat
    BY <1>1
  <2> QED
    BY <1>1, <2>1
<1> QED
  BY <1>4, <1>5, <1>6 DEF TextResult

\* Some fields one after the other.
FieldParts(names, fields, bytes, endian) ==
    [i \in 1..Len(names) |-> Cat(Header(names[i], fields[names[i]].type, endian), bytes[i])]
Chosen(names, fields, k) == [x \in {names[i] : i \in 1..k} |-> fields[x]]

Row(inner, s, names, fields, bytes, costs) ==
    /\ names \in Seq(Seq(Byte)) /\ bytes \in Seq(Seq(Byte)) /\ costs \in Seq(Nat)
    /\ Len(bytes) = Len(names) /\ Len(costs) = Len(names)
    /\ \A i \in 1..Len(names) :
          /\ TextFits(names[i]) /\ fields[names[i]].type \in Types
          /\ Decodes(inner, s, fields[names[i]], bytes[i], costs[i])
    /\ \A i, j \in 1..Len(names) : names[i] = names[j] => i = j

LEMMA FieldPartsType ==
    ASSUME NEW inner, NEW s, NEW names, NEW fields, NEW bytes, NEW costs, NEW endian,
           Row(inner, s, names, fields, bytes, costs)
    PROVE  /\ FieldParts(names, fields, bytes, endian) \in Seq(Seq(Byte))
           /\ Len(FieldParts(names, fields, bytes, endian)) = Len(names)
           /\ \A i \in 1..Len(names) :
                 /\ FieldParts(names, fields, bytes, endian)[i]
                       = Cat(Header(names[i], fields[names[i]].type, endian), bytes[i])
                 /\ names[i] \in Seq(Byte) /\ bytes[i] \in Seq(Byte)
                 /\ Header(names[i], fields[names[i]].type, endian) \in Seq(Byte)
<1>1. \A i \in 1..Len(names) : names[i] \in Seq(Byte) /\ bytes[i] \in Seq(Byte)
                               /\ fields[names[i]].type \in Types \cup {"End"}
  BY DEF Row
<1>2. \A i \in 1..Len(names) : Header(names[i], fields[names[i]].type, endian) \in Seq(Byte)
  BY <1>1, HeaderType
<1>3. \A i \in 1..Len(names) : Cat(Header(names[i], fields[names[i]].type, endian), bytes[i]) \in Seq(Byte)
  BY <1>1, <1>2, CatType
<1>4. Len(names) \in Nat
  BY DEF Row
<1>5. FieldParts(names, fields, bytes, endian)
        = [i \in 1..Len(names) |-> Cat(Header(names[i], fields[names[i]].type, endian), bytes[i])]
  BY DEF FieldParts
<1> QED
  BY <1>1, <1>2, <1>3, <1>4, <1>5

LEMMA ChosenNext ==
    ASSUME NEW names, NEW fields, NEW k \in Nat
    PROVE  Put(Chosen(names, fields, k), names[k + 1], fields[names[k + 1]])
               = Chosen(names, fields, k + 1)
<1> DEFINE A == {names[i] : i \in 1..k}
           B == {names[i] : i \in 1..(k + 1)}
<1>1. B = A \cup {names[k + 1]}
  <2>1. 1..(k + 1) = (1..k) \cup {k + 1}
    OBVIOUS
  <2> QED
    BY <2>1
<1>2. Chosen(names, fields, k) = [x \in A |-> fields[x]]
      /\ Chosen(names, fields, k + 1) = [x \in B |-> fields[x]]
  BY DEF Chosen
<1> HIDE DEF A, B
<1>3. Put([x \in A |-> fields[x]], names[k + 1], fields[names[k + 1]]) = [x \in B |-> fields[x]]
  BY <1>1 DEF Put
<1> QED
  BY <1>2, <1>3

LEMMA SeqLen == ASSUME NEW S, NEW x \in Seq(S) PROVE Len(x) \in Nat
OBVIOUS

\* Where the reader of fields is.
FieldsState(fields, at, left) ==
    [ok |-> TRUE, done |-> FALSE, fields |-> fields, at |-> at, left |-> left]
FieldsDone(fields, at, left) ==
    [ok |-> TRUE, done |-> TRUE, fields |-> fields, at |-> at, left |-> left]

FieldOutcome(fields, name, f, endian, bytes, cost, a, l) ==
    IF 1 + cost <= l
    THEN FieldsState(Put(fields, name, f),
                     a + Len(Cat(Header(name, f.type, endian), bytes)), l - (1 + cost))
    ELSE Failed

LEMMA NextFieldReadBack ==
    ASSUME NEW s \in Seq(Byte), NEW endian, NEW inner, NEW fields, NEW f,
           NEW name \in Seq(Byte), TextFits(name), f.type \in Types,
           NEW bytes \in Seq(Byte), NEW cost \in Nat, Decodes(inner, s, f, bytes, cost),
           NEW a \in Nat, NEW l \in Nat, Holds(s, a, Cat(Header(name, f.type, endian), bytes))
    PROVE  NextField(s, FieldsState(fields, a, l), endian, inner)
             = FieldOutcome(fields, name, f, endian, bytes, cost, a, l)
<1> DEFINE h == Header(name, f.type, endian)
           read == [ok |-> TRUE, done |-> FALSE, fields |-> fields, at |-> a, left |-> l]
           text == ReadText(s, a + 1, endian)
           type == f.type
           code == s[a + 1]
           b == a + Len(h)
<1>1. type \in Types \cup {"End"} /\ type # "End"
  BY TypesAre
<1>2. h \in Seq(Byte)
  BY <1>1, HeaderType
<1>3. Holds(s, a, h) /\ Holds(s, b, bytes)
  <2> HIDE DEF h
  <2> QED
    BY <1>2, HoldsCat DEF h
<1>4. Has(s, a, 1) /\ code = Code(type) /\ text = [ok |-> TRUE, text |-> name, at |-> b]
  <2>0. Holds(s, a, Header(name, type, endian))
    BY <1>3
  <2> HIDE DEF type
  <2>1. /\ Has(s, a, 1) /\ s[a + 1] = Code(type)
        /\ ReadText(s, a + 1, endian) = TextResult(name, a + Len(Header(name, type, endian)))
    BY <1>1, <2>0, HeaderReadBack
  <2> QED
    BY <2>1 DEF type, TextResult
<1>5. code # 0 /\ ValidType(code) /\ TypeOf(code) = type
  <2> HIDE DEF type, code
  <2> QED
    BY <1>1, <1>4, CodeType
<1>6. b \in Nat /\ Len(h) \in Nat /\ Len(bytes) \in Nat
  <2>1. Len(h) \in Nat /\ Len(bytes) \in Nat
    BY <1>2, SeqLen
  <2> HIDE DEF h
  <2> QED
    BY <2>1
<1>7. Len(Cat(h, bytes)) = Len(h) + Len(bytes)
  <2> HIDE DEF h
  <2> QED
    BY <1>2, CatType
<1> DEFINE one == inner[<<text.at, l - 1, TypeOf(code)>>]
<1>8. NextField(s, read, endian, inner) =
         IF l >= 1 /\ one.ok
         THEN [ok |-> TRUE, done |-> FALSE, fields |-> Put(fields, name, one.tag),
               at |-> one.at, left |-> one.left]
         ELSE Failed
  <2>1. read.ok /\ ~read.done /\ read.fields = fields /\ read.at = a /\ read.left = l
    OBVIOUS
  <2>2. text.ok /\ text.text = name
    BY <1>4
  <2> HIDE DEF read, text, code
  <2>3. ReadText(s, read.at + 1, endian) = text /\ s[read.at + 1] = code
    BY <2>1 DEF text, code
  <2>4. Affordable(1, read.left) <=> l >= 1
    BY <2>1 DEF Affordable
  <2> QED
    BY <1>4, <1>5, <2>1, <2>2, <2>3, <2>4 DEF NextField
<1>9. ASSUME l >= 1
      PROVE  NextField(s, read, endian, inner)
             = IF 1 + cost <= l
               THEN [ok |-> TRUE, done |-> FALSE, fields |-> Put(fields, name, f),
                     at |-> a + Len(Cat(h, bytes)), left |-> l - (1 + cost)]
               ELSE Failed
  <2>1. l - 1 \in Nat /\ text.at = b
    BY <1>4, <1>9
  <2>2. one = Outcome(f, bytes, cost, b, l - 1)
    <3> HIDE DEF b, code, text
    <3>1. inner[<<b, l - 1, f.type>>] = Outcome(f, bytes, cost, b, l - 1)
      BY <1>3, <1>6, <2>1 DEF Decodes
    <3> QED
      BY <1>5, <2>1, <3>1
  <2> HIDE DEF one, read, text, code, h
  <2>3. CASE 1 + cost <= l
    <3>1. cost <= l - 1 /\ (l - 1) - cost = l - (1 + cost)
      BY <2>3
    <3>2. one = [ok |-> TRUE, tag |-> f, at |-> b + Len(bytes), left |-> l - (1 + cost)]
      BY <2>2, <3>1 DEF Outcome
    <3>3. one.ok /\ one.tag = f /\ one.at = b + Len(bytes) /\ one.left = l - (1 + cost)
      BY <3>2
    <3>4. b + Len(bytes) = a + Len(Cat(h, bytes))
      BY <1>6, <1>7
    <3> QED
      BY <1>8, <1>9, <2>3, <3>3, <3>4 DEF h, read
  <2>4. CASE ~(1 + cost <= l)
    <3>1. ~(cost <= l - 1)
      BY <2>4
    <3>2. one = Failed
      BY <2>2, <3>1 DEF Outcome
    <3>3. ~one.ok
      BY <3>2 DEF Failed
    <3> QED
      BY <1>8, <2>4, <3>3 DEF read
  <2> QED
    BY <2>3, <2>4
<1>10. ASSUME ~(l >= 1)
      PROVE  NextField(s, read, endian, inner)
             = IF 1 + cost <= l
               THEN [ok |-> TRUE, done |-> FALSE, fields |-> Put(fields, name, f),
                     at |-> a + Len(Cat(h, bytes)), left |-> l - (1 + cost)]
               ELSE Failed
  <2>1. ~(1 + cost <= l)
    BY <1>10
  <2> HIDE DEF one, read
  <2> QED
    BY <1>8, <1>10, <2>1 DEF read
<1>11. read = FieldsState(fields, a, l)
  BY DEF FieldsState
<1> HIDE DEF read, h
<1>12. NextField(s, read, endian, inner)
             = IF 1 + cost <= l
               THEN [ok |-> TRUE, done |-> FALSE, fields |-> Put(fields, name, f),
                     at |-> a + Len(Cat(h, bytes)), left |-> l - (1 + cost)]
               ELSE Failed
  BY <1>9, <1>10
<1> QED
  BY <1>11, <1>12 DEF h, FieldsState, FieldOutcome

FieldsAfter(k, names, fields, parts, costs, at, left) ==
    IF k + Prefix(costs)[k] <= left
    THEN FieldsState(Chosen(names, fields, k), at + Len(Flat(parts)[k]),
                     left - (k + Prefix(costs)[k]))
    ELSE Failed

LEMMA PrefixNext ==
    ASSUME NEW costs \in Seq(Nat), NEW k \in Nat, k < Len(costs)
    PROVE  /\ Prefix(costs)[k] \in Nat /\ costs[k + 1] \in Nat /\ Prefix(costs)[k + 1] \in Nat
           /\ Prefix(costs)[k + 1] = Prefix(costs)[k] + costs[k + 1]
<1>1. \A j \in Nat : j <= Len(costs) => Prefix(costs)[j] \in Nat
  BY PrefixType
<1>2. Prefix(costs)[k] \in Nat /\ Prefix(costs)[k + 1] \in Nat
  BY <1>1
<1>3. costs[k + 1] \in Nat
  OBVIOUS
<1>4. Prefix(costs)[k + 1] = Prefix(costs)[k] + costs[k + 1]
  BY PrefixDef
<1> QED
  BY <1>2, <1>3, <1>4

LEMMA NextFieldOfFailed ==
    ASSUME NEW s, NEW endian, NEW inner
    PROVE  NextField(s, Failed, endian, inner) = Failed
BY DEF NextField, Failed

LEMMA FieldsReadBack ==
    ASSUME NEW s \in Seq(Byte), NEW at \in Nat, NEW left \in Nat, NEW endian, NEW inner,
           NEW names, NEW fields, NEW bytes, NEW costs, Row(inner, s, names, fields, bytes, costs),
           NEW parts, parts = FieldParts(names, fields, bytes, endian),
           Holds(s, at, FlattenSeq(parts))
    PROVE  \A k \in Nat : k <= Len(names) =>
              Fields(s, at, left, endian, inner)[k] = FieldsAfter(k, names, fields, parts, costs, at, left)
<1> DEFINE read == Fields(s, at, left, endian, inner)
           State(k) == FieldsAfter(k, names, fields, parts, costs, at, left)
           N == {k \in Nat : k <= Len(names) => read[k] = State(k)}
<1>0. /\ names \in Seq(Seq(Byte)) /\ bytes \in Seq(Seq(Byte)) /\ costs \in Seq(Nat)
      /\ Len(bytes) = Len(names) /\ Len(costs) = Len(names) /\ Len(names) \in Nat
      /\ \A i \in 1..Len(names) :
            /\ TextFits(names[i]) /\ fields[names[i]].type \in Types
            /\ Decodes(inner, s, fields[names[i]], bytes[i], costs[i])
  BY DEF Row
<1>p. /\ parts \in Seq(Seq(Byte)) /\ Len(parts) = Len(names)
      /\ \A i \in 1..Len(names) :
             /\ parts[i] = Cat(Header(names[i], fields[names[i]].type, endian), bytes[i])
             /\ names[i] \in Seq(Byte) /\ bytes[i] \in Seq(Byte)
  BY FieldPartsType
<1>1. 0 \in N
  <2>1. Prefix(costs)[0] = 0 /\ Flat(parts)[0] = <<>>
    BY PrefixDef, FlatDef
  <2>2. Chosen(names, fields, 0) = <<>>
    BY DEF Chosen
  <2>3. at + Len(Flat(parts)[0]) = at /\ left - (0 + Prefix(costs)[0]) = left /\ 0 + Prefix(costs)[0] <= left
    BY <2>1
  <2>4. State(0) = FieldsState(<<>>, at, left)
    BY <2>2, <2>3 DEF FieldsAfter
  <2>5. /\ read[0] = [ok |-> TRUE, done |-> FALSE, fields |-> <<>>, at |-> at, left |-> left]
        /\ \A n \in Nat \ {0} : read[n] = NextField(s, read[n - 1], endian, inner)
    BY FieldsDef
  <2>6. read[0] = FieldsState(<<>>, at, left)
    BY <2>5 DEF FieldsState
  <2> QED
    BY <2>4, <2>6
<1>2. ASSUME NEW k \in Nat, k \in N PROVE k + 1 \in N
  <2> SUFFICES ASSUME k + 1 <= Len(names) PROVE read[k + 1] = State(k + 1)
    OBVIOUS
  <2> DEFINE c == k + Prefix(costs)[k]
             a == at + Len(Flat(parts)[k])
             name == names[k + 1]
             f == fields[names[k + 1]]
             x == bytes[k + 1]
             p == parts[k + 1]
             d == costs[k + 1]
  <2>1. k < Len(names) /\ k <= Len(names) /\ k + 1 \in 1..Len(names)
    BY <1>0
  <2>2. read[k + 1] = NextField(s, read[k], endian, inner)
    BY FieldsNext
  <2>3. c \in Nat /\ d \in Nat /\ (k + 1) + Prefix(costs)[k + 1] = c + (1 + d)
    <3> DEFINE q == Prefix(costs)[k]
               r == Prefix(costs)[k + 1]
    <3>1. q \in Nat /\ d \in Nat /\ r = q + d
      BY <1>0, <2>1, PrefixNext
    <3> HIDE DEF q, r, d
    <3>2. k + q \in Nat /\ (k + 1) + r = (k + q) + (1 + d)
      BY <3>1
    <3> QED
      BY <3>1, <3>2 DEF q, r
  <2>4. /\ Flat(parts)[k] \in Seq(Byte) /\ p \in Seq(Byte)
        /\ Len(Flat(parts)[k + 1]) = Len(Flat(parts)[k]) + Len(p)
    BY <1>p, <2>1, FlatLen
  <2>5. Len(Flat(parts)[k]) \in Nat /\ Len(p) \in Nat
    BY <2>4, SeqLen
  <2>6. a \in Nat /\ Holds(s, a, p)
    <3>1. \A n \in Nat : n < Len(parts) => Holds(s, at + Len(Flat(parts)[n]), parts[n + 1])
      BY <1>p, HoldsFlat
    <3>2. Holds(s, at + Len(Flat(parts)[k]), parts[k + 1])
      BY <1>p, <2>1, <3>1
    <3> DEFINE y == Len(Flat(parts)[k])
    <3>3. y \in Nat
      BY <2>5
    <3> HIDE DEF y
    <3>4. at + y \in Nat
      BY <3>3
    <3> QED
      BY <3>2, <3>4 DEF y
  <2>7. /\ TextFits(name) /\ f.type \in Types /\ Decodes(inner, s, f, x, d)
        /\ name \in Seq(Byte) /\ x \in Seq(Byte)
    BY <1>0, <1>p, <2>1
  <2>8. p = Cat(Header(name, f.type, endian), x)
    BY <1>p, <2>1
  <2>9. read[k] = State(k)
    BY <1>2, <2>1
  <2>10. CASE c <= left
    <3> DEFINE l == left - c
               F == Chosen(names, fields, k)
    <3>1. l \in Nat
      BY <2>3, <2>10
    <3>2. read[k] = FieldsState(F, a, l)
      BY <2>9, <2>10 DEF FieldsAfter
    <3>3. Put(F, name, f) = Chosen(names, fields, k + 1)
      BY ChosenNext
    <3> HIDE DEF a, l, name, f, x, p, d, c, read, F, State
    <3>a. Holds(s, a, Cat(Header(name, f.type, endian), x)) /\ a \in Nat /\ d \in Nat
      BY <2>3, <2>6, <2>8
    <3>4. NextField(s, FieldsState(F, a, l), endian, inner)
             = FieldOutcome(F, name, f, endian, x, d, a, l)
      BY <2>7, <3>1, <3>a, NextFieldReadBack
    <3>5. a + Len(p) = at + Len(Flat(parts)[k + 1])
      BY <2>4, <2>5 DEF a
    <3>6. read[k + 1] = IF 1 + d <= l
               THEN FieldsState(Chosen(names, fields, k + 1), at + Len(Flat(parts)[k + 1]), l - (1 + d))
               ELSE Failed
      BY <2>2, <2>8, <3>2, <3>3, <3>4, <3>5 DEF FieldOutcome
    <3>7. (1 + d <= l <=> (k + 1) + Prefix(costs)[k + 1] <= left)
          /\ l - (1 + d) = left - ((k + 1) + Prefix(costs)[k + 1])
      BY <2>3, <2>10 DEF l
    <3> QED
      BY <3>6, <3>7 DEF State, FieldsAfter
  <2>11. CASE ~(c <= left)
    <3>1. read[k] = Failed
      BY <2>9, <2>11 DEF FieldsAfter
    <3>2. ~((k + 1) + Prefix(costs)[k + 1] <= left)
      BY <2>3, <2>11
    <3> HIDE DEF read
    <3>3. read[k + 1] = Failed
      BY <2>2, <3>1, NextFieldOfFailed
    <3> QED
      BY <3>2, <3>3 DEF FieldsAfter
  <2> QED
    BY <2>10, <2>11
<1> HIDE DEF N
<1>3. \A k \in Nat : k \in N
  BY <1>1, <1>2, Induction
<1> QED
  BY <1>3 DEF N

\* A reader of fields that has come to an end stays there.
LEMMA FieldsStay ==
    ASSUME NEW s, NEW at, NEW left, NEW endian, NEW inner, NEW m \in Nat,
           \/ Fields(s, at, left, endian, inner)[m] = Failed
           \/ \E fields, b, l : Fields(s, at, left, endian, inner)[m] = FieldsDone(fields, b, l)
    PROVE  \A n \in Nat : n >= m =>
              Fields(s, at, left, endian, inner)[n] = Fields(s, at, left, endian, inner)[m]
<1> DEFINE read == Fields(s, at, left, endian, inner)
           N == {j \in Nat : read[m + j] = read[m]}
<1>1. 0 \in N
  OBVIOUS
<1>2. NextField(s, read[m], endian, inner) = read[m]
  <2>1. CASE read[m] = Failed
    BY <2>1, NextFieldOfFailed
  <2>2. ASSUME NEW fields, NEW b, NEW l, read[m] = FieldsDone(fields, b, l)
        PROVE  NextField(s, read[m], endian, inner) = read[m]
    <3> HIDE DEF read
    <3>1. read[m].done
      BY <2>2 DEF FieldsDone
    <3> QED
      BY <3>1 DEF NextField
  <2> QED
    BY <2>1, <2>2
<1>3. ASSUME NEW j \in Nat, j \in N PROVE j + 1 \in N
  <2>1. read[(m + j) + 1] = NextField(s, read[m + j], endian, inner)
    <3>1. m + j \in Nat
      OBVIOUS
    <3> QED
      BY <3>1, FieldsNext
  <2>2. (m + j) + 1 = m + (j + 1)
    OBVIOUS
  <2> HIDE DEF read
  <2> QED
    BY <1>2, <1>3, <2>1, <2>2
<1> HIDE DEF N
<1>4. \A j \in Nat : j \in N
  BY <1>1, <1>3, Induction
<1>5. ASSUME NEW n \in Nat, n >= m PROVE read[n] = read[m]
  <2>1. n - m \in N /\ m + (n - m) = n
    BY <1>4, <1>5
  <2> QED
    BY <2>1 DEF N
<1> QED
  BY <1>5

CompoundBytes(parts) == Cat(FlattenSeq(parts), <<0>>)

LEMMA ZeroType == <<0>> \in Seq(Byte) /\ Len(<<0>>) = 1
BY BaseAssumption DEF Byte

LEMMA CompoundBytesType ==
    ASSUME NEW parts \in Seq(Seq(Byte))
    PROVE  /\ CompoundBytes(parts) \in Seq(Byte)
           /\ Flat(parts)[Len(parts)] \in Seq(Byte)
           /\ Len(CompoundBytes(parts)) = Len(Flat(parts)[Len(parts)]) + 1
<1> DEFINE x == FlattenSeq(parts)
           z == <<0>>
<1>1. x \in Seq(Byte) /\ x = Flat(parts)[Len(parts)]
  BY FlattenSeqIsFlat, FlattenSeqType
<1>2. z \in Seq(Byte) /\ Len(z) = 1
  BY ZeroType
<1> HIDE DEF x, z
<1>3. Cat(x, z) \in Seq(Byte) /\ Len(Cat(x, z)) = Len(x) + 1
  BY <1>1, <1>2, CatType
<1> QED
  BY <1>1, <1>3 DEF CompoundBytes, x, z

LEMMA CompoundReadBack ==
    ASSUME NEW s \in Seq(Byte), NEW at \in Nat, NEW left \in Nat, NEW endian, NEW inner,
           NEW names, NEW fields, NEW bytes, NEW costs, Row(inner, s, names, fields, bytes, costs),
           Len(names) <= MaxElements,
           fields = Chosen(names, fields, Len(names)),
           NEW parts, parts = FieldParts(names, fields, bytes, endian),
           Holds(s, at, CompoundBytes(parts))
    PROVE  ReadCompound(s, at, left, endian, inner)
               = Outcome(Compound(fields), CompoundBytes(parts), Charge(costs), at, left)
<1> DEFINE m == Len(names)
           x == FlattenSeq(parts)
           z == <<0>>
           y == Len(Flat(parts)[m])
           sum == Prefix(costs)[m]
           a == at + y
           c == m + sum
           read == Fields(s, at, left, endian, inner)
<1>0. costs \in Seq(Nat) /\ Len(costs) = m /\ m \in Nat /\ parts \in Seq(Seq(Byte)) /\ Len(parts) = m
  <2>1. costs \in Seq(Nat) /\ Len(costs) = m /\ m \in Nat
    BY DEF Row
  <2> QED
    BY <2>1, FieldPartsType
<1>1. x \in Seq(Byte) /\ x = Flat(parts)[m]
  BY <1>0, FlattenSeqIsFlat, FlattenSeqType
<1>2. z \in Seq(Byte) /\ Len(z) = 1 /\ z[1] = 0
  BY ZeroType
<1>3. y = Len(x) /\ y \in Nat /\ a \in Nat
  <2> HIDE DEF x
  <2>1. Len(x) \in Nat
    BY <1>1, SeqLen
  <2> QED
    BY <1>1, <2>1
<1>4. Holds(s, at, x) /\ Holds(s, a, z)
  <2> HIDE DEF x, z, y
  <2>1. Holds(s, at, Cat(x, z))
    BY DEF CompoundBytes, x, z
  <2>2. Holds(s, at, x) /\ Holds(s, at + Len(x), z)
    BY <1>1, <1>2, <2>1, HoldsCat
  <2> QED
    BY <1>3, <2>2
<1>5. s[a + 1] = 0 /\ Has(s, a, 1)
  <2> HIDE DEF z, a
  <2> QED
    BY <1>2, <1>4 DEF Holds, Has
<1>6. sum \in Nat /\ Sum(costs) = sum
  <2>1. \A j \in Nat : j <= Len(costs) => Prefix(costs)[j] \in Nat
    BY <1>0, PrefixType
  <2>2. m \in Nat /\ m <= Len(costs)
    BY <1>0
  <2>3. Sum(costs) = Prefix(costs)[Len(costs)]
    BY PrefixDef
  <2> QED
    BY <1>0, <2>1, <2>2, <2>3
<1>7. read[m] = FieldsAfter(m, names, fields, parts, costs, at, left)
  <2>1. \A k \in Nat : k <= Len(names) =>
              Fields(s, at, left, endian, inner)[k] = FieldsAfter(k, names, fields, parts, costs, at, left)
    BY <1>4, FieldsReadBack
  <2>2. m \in Nat /\ m <= Len(names)
    BY <1>0
  <2> QED
    BY <2>1, <2>2
<1>8. MaxElements + 1 \in Nat /\ MaxElements + 1 >= m + 1 /\ m + 1 \in Nat
      /\ MaxElements + 1 >= m
  BY <1>0, LimitsAssumption
<1>9. Len(CompoundBytes(parts)) = y + 1
  BY <1>0, CompoundBytesType
<1>10. read[m + 1] = NextField(s, read[m], endian, inner)
  BY <1>0, FieldsNext
<1>11. ASSUME c <= left
       PROVE  ReadCompound(s, at, left, endian, inner)
                = Outcome(Compound(fields), CompoundBytes(parts), m + Sum(costs), at, left)
  <2>1. read[m] = FieldsState(fields, a, left - c)
    BY <1>7, <1>11 DEF FieldsAfter
  <2> DEFINE l == left - c
             r == FieldsState(fields, a, l)
  <2>2. r.ok /\ ~r.done /\ r.at = a /\ r.fields = fields /\ r.left = l
    BY DEF FieldsState
  <2> HIDE DEF r, read, a, l
  <2>3. NextField(s, r, endian, inner) = FieldsDone(fields, a + 1, l)
    BY <1>5, <2>2 DEF NextField, FieldsDone
  <2>4. read[m + 1] = FieldsDone(fields, a + 1, l)
    BY <1>10, <2>1, <2>2, <2>3 DEF r, l
  <2>5. read[MaxElements + 1] = FieldsDone(fields, a + 1, l)
    <3>1. \A n \in Nat : n >= m + 1 => read[n] = read[m + 1]
      BY <1>8, <2>4, FieldsStay DEF read
    <3> QED
      BY <1>8, <2>4, <3>1
  <2>6. ReadCompound(s, at, left, endian, inner)
          = [ok |-> TRUE, tag |-> Compound(fields), at |-> a + 1, left |-> l]
    <3> DEFINE e == FieldsDone(fields, a + 1, l)
    <3>1. e.ok /\ e.fields = fields /\ e.at = a + 1 /\ e.left = l
      BY DEF FieldsDone
    <3> HIDE DEF e
    <3>2. Fields(s, at, left, endian, inner)[MaxElements + 1] = e
      BY <2>5 DEF read, e
    <3> QED
      BY <3>1, <3>2 DEF ReadCompound
  <2>7. a + 1 = at + Len(CompoundBytes(parts))
    BY <1>3, <1>9 DEF a
  <2> QED
    BY <1>6, <1>11, <2>6, <2>7 DEF Outcome, l
<1>12. ASSUME ~(c <= left)
       PROVE  ReadCompound(s, at, left, endian, inner)
                = Outcome(Compound(fields), CompoundBytes(parts), m + Sum(costs), at, left)
  <2>1. read[m] = Failed
    BY <1>7, <1>12 DEF FieldsAfter
  <2>2. read[MaxElements + 1] = Failed
    <3> HIDE DEF m
    <3>1. \A n \in Nat : n >= m => read[n] = read[m]
      BY <1>0, <2>1, FieldsStay
    <3> QED
      BY <1>8, <2>1, <3>1
  <2>3. ReadCompound(s, at, left, endian, inner) = Failed
    BY <2>2 DEF ReadCompound, Failed
  <2> QED
    BY <1>6, <1>12, <2>3 DEF Outcome
<1>13. Charge(costs) = m + Sum(costs)
  BY <1>0 DEF Charge
<1>14. ReadCompound(s, at, left, endian, inner)
         = Outcome(Compound(fields), CompoundBytes(parts), m + Sum(costs), at, left)
  BY <1>11, <1>12
<1> HIDE DEF m
<1> QED
  BY <1>13, <1>14

-----------------------------------------------------------------------------
(* One tag, of any type, when the tags it holds are read back.             *)

Codes(s, endian, t, bytes, cost, inner) ==
    /\ WritePayload(t, endian, bytes) \in Seq(Byte) /\ Cost(t, cost) \in Nat
    /\ \A at \in Nat, left \in Nat :
          Holds(s, at, WritePayload(t, endian, bytes)) =>
              ReadPayload(s, at, left, t.type, endian, inner)
                  = Outcome(t, WritePayload(t, endian, bytes), Cost(t, cost), at, left)

LEMMA SumOfNone == Sum(<<>>) = 0
<1>1. Sum(<<>>) = Prefix(<<>>)[Len(<<>>)] /\ Prefix(<<>>)[0] = 0
  BY PrefixDef
<1> QED
  BY <1>1

LEMMA CostOfNoParts ==
    ASSUME NEW t, NEW cost, t.type \notin DOMAIN ElementOf, Parts(t) = <<>>
    PROVE  Cost(t, cost) = 0
<1> DEFINE numbers == [i \in DOMAIN Parts(t) |-> cost[Parts(t)[i]]]
<1>1. numbers = <<>>
  BY DEF numbers
<1>2. Len(Parts(t)) = 0
  OBVIOUS
<1> HIDE DEF numbers
<1>3. Cost(t, cost) = Len(Parts(t)) + Sum(numbers)
  BY DEF Cost, numbers
<1> QED
  BY <1>1, <1>2, <1>3, SumOfNone

LEMMA NumberStep ==
    ASSUME NEW s \in Seq(Byte), NEW endian, NEW t, IsTag(t), t.type \in DOMAIN Width,
           NEW bytes, NEW cost, NEW inner
    PROVE  Codes(s, endian, t, bytes, cost, inner)
<1> DEFINE type == t.type
           n == t.number
           w == Width[type]
           x == Digits(n, w, endian)
<1>1. t = Number(type, n) /\ n \in SignedRange(w)
  BY DEF IsTag
<1>2. type \in DOMAIN Width /\ type \notin DOMAIN ElementOf /\ type # "String" /\ type # "List"
      /\ type # "Compound" /\ type # "End"
  BY TypesAre
<1> HIDE DEF type
<1>3. WritePayload(t, endian, bytes) = x
  BY <1>2 DEF WritePayload, type
<1>4. \A at, left : ReadPayload(s, at, left, type, endian, inner) = ReadNumber(s, at, left, type, endian)
  BY <1>2 DEF ReadPayload
<1>5. Parts(t) = <<>>
  BY <1>2 DEF Parts, type
<1>6. Cost(t, cost) = 0
  BY <1>2, <1>5, CostOfNoParts DEF type
<1>7. x \in Seq(Byte)
  <2>1. w \in Nat
    BY <1>2, WidthType
  <2>2. n \in Int
    BY <1>1, <2>1, PowerType DEF SignedRange
  <2> HIDE DEF n, w
  <2> QED
    BY <2>1, <2>2, DigitsType
<1>8. ASSUME NEW at \in Nat, NEW left \in Nat, Holds(s, at, x)
      PROVE  ReadPayload(s, at, left, type, endian, inner) = Outcome(t, x, 0, at, left)
  <2> HIDE DEF n
  <2>1. ReadNumber(s, at, left, type, endian) = Outcome(Number(type, n), x, 0, at, left)
    BY <1>1, <1>2, <1>8, NumberReadBack
  <2> QED
    BY <1>1, <1>4, <2>1
<1> HIDE DEF x
<1> QED
  BY <1>3, <1>6, <1>7, <1>8 DEF Codes, type

LEMMA StringStep ==
    ASSUME NEW s \in Seq(Byte), NEW endian, NEW t, IsTag(t), t.type = "String",
           NEW depth, Writable(t, depth), NEW bytes, NEW cost, NEW inner
    PROVE  Codes(s, endian, t, bytes, cost, inner)
<1> DEFINE x == Text(t.text, endian)
<1>1. t = String(t.text) /\ t.text \in Seq(Byte)
  BY DEF IsTag
<1>2. "String" \notin DOMAIN Width /\ "String" \notin DOMAIN ElementOf
  BY TypesAre
<1>3. WritePayload(t, endian, bytes) = x
  BY <1>2 DEF WritePayload
<1>4. \A at, left : ReadPayload(s, at, left, t.type, endian, inner) = ReadString(s, at, left, endian)
  BY <1>2 DEF ReadPayload
<1>5. Parts(t) = <<>>
  BY DEF Parts
<1>6. Cost(t, cost) = 0
  BY <1>2, <1>5, CostOfNoParts
<1>7. x \in Seq(Byte)
  BY <1>1, TextType
<1>8. TextFits(t.text)
  BY DEF Writable
<1>9. ASSUME NEW at \in Nat, NEW left \in Nat, Holds(s, at, x)
      PROVE  ReadPayload(s, at, left, t.type, endian, inner) = Outcome(t, x, 0, at, left)
  <2> DEFINE text == t.text
  <2>1. text \in Seq(Byte) /\ TextFits(text) /\ Holds(s, at, Text(text, endian)) /\ t = String(text)
    BY <1>1, <1>8, <1>9
  <2> HIDE DEF text
  <2>2. ReadString(s, at, left, endian) = Outcome(String(text), Text(text, endian), 0, at, left)
    BY <2>1, StringReadBack
  <2> QED
    BY <1>4, <2>1, <2>2 DEF text
<1> HIDE DEF x
<1> QED
  BY <1>3, <1>6, <1>7, <1>9 DEF Codes

LEMMA ArrayStep ==
    ASSUME NEW s \in Seq(Byte), NEW endian, NEW t, IsTag(t), t.type \in DOMAIN ElementOf,
           NEW depth, Writable(t, depth), NEW bytes, NEW cost, NEW inner
    PROVE  Codes(s, endian, t, bytes, cost, inner)
<1> DEFINE type == t.type
           numbers == t.array
           w == Width[ElementOf[type]]
           x == ArrayBytes(Array(type, numbers), endian)
<1>1. t = Array(type, numbers) /\ numbers \in Seq(SignedRange(w))
  BY DEF IsTag
<1>2. type \notin DOMAIN Width /\ type \in DOMAIN ElementOf /\ type # "String" /\ type # "List"
      /\ type # "Compound" /\ type # "End"
  BY TypesAre
<1>3. w \in Nat
  BY <1>2, ElementWidth
<1>4. ArrayFits(type, Len(numbers))
  BY <1>2 DEF Writable
<1> HIDE DEF type, numbers
<1>5. WritePayload(t, endian, bytes) = x
  BY <1>1, <1>2 DEF WritePayload, type
<1>6. \A at, left : ReadPayload(s, at, left, type, endian, inner) = ReadArray(s, at, left, type, endian)
  BY <1>2 DEF ReadPayload
<1>7. Cost(t, cost) = Len(numbers)
  BY <1>2 DEF Cost, type, numbers
<1> HIDE DEF w
<1>8. x \in Seq(Byte)
  BY <1>1, <1>2, <1>3, ArrayBytesType DEF w
<1>9. ASSUME NEW at \in Nat, NEW left \in Nat, Holds(s, at, x)
      PROVE  ReadPayload(s, at, left, type, endian, inner) = Outcome(t, x, Len(numbers), at, left)
  <2>1. ReadArray(s, at, left, type, endian) = Outcome(Array(type, numbers), x, Len(numbers), at, left)
    BY <1>1, <1>2, <1>3, <1>4, <1>9, ArrayReadBack DEF w
  <2> QED
    BY <1>1, <1>6, <2>1
<1>10. Len(numbers) \in Nat
  BY <1>1, SeqLen
<1> HIDE DEF x
<1> QED
  BY <1>5, <1>7, <1>8, <1>9, <1>10 DEF Codes, type

\* What is to be known of the tags a tag holds.
Holding(s, t, bytes, cost, inner) ==
    \A c \in Range(Parts(t)) : /\ bytes[c] \in Seq(Byte) /\ cost[c] \in Nat /\ c.type \in Types
                               /\ Decodes(inner, s, c, bytes[c], cost[c])

LEMMA ListStep ==
    ASSUME NEW s \in Seq(Byte), NEW endian, NEW t, IsTag(t), t.type = "List",
           NEW depth, Writable(t, depth), NEW bytes, NEW cost, NEW inner,
           Holding(s, t, bytes, cost, inner)
    PROVE  Codes(s, endian, t, bytes, cost, inner)
<1> DEFINE type == t.of
           tags == t.list
           parts == [i \in DOMAIN tags |-> bytes[tags[i]]]
           costs == [i \in DOMAIN tags |-> cost[tags[i]]]
           n == Len(tags)
           x == ListBytes(type, n, parts, endian)
<1>1. t = List(type, tags) /\ type \in Types \cup {"End"} /\ tags \in Seq(Range(tags))
  BY DEF IsTag
<1>2. "List" \notin DOMAIN Width /\ "List" \notin DOMAIN ElementOf
  BY TypesAre
<1>3. Parts(t) = tags
  BY DEF Parts
<1>4. n <= MaxElements /\ n <= MaxLength /\ (tags = <<>> \/ type # "End")
      /\ \A i \in DOMAIN tags : tags[i].type = type
  BY DEF Writable
<1> HIDE DEF type, tags
<1>5. n \in Nat /\ DOMAIN tags = 1..n
  BY <1>1
<1>6. \A i \in 1..n : tags[i] \in Range(tags)
  BY <1>5 DEF Range
<1>7. \A i \in 1..n : /\ bytes[tags[i]] \in Seq(Byte) /\ cost[tags[i]] \in Nat
                      /\ Decodes(inner, s, tags[i], bytes[tags[i]], cost[tags[i]])
  BY <1>3, <1>6 DEF Holding
<1>8. parts \in Seq(Seq(Byte)) /\ Len(parts) = n /\ \A i \in 1..n : parts[i] = bytes[tags[i]]
  BY <1>5, <1>7
<1>9. costs \in Seq(Nat) /\ Len(costs) = n /\ \A i \in 1..n : costs[i] = cost[tags[i]]
  BY <1>5, <1>7
<1>10. WritePayload(t, endian, bytes) = x
  <2>1. t.of = type /\ t.list = tags
    BY DEF type, tags
  <2> HIDE DEF n
  <2> QED
    BY <1>2, <2>1 DEF WritePayload, ListBytes, Cat, n
<1>11. \A at, left : ReadPayload(s, at, left, t.type, endian, inner) = ReadList(s, at, left, endian, inner)
  BY <1>2 DEF ReadPayload
<1>12. Cost(t, cost) = n + Sum(costs) /\ Cost(t, cost) = Charge(costs)
  BY <1>2, <1>3, <1>5 DEF Cost, Charge
<1> HIDE DEF parts, costs
<1>13. Run(inner, s, type, tags, parts, costs)
  BY <1>1, <1>4, <1>5, <1>7, <1>8, <1>9 DEF Run
<1>14. x \in Seq(Byte)
  BY <1>1, <1>5, <1>8, ListBytesType
<1>15. Cost(t, cost) \in Nat
  <2>1. \A j \in Nat : j <= Len(costs) => Prefix(costs)[j] \in Nat
    BY <1>9, PrefixType
  <2>2. Sum(costs) = Prefix(costs)[Len(costs)]
    BY PrefixDef
  <2>3. Sum(costs) \in Nat
    BY <1>5, <1>9, <2>1, <2>2
  <2> HIDE DEF n
  <2> QED
    BY <1>5, <1>12, <2>3
<1>16. ASSUME NEW at \in Nat, NEW left \in Nat, Holds(s, at, x)
       PROVE  ReadPayload(s, at, left, t.type, endian, inner) = Outcome(t, x, Charge(costs), at, left)
  <2>a. FitsList(type, tags)
    BY <1>1, <1>4 DEF FitsList
  <2>b. Holds(s, at, ListBytes(type, Len(tags), parts, endian))
    BY <1>16
  <2> DEFINE y == ListBytes(type, Len(tags), parts, endian)
  <2>1. ReadList(s, at, left, endian, inner) = Outcome(List(type, tags), y, Charge(costs), at, left)
    BY <1>13, <2>a, <2>b, ListReadBack
  <2> QED
    BY <1>1, <1>11, <2>1
<1> HIDE DEF x, n
<1> QED
  BY <1>10, <1>12, <1>14, <1>15, <1>16 DEF Codes

LEMMA CompoundStep ==
    ASSUME NEW s \in Seq(Byte), NEW endian, NEW t, IsTag(t), t.type = "Compound",
           NEW depth, Writable(t, depth), NEW bytes, NEW cost, NEW inner,
           Holding(s, t, bytes, cost, inner)
    PROVE  Codes(s, endian, t, bytes, cost, inner)
<1> DEFINE fields == t.fields
           N == DOMAIN fields
           names == InOrder(N)
           m == Len(names)
           B == [i \in 1..m |-> bytes[fields[names[i]]]]
           costs == [i \in 1..m |-> cost[fields[names[i]]]]
           parts == FieldParts(names, fields, B, endian)
           x == CompoundBytes(parts)
<1>1. /\ t = Compound(fields) /\ fields = [name \in N |-> fields[name]]
      /\ N \subseteq Seq(Byte) /\ IsFiniteSet(N)
  BY DEF IsTag
<1>2. "Compound" \notin DOMAIN Width /\ "Compound" \notin DOMAIN ElementOf
  BY TypesAre
<1>3. Cardinality(N) <= MaxElements /\ \A name \in N : TextFits(name)
  BY DEF Writable
<1>4. Parts(t) = [i \in DOMAIN names |-> fields[names[i]]]
  BY DEF Parts
<1> HIDE DEF fields
<1>5. /\ Cardinality(N) \in Nat /\ names \in Seq(N) /\ m = Cardinality(N)
      /\ \A i, j \in 1..Cardinality(N) : names[i] = names[j] => i = j
      /\ \A a \in N : \E i \in 1..Cardinality(N) : names[i] = a
  <2> HIDE DEF N
  <2> QED
    BY <1>1, InOrderEnumerates
<1> HIDE DEF N, names
<1>6. m \in Nat /\ DOMAIN names = 1..m /\ \A i \in 1..m : names[i] \in N /\ names[i] \in Seq(Byte)
  BY <1>1, <1>5
<1>7. \A i \in 1..m : fields[names[i]] \in Range(Parts(t))
  BY <1>4, <1>6 DEF Range
<1>8. \A i \in 1..m : /\ bytes[fields[names[i]]] \in Seq(Byte) /\ cost[fields[names[i]]] \in Nat
                      /\ fields[names[i]].type \in Types
                      /\ Decodes(inner, s, fields[names[i]], bytes[fields[names[i]]], cost[fields[names[i]]])
  BY <1>7 DEF Holding
<1>9. B \in Seq(Seq(Byte)) /\ Len(B) = m /\ \A i \in 1..m : B[i] = bytes[fields[names[i]]]
  BY <1>6, <1>8
<1>10. costs \in Seq(Nat) /\ Len(costs) = m /\ \A i \in 1..m : costs[i] = cost[fields[names[i]]]
  BY <1>6, <1>8
<1>11. names \in Seq(Seq(Byte))
  BY <1>5, <1>6
<1>12. WritePayload(t, endian, bytes) = x
  <2>1. t.fields = fields /\ InOrder(DOMAIN t.fields) = names
    BY DEF fields, N, names
  <2>2. WritePayload(t, endian, bytes)
          = Cat(FlattenSeq([i \in DOMAIN names |-> Cat(Header(names[i], fields[names[i]].type, endian),
                                                       bytes[fields[names[i]]])]), <<0>>)
    BY <1>2, <2>1 DEF WritePayload, Cat
  <2>3. [i \in DOMAIN names |-> Cat(Header(names[i], fields[names[i]].type, endian), bytes[fields[names[i]]])]
          = parts
    <3> HIDE DEF m, B
    <3> QED
      BY <1>6, <1>9 DEF FieldParts, m
  <2> QED
    BY <2>2, <2>3 DEF CompoundBytes
<1>13. \A at, left : ReadPayload(s, at, left, t.type, endian, inner) = ReadCompound(s, at, left, endian, inner)
  BY <1>2 DEF ReadPayload
<1>14. Cost(t, cost) = m + Sum(costs) /\ Cost(t, cost) = Charge(costs)
  <2>1. Len(Parts(t)) = m
    BY <1>4, <1>6
  <2>2. [i \in DOMAIN Parts(t) |-> cost[Parts(t)[i]]] = costs
    BY <1>4, <1>6
  <2>3. Cost(t, cost) = Len(Parts(t)) + Sum([i \in DOMAIN Parts(t) |-> cost[Parts(t)[i]]])
    BY <1>2 DEF Cost
  <2> HIDE DEF costs, m
  <2> QED
    BY <1>10, <2>1, <2>2, <2>3 DEF Charge
<1> HIDE DEF B, costs
<1>15. Row(inner, s, names, fields, B, costs)
  <2>1. \A i \in 1..m : /\ TextFits(names[i]) /\ fields[names[i]].type \in Types
                        /\ Decodes(inner, s, fields[names[i]], B[i], costs[i])
    BY <1>3, <1>6, <1>8, <1>9, <1>10
  <2>2. \A i, j \in 1..m : names[i] = names[j] => i = j
    BY <1>5
  <2> QED
    BY <1>9, <1>10, <1>11, <2>1, <2>2 DEF Row
<1>16. x \in Seq(Byte)
  <2>1. parts \in Seq(Seq(Byte))
    BY <1>15, FieldPartsType
  <2> HIDE DEF parts
  <2> QED
    BY <2>1, CompoundBytesType
<1>17. fields = Chosen(names, fields, m)
  <2>1. {names[i] : i \in 1..m} = N
    BY <1>5, <1>6
  <2> QED
    BY <1>1, <2>1 DEF Chosen
<1>18. Cost(t, cost) \in Nat
  <2>1. \A j \in Nat : j <= Len(costs) => Prefix(costs)[j] \in Nat
    BY <1>10, PrefixType
  <2>2. Sum(costs) = Prefix(costs)[Len(costs)]
    BY PrefixDef
  <2>3. Sum(costs) \in Nat
    BY <1>6, <1>10, <2>1, <2>2
  <2> HIDE DEF m
  <2> QED
    BY <1>6, <1>14, <2>3
<1> HIDE DEF parts
<1>19. ASSUME NEW at \in Nat, NEW left \in Nat, Holds(s, at, x)
       PROVE  ReadPayload(s, at, left, t.type, endian, inner) = Outcome(t, x, Charge(costs), at, left)
  <2>a. Len(names) <= MaxElements
    BY <1>3, <1>5
  <2>b. Holds(s, at, CompoundBytes(parts))
    BY <1>19
  <2>c. parts = FieldParts(names, fields, B, endian)
    BY DEF parts
  <2>1. ReadCompound(s, at, left, endian, inner)
            = Outcome(Compound(fields), CompoundBytes(parts), Charge(costs), at, left)
    BY <1>15, <1>17, <2>a, <2>b, <2>c, CompoundReadBack
  <2> QED
    BY <1>1, <1>13, <2>1
<1> HIDE DEF x, m
<1> QED
  BY <1>12, <1>14, <1>16, <1>18, <1>19 DEF Codes

LEMMA PayloadStep ==
    ASSUME NEW s \in Seq(Byte), NEW endian, NEW t, IsTag(t),
           NEW depth, Writable(t, depth), NEW bytes, NEW cost, NEW inner,
           Holding(s, t, bytes, cost, inner)
    PROVE  Codes(s, endian, t, bytes, cost, inner)
<1>1. t.type \in Types
  BY DEF IsTag, Writable
<1>2. \/ t.type \in DOMAIN Width \/ t.type = "String" \/ t.type \in DOMAIN ElementOf
      \/ t.type = "List" \/ t.type = "Compound"
  BY <1>1, TypesAre
<1> QED
  BY <1>2, NumberStep, StringStep, ArrayStep, ListStep, CompoundStep

-----------------------------------------------------------------------------
(* A whole tag: what write_named puts out, read_named takes in.            *)

\* A tag with all tags in it that can be written.
Sound(tag) ==
    \A depth \in 0..(MaxDepth + 1) : \A t \in Within(tag)[depth] : IsTag(t) /\ Writable(t, depth)

LEMMA WithinNext ==
    ASSUME NEW tag, NEW depth \in Nat, NEW t \in Within(tag)[depth]
    PROVE  Range(Parts(t)) \subseteq Within(tag)[depth + 1]
<1>1. /\ Within(tag)[0] = {tag}
      /\ \A d \in Nat \ {0} :
            Within(tag)[d] = UNION {Range(Parts(u)) : u \in Within(tag)[d - 1]}
  BY WithinDef
<1>2. depth + 1 \in Nat \ {0} /\ (depth + 1) - 1 = depth
  OBVIOUS
<1>3. Within(tag)[depth + 1] = UNION {Range(Parts(u)) : u \in Within(tag)[depth]}
  BY <1>1, <1>2
<1> QED
  BY <1>3

LEMMA NoneTooDeep ==
    ASSUME NEW tag, Sound(tag)
    PROVE  Within(tag)[MaxDepth + 1] = {}
<1>1. MaxDepth + 1 \in 0..(MaxDepth + 1) /\ ~(MaxDepth + 1 <= MaxDepth)
  BY LimitsAssumption
<1>2. \A t \in Within(tag)[MaxDepth + 1] : MaxDepth + 1 <= MaxDepth
  BY <1>1 DEF Sound, Writable
<1> QED
  BY <1>1, <1>2

LEMMA ReadsNext ==
    ASSUME NEW s, NEW endian, NEW m \in Nat,
           NEW a \in Nat, NEW l \in Int, NEW ty, ty \in Types \cup {"End"}
    PROVE  Reads(s, endian)[m + 1][<<a, l, ty>>]
               = ReadPayload(s, a, l, ty, endian, Reads(s, endian)[m])
<1>1. ReadsIs(s, endian)
  BY ReadsDef
<1>2. m + 1 \in Nat /\ m + 1 # 0 /\ (m + 1) - 1 = m
  OBVIOUS
<1>3. Reads(s, endian)[m + 1][<<a, l, ty>>]
         = ReadPayload(s, a, l, ty, endian, Reads(s, endian)[(m + 1) - 1])
  BY <1>1, <1>2 DEF ReadsIs
<1> QED
  BY <1>2, <1>3

LEMMA PayloadsNext ==
    ASSUME NEW tag, NEW endian, NEW room \in Nat, NEW t \in Within(tag)[MaxDepth - room]
    PROVE  /\ Payloads(tag, endian)[room + 1][t] = WritePayload(t, endian, Payloads(tag, endian)[room])
           /\ Costs(tag)[room + 1][t] = Cost(t, Costs(tag)[room])
<1>0. room + 1 \in Nat \ {0} /\ (room + 1) - 1 = room /\ MaxDepth + 1 - (room + 1) = MaxDepth - room
  BY LimitsAssumption
<1>1. /\ Payloads(tag, endian)[0] = <<>>
      /\ \A n \in Nat \ {0} :
            Payloads(tag, endian)[n]
                = [u \in Within(tag)[MaxDepth + 1 - n]
                      |-> WritePayload(u, endian, Payloads(tag, endian)[n - 1])]
  BY PayloadsDef
<1>2. /\ Costs(tag)[0] = <<>>
      /\ \A n \in Nat \ {0} :
            Costs(tag)[n] = [u \in Within(tag)[MaxDepth + 1 - n] |-> Cost(u, Costs(tag)[n - 1])]
  BY CostsDef
<1>3. Payloads(tag, endian)[room + 1]
         = [u \in Within(tag)[MaxDepth + 1 - (room + 1)] |->
              WritePayload(u, endian, Payloads(tag, endian)[(room + 1) - 1])]
  BY <1>0, <1>1
<1>4. Costs(tag)[room + 1]
         = [u \in Within(tag)[MaxDepth + 1 - (room + 1)] |-> Cost(u, Costs(tag)[(room + 1) - 1])]
  BY <1>0, <1>2
<1>5. Payloads(tag, endian)[room + 1]
         = [u \in Within(tag)[MaxDepth - room] |-> WritePayload(u, endian, Payloads(tag, endian)[room])]
  BY <1>0, <1>3
<1>6. Costs(tag)[room + 1] = [u \in Within(tag)[MaxDepth - room] |-> Cost(u, Costs(tag)[room])]
  BY <1>0, <1>4
<1> QED
  BY <1>5, <1>6

\* What holds of the tags at some depth.
RoomCodes(s, endian, tag, room) ==
    \A t \in Within(tag)[MaxDepth + 1 - room] :
        /\ Payloads(tag, endian)[room][t] \in Seq(Byte) /\ Costs(tag)[room][t] \in Nat
        /\ Decodes(Reads(s, endian)[room], s, t, Payloads(tag, endian)[room][t], Costs(tag)[room][t])

LEMMA EveryRoomCodes ==
    ASSUME NEW s \in Seq(Byte), NEW endian, NEW tag, Sound(tag)
    PROVE  \A room \in Nat : room <= MaxDepth + 1 => RoomCodes(s, endian, tag, room)
<1> DEFINE N == {room \in Nat : room <= MaxDepth + 1 => RoomCodes(s, endian, tag, room)}
<1>0. MaxDepth \in Nat
  BY LimitsAssumption
<1>1. 0 \in N
  <2>1. MaxDepth + 1 - 0 = MaxDepth + 1
    BY <1>0
  <2> QED
    BY <2>1, NoneTooDeep DEF RoomCodes
<1>2. ASSUME NEW room \in Nat, room \in N PROVE room + 1 \in N
  <2> SUFFICES ASSUME room + 1 <= MaxDepth + 1 PROVE RoomCodes(s, endian, tag, room + 1)
    OBVIOUS
  <2> DEFINE d == MaxDepth - room
             bytes == Payloads(tag, endian)[room]
             cost == Costs(tag)[room]
             inner == Reads(s, endian)[room]
  <2>1. /\ d \in Nat /\ d \in 0..(MaxDepth + 1) /\ d + 1 \in 0..(MaxDepth + 1)
        /\ d + 1 = MaxDepth + 1 - room /\ d = MaxDepth + 1 - (room + 1) /\ room <= MaxDepth + 1
    BY <1>0
  <2>2. RoomCodes(s, endian, tag, room)
    BY <1>2, <2>1
  <2>3. SUFFICES ASSUME NEW t \in Within(tag)[d]
                 PROVE  /\ Payloads(tag, endian)[room + 1][t] \in Seq(Byte) /\ Costs(tag)[room + 1][t] \in Nat
                        /\ Decodes(Reads(s, endian)[room + 1], s, t,
                                   Payloads(tag, endian)[room + 1][t], Costs(tag)[room + 1][t])
    BY <2>1 DEF RoomCodes
  <2>4. /\ Payloads(tag, endian)[room + 1][t] = WritePayload(t, endian, bytes)
        /\ Costs(tag)[room + 1][t] = Cost(t, cost)
    BY PayloadsNext
  <2> HIDE DEF d, bytes, cost, inner
  <2>5. IsTag(t) /\ Writable(t, d)
    BY <2>1 DEF Sound
  <2>6. Holding(s, t, bytes, cost, inner)
    <3>1. SUFFICES ASSUME NEW c \in Range(Parts(t))
                   PROVE  /\ bytes[c] \in Seq(Byte) /\ cost[c] \in Nat /\ c.type \in Types
                          /\ Decodes(inner, s, c, bytes[c], cost[c])
      BY DEF Holding
    <3>2. c \in Within(tag)[d + 1]
      BY <2>1, WithinNext
    <3>3. IsTag(c) /\ Writable(c, d + 1)
      BY <2>1, <3>2 DEF Sound
    <3>4. c.type \in Types
      BY <3>3 DEF IsTag, Writable
    <3> QED
      BY <2>1, <2>2, <3>2, <3>4 DEF RoomCodes, bytes, cost, inner
  <2>7. Codes(s, endian, t, bytes, cost, inner)
    BY <2>5, <2>6, PayloadStep
  <2>8. t.type \in Types \cup {"End"}
    BY <2>5 DEF IsTag
  <2>9. \A at \in Nat, left \in Nat :
           Reads(s, endian)[room + 1][<<at, left, t.type>>] = ReadPayload(s, at, left, t.type, endian, inner)
    <3> SUFFICES ASSUME NEW at \in Nat, NEW left \in Nat
                 PROVE  Reads(s, endian)[room + 1][<<at, left, t.type>>]
                           = ReadPayload(s, at, left, t.type, endian, inner)
      OBVIOUS
    <3> DEFINE type == t.type
    <3>1. type \in Types \cup {"End"} /\ left \in Int
      BY <2>8
    <3> HIDE DEF type
    <3>2. Reads(s, endian)[room + 1][<<at, left, type>>] = ReadPayload(s, at, left, type, endian, inner)
      BY <3>1, ReadsNext DEF inner
    <3> QED
      BY <3>2 DEF type
  <2> QED
    BY <2>4, <2>7, <2>9 DEF Codes, Decodes
<1> HIDE DEF N
<1>3. \A room \in Nat : room \in N
  BY <1>1, <1>2, Induction
<1> QED
  BY <1>3 DEF N

LEMMA RootWithin ==
    ASSUME NEW tag
    PROVE  tag \in Within(tag)[0]
<1>1. /\ Within(tag)[0] = {tag}
      /\ \A d \in Nat \ {0} :
            Within(tag)[d] = UNION {Range(Parts(u)) : u \in Within(tag)[d - 1]}
  BY WithinDef
<1> QED
  BY <1>1

\* What write_named succeeds on, and what it then writes.
LEMMA WriteType ==
    ASSUME NEW name \in Seq(Byte), TextFits(name), NEW tag, Sound(tag), NEW endian
    PROVE  /\ Write(name, tag, endian) \in Seq(Byte) /\ Write(name, tag, endian) # None
           /\ Write(name, tag, endian)
                 = Cat(Header(name, tag.type, endian), Payloads(tag, endian)[MaxDepth + 1][tag])
           /\ tag.type \in Types
           /\ Header(name, tag.type, endian) \in Seq(Byte)
           /\ Payloads(tag, endian)[MaxDepth + 1][tag] \in Seq(Byte)
           /\ Len(Write(name, tag, endian)) = Len(Header(name, tag.type, endian))
                                              + Len(Payloads(tag, endian)[MaxDepth + 1][tag])
           /\ Len(Write(name, tag, endian)) >= 1
<1> DEFINE type == tag.type
           h == Header(name, type, endian)
           p == Payloads(tag, endian)[MaxDepth + 1][tag]
<1>1. tag \in Within(tag)[0] /\ MaxDepth \in Nat /\ 0 \in 0..(MaxDepth + 1)
  BY RootWithin, LimitsAssumption
<1>2. type \in Types
  BY <1>1 DEF Sound, IsTag, Writable
<1>3. h \in Seq(Byte) /\ Len(h) = 1 + Len(Text(name, endian)) /\ Text(name, endian) \in Seq(Byte)
  <2> HIDE DEF type
  <2> QED
    BY <1>2, HeaderType
<1>4. p \in Seq(Byte)
  <2>1. MaxDepth + 1 \in Nat /\ MaxDepth + 1 <= MaxDepth + 1 /\ MaxDepth + 1 - (MaxDepth + 1) = 0
    BY <1>1
  <2>2. <<>> \in Seq(Byte)
    OBVIOUS
  <2>3. RoomCodes(<<>>, endian, tag, MaxDepth + 1)
    BY <2>1, <2>2, EveryRoomCodes
  <2> QED
    BY <1>1, <2>1, <2>3 DEF RoomCodes
<1>5. Write(name, tag, endian) = Cat(h, p)
  BY DEF Write, Sound, Cat
<1> HIDE DEF h, p, type
<1>6. Cat(h, p) \in Seq(Byte) /\ Len(Cat(h, p)) = Len(h) + Len(p)
  BY <1>3, <1>4, CatType
<1>7. Len(p) \in Nat /\ Len(Text(name, endian)) \in Nat
  BY <1>3, <1>4, SeqLen
<1>8. Len(Cat(h, p)) >= 1
  BY <1>3, <1>6, <1>7
<1>9. Cat(h, p) # None
  BY <1>6, NoneAssumption DEF Byte
<1> QED
  BY <1>2, <1>3, <1>4, <1>5, <1>6, <1>8, <1>9 DEF h, p, type

\* What is written is read back, if the reader can pay for all of it.
ReadResult(name, tag, at) == [ok |-> TRUE, name |-> name, tag |-> tag, at |-> at]

LEMMA WriteReadBack ==
    ASSUME NEW name \in Seq(Byte), TextFits(name), NEW tag, Sound(tag), NEW endian,
           NEW s, s = Write(name, tag, endian)
    PROVE  Read(s, endian) = IF Elements(tag) <= MaxElements
                             THEN ReadResult(name, tag, Len(s)) ELSE Failed
<1> DEFINE type == tag.type
           h == Header(name, type, endian)
           p == Payloads(tag, endian)[MaxDepth + 1][tag]
           x == Text(name, endian)
           c == <<Code(type)>>
           a == 1 + Len(x)
           cost == Elements(tag)
           one == Reads(s, endian)[MaxDepth + 1][<<a, MaxElements, type>>]
<1>1. /\ s \in Seq(Byte) /\ s = Cat(h, p) /\ h \in Seq(Byte) /\ p \in Seq(Byte)
      /\ type \in Types /\ Len(s) = Len(h) + Len(p)
  BY WriteType
<1>2. MaxDepth \in Nat /\ MaxElements \in Nat
  BY LimitsAssumption
<1>3. Holds(s, 0, s)
  BY <1>1, HoldsItself
<1>4. Holds(s, 0, h) /\ Holds(s, 0 + Len(h), p)
  <2> HIDE DEF h, p
  <2>1. Holds(s, 0, Cat(h, p))
    BY <1>1, <1>3
  <2> QED
    BY <1>1, <2>1, HoldsCat
<1>5. Len(h) = a /\ x \in Seq(Byte) /\ Len(x) \in Nat /\ a \in Nat
  <2>1. type \in Types \cup {"End"}
    BY <1>1
  <2> HIDE DEF type
  <2>2. x \in Seq(Byte) /\ Len(h) = 1 + Len(x)
    BY <2>1, HeaderType
  <2>3. Len(x) \in Nat
    BY <2>2, SeqLen
  <2> HIDE DEF x, h
  <2> QED
    BY <2>2, <2>3
<1>6. Has(s, 0, 1) /\ s[1] = Code(type) /\ ReadText(s, 1, endian) = TextResult(name, a)
  <2>1. type \in Types \cup {"End"}
    BY <1>1
  <2> HIDE DEF type, a, h
  <2>2. Holds(s, 0, Header(name, type, endian))
    BY <1>4 DEF h
  <2>3. Has(s, 0, 1) /\ s[0 + 1] = Code(type)
        /\ ReadText(s, 0 + 1, endian) = TextResult(name, 0 + Len(Header(name, type, endian)))
    BY <1>1, <2>1, <2>2, HeaderReadBack
  <2>4. 0 + 1 = 1 /\ 0 + Len(h) = a
    BY <1>5
  <2> QED
    BY <2>3, <2>4 DEF h
<1>7. Code(type) # 0 /\ ValidType(Code(type)) /\ TypeOf(Code(type)) = type
  <2>1. type \in Types \cup {"End"} /\ type # "End"
    BY <1>1, TypesAre
  <2> HIDE DEF type
  <2> QED
    BY <2>1, CodeType
<1>8. cost \in Nat /\ one = Outcome(tag, p, cost, a, MaxElements)
  <2>1. MaxDepth + 1 \in Nat /\ MaxDepth + 1 <= MaxDepth + 1 /\ MaxDepth + 1 - (MaxDepth + 1) = 0
    BY <1>2
  <2>2. RoomCodes(s, endian, tag, MaxDepth + 1)
    BY <1>1, <2>1, EveryRoomCodes
  <2>3. tag \in Within(tag)[MaxDepth + 1 - (MaxDepth + 1)]
    BY <2>1, RootWithin
  <2>4. cost \in Nat /\ Decodes(Reads(s, endian)[MaxDepth + 1], s, tag, p, cost)
    <3> HIDE DEF p
    <3> QED
      BY <2>2, <2>3 DEF RoomCodes, Elements, p
  <2>5. Holds(s, a, p)
    <3> HIDE DEF h, p, a
    <3> QED
      BY <1>4, <1>5
  <2> HIDE DEF p, a, cost
  <2> QED
    BY <1>2, <1>5, <2>4, <2>5 DEF Decodes
<1>9. Read(s, endian) = IF one.ok THEN ReadResult(name, one.tag, one.at) ELSE Failed
  <2> DEFINE r == ReadText(s, 1, endian)
  <2>1. r.ok /\ r.text = name /\ r.at = a
    BY <1>6 DEF TextResult
  <2> HIDE DEF r, a, type
  <2>2. Reads(s, endian)[MaxDepth + 1][<<r.at, MaxElements, TypeOf(s[1])>>] = one
    BY <1>6, <1>7, <2>1
  <2> HIDE DEF one
  <2> QED
    BY <1>6, <1>7, <2>1, <2>2 DEF Read, ReadResult, r
<1> HIDE DEF cost, one, a, p, h
<1>10. CASE cost <= MaxElements
  <2>1. one.ok /\ one.tag = tag /\ one.at = a + Len(p)
    BY <1>8, <1>10 DEF Outcome
  <2> QED
    BY <1>1, <1>5, <1>9, <1>10, <2>1 DEF cost
<1>11. CASE ~(cost <= MaxElements)
  <2>1. one = Failed
    BY <1>8, <1>11 DEF Outcome
  <2>2. ~one.ok
    BY <2>1 DEF Failed
  <2> QED
    BY <1>9, <1>11, <2>2 DEF cost
<1> QED
  BY <1>10, <1>11

-----------------------------------------------------------------------------
(* What the reader makes of any bytes at all.                              *)

\* A tag that may be written where there is room for so many levels.
Fine(tag, room) ==
    \A e \in 0..room : \A t \in Within(tag)[e] : IsTag(t) /\ Writable(t, MaxDepth + 1 - room + e)

\* The tags deeper in a tag are those in the tags it holds.
LEMMA PartsShift ==
    ASSUME NEW tag
    PROVE  \A e \in Nat : \A t \in Within(tag)[e + 1] : \E p \in Range(Parts(tag)) : t \in Within(p)[e]
<1> DEFINE N == {e \in Nat : \A t \in Within(tag)[e + 1] : \E p \in Range(Parts(tag)) : t \in Within(p)[e]}
<1>1. /\ Within(tag)[0] = {tag}
      /\ \A depth \in Nat \ {0} :
            Within(tag)[depth] = UNION {Range(Parts(t)) : t \in Within(tag)[depth - 1]}
  BY WithinDef
<1>2. 0 \in N
  <2>1. 0 + 1 \in Nat \ {0} /\ (0 + 1) - 1 = 0
    OBVIOUS
  <2>2. Within(tag)[0 + 1] = Range(Parts(tag))
    BY <1>1, <2>1
  <2> QED
    BY <2>2, RootWithin
<1>3. ASSUME NEW e \in Nat, e \in N PROVE e + 1 \in N
  <2> SUFFICES ASSUME NEW t \in Within(tag)[(e + 1) + 1]
               PROVE  \E p \in Range(Parts(tag)) : t \in Within(p)[e + 1]
    OBVIOUS
  <2>1. (e + 1) + 1 \in Nat \ {0} /\ ((e + 1) + 1) - 1 = e + 1
    OBVIOUS
  <2>2. Within(tag)[(e + 1) + 1] = UNION {Range(Parts(u)) : u \in Within(tag)[e + 1]}
    BY <1>1, <2>1
  <2>3. PICK u \in Within(tag)[e + 1] : t \in Range(Parts(u))
    BY <2>2
  <2>4. PICK p \in Range(Parts(tag)) : u \in Within(p)[e]
    BY <1>3, <2>3
  <2>5. t \in Within(p)[e + 1]
    BY <2>3, <2>4, WithinNext
  <2> QED
    BY <2>5
<1> HIDE DEF N
<1>4. \A e \in Nat : e \in N
  BY <1>2, <1>3, Induction
<1> QED
  BY <1>4 DEF N

LEMMA FineStep ==
    ASSUME NEW tag, NEW room \in Nat, room <= MaxDepth,
           IsTag(tag), Writable(tag, MaxDepth - room),
           \A p \in Range(Parts(tag)) : Fine(p, room)
    PROVE  Fine(tag, room + 1)
<1>0. MaxDepth \in Nat
  BY LimitsAssumption
<1> SUFFICES ASSUME NEW e \in 0..(room + 1), NEW t \in Within(tag)[e]
             PROVE  IsTag(t) /\ Writable(t, MaxDepth + 1 - (room + 1) + e)
  BY DEF Fine
<1>1. CASE e = 0
  <2>1. t = tag
    <3>1. /\ Within(tag)[0] = {tag}
          /\ \A depth \in Nat \ {0} :
                Within(tag)[depth] = UNION {Range(Parts(u)) : u \in Within(tag)[depth - 1]}
      BY WithinDef
    <3> QED
      BY <1>1, <3>1
  <2>2. MaxDepth + 1 - (room + 1) + e = MaxDepth - room
    BY <1>0, <1>1
  <2> QED
    BY <2>1, <2>2
<1>2. CASE e # 0
  <2> DEFINE d == e - 1
  <2>1. d \in Nat /\ d \in 0..room /\ e = d + 1
        /\ MaxDepth + 1 - (room + 1) + e = MaxDepth + 1 - room + d
    BY <1>0, <1>2
  <2> HIDE DEF d
  <2>2. PICK p \in Range(Parts(tag)) : t \in Within(p)[d]
    BY <2>1, PartsShift
  <2> QED
    BY <2>1, <2>2 DEF Fine
<1> QED
  BY <1>1, <1>2

LEMMA FineIsSound ==
    ASSUME NEW tag, Fine(tag, MaxDepth + 1)
    PROVE  Sound(tag)
<1>1. \A e \in 0..(MaxDepth + 1) : MaxDepth + 1 - (MaxDepth + 1) + e = e
  BY LimitsAssumption
<1> QED
  BY <1>1 DEF Fine, Sound

-----------------------------------------------------------------------------
(* What a tag costs, whatever it is a part of.                             *)

Spends(tag, room, n) ==
    \A root : tag \in Within(root)[MaxDepth + 1 - room] => Costs(root)[room][tag] \in 0..n

LEMMA SumType ==
    ASSUME NEW numbers \in Seq(Nat)
    PROVE  Sum(numbers) \in Nat
<1>1. /\ Prefix(numbers)[0] = 0
      /\ \A n \in Nat : Prefix(numbers)[n + 1] = Prefix(numbers)[n] + numbers[n + 1]
      /\ Sum(numbers) = Prefix(numbers)[Len(numbers)]
  BY PrefixDef
<1>2. Len(numbers) \in Nat /\ Len(numbers) <= Len(numbers)
  BY SeqLen
<1> QED
  BY <1>1, <1>2, PrefixType

\* A sum in which one number has grown, by y at most.
LEMMA SumChange ==
    ASSUME NEW a \in Seq(Nat), NEW b \in Seq(Nat), Len(a) = Len(b), NEW p \in 1..Len(a), NEW y \in Nat,
           \A i \in 1..Len(a) : i # p => b[i] = a[i],
           b[p] <= a[p] + y
    PROVE  Sum(b) <= Sum(a) + y
<1> DEFINE N == {k \in Nat : k <= Len(a) =>
                    /\ k < p => Prefix(b)[k] = Prefix(a)[k]
                    /\ Prefix(b)[k] <= Prefix(a)[k] + y}
<1>1. /\ Prefix(a)[0] = 0
      /\ \A n \in Nat : Prefix(a)[n + 1] = Prefix(a)[n] + a[n + 1]
      /\ Sum(a) = Prefix(a)[Len(a)]
  BY PrefixDef
<1>2. /\ Prefix(b)[0] = 0
      /\ \A n \in Nat : Prefix(b)[n + 1] = Prefix(b)[n] + b[n + 1]
      /\ Sum(b) = Prefix(b)[Len(b)]
  BY PrefixDef
<1>3. Len(a) \in Nat
  BY SeqLen
<1>4. 0 \in N
  <2>1. Prefix(a)[0] = 0 /\ Prefix(b)[0] = 0
    BY <1>1, <1>2
  <2> QED
    BY <2>1
<1>5. ASSUME NEW k \in Nat, k \in N PROVE k + 1 \in N
  <2> SUFFICES ASSUME k + 1 <= Len(a)
               PROVE  /\ k + 1 < p => Prefix(b)[k + 1] = Prefix(a)[k + 1]
                      /\ Prefix(b)[k + 1] <= Prefix(a)[k + 1] + y
    OBVIOUS
  <2> DEFINE u == Prefix(a)[k]  v == Prefix(b)[k]  m == a[k + 1]  n == b[k + 1]
             u1 == Prefix(a)[k + 1]  v1 == Prefix(b)[k + 1]
  <2>1. k < Len(a) /\ k + 1 \in 1..Len(a) /\ k <= Len(a)
    BY <1>3
  <2>2. u \in Nat /\ m \in Nat /\ u1 = u + m
    BY <2>1, PrefixNext
  <2>3. v \in Nat /\ n \in Nat /\ v1 = v + n
    BY <2>1, PrefixNext
  <2>4. (k < p => v = u) /\ v <= u + y
    BY <1>5, <2>1
  <2>5. (k + 1 # p => n = m) /\ (k + 1 = p => n <= m + y)
    BY <2>1
  <2> HIDE DEF u, v, m, n, u1, v1
  <2>6. (k + 1 < p => v1 = u1) /\ v1 <= u1 + y
    <3>1. CASE k + 1 = p
      BY <2>2, <2>3, <2>4, <2>5, <3>1
    <3>2. CASE k + 1 # p
      BY <2>2, <2>3, <2>4, <2>5, <3>2
    <3> QED
      BY <3>1, <3>2
  <2> QED
    BY <2>6 DEF u1, v1
<1> HIDE DEF N
<1>6. \A k \in Nat : k \in N
  BY <1>4, <1>5, Induction
<1>7. Prefix(b)[Len(a)] <= Prefix(a)[Len(a)] + y
  BY <1>3, <1>6 DEF N
<1> QED
  BY <1>1, <1>2, <1>7

\* One more for each.
LEMMA SumOneMore ==
    ASSUME NEW a \in Seq(Nat), NEW b \in Seq(Nat), Len(a) = Len(b),
           \A i \in 1..Len(a) : b[i] = 1 + a[i]
    PROVE  Sum(b) = Len(a) + Sum(a)
<1> DEFINE N == {k \in Nat : k <= Len(a) => Prefix(b)[k] = k + Prefix(a)[k]}
<1>1. /\ Prefix(a)[0] = 0
      /\ \A n \in Nat : Prefix(a)[n + 1] = Prefix(a)[n] + a[n + 1]
      /\ Sum(a) = Prefix(a)[Len(a)]
  BY PrefixDef
<1>2. /\ Prefix(b)[0] = 0
      /\ \A n \in Nat : Prefix(b)[n + 1] = Prefix(b)[n] + b[n + 1]
      /\ Sum(b) = Prefix(b)[Len(b)]
  BY PrefixDef
<1>3. Len(a) \in Nat
  BY SeqLen
<1>4. 0 \in N
  <2>1. Prefix(a)[0] = 0 /\ Prefix(b)[0] = 0
    BY <1>1, <1>2
  <2> QED
    BY <2>1
<1>5. ASSUME NEW k \in Nat, k \in N PROVE k + 1 \in N
  <2> SUFFICES ASSUME k + 1 <= Len(a)
               PROVE  Prefix(b)[k + 1] = (k + 1) + Prefix(a)[k + 1]
    OBVIOUS
  <2> DEFINE u == Prefix(a)[k]  v == Prefix(b)[k]  m == a[k + 1]  n == b[k + 1]
             u1 == Prefix(a)[k + 1]  v1 == Prefix(b)[k + 1]
  <2>1. k < Len(a) /\ k + 1 \in 1..Len(a) /\ k <= Len(a)
    BY <1>3
  <2>2. u \in Nat /\ m \in Nat /\ u1 = u + m
    BY <2>1, PrefixNext
  <2>3. v \in Nat /\ n \in Nat /\ v1 = v + n
    BY <2>1, PrefixNext
  <2>4. v = k + u
    BY <1>5, <2>1
  <2>5. n = 1 + m
    BY <2>1
  <2> HIDE DEF u, v, m, n, u1, v1
  <2>6. v1 = (k + 1) + u1
    BY <2>2, <2>3, <2>4, <2>5
  <2> QED
    BY <2>6 DEF u1, v1
<1> HIDE DEF N
<1>6. \A k \in Nat : k \in N
  BY <1>4, <1>5, Induction
<1>7. Prefix(b)[Len(a)] = Len(a) + Prefix(a)[Len(a)]
  BY <1>3, <1>6 DEF N
<1> QED
  BY <1>1, <1>2, <1>7

\* What an accepted tag is: one that may be written again and that has cost no
\* more than was charged for it.
Accepted(x, type, room, left) ==
    x.ok => /\ x.tag.type = type
            /\ x.at \in Nat /\ x.left \in 0..left
            /\ Fine(x.tag, room)
            /\ Spends(x.tag, room, left - x.left)

Reader(inner, room) ==
    \A at \in Nat, left \in 0..MaxElements, type \in Types
        : Accepted(inner[<<at, left, type>>], type, room, left)

LEMMA SpendsStep ==
    ASSUME NEW tag, NEW room \in Nat, room <= MaxDepth, NEW n \in Nat,
           \A root : tag \in Within(root)[MaxDepth - room] => Cost(tag, Costs(root)[room]) \in 0..n
    PROVE  Spends(tag, room + 1, n)
<1>1. MaxDepth + 1 - (room + 1) = MaxDepth - room
  BY LimitsAssumption
<1> SUFFICES ASSUME NEW root, tag \in Within(root)[MaxDepth - room]
             PROVE  Costs(root)[room + 1][tag] \in 0..n
  BY <1>1 DEF Spends
<1>2. Costs(root)[room + 1][tag] = Cost(tag, Costs(root)[room])
  BY PayloadsNext
<1> QED
  BY <1>2

\* Tags that hold no others.
LEMMA LeafIsFine ==
    ASSUME NEW tag, NEW room \in Nat, room <= MaxDepth, IsTag(tag), Writable(tag, MaxDepth - room),
           tag.type # "List", tag.type # "Compound"
    PROVE  /\ Parts(tag) = <<>>
           /\ Fine(tag, room + 1)
           /\ tag.type \notin DOMAIN ElementOf => Spends(tag, room + 1, 0)
           /\ tag.type \in DOMAIN ElementOf =>
                 \A n \in Nat : n = Len(tag.array) => Spends(tag, room + 1, n)
<1>1. Parts(tag) = <<>>
  BY DEF Parts
<1>2. Range(Parts(tag)) = {}
  BY <1>1 DEF Range
<1>3. Fine(tag, room + 1)
  BY <1>2, FineStep
<1>4. ASSUME tag.type \notin DOMAIN ElementOf PROVE Spends(tag, room + 1, 0)
  <2>1. \A cost : Cost(tag, cost) = 0
    BY <1>1, <1>4, CostOfNoParts
  <2>2. \A root : Cost(tag, Costs(root)[room]) \in 0..0
    BY <2>1
  <2> QED
    BY <2>2, SpendsStep
<1>5. ASSUME tag.type \in DOMAIN ElementOf, NEW n \in Nat, n = Len(tag.array)
      PROVE  Spends(tag, room + 1, n)
  <2>1. \A cost : Cost(tag, cost) = n
    BY <1>5 DEF Cost
  <2>2. \A root : Cost(tag, Costs(root)[room]) \in 0..n
    BY <2>1
  <2> QED
    BY <2>2, SpendsStep
<1> QED
  BY <1>1, <1>3, <1>4, <1>5

LEMMA NumberAccepted ==
    ASSUME NEW s \in Seq(Byte), NEW at \in Nat, NEW left \in Nat, NEW endian,
           NEW type \in DOMAIN Width, NEW room \in Nat, room <= MaxDepth
    PROVE  Accepted(ReadNumber(s, at, left, type, endian), type, room + 1, left)
<1> DEFINE w == Width[type]
           x == ReadNumber(s, at, left, type, endian)
           n == Signed(s, at, w, endian)
           tag == Number(type, n)
<1> SUFFICES ASSUME x.ok PROVE Accepted(x, type, room + 1, left)
  BY DEF Accepted
<1>1. w \in Nat
  BY WidthType
<1>2. Has(s, at, w) /\ x = [ok |-> TRUE, tag |-> tag, at |-> at + w, left |-> left]
  BY DEF ReadNumber, Failed
<1>3. n \in SignedRange(w)
  <2> HIDE DEF w
  <2> QED
    BY <1>1, <1>2, SignedType
<1>4. tag.type = type /\ tag.number = n /\ tag = Number(tag.type, tag.number)
  BY DEF Number
<1>5. /\ type # "String" /\ type # "List" /\ type # "Compound" /\ type # "End"
      /\ type \notin DOMAIN ElementOf /\ type \in Types \cup {"End"}
  BY TypesAre
<1>6. MaxDepth \in Nat /\ MaxDepth - room <= MaxDepth
  BY LimitsAssumption
<1> HIDE DEF n, tag
<1>7. IsTag(tag) /\ Writable(tag, MaxDepth - room)
  BY <1>3, <1>4, <1>5, <1>6 DEF IsTag, Writable
<1>8. Fine(tag, room + 1) /\ Spends(tag, room + 1, 0)
  BY <1>4, <1>5, <1>7, LeafIsFine
<1>9. x.tag = tag /\ x.at = at + w /\ x.left = left
  BY <1>2
<1>10. x.at \in Nat /\ x.left \in 0..left /\ left - x.left = 0
  <2> HIDE DEF w, x
  <2> QED
    BY <1>1, <1>9
<1> QED
  BY <1>4, <1>8, <1>9, <1>10 DEF Accepted

LEMMA StringAccepted ==
    ASSUME NEW s \in Seq(Byte), NEW at \in Nat, NEW left \in Nat, NEW endian,
           NEW room \in Nat, room <= MaxDepth
    PROVE  Accepted(ReadString(s, at, left, endian), "String", room + 1, left)
<1> DEFINE x == ReadString(s, at, left, endian)
           r == ReadText(s, at, endian)
<1> SUFFICES ASSUME x.ok PROVE Accepted(x, "String", room + 1, left)
  BY DEF Accepted
<1>1. r.ok /\ x = [ok |-> TRUE, tag |-> String(r.text), at |-> r.at, left |-> left]
  BY DEF ReadString, Failed
<1>2. r.text \in Seq(Byte) /\ r.at \in Nat /\ TextFits(r.text)
  <2>1. r # Failed
    BY <1>1 DEF Failed
  <2>2. PICK text \in Seq(Byte), end \in Nat :
                 /\ r = [ok |-> TRUE, text |-> text, at |-> end]
                 /\ TextFits(text)
    BY <2>1, ReadTextType
  <2> QED
    BY <2>2
<1> DEFINE tag == String(r.text)
<1>3. tag.type = "String" /\ tag.text = r.text /\ tag = String(tag.text)
  BY DEF String
<1>4. "String" \notin DOMAIN Width /\ "String" \notin DOMAIN ElementOf /\ "String" \in Types \cup {"End"}
  BY TypesAre
<1>5. MaxDepth \in Nat /\ MaxDepth - room <= MaxDepth
  BY LimitsAssumption
<1> HIDE DEF tag, r
<1>6. IsTag(tag) /\ Writable(tag, MaxDepth - room)
  BY <1>2, <1>3, <1>4, <1>5 DEF IsTag, Writable
<1>7. Fine(tag, room + 1) /\ Spends(tag, room + 1, 0)
  BY <1>3, <1>4, <1>6, LeafIsFine
<1>8. x.tag = tag /\ x.at = r.at /\ x.left = left
  BY <1>1 DEF tag
<1>9. x.at \in Nat /\ x.left \in 0..left /\ left - x.left = 0
  <2> HIDE DEF x
  <2> QED
    BY <1>2, <1>8
<1> QED
  BY <1>3, <1>7, <1>8, <1>9 DEF Accepted

LEMMA LengthIs ==
    ASSUME NEW s \in Seq(Byte), NEW at \in Nat, NEW endian, HasLength(s, at, endian)
    PROVE  /\ Signed(s, at, Width["Int"], endian) \in Nat
           /\ Signed(s, at, Width["Int"], endian) <= MaxLength
           /\ Width["Int"] \in Nat
<1> DEFINE w == Width["Int"]
           n == Signed(s, at, w, endian)
<1>1. w \in Nat
  BY WidthType, TypesAre
<1>2. Has(s, at, w) /\ n >= 0
  BY DEF HasLength
<1>3. n \in SignedRange(w)
  <2> HIDE DEF w
  <2> QED
    BY <1>1, <1>2, SignedType
<1>4. Power[w] \in Nat \ {0}
  BY <1>1, PowerType
<1>5. MaxLength = Power[w] \div 2 - 1
  BY DEF MaxLength
<1> HIDE DEF w, n
<1>6. n \in Nat /\ n <= MaxLength
  <2>1. Power[w] \div 2 \in Int
    BY <1>4
  <2> QED
    BY <1>2, <1>3, <1>4, <1>5, <2>1 DEF SignedRange
<1> QED
  BY <1>1, <1>6 DEF w, n

LEMMA ArrayAccepted ==
    ASSUME NEW s \in Seq(Byte), NEW at \in Nat, NEW left \in Nat, NEW endian,
           NEW type \in DOMAIN ElementOf, NEW room \in Nat, room <= MaxDepth
    PROVE  Accepted(ReadArray(s, at, left, type, endian), type, room + 1, left)
<1> DEFINE w == Width[ElementOf[type]]
           x == ReadArray(s, at, left, type, endian)
           n == Signed(s, at, Width["Int"], endian)
           start == at + Width["Int"]
           numbers == [i \in 1..n |-> Signed(s, start + (i - 1) * w, w, endian)]
           tag == Array(type, numbers)
<1> SUFFICES ASSUME x.ok PROVE Accepted(x, type, room + 1, left)
  BY DEF Accepted
<1>1. w \in Nat
  BY ElementWidth
<1>2. /\ HasLength(s, at, endian) /\ ArrayFits(type, n) /\ Affordable(n, left) /\ Has(s, start, n * w)
      /\ x = [ok |-> TRUE, tag |-> tag, at |-> start + n * w, left |-> left - n]
  BY DEF ReadArray, Failed
<1>3. n \in Nat /\ start \in Nat /\ n <= left
  <2>1. n \in Nat /\ Width["Int"] \in Nat
    BY <1>2, LengthIs
  <2> QED
    BY <1>2, <2>1 DEF Affordable
<1>5. numbers \in Seq(SignedRange(w)) /\ Len(numbers) = n
  <2>1. ASSUME NEW i \in 1..n PROVE Signed(s, start + (i - 1) * w, w, endian) \in SignedRange(w)
    <3> DEFINE a == start + (i - 1) * w
    <3> HIDE DEF w, start, n
    <3>1. (i - 1) * w \in Nat
      BY <1>1, <1>3
    <3>2. (i - 1) * w + w = i * w
      BY <1>1, <1>3
    <3>3. i * w <= n * w
      BY <1>1, <1>3
    <3>4. n * w \in Nat /\ i * w \in Nat
      BY <1>1, <1>3
    <3>5. Len(s) \in Nat /\ start + n * w <= Len(s)
      BY <1>2, SeqLen DEF Has
    <3>6. a \in Nat /\ a + w <= Len(s)
      BY <1>1, <1>3, <3>1, <3>2, <3>3, <3>4, <3>5
    <3> HIDE DEF a
    <3>7. Signed(s, a, w, endian) \in SignedRange(w)
      BY <1>1, <3>6, SignedType DEF Has
    <3> QED
      BY <3>7 DEF a
  <2> HIDE DEF w, start, n
  <2>2. numbers \in [1..n -> SignedRange(w)]
    BY <2>1
  <2> QED
    BY <1>3, <2>2
<1>6. tag.type = type /\ tag.array = numbers /\ tag = Array(tag.type, tag.array)
  BY DEF Array
<1>7. /\ type # "String" /\ type # "List" /\ type # "Compound" /\ type # "End"
      /\ type \notin DOMAIN Width /\ type \in Types \cup {"End"}
  BY TypesAre
<1>8. MaxDepth \in Nat /\ MaxDepth - room <= MaxDepth
  BY LimitsAssumption
<1>9. x.tag = tag /\ x.at = start + n * w /\ x.left = left - n
  BY <1>2
<1> HIDE DEF numbers, tag, n, start
<1>10. IsTag(tag) /\ Writable(tag, MaxDepth - room)
  BY <1>2, <1>5, <1>6, <1>7, <1>8 DEF IsTag, Writable
<1>11. Fine(tag, room + 1)
  BY <1>6, <1>7, <1>10, LeafIsFine
<1>12. Spends(tag, room + 1, n)
  BY <1>3, <1>5, <1>6, <1>7, <1>10, LeafIsFine
<1>13. x.at \in Nat /\ x.left \in 0..left /\ left - x.left = n
  <2>1. n * w \in Nat
    BY <1>1, <1>3
  <2> HIDE DEF w, x
  <2> QED
    BY <1>3, <1>9, <2>1
<1> QED
  BY <1>6, <1>9, <1>11, <1>12, <1>13 DEF Accepted

-----------------------------------------------------------------------------
(* Lists, as they are read.                                                *)

LEMMA SumAppend ==
    ASSUME NEW a \in Seq(Nat), NEW m \in Nat
    PROVE  Append(a, m) \in Seq(Nat) /\ Sum(Append(a, m)) = Sum(a) + m
<1> DEFINE b == Append(a, m)
           N == {k \in Nat : k <= Len(a) => Prefix(b)[k] = Prefix(a)[k]}
<1>1. /\ Prefix(a)[0] = 0
      /\ \A n \in Nat : Prefix(a)[n + 1] = Prefix(a)[n] + a[n + 1]
      /\ Sum(a) = Prefix(a)[Len(a)]
  BY PrefixDef
<1>2. /\ Prefix(b)[0] = 0
      /\ \A n \in Nat : Prefix(b)[n + 1] = Prefix(b)[n] + b[n + 1]
      /\ Sum(b) = Prefix(b)[Len(b)]
  BY PrefixDef
<1>3. Len(a) \in Nat
  BY SeqLen
<1>4. /\ b \in Seq(Nat) /\ Len(b) = Len(a) + 1 /\ b[Len(a) + 1] = m
      /\ \A i \in 1..Len(a) : b[i] = a[i]
  OBVIOUS
<1> HIDE DEF b
<1>5. 0 \in N
  <2>1. Prefix(a)[0] = 0 /\ Prefix(b)[0] = 0
    BY <1>1, <1>2
  <2> QED
    BY <2>1
<1>6. ASSUME NEW k \in Nat, k \in N PROVE k + 1 \in N
  <2> SUFFICES ASSUME k + 1 <= Len(a) PROVE Prefix(b)[k + 1] = Prefix(a)[k + 1]
    OBVIOUS
  <2>1. k <= Len(a) /\ k + 1 \in 1..Len(a)
    BY <1>3
  <2>2. Prefix(b)[k] = Prefix(a)[k] /\ b[k + 1] = a[k + 1]
    BY <1>4, <1>6, <2>1
  <2> QED
    BY <1>1, <1>2, <2>2
<1> HIDE DEF N
<1>7. \A k \in Nat : k \in N
  BY <1>5, <1>6, Induction
<1>8. Prefix(b)[Len(a)] = Prefix(a)[Len(a)]
  BY <1>3, <1>7 DEF N
<1>9. Sum(b) = Prefix(b)[Len(a)] + b[Len(a) + 1]
  BY <1>2, <1>3, <1>4
<1> QED
  BY <1>1, <1>4, <1>8, <1>9 DEF b

LEMMA SeqOverRange ==
    ASSUME NEW S, NEW x \in Seq(S)
    PROVE  x \in Seq(Range(x))
<1>1. x \in [1..Len(x) -> Range(x)]
  BY DEF Range
<1>2. Len(x) \in Nat
  BY SeqLen
<1> QED
  BY <1>1, <1>2

ItemCosts(root, items, room) == [i \in 1..Len(items) |-> Costs(root)[room][items[i]]]

\* The items may be anywhere in some tag, one level below it or more.
ItemsIn(root, items, room) == \A i \in 1..Len(items) : items[i] \in Within(root)[MaxDepth + 1 - room]

\* What the reader of a list has after k items.
ItemsFit(x, k, type, room, left) ==
    x.ok => /\ x.items \in Seq(Range(x.items)) /\ Len(x.items) = k
            /\ x.at \in Nat /\ x.left \in 0..left
            /\ \A i \in 1..k : x.items[i].type = type /\ Fine(x.items[i], room)
            /\ \A root : ItemsIn(root, x.items, room) =>
                  /\ ItemCosts(root, x.items, room) \in Seq(Nat)
                  /\ Sum(ItemCosts(root, x.items, room)) <= left - x.left

LEMMA NoItemsFit ==
    ASSUME NEW at \in Nat, NEW left \in Nat, NEW type, NEW inner, NEW room
    PROVE  ItemsFit(Items(at, left, type, inner)[0], 0, type, room, left)
<1> DEFINE x == Items(at, left, type, inner)[0]
<1>1. /\ Items(at, left, type, inner)[0] = [ok |-> TRUE, items |-> <<>>, at |-> at, left |-> left]
      /\ \A n \in Nat \ {0} :
            Items(at, left, type, inner)[n] = NextItem(Items(at, left, type, inner)[n - 1], type, inner)
  BY ItemsDef
<1>2. x.items = <<>> /\ x.at = at /\ x.left = left
  BY <1>1
<1>3. \A root : ItemCosts(root, <<>>, room) = <<>>
  BY DEF ItemCosts
<1>4. <<>> \in Seq(Range(<<>>)) /\ Len(<<>>) = 0 /\ <<>> \in Seq(Nat)
  OBVIOUS
<1> HIDE DEF x
<1>5. x.left \in 0..left /\ 0 <= left - x.left
  BY <1>2
<1>6. \A i \in 1..0 : x.items[i].type = type /\ Fine(x.items[i], room)
  OBVIOUS
<1> QED
  BY <1>2, <1>3, <1>4, <1>5, <1>6, SumOfNone DEF ItemsFit, x

LEMMA OneMoreItemFits ==
    ASSUME NEW x, NEW k \in Nat, NEW type \in Types, NEW room, NEW left \in 0..MaxElements, NEW inner,
           ItemsFit(x, k, type, room, left), Reader(inner, room)
    PROVE  ItemsFit(NextItem(x, type, inner), k + 1, type, room, left)
<1> DEFINE y == NextItem(x, type, inner)
           one == inner[<<x.at, x.left, type>>]
           a == x.items
           b == Append(a, one.tag)
<1> SUFFICES ASSUME y.ok PROVE ItemsFit(y, k + 1, type, room, left)
  BY DEF ItemsFit
<1>1. x.ok /\ one.ok /\ y = [ok |-> TRUE, items |-> b, at |-> one.at, left |-> one.left]
  BY DEF NextItem, Failed
<1>2. /\ a \in Seq(Range(a)) /\ Len(a) = k /\ x.at \in Nat /\ x.left \in 0..left
      /\ \A i \in 1..k : a[i].type = type /\ Fine(a[i], room)
      /\ \A root : ItemsIn(root, a, room) =>
            ItemCosts(root, a, room) \in Seq(Nat) /\ Sum(ItemCosts(root, a, room)) <= left - x.left
  BY <1>1 DEF ItemsFit
<1>3. Accepted(one, type, room, x.left)
  <2>1. x.left \in 0..MaxElements
    BY <1>2, LimitsAssumption
  <2> QED
    BY <1>2, <2>1 DEF Reader
<1>4. /\ one.tag.type = type /\ one.at \in Nat /\ one.left \in 0..x.left
      /\ Fine(one.tag, room) /\ Spends(one.tag, room, x.left - one.left)
  BY <1>1, <1>3 DEF Accepted
<1>5. y.items = b /\ y.at = one.at /\ y.left = one.left
  BY <1>1
<1> HIDE DEF y, one, a
<1>6. /\ b \in Seq(Range(a) \cup {one.tag}) /\ Len(b) = k + 1 /\ b[k + 1] = one.tag
      /\ \A i \in 1..k : b[i] = a[i]
  BY <1>2
<1> HIDE DEF b
<1>7. b \in Seq(Range(b))
  BY <1>6, SeqOverRange
<1>8. ASSUME NEW i \in 1..(k + 1) PROVE b[i].type = type /\ Fine(b[i], room)
  BY <1>2, <1>4, <1>6
<1>9. ASSUME NEW root, ItemsIn(root, b, room)
      PROVE  /\ ItemCosts(root, b, room) \in Seq(Nat)
             /\ Sum(ItemCosts(root, b, room)) <= left - one.left
  <2> DEFINE c == ItemCosts(root, a, room)
             m == Costs(root)[room][one.tag]
  <2>1. ItemsIn(root, a, room) /\ one.tag \in Within(root)[MaxDepth + 1 - room]
    <3>1. \A i \in 1..k : i \in 1..(k + 1)
      OBVIOUS
    <3>2. k + 1 \in 1..(k + 1)
      OBVIOUS
    <3> QED
      BY <1>2, <1>6, <1>9, <3>1, <3>2 DEF ItemsIn
  <2>2. c \in Seq(Nat) /\ Sum(c) <= left - x.left
    BY <1>2, <2>1
  <2>3. m \in 0..(x.left - one.left)
    BY <1>4, <2>1 DEF Spends
  <2>4. m \in Nat
    BY <2>3
  <2>5. Len(c) = k /\ \A i \in 1..k : c[i] = Costs(root)[room][a[i]]
    BY <1>2 DEF ItemCosts
  <2>6. ItemCosts(root, b, room) = [i \in 1..(k + 1) |-> IF i = k + 1 THEN m ELSE c[i]]
    <3>1. \A i \in 1..(k + 1) : Costs(root)[room][b[i]] = IF i = k + 1 THEN m ELSE c[i]
      <4> HIDE DEF c
      <4> QED
        BY <1>6, <2>5
    <3> QED
      BY <1>6, <3>1 DEF ItemCosts
  <2> HIDE DEF c, m
  <2>7. Append(c, m) = [i \in 1..(k + 1) |-> IF i = k + 1 THEN m ELSE c[i]]
    <3> DEFINE e == Append(c, m)
    <3>1. e \in Seq(Nat) /\ Len(e) = k + 1 /\ e[k + 1] = m /\ \A i \in 1..k : e[i] = c[i]
      BY <2>2, <2>4, <2>5
    <3> HIDE DEF e
    <3>2. e = [i \in 1..(k + 1) |-> e[i]]
      BY <3>1
    <3>3. \A i \in 1..(k + 1) : e[i] = IF i = k + 1 THEN m ELSE c[i]
      BY <3>1
    <3> QED
      BY <3>2, <3>3 DEF e
  <2>8. ItemCosts(root, b, room) = Append(c, m)
    BY <2>6, <2>7
  <2>9. Append(c, m) \in Seq(Nat) /\ Sum(Append(c, m)) = Sum(c) + m /\ Sum(c) \in Nat
    BY <2>2, <2>4, SumAppend, SumType
  <2>10. Sum(c) + m <= left - one.left
    BY <1>2, <1>4, <2>2, <2>3, <2>9
  <2> QED
    BY <2>8, <2>9, <2>10
<1>10. y.at \in Nat /\ y.left \in 0..left
  BY <1>2, <1>4, <1>5
<1> QED
  BY <1>5, <1>6, <1>7, <1>8, <1>9, <1>10 DEF ItemsFit

LEMMA ItemsAccepted ==
    ASSUME NEW at \in Nat, NEW left \in 0..MaxElements, NEW type, NEW inner, NEW room, Reader(inner, room)
    PROVE  \A k \in Nat : k = 0 \/ type \in Types =>
              ItemsFit(Items(at, left, type, inner)[k], k, type, room, left)
<1> DEFINE N == {k \in Nat : k = 0 \/ type \in Types =>
                    ItemsFit(Items(at, left, type, inner)[k], k, type, room, left)}
<1>1. 0 \in N
  BY NoItemsFit
<1>2. ASSUME NEW k \in Nat, k \in N PROVE k + 1 \in N
  <2> SUFFICES ASSUME type \in Types
               PROVE  ItemsFit(Items(at, left, type, inner)[k + 1], k + 1, type, room, left)
    OBVIOUS
  <2>1. Items(at, left, type, inner)[k + 1] = NextItem(Items(at, left, type, inner)[k], type, inner)
    BY ItemsNext
  <2>2. ItemsFit(Items(at, left, type, inner)[k], k, type, room, left)
    BY <1>2
  <2> QED
    BY <2>1, <2>2, OneMoreItemFits
<1> HIDE DEF N
<1>3. \A k \in Nat : k \in N
  BY <1>1, <1>2, Induction
<1> QED
  BY <1>3 DEF N

LEMMA ListAccepted ==
    ASSUME NEW s \in Seq(Byte), NEW at \in Nat, NEW left \in 0..MaxElements, NEW endian,
           NEW inner, NEW room \in Nat, room <= MaxDepth, Reader(inner, room)
    PROVE  Accepted(ReadList(s, at, left, endian, inner), "List", room + 1, left)
<1> DEFINE x == ReadList(s, at, left, endian, inner)
           w == Width["Int"]
           n == Signed(s, at + 1, w, endian)
           code == s[at + 1]
           type == TypeOf(code)
           start == at + 1 + w
           read == Items(start, left - n, type, inner)[n]
           tag == List(type, read.items)
<1> SUFFICES ASSUME x.ok PROVE Accepted(x, "List", room + 1, left)
  BY DEF Accepted
<1>1. /\ Has(s, at, 1) /\ HasLength(s, at + 1, endian) /\ ValidType(code)
      /\ n <= MaxElements /\ Affordable(n, left) /\ (n = 0 \/ code # 0)
      /\ read.ok
      /\ x = [ok |-> TRUE, tag |-> tag, at |-> read.at, left |-> read.left]
  BY DEF ReadList, Failed
<1>2. n \in Nat /\ n <= MaxLength /\ w \in Nat
  <2>1. at + 1 \in Nat
    OBVIOUS
  <2> QED
    BY <1>1, <2>1, LengthIs
<1>3. start \in Nat /\ left - n \in Nat /\ n <= left
  BY <1>1, <1>2 DEF Affordable
<1>4. code \in Byte
  <2>1. at + 1 \in 1..Len(s)
    BY <1>1, SeqLen DEF Has
  <2> QED
    BY <2>1
<1>5. type \in Types \cup {"End"} /\ (type = "End" <=> code = 0)
  <2> HIDE DEF code
  <2> QED
    BY <1>1, <1>4, TypeOfType
<1>6. n = 0 \/ type \in Types
  BY <1>1, <1>5
<1>7. x.tag = tag /\ x.at = read.at /\ x.left = read.left
  BY <1>1
<1>8. tag.type = "List" /\ tag.of = type /\ tag.list = read.items /\ tag = List(tag.of, tag.list)
  BY DEF List
<1>9. ItemsFit(read, n, type, room, left - n)
  <2>1. left - n \in 0..MaxElements
    BY <1>2, <1>3, LimitsAssumption
  <2> HIDE DEF n, type, start
  <2> QED
    BY <1>2, <1>3, <1>6, <2>1, ItemsAccepted
<1> HIDE DEF x, read, tag, n, w, type, start
<1> DEFINE items == read.items
<1>10. /\ items \in Seq(Range(items)) /\ Len(items) = n
       /\ read.at \in Nat /\ read.left \in 0..(left - n)
       /\ \A i \in 1..n : items[i].type = type /\ Fine(items[i], room)
       /\ \A root : ItemsIn(root, items, room) =>
             /\ ItemCosts(root, items, room) \in Seq(Nat)
             /\ Sum(ItemCosts(root, items, room)) <= (left - n) - read.left
  BY <1>1, <1>9 DEF ItemsFit
<1> HIDE DEF items
<1>11. tag.list = items
  BY <1>8 DEF items
<1>12. "List" \notin DOMAIN Width /\ "List" \notin DOMAIN ElementOf /\ "List" \in Types \cup {"End"}
  BY TypesAre
<1>13. MaxDepth \in Nat /\ MaxDepth - room <= MaxDepth
  BY LimitsAssumption
<1>14. DOMAIN items = 1..n
  BY <1>2, <1>10
<1>15. IsTag(tag)
  BY <1>5, <1>8, <1>10, <1>11, <1>12 DEF IsTag
<1>16. Writable(tag, MaxDepth - room)
  <2>1. items = <<>> \/ type # "End"
    <3>1. n = 0 => items = <<>>
      BY <1>10
    <3>2. "End" \notin Types
      BY TypesAre
    <3> QED
      BY <1>6, <3>1, <3>2
  <2>2. /\ Len(tag.list) <= MaxElements /\ Len(tag.list) <= MaxLength
        /\ tag.list = <<>> \/ tag.of # "End"
        /\ \A i \in DOMAIN tag.list : tag.list[i].type = tag.of
    BY <1>1, <1>2, <1>8, <1>10, <1>11, <1>14, <2>1
  <2> QED
    BY <1>8, <1>12, <1>13, <2>2 DEF Writable
<1>17. Parts(tag) = items
  BY <1>8, <1>11 DEF Parts
<1>18. \A p \in Range(Parts(tag)) : Fine(p, room)
  BY <1>10, <1>14, <1>17 DEF Range
<1>19. Fine(tag, room + 1)
  BY <1>15, <1>16, <1>18, FineStep
<1>20. x.left \in 0..left /\ x.at \in Nat /\ left - x.left \in Nat
  BY <1>2, <1>3, <1>7, <1>10
<1>21. ASSUME NEW root, tag \in Within(root)[MaxDepth - room]
       PROVE  Cost(tag, Costs(root)[room]) \in 0..(left - x.left)
  <2>1. ItemsIn(root, items, room)
    <3>1. MaxDepth - room \in Nat /\ (MaxDepth - room) + 1 = MaxDepth + 1 - room
      BY <1>13
    <3>2. Range(Parts(tag)) \subseteq Within(root)[(MaxDepth - room) + 1]
      BY <1>21, <3>1, WithinNext
    <3> QED
      BY <1>10, <1>14, <1>17, <3>1, <3>2 DEF ItemsIn, Range
  <2> DEFINE c == ItemCosts(root, items, room)
  <2>2. c \in Seq(Nat) /\ Sum(c) <= (left - n) - read.left
    BY <1>10, <2>1
  <2>3. c = [i \in DOMAIN Parts(tag) |-> Costs(root)[room][Parts(tag)[i]]]
    BY <1>10, <1>14, <1>17 DEF ItemCosts
  <2>4. Cost(tag, Costs(root)[room]) = n + Sum(c)
    BY <1>8, <1>10, <1>12, <1>17, <2>3 DEF Cost
  <2> HIDE DEF c
  <2>5. Sum(c) \in Nat
    BY <2>2, SumType
  <2> QED
    BY <1>2, <1>3, <1>7, <1>10, <2>2, <2>4, <2>5
<1>22. Spends(tag, room + 1, left - x.left)
  BY <1>20, <1>21, SpendsStep
<1> QED
  BY <1>7, <1>8, <1>19, <1>20, <1>22 DEF Accepted

-----------------------------------------------------------------------------
(* Compounds, as they are read.                                            *)

Weights(root, names, final, fields, room) ==
    [i \in 1..Len(names) |->
        IF names[i] \in DOMAIN fields /\ fields[names[i]] = final[names[i]]
        THEN 1 + Costs(root)[room][final[names[i]]] ELSE 0]

\* The fields of a compound in some tag, in some order.
Listed(root, names, final, room) ==
    /\ names \in Seq(Seq(Byte))
    /\ \A i, j \in 1..Len(names) : names[i] = names[j] => i = j
    /\ \A i \in 1..Len(names) : final[names[i]] \in Within(root)[MaxDepth + 1 - room]

\* The charges paid so far are those for the fields of the final compound that
\* are there already, and of those that will be replaced.
Paid(fields, room, n) ==
    \A root, names, final : Listed(root, names, final, room) =>
        /\ Weights(root, names, final, fields, room) \in Seq(Nat)
        /\ Sum(Weights(root, names, final, fields, room)) <= n

NamedTags(fields, room) ==
    /\ fields = [name \in DOMAIN fields |-> fields[name]]
    /\ DOMAIN fields \subseteq Seq(Byte) /\ IsFiniteSet(DOMAIN fields)
    /\ \A name \in DOMAIN fields :
          TextFits(name) /\ Fine(fields[name], room) /\ \E m \in Nat : Spends(fields[name], room, m)

FieldsFit(x, room, left) ==
    x.ok => /\ NamedTags(x.fields, room)
            /\ Cardinality(DOMAIN x.fields) + x.left <= left
            /\ x.at \in Nat /\ x.left \in 0..left
            /\ Paid(x.fields, room, left - x.left)

LEMMA NothingPaid ==
    ASSUME NEW room
    PROVE  Paid(<<>>, room, 0)
<1> SUFFICES ASSUME NEW root, NEW names, NEW final, Listed(root, names, final, room)
             PROVE  /\ Weights(root, names, final, <<>>, room) \in Seq(Nat)
                    /\ Sum(Weights(root, names, final, <<>>, room)) <= 0
  BY DEF Paid
<1> DEFINE a == Weights(root, names, final, <<>>, room)
           N == {k \in Nat : k <= Len(a) => Prefix(a)[k] = 0}
<1>1. Len(names) \in Nat
  BY SeqLen DEF Listed
<1>2. a = [i \in 1..Len(names) |-> 0]
  BY DEF Weights
<1>3. a \in Seq(Nat) /\ Len(a) = Len(names)
  BY <1>1, <1>2
<1>4. /\ Prefix(a)[0] = 0
      /\ \A n \in Nat : Prefix(a)[n + 1] = Prefix(a)[n] + a[n + 1]
      /\ Sum(a) = Prefix(a)[Len(a)]
  BY PrefixDef
<1>5. \A i \in 1..Len(a) : a[i] = 0
  BY <1>2, <1>3
<1> HIDE DEF a
<1>6. 0 \in N
  BY <1>4
<1>7. ASSUME NEW k \in Nat, k \in N PROVE k + 1 \in N
  <2> SUFFICES ASSUME k + 1 <= Len(a) PROVE Prefix(a)[k + 1] = 0
    OBVIOUS
  <2>1. k <= Len(a) /\ k + 1 \in 1..Len(a)
    BY <1>1, <1>3
  <2>2. Prefix(a)[k] = 0 /\ a[k + 1] = 0
    BY <1>5, <1>7, <2>1
  <2>3. Prefix(a)[k + 1] = Prefix(a)[k] + a[k + 1]
    BY <1>4
  <2> QED
    BY <2>2, <2>3
<1> HIDE DEF N
<1>8. \A k \in Nat : k \in N
  BY <1>6, <1>7, Induction
<1>9. Sum(a) = 0
  BY <1>1, <1>3, <1>4, <1>8 DEF N
<1> QED
  BY <1>3, <1>9 DEF a

LEMMA OneMorePaid ==
    ASSUME NEW fields, NEW name, NEW tag, NEW room, NEW n \in Nat, NEW m \in Nat,
           Paid(fields, room, n), Spends(tag, room, m)
    PROVE  Paid(Put(fields, name, tag), room, n + (1 + m))
<1> DEFINE new == Put(fields, name, tag)
<1> SUFFICES ASSUME NEW root, NEW names, NEW final, Listed(root, names, final, room)
             PROVE  /\ Weights(root, names, final, new, room) \in Seq(Nat)
                    /\ Sum(Weights(root, names, final, new, room)) <= n + (1 + m)
  BY DEF Paid
<1> DEFINE a == Weights(root, names, final, fields, room)
           b == Weights(root, names, final, new, room)
           y == 1 + m
<1>1. Len(names) \in Nat
  BY SeqLen DEF Listed
<1>2. a \in Seq(Nat) /\ Sum(a) <= n
  BY DEF Paid
<1>3. Len(a) = Len(names) /\ Len(b) = Len(names)
  BY <1>1 DEF Weights
<1>4. /\ DOMAIN new = DOMAIN fields \cup {name} /\ new[name] = tag
      /\ \A x \in DOMAIN fields : x # name => new[x] = fields[x]
  BY DEF Put
<1> HIDE DEF new
<1>5. ASSUME NEW i \in 1..Len(names), names[i] # name PROVE b[i] = a[i]
  BY <1>4, <1>5 DEF Weights
<1>6. ASSUME NEW i \in 1..Len(names), names[i] = name PROVE b[i] \in 0..y
  <2>1. CASE tag = final[names[i]]
    <3>1. final[names[i]] \in Within(root)[MaxDepth + 1 - room]
      BY DEF Listed
    <3>2. Costs(root)[room][final[names[i]]] \in 0..m
      BY <2>1, <3>1 DEF Spends
    <3>3. b[i] = 1 + Costs(root)[room][final[names[i]]]
      BY <1>4, <1>6, <2>1 DEF Weights
    <3> QED
      BY <3>2, <3>3
  <2>2. CASE tag # final[names[i]]
    <3>1. b[i] = 0
      BY <1>4, <1>6, <2>2 DEF Weights
    <3> QED
      BY <3>1
  <2> QED
    BY <2>1, <2>2
<1>7. b = [i \in 1..Len(names) |-> b[i]] /\ a = [i \in 1..Len(names) |-> a[i]]
  BY DEF Weights
<1> HIDE DEF a, b, y
<1>8. y \in Nat /\ y = 1 + m
  BY DEF y
<1>9. \A i \in 1..Len(names) : b[i] \in Nat
  <2> SUFFICES ASSUME NEW i \in 1..Len(names) PROVE b[i] \in Nat
    OBVIOUS
  <2>1. a[i] \in Nat
    BY <1>2, <1>3
  <2> QED
    BY <1>5, <1>6, <1>8, <2>1
<1>10. b \in Seq(Nat)
  BY <1>1, <1>7, <1>9
<1>11. Sum(a) \in Nat
  BY <1>2, SumType
<1>12. CASE \E p \in 1..Len(names) : names[p] = name
  <2>1. PICK p \in 1..Len(names) : names[p] = name
    BY <1>12
  <2>2. \A i \in 1..Len(a) : i # p => b[i] = a[i]
    <3> SUFFICES ASSUME NEW i \in 1..Len(names), i # p PROVE b[i] = a[i]
      BY <1>3
    <3>1. names[i] # name
      BY <2>1 DEF Listed
    <3> QED
      BY <1>5, <3>1
  <2>3. p \in 1..Len(a) /\ Len(a) = Len(b)
    BY <1>3
  <2>4. b[p] <= a[p] + y
    <3>1. b[p] \in 0..y /\ a[p] \in Nat
      BY <1>2, <1>6, <2>1, <2>3
    <3> QED
      BY <1>8, <3>1
  <2>5. Sum(b) <= Sum(a) + y
    BY <1>2, <1>8, <1>10, <2>2, <2>3, <2>4, SumChange
  <2>6. Sum(b) \in Nat
    BY <1>10, SumType
  <2>7. Sum(b) <= n + (1 + m)
    BY <1>2, <1>8, <1>11, <2>5, <2>6
  <2> QED
    BY <1>10, <2>7 DEF b
<1>13. CASE ~\E p \in 1..Len(names) : names[p] = name
  <2>1. \A i \in 1..Len(names) : b[i] = a[i]
    BY <1>5, <1>13
  <2>2. b = a
    BY <1>7, <2>1
  <2>3. Sum(b) <= n + (1 + m)
    BY <1>2, <1>8, <1>11, <2>2
  <2> QED
    BY <1>10, <2>3 DEF b
<1> QED
  BY <1>12, <1>13

LEMMA NamedTagsPut ==
    ASSUME NEW fields, NEW name \in Seq(Byte), TextFits(name), NEW tag, NEW room,
           NamedTags(fields, room), Fine(tag, room), NEW m \in Nat, Spends(tag, room, m)
    PROVE  /\ NamedTags(Put(fields, name, tag), room)
           /\ Cardinality(DOMAIN fields) \in Nat
           /\ Cardinality(DOMAIN Put(fields, name, tag)) \in Nat
           /\ Cardinality(DOMAIN Put(fields, name, tag)) <= Cardinality(DOMAIN fields) + 1
<1> DEFINE new == Put(fields, name, tag)
           D == DOMAIN fields
<1>1. /\ new = [n \in DOMAIN new |-> new[n]]
      /\ DOMAIN new = D \cup {name} /\ new[name] = tag
      /\ \A x \in D : x # name => new[x] = fields[x]
  BY DEF Put
<1>2. IsFiniteSet(D) /\ D \subseteq Seq(Byte)
  BY DEF NamedTags
<1>3. \A n \in D : TextFits(n) /\ Fine(fields[n], room) /\ \E k \in Nat : Spends(fields[n], room, k)
  BY DEF NamedTags
<1> HIDE DEF new, D
<1>4. Cardinality(D) \in Nat
  BY <1>2, FS_CardinalityType
<1>5. /\ IsFiniteSet(D \cup {name})
      /\ Cardinality(D \cup {name}) = IF name \in D THEN Cardinality(D) ELSE Cardinality(D) + 1
  BY <1>2, FS_AddElement
<1>6. Cardinality(DOMAIN new) \in Nat /\ Cardinality(DOMAIN new) <= Cardinality(D) + 1
  BY <1>1, <1>4, <1>5
<1>7. ASSUME NEW n \in DOMAIN new
      PROVE  TextFits(n) /\ Fine(new[n], room) /\ \E k \in Nat : Spends(new[n], room, k)
  <2>1. CASE n = name
    BY <1>1, <2>1
  <2>2. CASE n # name
    BY <1>1, <1>3, <2>2
  <2> QED
    BY <2>1, <2>2
<1>8. NamedTags(new, room)
  BY <1>1, <1>2, <1>5, <1>7 DEF NamedTags
<1> QED
  BY <1>4, <1>6, <1>8 DEF new, D

LEMMA NoFieldsFit ==
    ASSUME NEW s, NEW at \in Nat, NEW left \in Nat, NEW endian, NEW inner, NEW room
    PROVE  FieldsFit(Fields(s, at, left, endian, inner)[0], room, left)
<1> DEFINE x == Fields(s, at, left, endian, inner)[0]
<1>1. /\ Fields(s, at, left, endian, inner)[0]
            = [ok |-> TRUE, done |-> FALSE, fields |-> <<>>, at |-> at, left |-> left]
      /\ \A n \in Nat \ {0} :
            Fields(s, at, left, endian, inner)[n]
                = NextField(s, Fields(s, at, left, endian, inner)[n - 1], endian, inner)
  BY FieldsDef
<1>2. x.fields = <<>> /\ x.at = at /\ x.left = left
  BY <1>1
<1> HIDE DEF x
<1>3. DOMAIN <<>> = {} /\ <<>> = [name \in {} |-> <<>>[name]]
  OBVIOUS
<1>4. IsFiniteSet({}) /\ Cardinality({}) = 0
  BY FS_EmptySet
<1>5. NamedTags(<<>>, room)
  BY <1>3, <1>4 DEF NamedTags
<1>6. Paid(<<>>, room, left - x.left)
  <2>1. left - x.left = 0
    BY <1>2
  <2> QED
    BY <2>1, NothingPaid
<1>7. Cardinality(DOMAIN x.fields) + x.left <= left /\ x.left \in 0..left
  BY <1>2, <1>3, <1>4
<1> QED
  BY <1>2, <1>5, <1>6, <1>7 DEF FieldsFit, x

LEMMA OneMoreFieldFits ==
    ASSUME NEW s \in Seq(Byte), NEW x, NEW endian, NEW inner, NEW room, NEW left \in 0..MaxElements,
           FieldsFit(x, room, left), Reader(inner, room)
    PROVE  FieldsFit(NextField(s, x, endian, inner), room, left)
<1> DEFINE y == NextField(s, x, endian, inner)
           code == s[x.at + 1]
           name == ReadText(s, x.at + 1, endian)
           type == TypeOf(code)
           one == inner[<<name.at, x.left - 1, type>>]
           D == DOMAIN x.fields
<1>1. CASE ~x.ok \/ x.done
  <2>1. y = x
    BY <1>1 DEF NextField
  <2> QED
    BY <2>1
<1>2. CASE ~(~x.ok \/ x.done)
  <2>1. /\ NamedTags(x.fields, room) /\ Cardinality(D) + x.left <= left
        /\ x.at \in Nat /\ x.left \in 0..left
        /\ Paid(x.fields, room, left - x.left)
    BY <1>2 DEF FieldsFit
  <2>2. Cardinality(D) \in Nat
    BY <2>1, FS_CardinalityType DEF NamedTags
  <2>3. CASE Has(s, x.at, 1) /\ code = 0
    <3>1. y = [ok |-> TRUE, done |-> TRUE, fields |-> x.fields, at |-> x.at + 1, left |-> x.left]
      BY <1>2, <2>3 DEF NextField
    <3>2. y.fields = x.fields /\ y.at = x.at + 1 /\ y.left = x.left
      BY <3>1
    <3>3. y.at \in Nat
      BY <2>1, <3>2
    <3> QED
      BY <2>1, <3>2, <3>3 DEF FieldsFit
  <2>4. CASE ~(Has(s, x.at, 1) /\ code = 0)
    <3> SUFFICES ASSUME y.ok PROVE FieldsFit(y, room, left)
      BY DEF FieldsFit
    <3> DEFINE new == Put(x.fields, name.text, one.tag)
    <3>1. Has(s, x.at, 1) /\ ValidType(code) /\ Affordable(1, x.left) /\ name.ok /\ one.ok
      BY <1>2, <2>4 DEF NextField, Failed
    <3>2. y = [ok |-> TRUE, done |-> FALSE, fields |-> new, at |-> one.at, left |-> one.left]
      BY <1>2, <2>4, <3>1 DEF NextField
    <3>3. y.fields = new /\ y.at = one.at /\ y.left = one.left
      BY <3>2
    <3>4. code \in Byte /\ code # 0
      <4>1. x.at + 1 \in 1..Len(s)
        BY <2>1, <3>1, SeqLen DEF Has
      <4> QED
        BY <2>4, <3>1, <4>1
    <3>5. type \in Types
      <4> HIDE DEF code
      <4>1. TypeOf(code) \in Types \cup {"End"} /\ (TypeOf(code) = "End" <=> code = 0)
        BY <3>1, <3>4, TypeOfType
      <4> QED
        BY <3>4, <4>1
    <3>6. name.text \in Seq(Byte) /\ name.at \in Nat /\ TextFits(name.text)
      <4>1. name # Failed
        BY <3>1 DEF Failed
      <4>2. x.at + 1 \in Nat
        BY <2>1
      <4>3. PICK text \in Seq(Byte), end \in Nat :
                 /\ name = [ok |-> TRUE, text |-> text, at |-> end]
                 /\ TextFits(text)
        BY <4>1, <4>2, ReadTextType
      <4> QED
        BY <4>3
    <3>7. x.left - 1 \in 0..MaxElements /\ x.left - 1 \in Nat
      BY <2>1, <3>1, LimitsAssumption, SMTT(30) DEF Affordable
    <3> DEFINE l == x.left - 1
    <3>8. Accepted(one, type, room, l)
      <4>1. l \in 0..MaxElements
        BY <3>7
      <4> HIDE DEF type, l
      <4> QED
        BY <3>5, <3>6, <4>1 DEF Reader, l
    <3> HIDE DEF y, new, name, one, type, code
    <3>9. /\ one.at \in Nat /\ one.left \in 0..l
          /\ Fine(one.tag, room) /\ Spends(one.tag, room, l - one.left)
      BY <3>1, <3>8 DEF Accepted
    <3>10. l - one.left \in Nat
      BY <3>7, <3>9
    <3>11. /\ NamedTags(new, room) /\ Cardinality(DOMAIN new) \in Nat
           /\ Cardinality(DOMAIN new) <= Cardinality(D) + 1
      <4> DEFINE f == x.fields  n == name.text  t == one.tag  m == l - one.left
      <4>1. n \in Seq(Byte) /\ TextFits(n) /\ NamedTags(f, room) /\ Fine(t, room)
            /\ m \in Nat /\ Spends(t, room, m)
        BY <2>1, <3>6, <3>9, <3>10
      <4> HIDE DEF f, n, t, m
      <4>2. /\ NamedTags(Put(f, n, t), room)
            /\ Cardinality(DOMAIN f) \in Nat
            /\ Cardinality(DOMAIN Put(f, n, t)) \in Nat
            /\ Cardinality(DOMAIN Put(f, n, t)) <= Cardinality(DOMAIN f) + 1
        BY <4>1, NamedTagsPut
      <4> QED
        BY <4>2 DEF new, f, n, t
    <3>12. Paid(new, room, left - one.left)
      <4> DEFINE f == x.fields  n == left - x.left  t == one.tag  m == l - one.left  nm == name.text
      <4>1. Paid(f, room, n) /\ Spends(t, room, m) /\ n \in Nat /\ m \in Nat
        BY <2>1, <3>9, <3>10
      <4>2. n + (1 + m) = left - one.left
        BY <2>1, <3>9
      <4> HIDE DEF f, n, t, m, nm
      <4>3. Paid(Put(f, nm, t), room, n + (1 + m))
        BY <4>1, OneMorePaid
      <4> QED
        BY <4>2, <4>3 DEF new, f, t, nm
    <3>13. one.left \in 0..left /\ Cardinality(DOMAIN new) + one.left <= left
      BY <2>1, <2>2, <3>7, <3>9, <3>11, SMTT(30)
    <3> QED
      BY <3>3, <3>9, <3>11, <3>12, <3>13 DEF FieldsFit
  <2> QED
    BY <2>3, <2>4
<1> QED
  BY <1>1, <1>2

LEMMA FieldsAccepted ==
    ASSUME NEW s \in Seq(Byte), NEW at \in Nat, NEW left \in 0..MaxElements, NEW endian,
           NEW inner, NEW room, Reader(inner, room)
    PROVE  \A k \in Nat : FieldsFit(Fields(s, at, left, endian, inner)[k], room, left)
<1> DEFINE N == {k \in Nat : FieldsFit(Fields(s, at, left, endian, inner)[k], room, left)}
<1>1. 0 \in N
  <2>1. left \in Nat
    BY LimitsAssumption
  <2> QED
    BY <2>1, NoFieldsFit
<1>2. ASSUME NEW k \in Nat, k \in N PROVE k + 1 \in N
  <2>1. Fields(s, at, left, endian, inner)[k + 1]
           = NextField(s, Fields(s, at, left, endian, inner)[k], endian, inner)
    BY FieldsNext
  <2>2. FieldsFit(Fields(s, at, left, endian, inner)[k], room, left)
    BY <1>2
  <2>3. FieldsFit(NextField(s, Fields(s, at, left, endian, inner)[k], endian, inner), room, left)
    BY <2>2, OneMoreFieldFits
  <2> QED
    BY <2>1, <2>3
<1> HIDE DEF N
<1>3. \A k \in Nat : k \in N
  BY <1>1, <1>2, Induction
<1> QED
  BY <1>3 DEF N

LEMMA CompoundAccepted ==
    ASSUME NEW s \in Seq(Byte), NEW at \in Nat, NEW left \in 0..MaxElements, NEW endian,
           NEW inner, NEW room \in Nat, room <= MaxDepth, Reader(inner, room)
    PROVE  Accepted(ReadCompound(s, at, left, endian, inner), "Compound", room + 1, left)
<1> DEFINE x == ReadCompound(s, at, left, endian, inner)
           read == Fields(s, at, left, endian, inner)[MaxElements + 1]
           tag == Compound(read.fields)
           f == read.fields
           D == DOMAIN f
           names == InOrder(D)
           n == Cardinality(D)
<1> SUFFICES ASSUME x.ok PROVE Accepted(x, "Compound", room + 1, left)
  BY DEF Accepted
<1>1. read.ok /\ x = [ok |-> TRUE, tag |-> tag, at |-> read.at, left |-> read.left]
  BY DEF ReadCompound, Failed
<1>2. x.tag = tag /\ x.at = read.at /\ x.left = read.left
  BY <1>1
<1>3. tag.type = "Compound" /\ tag.fields = f /\ tag = Compound(tag.fields)
  BY DEF Compound
<1>4. FieldsFit(read, room, left)
  <2>1. MaxElements + 1 \in Nat
    BY LimitsAssumption
  <2> QED
    BY <2>1, FieldsAccepted
<1> HIDE DEF x, read, tag
<1>5. /\ NamedTags(f, room) /\ n + read.left <= left
      /\ read.at \in Nat /\ read.left \in 0..left
      /\ Paid(f, room, left - read.left)
  BY <1>1, <1>4 DEF FieldsFit
<1>6. /\ f = [name \in D |-> f[name]]
      /\ D \subseteq Seq(Byte) /\ IsFiniteSet(D)
      /\ \A name \in D : TextFits(name) /\ Fine(f[name], room) /\ \E m \in Nat : Spends(f[name], room, m)
  BY <1>5 DEF NamedTags
<1> HIDE DEF f
<1>7. "Compound" \notin DOMAIN Width /\ "Compound" \notin DOMAIN ElementOf /\ "Compound" \in Types \cup {"End"}
  BY TypesAre
<1>8. MaxDepth \in Nat /\ MaxDepth - room <= MaxDepth
  BY LimitsAssumption
<1>9. /\ n \in Nat
      /\ names \in Seq(D) /\ Len(names) = n
      /\ \A i, j \in 1..n : names[i] = names[j] => i = j
      /\ \A a \in D : \E i \in 1..n : names[i] = a
  <2> HIDE DEF D
  <2> QED
    BY <1>6, InOrderEnumerates
<1>10. IsTag(tag)
  BY <1>3, <1>6, <1>7 DEF IsTag
<1>11. Writable(tag, MaxDepth - room)
  <2>1. n <= MaxElements
    BY <1>5, <1>9, LimitsAssumption
  <2> QED
    BY <1>3, <1>6, <1>7, <1>8, <2>1 DEF Writable
<1> HIDE DEF D
<1>12. DOMAIN names = 1..n /\ names \in Seq(Seq(Byte)) /\ \A i \in 1..n : names[i] \in D
  BY <1>6, <1>9
<1>13. Parts(tag) = [i \in 1..n |-> f[names[i]]]
  <2>1. Parts(tag) = [i \in DOMAIN names |-> f[names[i]]]
    BY <1>3 DEF Parts, D
  <2> QED
    BY <1>12, <2>1
<1> HIDE DEF names, n
<1>14. \A p \in Range(Parts(tag)) : Fine(p, room)
  BY <1>6, <1>12, <1>13 DEF Range
<1>15. Fine(tag, room + 1)
  BY <1>10, <1>11, <1>14, FineStep
<1>16. x.left \in 0..left /\ x.at \in Nat /\ left - x.left \in Nat
  BY <1>2, <1>5
<1>17. ASSUME NEW root, tag \in Within(root)[MaxDepth - room]
       PROVE  Cost(tag, Costs(root)[room]) \in 0..(left - x.left)
  <2> DEFINE a == Weights(root, names, f, f, room)
             c == [i \in 1..n |-> Costs(root)[room][f[names[i]]]]
  <2>1. ASSUME NEW i \in 1..n PROVE f[names[i]] \in Within(root)[MaxDepth + 1 - room]
    <3>1. MaxDepth - room \in Nat /\ (MaxDepth - room) + 1 = MaxDepth + 1 - room
      BY <1>8
    <3>2. Range(Parts(tag)) \subseteq Within(root)[(MaxDepth - room) + 1]
      BY <1>17, <3>1, WithinNext
    <3>3. f[names[i]] \in Range(Parts(tag))
      BY <1>13 DEF Range
    <3> QED
      BY <3>1, <3>2, <3>3
  <2>2. Listed(root, names, f, room)
    BY <1>9, <1>12, <2>1 DEF Listed
  <2>3. a \in Seq(Nat) /\ Sum(a) <= left - read.left
    BY <1>5, <2>2 DEF Paid
  <2>4. \A i \in 1..n : Costs(root)[room][f[names[i]]] \in Nat
    <3> SUFFICES ASSUME NEW i \in 1..n PROVE Costs(root)[room][f[names[i]]] \in Nat
      OBVIOUS
    <3>1. PICK m \in Nat : Spends(f[names[i]], room, m)
      BY <1>6, <1>12
    <3>2. Costs(root)[room][f[names[i]]] \in 0..m
      BY <2>1, <3>1 DEF Spends
    <3> QED
      BY <3>2
  <2>5. c \in Seq(Nat) /\ Len(c) = n
    BY <1>9, <2>4, SMTT(30)
  <2>6. Len(a) = n /\ \A i \in 1..n : a[i] = 1 + c[i]
    BY <1>6, <1>9, <1>12 DEF Weights
  <2>7. Cost(tag, Costs(root)[room]) = n + Sum(c)
    <3>1. c = [i \in DOMAIN Parts(tag) |-> Costs(root)[room][Parts(tag)[i]]]
      BY <1>13
    <3>2. Len(Parts(tag)) = n
      BY <1>9, <1>13
    <3> HIDE DEF c
    <3> QED
      BY <1>3, <1>7, <3>1, <3>2 DEF Cost
  <2> HIDE DEF a, c
  <2>8. Sum(a) = Len(c) + Sum(c)
    <3>1. Len(c) = Len(a) /\ \A i \in 1..Len(c) : a[i] = 1 + c[i]
      BY <2>5, <2>6
    <3> QED
      BY <2>3, <2>5, <3>1, SumOneMore
  <2>9. Sum(a) \in Nat
    BY <2>3, SumType
  <2> QED
    BY <1>2, <1>5, <2>3, <2>5, <2>7, <2>8, <2>9
<1>18. Spends(tag, room + 1, left - x.left)
  BY <1>16, <1>17, SpendsStep
<1> QED
  BY <1>2, <1>3, <1>15, <1>16, <1>18 DEF Accepted

LEMMA PayloadAccepted ==
    ASSUME NEW s \in Seq(Byte), NEW at \in Nat, NEW left \in 0..MaxElements, NEW endian,
           NEW type \in Types, NEW inner, NEW room \in Nat, room <= MaxDepth, Reader(inner, room)
    PROVE  Accepted(ReadPayload(s, at, left, type, endian, inner), type, room + 1, left)
<1>0. left \in Nat
  BY LimitsAssumption
<1>1. CASE type \in DOMAIN Width
  <2>1. ReadPayload(s, at, left, type, endian, inner) = ReadNumber(s, at, left, type, endian)
    BY <1>1, TypesAre DEF ReadPayload
  <2> QED
    BY <1>0, <1>1, <2>1, NumberAccepted
<1>2. CASE type = "String"
  <2>1. ReadPayload(s, at, left, type, endian, inner) = ReadString(s, at, left, endian)
    BY <1>2, TypesAre DEF ReadPayload
  <2> QED
    BY <1>0, <1>2, <2>1, StringAccepted
<1>3. CASE type \in DOMAIN ElementOf
  <2>1. ReadPayload(s, at, left, type, endian, inner) = ReadArray(s, at, left, type, endian)
    BY <1>3, TypesAre DEF ReadPayload
  <2> QED
    BY <1>0, <1>3, <2>1, ArrayAccepted
<1>4. CASE type = "List"
  <2>1. ReadPayload(s, at, left, type, endian, inner) = ReadList(s, at, left, endian, inner)
    BY <1>4, TypesAre DEF ReadPayload
  <2> QED
    BY <1>4, <2>1, ListAccepted
<1>5. CASE type = "Compound"
  <2>1. ReadPayload(s, at, left, type, endian, inner) = ReadCompound(s, at, left, endian, inner)
    BY <1>5, TypesAre DEF ReadPayload
  <2> QED
    BY <1>5, <2>1, CompoundAccepted
<1> QED
  BY <1>1, <1>2, <1>3, <1>4, <1>5, TypesAre

LEMMA EveryRoomReads ==
    ASSUME NEW s \in Seq(Byte), NEW endian
    PROVE  \A room \in Nat : room <= MaxDepth + 1 => Reader(Reads(s, endian)[room], room)
<1> DEFINE N == {room \in Nat : room <= MaxDepth + 1 => Reader(Reads(s, endian)[room], room)}
<1>0. MaxDepth \in Nat /\ MaxElements \in Nat
  BY LimitsAssumption
<1>1. 0 \in N
  <2> SUFFICES ASSUME NEW at \in Nat, NEW left \in 0..MaxElements, NEW type \in Types
               PROVE  Accepted(Reads(s, endian)[0][<<at, left, type>>], type, 0, left)
    BY DEF Reader
  <2>1. ReadsIs(s, endian)
    BY ReadsDef
  <2>2. left \in Int /\ type \in Types \cup {"End"}
    BY <1>0
  <2>3. Reads(s, endian)[0][<<at, left, type>>] = Failed
    BY <2>1, <2>2 DEF ReadsIs
  <2> QED
    BY <2>3 DEF Accepted, Failed
<1>2. ASSUME NEW room \in Nat, room \in N PROVE room + 1 \in N
  <2> SUFFICES ASSUME room + 1 <= MaxDepth + 1,
                      NEW at \in Nat, NEW left \in 0..MaxElements, NEW type \in Types
               PROVE  Accepted(Reads(s, endian)[room + 1][<<at, left, type>>], type, room + 1, left)
    BY DEF Reader
  <2>1. room <= MaxDepth + 1 /\ room <= MaxDepth
    BY <1>0
  <2> DEFINE inner == Reads(s, endian)[room]
  <2>2. Reader(inner, room)
    BY <1>2, <2>1
  <2>3. left \in Int /\ type \in Types \cup {"End"}
    BY <1>0
  <2>4. Reads(s, endian)[room + 1][<<at, left, type>>] = ReadPayload(s, at, left, type, endian, inner)
    BY <2>3, ReadsNext
  <2> HIDE DEF inner
  <2>5. Accepted(ReadPayload(s, at, left, type, endian, inner), type, room + 1, left)
    BY <2>1, <2>2, PayloadAccepted
  <2> QED
    BY <2>4, <2>5
<1> HIDE DEF N
<1>3. \A room \in Nat : room \in N
  BY <1>1, <1>2, Induction
<1> QED
  BY <1>3 DEF N

\* What read_named accepts can be written again, and is within the budget.
LEMMA ReadAccepts ==
    ASSUME NEW s \in Seq(Byte), NEW endian, Read(s, endian).ok
    PROVE  /\ Sound(Read(s, endian).tag)
           /\ Elements(Read(s, endian).tag) \in Nat /\ Elements(Read(s, endian).tag) <= MaxElements
<1> DEFINE name == ReadText(s, 1, endian)
           code == s[1]
           type == TypeOf(code)
           read == Reads(s, endian)[MaxDepth + 1][<<name.at, MaxElements, type>>]
           x == Read(s, endian)
           tag == read.tag
           room == MaxDepth + 1
<1>1. /\ Has(s, 0, 1) /\ ValidType(code) /\ code # 0 /\ name.ok /\ read.ok
      /\ x = [ok |-> TRUE, name |-> name.text, tag |-> tag, at |-> read.at]
  BY DEF Read, Failed
<1>2. x.tag = tag
  BY <1>1
<1>3. code \in Byte
  <2>1. 1 \in 1..Len(s)
    BY <1>1, SeqLen DEF Has
  <2> QED
    BY <2>1
<1>4. type \in Types
  <2> HIDE DEF code
  <2>1. TypeOf(code) \in Types \cup {"End"} /\ (TypeOf(code) = "End" <=> code = 0)
    BY <1>1, <1>3, TypeOfType
  <2> QED
    BY <1>1, <2>1
<1>5. name.at \in Nat
  <2>1. name # Failed
    BY <1>1 DEF Failed
  <2>2. PICK text \in Seq(Byte), end \in Nat :
             /\ name = [ok |-> TRUE, text |-> text, at |-> end]
             /\ TextFits(text)
    BY <2>1, ReadTextType
  <2> QED
    BY <2>2
<1>6. room \in Nat /\ MaxElements \in 0..MaxElements /\ room = MaxDepth + 1 /\ MaxDepth + 1 - room = 0
      /\ room <= MaxDepth + 1 /\ MaxElements \in Nat
  BY LimitsAssumption
<1>7. Reader(Reads(s, endian)[room], room)
  <2> HIDE DEF room
  <2> QED
    BY <1>6, EveryRoomReads
<1>8. Accepted(read, type, room, MaxElements)
  <2> HIDE DEF name, type
  <2> QED
    BY <1>4, <1>5, <1>6, <1>7 DEF Reader
<1> HIDE DEF x, read
<1>9. Fine(tag, MaxDepth + 1) /\ Spends(tag, room, MaxElements - read.left) /\ read.left \in 0..MaxElements
  BY <1>1, <1>8 DEF Accepted
<1>10. Sound(tag)
  BY <1>9, FineIsSound
<1>11. Elements(tag) \in 0..(MaxElements - read.left)
  <2>1. tag \in Within(tag)[MaxDepth + 1 - room]
    BY <1>6, RootWithin
  <2> QED
    BY <1>9, <2>1 DEF Spends, Elements
<1> HIDE DEF tag
<1>12. Elements(tag) \in Nat /\ Elements(tag) <= MaxElements
  BY <1>6, <1>9, <1>11
<1> QED
  BY <1>2, <1>10, <1>12 DEF x

-----------------------------------------------------------------------------
(* The file: the header before a payload.                                  *)

HeaderOf(n) == Cat(Digits(FileVersion, Width["Int"], "Little"), Digits(n, Width["Int"], "Little"))

LEMMA FramedType ==
    ASSUME NEW payload \in Seq(Byte)
    PROVE  /\ Framed(payload) = Cat(HeaderOf(Len(payload)), payload)
           /\ HeaderOf(Len(payload)) \in Seq(Byte) /\ Len(HeaderOf(Len(payload))) = 2 * Width["Int"]
           /\ Digits(FileVersion, Width["Int"], "Little") \in Seq(Byte)
           /\ Len(Digits(FileVersion, Width["Int"], "Little")) = Width["Int"]
           /\ Digits(Len(payload), Width["Int"], "Little") \in Seq(Byte)
           /\ Framed(payload) \in Seq(Byte)
           /\ Len(Framed(payload)) = 2 * Width["Int"] + Len(payload)
           /\ Width["Int"] \in Nat /\ Len(payload) \in Nat
<1> DEFINE w == Width["Int"]
           n == Len(payload)
           v == Digits(FileVersion, w, "Little")
           l == Digits(n, w, "Little")
           e == "Little"
<1>1. w \in Nat /\ n \in Nat /\ n \in Int /\ FileVersion \in Int
  BY WidthType, TypesAre, SeqLen, FormatAssumption
<1>2. Framed(payload) = Cat(Cat(v, l), payload) /\ HeaderOf(n) = Cat(v, l)
  BY DEF Framed, Cat, HeaderOf
<1>3. v \in Seq(Byte) /\ Len(v) = w /\ l \in Seq(Byte) /\ Len(l) = w
  <2> HIDE DEF w, n, e
  <2>1. Digits(FileVersion, w, e) \in Seq(Byte) /\ Len(Digits(FileVersion, w, e)) = w
    BY <1>1, DigitsType
  <2>2. Digits(n, w, e) \in Seq(Byte) /\ Len(Digits(n, w, e)) = w
    BY <1>1, DigitsType
  <2> QED
    BY <2>1, <2>2 DEF e
<1> HIDE DEF v, l
<1>4. Cat(v, l) \in Seq(Byte) /\ Len(Cat(v, l)) = Len(v) + Len(l)
  BY <1>3, CatType
<1>5. Cat(Cat(v, l), payload) \in Seq(Byte) /\ Len(Cat(Cat(v, l), payload)) = Len(Cat(v, l)) + n
  BY <1>4, CatType
<1> HIDE DEF w, n
<1>6. Len(Cat(v, l)) = 2 * w /\ Len(Cat(Cat(v, l), payload)) = 2 * w + n
  BY <1>1, <1>3, <1>4, <1>5
<1> QED
  BY <1>1, <1>2, <1>3, <1>4, <1>5, <1>6 DEF v, l, w, n

\* What is read of the first bytes of a file.
LEMMA HeadReadBack ==
    ASSUME NEW s \in Seq(Byte), NEW n \in Nat, n <= MaxPayload,
           Holds(s, 0, HeaderOf(n))
    PROVE  /\ Unsigned(s, 0, Width["Int"], "Little") = FileVersion
           /\ Unsigned(s, Width["Int"], Width["Int"], "Little") = n
<1> DEFINE w == Width["Int"]
           e == "Little"
           v == Digits(FileVersion, w, e)
           l == Digits(n, w, e)
<1>1. w \in Nat /\ n \in Int /\ FileVersion \in Int
  BY WidthType, TypesAre, FormatAssumption
<1>2. Power[w] \in Nat \ {0}
  BY <1>1, PowerType
<1>3. n \in 0..(Power[w] - 1) /\ FileVersion \in 0..(Power[w] - 1)
  <2>1. Power[w] \div 2 \in Int /\ Power[w] \div 2 - 1 <= Power[w] - 1
    BY <1>2
  <2>2. n <= Power[w] - 1 /\ MaxPayload \in Nat
    BY <1>2, FormatAssumption
  <2>3. FileVersion \in Nat /\ FileVersion <= Power[w] \div 2 - 1
    BY <1>2, <2>1, FormatAssumption DEF SignedRange
  <2> HIDE DEF w
  <2> QED
    BY <1>2, <2>1, <2>2, <2>3
<1>4. HeaderOf(n) = Cat(v, l)
  BY DEF HeaderOf
<1> HIDE DEF w, e
<1>5. v \in Seq(Byte) /\ Len(v) = w /\ l \in Seq(Byte) /\ Len(l) = w
  BY <1>1, DigitsType
<1>6. Holds(s, 0, v) /\ Holds(s, 0 + Len(v), l)
  <2>1. Holds(s, 0, Cat(v, l))
    BY <1>4
  <2> HIDE DEF v, l
  <2> QED
    BY <1>5, <2>1, HoldsCat
<1>7. 0 + Len(v) = w
  BY <1>1, <1>5
<1>8. Holds(s, 0, Digits(FileVersion, w, e)) /\ Holds(s, w, Digits(n, w, e))
  BY <1>6, <1>7
<1> HIDE DEF v, l
<1>9. Unsigned(s, 0, w, e) = FileVersion
  BY <1>1, <1>3, <1>8, UnsignedReadBack
<1>10. Unsigned(s, w, w, e) = n
  BY <1>1, <1>3, <1>8, UnsignedReadBack
<1> QED
  BY <1>9, <1>10 DEF w, e

\* A whole file is taken, and its payload found; one cut off is refused.
LEMMA FramedOpens ==
    ASSUME NEW payload \in Seq(Byte), Len(payload) >= 1, Len(payload) <= MaxPayload
    PROVE  HeaderIsRight(Framed(payload)) /\ Payload(Framed(payload)) = payload
<1> DEFINE s == Framed(payload)
           n == Len(payload)
           h == HeaderOf(n)
           w == Width["Int"]
<1>1. /\ s = Cat(h, payload) /\ h \in Seq(Byte) /\ Len(h) = 2 * w
      /\ s \in Seq(Byte) /\ Len(s) = 2 * w + n /\ w \in Nat /\ n \in Nat
  BY FramedType
<1>2. n # 0 /\ n <= MaxPayload /\ MaxPayload \in Nat
  BY <1>1, FormatAssumption
<1> HIDE DEF s, n, h, w
<1>3. Holds(s, 0, h) /\ Holds(s, 0 + Len(h), payload)
  <2>1. Holds(s, 0, Cat(h, payload))
    BY <1>1, HoldsItself
  <2> QED
    BY <1>1, <2>1, HoldsCat
<1>4. Unsigned(s, 0, w, "Little") = FileVersion /\ Unsigned(s, w, w, "Little") = n
  BY <1>1, <1>2, <1>3, HeadReadBack DEF h, w
<1>5. HeaderIsRight(s)
  BY <1>1, <1>2, <1>4 DEF HeaderIsRight, w
<1>6. 0 + Len(h) = 2 * w /\ 2 * w \in Nat
  BY <1>1
<1>7. SubSeq(s, 2 * w + 1, 2 * w + Len(payload)) = payload
  BY <1>1, <1>3, <1>6, HoldsEqual
<1>8. Payload(s) = payload
  BY <1>1, <1>7 DEF Payload, w, n
<1> QED
  BY <1>5, <1>8 DEF s

LEMMA CutIsRefused ==
    ASSUME NEW payload \in Seq(Byte), Len(payload) <= MaxPayload,
           NEW k \in 0..(Len(Framed(payload)) - 1)
    PROVE  ~HeaderIsRight(SubSeq(Framed(payload), 1, k))
<1> DEFINE s == Framed(payload)
           n == Len(payload)
           h == HeaderOf(n)
           w == Width["Int"]
           cut == SubSeq(s, 1, k)
<1>1. /\ s = Cat(h, payload) /\ h \in Seq(Byte) /\ Len(h) = 2 * w
      /\ s \in Seq(Byte) /\ Len(s) = 2 * w + n /\ w \in Nat /\ n \in Nat
  BY FramedType
<1> HIDE DEF s, n, h, w
<1>2. k \in Nat /\ k < Len(s)
  BY <1>1 DEF s
<1>3. /\ cut \in Seq(Byte) /\ Len(cut) = k
      /\ \A i \in 1..k : cut[i] = s[i]
  BY <1>1, <1>2
<1> HIDE DEF cut
<1> SUFFICES ASSUME HeaderIsRight(cut) PROVE FALSE
  BY DEF cut, s
<1>4. Holds(s, 0, h)
  <2>1. Holds(s, 0, Cat(h, payload))
    BY <1>1, HoldsItself
  <2> QED
    BY <1>1, <2>1, HoldsCat
<1>5. 2 * w <= k
  BY <1>1, <1>3 DEF HeaderIsRight, w
<1>6. Holds(cut, 0, h)
  <2>1. \A i \in 1..(2 * w) : s[0 + i] = h[i]
    BY <1>1, <1>4 DEF Holds
  <2>2. \A i \in 1..(2 * w) : cut[0 + i] = h[i]
    BY <1>1, <1>2, <1>3, <1>5, <2>1
  <2> QED
    BY <1>1, <1>3, <1>5, <2>2 DEF Holds
<1>7. Unsigned(cut, w, w, "Little") = n
  BY <1>1, <1>3, <1>6, HeadReadBack DEF h, w, n
<1>8. Len(cut) = 2 * w + n
  BY <1>7 DEF HeaderIsRight, w
<1> QED
  BY <1>1, <1>2, <1>3, <1>8

LEMMA NoNameFits == <<>> \in Seq(Byte) /\ TextFits(<<>>)
<1>1. Power[TextWidth] \in Nat \ {0}
  BY PowerType, WidthAssumption
<1> QED
  BY <1>1 DEF TextFits

\* What the writer does not refuse is sound, if it is a tag at all.
LEMMA WrittenIsSound ==
    ASSUME NEW tag, NEW endian, Write(<<>>, tag, endian) # None,
           \A depth \in 0..(MaxDepth + 1) : \A t \in Within(tag)[depth] : IsTag(t)
    PROVE  Sound(tag)
<1>1. \A depth \in 0..(MaxDepth + 1) : \A t \in Within(tag)[depth] : Writable(t, depth)
  BY DEF Write
<1> QED
  BY <1>1 DEF Sound

LEMMA WriteOfSound ==
    ASSUME NEW tag, Sound(tag), NEW endian
    PROVE  /\ Write(<<>>, tag, endian) \in Seq(Byte) /\ Write(<<>>, tag, endian) # None
           /\ Len(Write(<<>>, tag, endian)) >= 1
<1> DEFINE name == <<>>
<1>1. name \in Seq(Byte) /\ TextFits(name)
  BY NoNameFits
<1> HIDE DEF name
<1>2. /\ Write(name, tag, endian) \in Seq(Byte) /\ Write(name, tag, endian) # None
      /\ Write(name, tag, endian)
            = Cat(Header(name, tag.type, endian), Payloads(tag, endian)[MaxDepth + 1][tag])
      /\ tag.type \in Types
      /\ Header(name, tag.type, endian) \in Seq(Byte)
      /\ Payloads(tag, endian)[MaxDepth + 1][tag] \in Seq(Byte)
      /\ Len(Write(name, tag, endian)) = Len(Header(name, tag.type, endian))
                                         + Len(Payloads(tag, endian)[MaxDepth + 1][tag])
      /\ Len(Write(name, tag, endian)) >= 1
  BY <1>1, WriteType
<1> QED
  BY <1>2 DEF name

\* What the reader makes of a sound tag.
Result(tag, at) == IF Elements(tag) <= MaxElements THEN ReadResult(<<>>, tag, at) ELSE Failed

LEMMA WrittenIsRead ==
    ASSUME NEW tag, Sound(tag), NEW endian, NEW s, s = Write(<<>>, tag, endian)
    PROVE  Read(s, endian) = Result(tag, Len(s))
<1> DEFINE name == <<>>
<1>1. name \in Seq(Byte) /\ TextFits(name) /\ s = Write(name, tag, endian)
  BY NoNameFits
<1> HIDE DEF name
<1>2. Read(s, endian) = IF Elements(tag) <= MaxElements THEN ReadResult(name, tag, Len(s)) ELSE Failed
  BY <1>1, WriteReadBack
<1> QED
  BY <1>2 DEF Result, name

\* The bytes of a file, for a tag that can be written.
LEMMA BytesType ==
    ASSUME NEW tag, Sound(tag)
    PROVE  Bytes(tag) \in Seq(Byte) \cup {None}
<1> DEFINE p == Write(<<>>, tag, "Little")
<1>1. p \in Seq(Byte)
  BY WriteOfSound
<1> HIDE DEF p
<1>2. Framed(p) \in Seq(Byte)
  BY <1>1, FramedType
<1> QED
  BY <1>2 DEF Bytes, p

LEMMA BytesAre ==
    ASSUME NEW tag, Sound(tag), Bytes(tag) # None
    PROVE  /\ Len(Write(<<>>, tag, "Little")) <= MaxPayload
           /\ Bytes(tag) = Framed(Write(<<>>, tag, "Little"))
<1> DEFINE p == Write(<<>>, tag, "Little")
<1>1. Bytes(tag) = IF p = None \/ Len(p) > MaxPayload THEN None ELSE Framed(p)
  BY DEF Bytes
<1>2. Len(p) \in Nat /\ MaxPayload \in Nat
  <2>1. p \in Seq(Byte)
    BY WriteOfSound
  <2> QED
    BY <2>1, SeqLen, FormatAssumption
<1> HIDE DEF p
<1>3. ~(Len(p) > MaxPayload) /\ Bytes(tag) = Framed(p)
  BY <1>1
<1> QED
  BY <1>2, <1>3 DEF p

LEMMA BytesOpened ==
    ASSUME NEW tag, Sound(tag), Bytes(tag) # None
    PROVE  /\ Elements(tag) <= MaxElements => Opened(Bytes(tag)).ok /\ Opened(Bytes(tag)).tag = tag
           /\ ~(Elements(tag) <= MaxElements) => Opened(Bytes(tag)) = Failed
<1> DEFINE p == Write(<<>>, tag, "Little")
           s == Framed(p)
           read == Read(p, "Little")
<1>1. p \in Seq(Byte) /\ Len(p) >= 1
  BY WriteOfSound
<1>2. Bytes(tag) = s /\ Len(p) <= MaxPayload
  BY BytesAre
<1>3. read = Result(tag, Len(p))
  BY WrittenIsRead
<1> HIDE DEF p, read
<1>4. HeaderIsRight(s) /\ Payload(s) = p
  BY <1>1, <1>2, FramedOpens
<1>5. Opened(s) = IF read.ok /\ read.at = Len(p) THEN read ELSE Failed
  <2>1. s # None
    BY <1>2
  <2>2. Read(Payload(s), "Little") = read
    BY <1>4 DEF read
  <2> HIDE DEF s
  <2> QED
    BY <1>4, <2>1, <2>2 DEF Opened, IfWhole
<1> HIDE DEF s
<1>6. ASSUME Elements(tag) <= MaxElements PROVE Opened(s).ok /\ Opened(s).tag = tag
  <2>1. read.ok /\ read.at = Len(p) /\ read.tag = tag
    BY <1>3, <1>6 DEF Result, ReadResult
  <2>2. Opened(s) = read
    BY <1>5, <2>1
  <2> QED
    BY <2>1, <2>2
<1>7. ASSUME ~(Elements(tag) <= MaxElements) PROVE Opened(s) = Failed
  <2>1. ~read.ok
    BY <1>3, <1>7 DEF Result, Failed
  <2> QED
    BY <1>5, <2>1
<1> QED
  BY <1>2, <1>6, <1>7

LEMMA CutBytesRefused ==
    ASSUME NEW tag, Sound(tag), Bytes(tag) # None, NEW k \in 0..(Len(Bytes(tag)) - 1)
    PROVE  ~Opened(SubSeq(Bytes(tag), 1, k)).ok
<1> DEFINE p == Write(<<>>, tag, "Little")
<1>1. p \in Seq(Byte) /\ Len(p) \in Nat
  BY WriteOfSound, SeqLen
<1>2. Bytes(tag) = Framed(p) /\ Len(p) <= MaxPayload
  BY BytesAre
<1> HIDE DEF p
<1>3. ~HeaderIsRight(SubSeq(Bytes(tag), 1, k))
  BY <1>1, <1>2, CutIsRefused
<1> QED
  BY <1>3 DEF Opened, IfWhole, Failed

\* What is read of any file at all is sound.
LEMMA OpenedIsSound ==
    ASSUME NEW s \in Seq(Byte) \cup {None}, Opened(s).ok
    PROVE  /\ Sound(Opened(s).tag)
           /\ Elements(Opened(s).tag) \in Nat /\ Elements(Opened(s).tag) <= MaxElements
<1> DEFINE p == Payload(s)
           read == Read(p, "Little")
<1>1. s # None /\ Opened(s) = read /\ read.ok /\ HeaderIsRight(s)
  BY DEF Opened, IfWhole, Failed
<1>2. p \in Seq(Byte)
  <2>1. s \in Seq(Byte) /\ Len(s) \in Nat
    BY <1>1, SeqLen
  <2>2. Width["Int"] \in Nat
    BY WidthType, TypesAre
  <2>3. 2 * Width["Int"] + 1 \in 1..(Len(s) + 1)
    BY <1>1, <2>1, <2>2 DEF HeaderIsRight
  <2> QED
    BY <2>1, <2>3 DEF Payload
<1> HIDE DEF p
<1>3. /\ Sound(read.tag)
      /\ Elements(read.tag) \in Nat /\ Elements(read.tag) <= MaxElements
  BY <1>1, <1>2, ReadAccepts
<1> QED
  BY <1>1, <1>3

-----------------------------------------------------------------------------
(* The root of a game can be written, and is read back.                    *)

LEMMA NumberIsFine ==
    ASSUME NEW type \in DOMAIN Width, NEW n \in SignedRange(Width[type]),
           NEW room \in Nat, room <= MaxDepth
    PROVE  /\ Number(type, n).type = type /\ Number(type, n).number = n
           /\ Fine(Number(type, n), room + 1) /\ Spends(Number(type, n), room + 1, 0)
<1> DEFINE tag == Number(type, n)
<1>1. tag.type = type /\ tag.number = n /\ tag = Number(tag.type, tag.number)
  BY DEF Number
<1>2. /\ type # "String" /\ type # "List" /\ type # "Compound" /\ type # "End"
      /\ type \notin DOMAIN ElementOf /\ type \in Types \cup {"End"}
  BY TypesAre
<1>3. MaxDepth \in Nat /\ MaxDepth - room <= MaxDepth
  BY LimitsAssumption
<1> HIDE DEF tag
<1>4. IsTag(tag) /\ Writable(tag, MaxDepth - room)
  BY <1>1, <1>2, <1>3 DEF IsTag, Writable
<1>5. Fine(tag, room + 1) /\ Spends(tag, room + 1, 0)
  BY <1>1, <1>2, <1>4, LeafIsFine
<1> QED
  BY <1>1, <1>5 DEF tag

LEMMA SumOfZeros ==
    ASSUME NEW a \in Seq(Nat), \A i \in 1..Len(a) : a[i] = 0
    PROVE  Sum(a) = 0
<1> DEFINE N == {k \in Nat : k <= Len(a) => Prefix(a)[k] = 0}
<1>1. /\ Prefix(a)[0] = 0
      /\ \A n \in Nat : Prefix(a)[n + 1] = Prefix(a)[n] + a[n + 1]
      /\ Sum(a) = Prefix(a)[Len(a)]
  BY PrefixDef
<1>2. Len(a) \in Nat
  BY SeqLen
<1>3. 0 \in N
  BY <1>1
<1>4. ASSUME NEW k \in Nat, k \in N PROVE k + 1 \in N
  <2> SUFFICES ASSUME k + 1 <= Len(a) PROVE Prefix(a)[k + 1] = 0
    OBVIOUS
  <2>1. k <= Len(a) /\ k + 1 \in 1..Len(a)
    BY <1>2
  <2>2. Prefix(a)[k] = 0 /\ a[k + 1] = 0
    BY <1>4, <2>1
  <2>3. Prefix(a)[k + 1] = Prefix(a)[k] + a[k + 1]
    BY <1>1
  <2> QED
    BY <2>2, <2>3
<1> HIDE DEF N
<1>5. \A k \in Nat : k \in N
  BY <1>3, <1>4, Induction
<1> QED
  BY <1>1, <1>2, <1>5 DEF N

\* All are zero but one.
LEMMA SumOfOne ==
    ASSUME NEW a \in Seq(Nat), NEW p \in 1..Len(a), NEW y \in Nat,
           \A i \in 1..Len(a) : i # p => a[i] = 0,
           a[p] <= y
    PROVE  Sum(a) <= y
<1> DEFINE z == [i \in 1..Len(a) |-> 0]
<1>1. Len(a) \in Nat
  BY SeqLen
<1>2. z \in Seq(Nat) /\ Len(z) = Len(a) /\ \A i \in 1..Len(z) : z[i] = 0
  BY <1>1
<1> HIDE DEF z
<1>3. Sum(z) = 0
  BY <1>2, SumOfZeros
<1>4. /\ Len(z) = Len(a) /\ p \in 1..Len(z)
      /\ \A i \in 1..Len(z) : i # p => a[i] = z[i]
      /\ a[p] <= z[p] + y
  BY <1>2
<1>5. Sum(a) <= Sum(z) + y
  BY <1>2, <1>4, SumChange
<1> QED
  BY <1>3, <1>5

LEMMA ShortNameFits ==
    ASSUME NEW n \in 0..12
    PROVE  <<n>> \in Seq(Byte) /\ TextFits(<<n>>)
<1>1. n \in Byte
  BY BaseAssumption DEF Byte
<1>2. Power[0] = 1
  BY PowerDef
<1>3. 0 \in Nat /\ TextWidth \in Nat /\ 0 < TextWidth
  BY WidthAssumption
<1>4. Base * Power[0] <= Power[TextWidth]
  BY <1>3, PowerGrows
<1>5. Power[TextWidth] \in Nat
  BY <1>3, PowerType
<1>6. 1 < Power[TextWidth]
  BY <1>2, <1>4, <1>5, BaseAssumption
<1>7. Len(<<n>>) = 1
  OBVIOUS
<1> QED
  BY <1>1, <1>6, <1>7 DEF TextFits

\* A compound whose fields all are fine, and cost nothing but one of them.
AllButOneFree(fields, room, q, y) ==
    /\ q \in DOMAIN fields /\ Spends(fields[q], room, y)
    /\ \A name \in DOMAIN fields : name # q => Spends(fields[name], room, 0)

LEMMA CompoundIsFine ==
    ASSUME NEW fields, NEW D, D = DOMAIN fields, Cardinality(D) <= MaxElements,
           NEW room \in Nat, room <= MaxDepth, NamedTags(fields, room),
           NEW q, NEW y \in Nat, AllButOneFree(fields, room, q, y)
    PROVE  /\ Compound(fields).type = "Compound" /\ Compound(fields).fields = fields
           /\ Fine(Compound(fields), room + 1)
           /\ Spends(Compound(fields), room + 1, Cardinality(D) + y)
           /\ \A name \in D : fields[name] \in Range(Parts(Compound(fields)))
<1> DEFINE tag == Compound(fields)
           names == InOrder(D)
           n == Cardinality(D)
<1>1. tag.type = "Compound" /\ tag.fields = fields /\ tag = Compound(tag.fields)
  BY DEF Compound
<1> HIDE DEF tag
<1>2. /\ D = DOMAIN fields /\ fields = [name \in D |-> fields[name]]
      /\ D \subseteq Seq(Byte) /\ IsFiniteSet(D)
      /\ \A name \in D : TextFits(name) /\ Fine(fields[name], room)
  BY DEF NamedTags
<1>20. /\ q \in D /\ Spends(fields[q], room, y)
       /\ \A name \in D : name # q => Spends(fields[name], room, 0)
  BY DEF AllButOneFree
<1>3. "Compound" \notin DOMAIN Width /\ "Compound" \notin DOMAIN ElementOf /\ "Compound" \in Types \cup {"End"}
  BY TypesAre
<1>4. MaxDepth \in Nat /\ MaxDepth - room <= MaxDepth
  BY LimitsAssumption
<1>5. /\ n \in Nat
      /\ names \in Seq(D) /\ Len(names) = n
      /\ \A i, j \in 1..n : names[i] = names[j] => i = j
      /\ \A a \in D : \E i \in 1..n : names[i] = a
  BY <1>2, InOrderEnumerates
<1>6. IsTag(tag)
  BY <1>1, <1>2, <1>3 DEF IsTag
<1>7. Writable(tag, MaxDepth - room)
  BY <1>1, <1>2, <1>3, <1>4 DEF Writable
<1>8. DOMAIN names = 1..n /\ \A i \in 1..n : names[i] \in D
  BY <1>5
<1>9. Parts(tag) = [i \in 1..n |-> fields[names[i]]]
  <2>1. Parts(tag) = [i \in DOMAIN names |-> fields[names[i]]]
    BY <1>1, <1>2 DEF Parts
  <2> QED
    BY <1>8, <2>1
<1> HIDE DEF names, n
<1>10. \A p \in Range(Parts(tag)) : Fine(p, room)
  BY <1>2, <1>8, <1>9 DEF Range
<1>11. Fine(tag, room + 1)
  BY <1>6, <1>7, <1>10, FineStep
<1>12. \A name \in D : fields[name] \in Range(Parts(tag))
  BY <1>5, <1>9 DEF Range
<1>13. ASSUME NEW root, tag \in Within(root)[MaxDepth - room]
       PROVE  Cost(tag, Costs(root)[room]) \in 0..(n + y)
  <2> DEFINE c == [i \in 1..n |-> Costs(root)[room][fields[names[i]]]]
  <2>1. ASSUME NEW name \in D PROVE fields[name] \in Within(root)[MaxDepth + 1 - room]
    <3>1. MaxDepth - room \in Nat /\ (MaxDepth - room) + 1 = MaxDepth + 1 - room
      BY <1>4
    <3>2. Range(Parts(tag)) \subseteq Within(root)[(MaxDepth - room) + 1]
      BY <1>13, <3>1, WithinNext
    <3> QED
      BY <1>12, <3>1, <3>2
  <2>2. ASSUME NEW i \in 1..n, names[i] # q PROVE Costs(root)[room][fields[names[i]]] = 0
    <3>1. names[i] \in D
      BY <1>8
    <3>2. Spends(fields[names[i]], room, 0)
      BY <1>20, <2>2, <3>1
    <3>3. Costs(root)[room][fields[names[i]]] \in 0..0
      BY <2>1, <3>1, <3>2 DEF Spends
    <3> QED
      BY <3>3
  <2>3. Costs(root)[room][fields[q]] \in Nat /\ Costs(root)[room][fields[q]] <= y
    <3>1. Costs(root)[room][fields[q]] \in 0..y
      BY <1>20, <2>1 DEF Spends
    <3> QED
      BY <3>1
  <2>4. \A i \in 1..n : Costs(root)[room][fields[names[i]]] \in Nat
    <3> SUFFICES ASSUME NEW i \in 1..n PROVE Costs(root)[room][fields[names[i]]] \in Nat
      OBVIOUS
    <3>1. CASE names[i] = q
      <4>1. Costs(root)[room][fields[names[i]]] = Costs(root)[room][fields[q]]
        BY <3>1
      <4> QED
        BY <2>3, <4>1
    <3>2. CASE names[i] # q
      BY <2>2, <3>2
    <3> QED
      BY <3>1, <3>2
  <2>5. c \in Seq(Nat) /\ Len(c) = n /\ \A i \in 1..n : c[i] = Costs(root)[room][fields[names[i]]]
    <3>1. c = [i \in 1..n |-> c[i]] /\ \A i \in 1..n : c[i] = Costs(root)[room][fields[names[i]]]
      OBVIOUS
    <3> HIDE DEF c
    <3>2. \A i \in 1..n : c[i] \in Nat
      BY <2>4, <3>1
    <3>3. c \in [1..n -> Nat]
      BY <3>1, <3>2
    <3>4. c \in Seq(Nat) /\ Len(c) = n
      BY <1>5, <3>3
    <3> QED
      BY <3>1, <3>4
  <2>6. Cost(tag, Costs(root)[room]) = n + Sum(c)
    <3>1. c = [i \in DOMAIN Parts(tag) |-> Costs(root)[room][Parts(tag)[i]]]
      BY <1>9
    <3>2. Len(Parts(tag)) = n
      BY <1>5, <1>9
    <3> HIDE DEF c
    <3> QED
      BY <1>1, <1>3, <3>1, <3>2 DEF Cost
  <2>7. PICK p \in 1..n : names[p] = q
    BY <1>5, <1>20
  <2>8. \A i \in 1..n : i # p => names[i] # q
    BY <1>5, <2>7
  <2> HIDE DEF c
  <2>9. Sum(c) <= y
    <3>1. \A i \in 1..Len(c) : i # p => c[i] = 0
      BY <2>2, <2>5, <2>8
    <3>2. p \in 1..Len(c) /\ c[p] <= y
      <4>1. c[p] = Costs(root)[room][fields[names[p]]]
        BY <2>5
      <4>2. c[p] = Costs(root)[room][fields[q]]
        BY <2>7, <4>1
      <4> QED
        BY <2>3, <2>5, <4>2
    <3> QED
      BY <2>5, <3>1, <3>2, SumOfOne
  <2>10. Sum(c) \in Nat
    BY <2>5, SumType
  <2> QED
    BY <1>5, <2>6, <2>9, <2>10
<1>14. Spends(tag, room + 1, n + y)
  <2>1. n + y \in Nat
    BY <1>5
  <2> QED
    BY <1>13, <2>1, SpendsStep
<1> QED
  BY <1>1, <1>11, <1>12, <1>14 DEF tag, n

IsGame(g) ==
    /\ g.seed \in U32
    /\ g.spawn \in [1..3 -> SignedRange(Width["Int"])]
    /\ g.player \in [1..3 -> Int]
    /\ \A i \in 1..3 : g.player[i] \div 2 \in SignedRange(Width["Float"])

LEMMA SeedIsLong == U32 \subseteq SignedRange(Width["Long"])
<1> DEFINE a == Power[Width["Int"]]
           b == Power[Width["Long"]]
<1>1. Width["Int"] \in Nat /\ Width["Long"] \in Nat /\ Width["Int"] < Width["Long"]
  BY WidthType, TypesAre, FormatAssumption
<1>2. a \in Nat \ {0} /\ b \in Nat \ {0}
  BY <1>1, PowerType
<1>3. Base * a <= b
  BY <1>1, PowerGrows
<1>4. U32 = 0..(a - 1) /\ SignedRange(Width["Long"]) = (b \div 2 - b)..(b \div 2 - 1)
  BY DEF U32, SignedRange
<1> HIDE DEF a, b
<1>5. 2 * a <= Base * a
  <2>1. \A x \in Nat, y \in Nat : x >= 2 => 2 * y <= x * y
    OBVIOUS
  <2> QED
    BY <1>2, <2>1, BaseAssumption
<1>6. 2 * a <= b
  BY <1>2, <1>3, <1>5, BaseAssumption
<1>7. a <= b \div 2 /\ b \div 2 - b <= 0 /\ b \div 2 \in Int
  BY <1>2, <1>6
<1> QED
  BY <1>2, <1>4, <1>7

LEMMA CardinalityAdd ==
    ASSUME NEW S, NEW x, NEW n \in Nat, IsFiniteSet(S), Cardinality(S) <= n
    PROVE  IsFiniteSet(S \cup {x}) /\ Cardinality(S \cup {x}) <= n + 1
<1>1. Cardinality(S) \in Nat
  BY FS_CardinalityType
<1>2. /\ IsFiniteSet(S \cup {x})
      /\ Cardinality(S \cup {x}) = IF x \in S THEN Cardinality(S) ELSE Cardinality(S) + 1
  BY FS_AddElement
<1> QED
  BY <1>1, <1>2

RootNames == {Player, RandomSeed, SpawnX, SpawnY, SpawnZ, StorageVersion}

LEMMA RootNamesType ==
    /\ RootNames \subseteq Seq(Byte) /\ IsFiniteSet(RootNames) /\ Cardinality(RootNames) <= 6
    /\ \A name \in RootNames : TextFits(name)
    /\ Pos \in Seq(Byte) /\ TextFits(Pos)
    /\ IsFiniteSet({Pos}) /\ Cardinality({Pos}) = 1
<1>1. /\ Player \in Seq(Byte) /\ TextFits(Player)
      /\ RandomSeed \in Seq(Byte) /\ TextFits(RandomSeed)
      /\ SpawnX \in Seq(Byte) /\ TextFits(SpawnX)
      /\ SpawnY \in Seq(Byte) /\ TextFits(SpawnY)
      /\ SpawnZ \in Seq(Byte) /\ TextFits(SpawnZ)
      /\ StorageVersion \in Seq(Byte) /\ TextFits(StorageVersion)
      /\ Pos \in Seq(Byte) /\ TextFits(Pos)
  BY ShortNameFits DEF Player, RandomSeed, SpawnX, SpawnY, SpawnZ, StorageVersion, Pos
<1>2. IsFiniteSet({}) /\ Cardinality({}) <= 0
  BY FS_EmptySet
<1>3. IsFiniteSet({Player}) /\ Cardinality({Player}) <= 1
  <2>1. IsFiniteSet({} \cup {Player}) /\ Cardinality({} \cup {Player}) <= 0 + 1
    BY <1>2, CardinalityAdd
  <2>2. {} \cup {Player} = {Player} /\ 0 + 1 = 1
    OBVIOUS
  <2> QED
    BY <2>1, <2>2
<1>4. IsFiniteSet({Player, RandomSeed}) /\ Cardinality({Player, RandomSeed}) <= 2
  <2>1. IsFiniteSet({Player} \cup {RandomSeed}) /\ Cardinality({Player} \cup {RandomSeed}) <= 1 + 1
    BY <1>3, CardinalityAdd
  <2>2. {Player} \cup {RandomSeed} = {Player, RandomSeed} /\ 1 + 1 = 2
    OBVIOUS
  <2> QED
    BY <2>1, <2>2
<1>5. IsFiniteSet({Player, RandomSeed, SpawnX}) /\ Cardinality({Player, RandomSeed, SpawnX}) <= 3
  <2>1. IsFiniteSet({Player, RandomSeed} \cup {SpawnX})
        /\ Cardinality({Player, RandomSeed} \cup {SpawnX}) <= 2 + 1
    BY <1>4, CardinalityAdd
  <2>2. {Player, RandomSeed} \cup {SpawnX} = {Player, RandomSeed, SpawnX} /\ 2 + 1 = 3
    OBVIOUS
  <2> QED
    BY <2>1, <2>2
<1>6. IsFiniteSet({Player, RandomSeed, SpawnX, SpawnY})
      /\ Cardinality({Player, RandomSeed, SpawnX, SpawnY}) <= 4
  <2>1. IsFiniteSet({Player, RandomSeed, SpawnX} \cup {SpawnY})
        /\ Cardinality({Player, RandomSeed, SpawnX} \cup {SpawnY}) <= 3 + 1
    BY <1>5, CardinalityAdd
  <2>2. {Player, RandomSeed, SpawnX} \cup {SpawnY} = {Player, RandomSeed, SpawnX, SpawnY} /\ 3 + 1 = 4
    OBVIOUS
  <2> QED
    BY <2>1, <2>2
<1>7. IsFiniteSet({Player, RandomSeed, SpawnX, SpawnY, SpawnZ})
      /\ Cardinality({Player, RandomSeed, SpawnX, SpawnY, SpawnZ}) <= 5
  <2>1. IsFiniteSet({Player, RandomSeed, SpawnX, SpawnY} \cup {SpawnZ})
        /\ Cardinality({Player, RandomSeed, SpawnX, SpawnY} \cup {SpawnZ}) <= 4 + 1
    BY <1>6, CardinalityAdd
  <2>2. {Player, RandomSeed, SpawnX, SpawnY} \cup {SpawnZ} = {Player, RandomSeed, SpawnX, SpawnY, SpawnZ}
        /\ 4 + 1 = 5
    OBVIOUS
  <2> QED
    BY <2>1, <2>2
<1>8. IsFiniteSet({Player, RandomSeed, SpawnX, SpawnY, SpawnZ, StorageVersion})
      /\ Cardinality({Player, RandomSeed, SpawnX, SpawnY, SpawnZ, StorageVersion}) <= 6
  <2>1. IsFiniteSet({Player, RandomSeed, SpawnX, SpawnY, SpawnZ} \cup {StorageVersion})
        /\ Cardinality({Player, RandomSeed, SpawnX, SpawnY, SpawnZ} \cup {StorageVersion}) <= 5 + 1
    BY <1>7, CardinalityAdd
  <2>2. {Player, RandomSeed, SpawnX, SpawnY, SpawnZ} \cup {StorageVersion} = {Player, RandomSeed, SpawnX, SpawnY, SpawnZ, StorageVersion} /\ 5 + 1 = 6
    OBVIOUS
  <2> QED
    BY <2>1, <2>2
<1>11. IsFiniteSet(RootNames) /\ Cardinality(RootNames) <= 6
  BY <1>8 DEF RootNames
<1>12. IsFiniteSet({Pos}) /\ Cardinality({Pos}) = 1
  BY FS_Singleton
<1>13. RootNames \subseteq Seq(Byte) /\ \A name \in RootNames : TextFits(name)
  BY <1>1 DEF RootNames
<1> QED
  BY <1>1, <1>11, <1>12, <1>13

LEMMA NamesDiffer ==
    /\ Player # RandomSeed /\ Player # SpawnX /\ Player # SpawnY /\ Player # SpawnZ /\ Player # StorageVersion
    /\ RandomSeed # SpawnX /\ RandomSeed # SpawnY /\ RandomSeed # SpawnZ /\ RandomSeed # StorageVersion
    /\ SpawnX # SpawnY /\ SpawnX # SpawnZ /\ SpawnX # StorageVersion
    /\ SpawnY # SpawnZ /\ SpawnY # StorageVersion /\ SpawnZ # StorageVersion
BY DEF Player, RandomSeed, SpawnX, SpawnY, SpawnZ, StorageVersion

PosItems(g) == [i \in 1..3 |-> Number("Float", ToFloat(g.player)[i])]
PosTag(g) == List("Float", PosItems(g))
PlayerFields(g) == [n \in {Pos} |-> PosTag(g)]
PlayerTag(g) == Compound(PlayerFields(g))
RootFields(g) ==
    [name \in RootNames |->
        CASE name = Player         -> PlayerTag(g)
          [] name = RandomSeed     -> Number("Long", g.seed)
          [] name = SpawnX         -> Number("Int", g.spawn[1])
          [] name = SpawnY         -> Number("Int", g.spawn[2])
          [] name = SpawnZ         -> Number("Int", g.spawn[3])
          [] name = StorageVersion -> Number("Int", FileVersion)]

LEMMA RootIs ==
    ASSUME NEW g
    PROVE  /\ Root(g) = Compound(RootFields(g))
           /\ RootFields(g) = [name \in RootNames |-> RootFields(g)[name]]
           /\ RootFields(g)[Player] = PlayerTag(g)
           /\ RootFields(g)[RandomSeed] = Number("Long", g.seed)
           /\ RootFields(g)[SpawnX] = Number("Int", g.spawn[1])
           /\ RootFields(g)[SpawnY] = Number("Int", g.spawn[2])
           /\ RootFields(g)[SpawnZ] = Number("Int", g.spawn[3])
           /\ RootFields(g)[StorageVersion] = Number("Int", FileVersion)
<1>1. Root(g) = Compound(RootFields(g))
  BY DEF Root, RootFields, RootNames, PlayerTag, PlayerFields, PosTag, PosItems
<1>2. RootFields(g) = [name \in RootNames |-> RootFields(g)[name]]
  <2> DEFINE Field(name) ==
                 CASE name = Player         -> PlayerTag(g)
                   [] name = RandomSeed     -> Number("Long", g.seed)
                   [] name = SpawnX         -> Number("Int", g.spawn[1])
                   [] name = SpawnY         -> Number("Int", g.spawn[2])
                   [] name = SpawnZ         -> Number("Int", g.spawn[3])
                   [] name = StorageVersion -> Number("Int", FileVersion)
  <2>1. RootFields(g) = [name \in RootNames |-> Field(name)]
    BY DEF RootFields
  <2> HIDE DEF Field
  <2> QED
    BY <2>1
<1>3. /\ Player \in RootNames /\ RandomSeed \in RootNames /\ SpawnX \in RootNames
      /\ SpawnY \in RootNames /\ SpawnZ \in RootNames /\ StorageVersion \in RootNames
  BY DEF RootNames
<1>4. RootFields(g)[Player] = PlayerTag(g)
  BY <1>3, NamesDiffer DEF RootFields
<1>5. RootFields(g)[RandomSeed] = Number("Long", g.seed)
  BY <1>3, NamesDiffer DEF RootFields
<1>6. RootFields(g)[SpawnX] = Number("Int", g.spawn[1])
  BY <1>3, NamesDiffer DEF RootFields
<1>7. RootFields(g)[SpawnY] = Number("Int", g.spawn[2])
  BY <1>3, NamesDiffer DEF RootFields
<1>8. RootFields(g)[SpawnZ] = Number("Int", g.spawn[3])
  BY <1>3, NamesDiffer DEF RootFields
<1>9. RootFields(g)[StorageVersion] = Number("Int", FileVersion)
  BY <1>3, NamesDiffer DEF RootFields
<1> QED
  BY <1>1, <1>2, <1>4, <1>5, <1>6, <1>7, <1>8, <1>9

LEMMA PosIsFine ==
    ASSUME NEW g, IsGame(g)
    PROVE  /\ PosTag(g).type = "List" /\ PosTag(g).of = "Float" /\ PosTag(g).list = PosItems(g)
           /\ PosItems(g) \in Seq(Range(PosItems(g))) /\ Len(PosItems(g)) = 3
           /\ \A i \in 1..3 : PosItems(g)[i] = Number("Float", ToFloat(g.player)[i])
           /\ Fine(PosTag(g), MaxDepth - 1) /\ Spends(PosTag(g), MaxDepth - 1, 3)
<1> DEFINE items == PosItems(g)
           tag == PosTag(g)
           room == MaxDepth - 2
           r == MaxDepth - 3
           bits == ToFloat(g.player)
<1>1. /\ MaxDepth \in Nat /\ room \in Nat /\ room <= MaxDepth /\ r \in Nat /\ r <= MaxDepth
      /\ room = r + 1 /\ room + 1 = MaxDepth - 1 /\ MaxDepth - room <= MaxDepth /\ MaxDepth - room = 2
  BY LimitsAssumption, FormatAssumption
<1>2. \A i \in 1..3 : bits[i] \in SignedRange(Width["Float"])
  BY DEF IsGame, ToFloat
<1>3. tag.type = "List" /\ tag.of = "Float" /\ tag.list = items /\ tag = List(tag.of, tag.list)
  BY DEF PosTag, List
<1>4. items = [i \in 1..3 |-> items[i]] /\ \A i \in 1..3 : items[i] = Number("Float", bits[i])
  BY DEF PosItems
<1> HIDE DEF items, tag, bits, r, room
<1>5. ASSUME NEW i \in 1..3
      PROVE  items[i].type = "Float" /\ Fine(items[i], room) /\ Spends(items[i], room, 0)
  <2> DEFINE b == bits[i]  type == "Float"
  <2>1. type \in DOMAIN Width /\ b \in SignedRange(Width[type])
    BY <1>2, TypesAre
  <2>2. items[i] = Number(type, b)
    BY <1>4
  <2> HIDE DEF b, type
  <2>3. /\ Number(type, b).type = type
        /\ Fine(Number(type, b), r + 1) /\ Spends(Number(type, b), r + 1, 0)
    BY <1>1, <2>1, NumberIsFine
  <2> QED
    BY <1>1, <2>2, <2>3 DEF type
<1>6. items \in Seq(Range(items)) /\ Len(items) = 3 /\ DOMAIN items = 1..3
  <2>1. DOMAIN items = 1..3
    BY <1>4
  <2>2. \A i \in 1..3 : items[i] \in Range(items)
    BY <2>1 DEF Range
  <2> DEFINE R == Range(items)
  <2>3. \A i \in 1..3 : items[i] \in R
    BY <2>2
  <2> HIDE DEF R
  <2>4. items \in [1..3 -> R]
    BY <1>4, <2>3
  <2>5. items \in Seq(R) /\ Len(items) = 3
    <3> DEFINE k == 3
    <3>1. k \in Nat /\ items \in [1..k -> R]
      BY <2>4
    <3> HIDE DEF k
    <3>2. items \in Seq(R) /\ Len(items) = k
      BY <3>1
    <3> QED
      BY <3>2 DEF k
  <2> QED
    BY <2>1, <2>5 DEF R
<1>7. "List" \notin DOMAIN Width /\ "List" \notin DOMAIN ElementOf /\ "List" \in Types \cup {"End"}
      /\ "Float" \in Types \cup {"End"}
  BY TypesAre
<1>8. IsTag(tag)
  BY <1>3, <1>6, <1>7 DEF IsTag
<1>9. 3 <= MaxElements /\ 3 <= MaxLength
  <2> DEFINE w == Width["Int"]
  <2>1. w \in Nat /\ 0 < w /\ 0 \in Nat
    BY WidthType, TypesAre
  <2>2. Power[0] = 1
    BY PowerDef
  <2> HIDE DEF w
  <2>3. Base * Power[0] <= Power[w] /\ Power[w] \in Nat
    BY <2>1, PowerGrows, PowerType
  <2>4. 13 <= Power[w]
    BY <2>2, <2>3, BaseAssumption
  <2>5. 3 <= Power[w] \div 2 - 1
    BY <2>3, <2>4
  <2> QED
    BY <2>5, FormatAssumption, LimitsAssumption DEF MaxLength, w
<1>10. Writable(tag, MaxDepth - room)
  <2>1. /\ Len(tag.list) <= MaxElements /\ Len(tag.list) <= MaxLength
        /\ tag.of # "End"
        /\ \A i \in DOMAIN tag.list : tag.list[i].type = tag.of
    BY <1>3, <1>5, <1>6, <1>9
  <2> QED
    BY <1>1, <1>3, <1>7, <2>1 DEF Writable
<1>11. Parts(tag) = items
  BY <1>3 DEF Parts
<1>12. \A p \in Range(Parts(tag)) : Fine(p, room)
  BY <1>5, <1>6, <1>11 DEF Range
<1>13. Fine(tag, room + 1)
  BY <1>1, <1>8, <1>10, <1>12, FineStep
<1>14. ASSUME NEW root, tag \in Within(root)[MaxDepth - room]
       PROVE  Cost(tag, Costs(root)[room]) \in 0..3
  <2> DEFINE c == [i \in 1..3 |-> Costs(root)[room][items[i]]]
  <2>1. \A i \in 1..3 : items[i] \in Within(root)[MaxDepth + 1 - room]
    <3>1. MaxDepth - room \in Nat /\ (MaxDepth - room) + 1 = MaxDepth + 1 - room
      BY <1>1
    <3>2. Range(Parts(tag)) \subseteq Within(root)[(MaxDepth - room) + 1]
      BY <1>14, <3>1, WithinNext
    <3> QED
      BY <1>6, <1>11, <3>1, <3>2 DEF Range
  <2>2. \A i \in 1..3 : Costs(root)[room][items[i]] = 0
    <3> SUFFICES ASSUME NEW i \in 1..3 PROVE Costs(root)[room][items[i]] = 0
      OBVIOUS
    <3>1. Costs(root)[room][items[i]] \in 0..0
      BY <1>5, <2>1 DEF Spends
    <3> QED
      BY <3>1
  <2>3. c \in Seq(Nat) /\ Len(c) = 3 /\ \A i \in 1..Len(c) : c[i] = 0
    BY <2>2
  <2>4. Cost(tag, Costs(root)[room]) = 3 + Sum(c)
    <3>1. c = [i \in DOMAIN Parts(tag) |-> Costs(root)[room][Parts(tag)[i]]]
      BY <1>6, <1>11
    <3> HIDE DEF c
    <3> QED
      BY <1>3, <1>6, <1>7, <1>11, <3>1 DEF Cost
  <2> HIDE DEF c
  <2>5. Sum(c) = 0
    BY <2>3, SumOfZeros
  <2> QED
    BY <2>4, <2>5
<1>15. Spends(tag, room + 1, 3)
  BY <1>1, <1>14, SpendsStep
<1> QED
  BY <1>1, <1>3, <1>4, <1>6, <1>13, <1>15 DEF items, tag, bits

LEMMA PlayerIsFine ==
    ASSUME NEW g, IsGame(g)
    PROVE  /\ PlayerTag(g).type = "Compound" /\ PlayerTag(g).fields = PlayerFields(g)
           /\ Fine(PlayerTag(g), MaxDepth) /\ Spends(PlayerTag(g), MaxDepth, 4)
<1> DEFINE f == PlayerFields(g)
           room == MaxDepth - 1
           tag == PosTag(g)
           D == {Pos}
           q == Pos
<1>1. Fine(tag, room) /\ Spends(tag, room, 3)
  BY PosIsFine
<1>2. /\ room \in Nat /\ room <= MaxDepth /\ room + 1 = MaxDepth /\ 1 <= MaxElements /\ 3 \in Nat
  BY LimitsAssumption, FormatAssumption
<1>3. D = DOMAIN f /\ f = [name \in DOMAIN f |-> f[name]] /\ f[q] = tag
  BY DEF PlayerFields
<1>4. PlayerTag(g) = Compound(f)
  BY DEF PlayerTag
<1> HIDE DEF f, tag, room
<1>5. D \subseteq Seq(Byte) /\ IsFiniteSet(D) /\ Cardinality(D) = 1 /\ TextFits(q)
  BY RootNamesType
<1>6. NamedTags(f, room)
  <2>1. \A name \in DOMAIN f : TextFits(name) /\ Fine(f[name], room) /\ \E m \in Nat : Spends(f[name], room, m)
    BY <1>1, <1>2, <1>3, <1>5
  <2> HIDE DEF D, q
  <2> QED
    BY <1>3, <1>5, <2>1 DEF NamedTags
<1>7. AllButOneFree(f, room, q, 3)
  BY <1>1, <1>3 DEF AllButOneFree
<1> HIDE DEF D, q
<1>8. Cardinality(D) <= MaxElements
  BY <1>2, <1>5
<1>9. /\ Compound(f).type = "Compound" /\ Compound(f).fields = f
      /\ Fine(Compound(f), room + 1)
      /\ Spends(Compound(f), room + 1, Cardinality(D) + 3)
  BY <1>2, <1>3, <1>6, <1>7, <1>8, CompoundIsFine
<1>10. Cardinality(D) + 3 = 4
  BY <1>5
<1> QED
  BY <1>2, <1>4, <1>9, <1>10 DEF f

\* The root of every game is sound, and within the limits by far.
LEMMA RootIsSound ==
    ASSUME NEW g, IsGame(g)
    PROVE  Sound(Root(g)) /\ Elements(Root(g)) <= MaxElements
<1> DEFINE f == RootFields(g)
           D == RootNames
           q == Player
           room == MaxDepth
           r == MaxDepth - 1
           n == Cardinality(D)
<1>1. /\ Root(g) = Compound(f)
      /\ f = [name \in D |-> f[name]]
      /\ f[Player] = PlayerTag(g)
      /\ f[RandomSeed] = Number("Long", g.seed)
      /\ f[SpawnX] = Number("Int", g.spawn[1])
      /\ f[SpawnY] = Number("Int", g.spawn[2])
      /\ f[SpawnZ] = Number("Int", g.spawn[3])
      /\ f[StorageVersion] = Number("Int", FileVersion)
  BY RootIs
<1>2. /\ room \in Nat /\ room <= MaxDepth /\ r \in Nat /\ r <= MaxDepth /\ r + 1 = room
      /\ 10 <= MaxElements /\ 4 \in Nat /\ 0 \in Nat /\ MaxElements \in Nat
  BY LimitsAssumption, FormatAssumption
<1>3. /\ D \subseteq Seq(Byte) /\ IsFiniteSet(D) /\ n <= 6
      /\ \A name \in D : TextFits(name)
  BY RootNamesType
<1>4. n \in Nat
  BY <1>3, FS_CardinalityType
<1>5. Fine(f[Player], room) /\ Spends(f[Player], room, 4)
  BY <1>1, PlayerIsFine
<1> HIDE DEF f, r, room, n
<1>6. ASSUME NEW type \in DOMAIN Width, NEW v \in SignedRange(Width[type])
      PROVE  Fine(Number(type, v), room) /\ Spends(Number(type, v), room, 0)
  <2>1. Fine(Number(type, v), r + 1) /\ Spends(Number(type, v), r + 1, 0)
    BY <1>2, NumberIsFine
  <2> QED
    BY <1>2, <2>1
<1>7. "Long" \in DOMAIN Width /\ "Int" \in DOMAIN Width
  BY TypesAre
<1>8. /\ g.seed \in SignedRange(Width["Long"])
      /\ g.spawn[1] \in SignedRange(Width["Int"]) /\ g.spawn[2] \in SignedRange(Width["Int"])
      /\ g.spawn[3] \in SignedRange(Width["Int"]) /\ FileVersion \in SignedRange(Width["Int"])
  <2>1. g.seed \in SignedRange(Width["Long"])
    BY SeedIsLong DEF IsGame
  <2>2. g.spawn \in [1..3 -> SignedRange(Width["Int"])]
    BY DEF IsGame
  <2>3. FileVersion \in SignedRange(Width["Int"])
    BY FormatAssumption
  <2> QED
    BY <2>1, <2>2, <2>3
<1>9. Fine(f[RandomSeed], room) /\ Spends(f[RandomSeed], room, 0)
  BY <1>1, <1>6, <1>7, <1>8
<1>10. Fine(f[SpawnX], room) /\ Spends(f[SpawnX], room, 0)
  BY <1>1, <1>6, <1>7, <1>8
<1>11. Fine(f[SpawnY], room) /\ Spends(f[SpawnY], room, 0)
  BY <1>1, <1>6, <1>7, <1>8
<1>12. Fine(f[SpawnZ], room) /\ Spends(f[SpawnZ], room, 0)
  BY <1>1, <1>6, <1>7, <1>8
<1>13. Fine(f[StorageVersion], room) /\ Spends(f[StorageVersion], room, 0)
  BY <1>1, <1>6, <1>7, <1>8
<1>14. \A name \in D : Fine(f[name], room) /\ \E m \in Nat : Spends(f[name], room, m)
  BY <1>2, <1>5, <1>9, <1>10, <1>11, <1>12, <1>13 DEF RootNames
<1>15. \A name \in D : name # q => Spends(f[name], room, 0)
  BY <1>9, <1>10, <1>11, <1>12, <1>13 DEF RootNames
<1>16. q \in D
  BY DEF RootNames
<1> HIDE DEF D, q
<1>17. D = DOMAIN f
  BY <1>1
<1>18. NamedTags(f, room)
  BY <1>1, <1>3, <1>14, <1>17 DEF NamedTags
<1>19. AllButOneFree(f, room, q, 4)
  BY <1>5, <1>15, <1>16, <1>17 DEF AllButOneFree, q
<1>20. Cardinality(D) <= MaxElements
  BY <1>2, <1>3, <1>4 DEF n
<1>21. /\ Fine(Compound(f), room + 1)
       /\ Spends(Compound(f), room + 1, Cardinality(D) + 4)
  BY <1>2, <1>17, <1>18, <1>19, <1>20, CompoundIsFine
<1> DEFINE tag == Compound(f)
<1>22. Root(g) = tag
  BY <1>1
<1>23. Fine(tag, MaxDepth + 1) /\ Spends(tag, MaxDepth + 1, n + 4)
  BY <1>21 DEF room, n
<1> HIDE DEF tag
<1>24. Sound(tag)
  BY <1>23, FineIsSound
<1>25. Elements(tag) \in 0..(n + 4)
  <2>1. MaxDepth + 1 - (MaxDepth + 1) = 0
    BY LimitsAssumption
  <2>2. tag \in Within(tag)[MaxDepth + 1 - (MaxDepth + 1)]
    BY <2>1, RootWithin
  <2> QED
    BY <1>23, <2>2 DEF Spends, Elements
<1>26. Elements(tag) <= MaxElements
  BY <1>2, <1>3, <1>4, <1>25
<1> QED
  BY <1>22, <1>24, <1>26

-----------------------------------------------------------------------------
(* What is loaded is a game.                                               *)

LEMMA FieldIsPart ==
    ASSUME NEW t, IsTag(t), t.type = "Compound", NEW name \in DOMAIN t.fields
    PROVE  t.fields[name] \in Range(Parts(t))
<1> DEFINE D == DOMAIN t.fields
           names == InOrder(D)
<1>1. D \subseteq Seq(Byte) /\ IsFiniteSet(D)
  BY DEF IsTag
<1>2. Parts(t) = [i \in DOMAIN names |-> t.fields[names[i]]]
  BY DEF Parts
<1>3. name \in D
  OBVIOUS
<1> HIDE DEF D
<1>4. /\ Cardinality(D) \in Nat
      /\ names \in Seq(D) /\ Len(names) = Cardinality(D)
      /\ \A i, j \in 1..Cardinality(D) : names[i] = names[j] => i = j
      /\ \A a \in D : \E i \in 1..Cardinality(D) : names[i] = a
  BY <1>1, InOrderEnumerates
<1>5. DOMAIN names = 1..Cardinality(D)
  BY <1>4
<1>6. PICK i \in 1..Cardinality(D) : names[i] = name
  BY <1>3, <1>4
<1> HIDE DEF names
<1> QED
  BY <1>2, <1>5, <1>6 DEF Range

LEMMA SoundBelow ==
    ASSUME NEW tag, Sound(tag), NEW depth \in 0..2, NEW t \in Within(tag)[depth],
           NEW p \in Range(Parts(t))
    PROVE  p \in Within(tag)[depth + 1] /\ IsTag(p)
<1>1. depth \in Nat /\ depth + 1 \in 0..(MaxDepth + 1)
  BY LimitsAssumption, FormatAssumption
<1>2. p \in Within(tag)[depth + 1]
  BY <1>1, WithinNext
<1> QED
  BY <1>1, <1>2 DEF Sound

LEMMA NumberOfTag ==
    ASSUME NEW t, IsTag(t), NEW type \in DOMAIN Width, t.type = type
    PROVE  t.number \in SignedRange(Width[type])
BY DEF IsTag

LEMMA SignedIsInt ==
    ASSUME NEW type \in DOMAIN Width, NEW n \in SignedRange(Width[type])
    PROVE  n \in Int
<1> DEFINE w == Width[type]
<1>1. w \in Nat
  BY WidthType
<1>2. n \in SignedRange(w)
  OBVIOUS
<1> HIDE DEF w
<1>3. Power[w] \in Nat \ {0}
  BY <1>1, PowerType
<1> QED
  BY <1>2, <1>3 DEF SignedRange

LEMMA LoadedIsGame ==
    ASSUME NEW root, Sound(root), IsLevel(root)
    PROVE  IsGame(GameOf(root))
<1> DEFINE f == root.fields
           g == GameOf(root)
           pl == f[Player]
           pos == pl.fields[Pos]
           l == pos.list
           bits == [i \in 1..3 |-> l[i].number]
<1>1. /\ root.type = "Compound"
      /\ RandomSeed \in DOMAIN f /\ f[RandomSeed].type = "Long"
      /\ Player \in DOMAIN f /\ pl.type = "Compound"
      /\ SpawnX \in DOMAIN f /\ f[SpawnX].type = "Int"
      /\ SpawnY \in DOMAIN f /\ f[SpawnY].type = "Int"
      /\ SpawnZ \in DOMAIN f /\ f[SpawnZ].type = "Int"
      /\ Pos \in DOMAIN pl.fields /\ pos.type = "List" /\ pos.of = "Float" /\ Len(l) = 3
  BY DEF IsLevel, HasTag
<1>2. root \in Within(root)[0] /\ IsTag(root)
  <2>1. root \in Within(root)[0] /\ 0 \in 0..(MaxDepth + 1)
    BY RootWithin, LimitsAssumption
  <2> QED
    BY <2>1 DEF Sound
<1>3. \A name \in DOMAIN f : f[name] \in Within(root)[1] /\ IsTag(f[name])
  <2> SUFFICES ASSUME NEW name \in DOMAIN f PROVE f[name] \in Within(root)[1] /\ IsTag(f[name])
    OBVIOUS
  <2>1. f[name] \in Range(Parts(root))
    BY <1>1, <1>2, FieldIsPart
  <2>2. 0 \in 0..2 /\ 0 + 1 = 1
    OBVIOUS
  <2> HIDE DEF f
  <2>3. f[name] \in Within(root)[0 + 1] /\ IsTag(f[name])
    BY <1>2, <2>1, <2>2, SoundBelow
  <2> QED
    BY <2>2, <2>3
<1>4. pos \in Within(root)[2] /\ IsTag(pos)
  <2>1. pl \in Within(root)[1] /\ IsTag(pl)
    BY <1>1, <1>3
  <2> HIDE DEF pl
  <2>2. pos \in Range(Parts(pl))
    BY <1>1, <2>1, FieldIsPart
  <2>3. 1 \in 0..2 /\ 1 + 1 = 2
    OBVIOUS
  <2> HIDE DEF pos
  <2>4. pos \in Within(root)[1 + 1] /\ IsTag(pos)
    BY <2>1, <2>2, <2>3, SoundBelow
  <2> QED
    BY <2>3, <2>4
<1> HIDE DEF pl, f, pos
<1>5. \A i \in 1..3 : IsTag(l[i]) /\ l[i].type = "Float"
  <2>1. Parts(pos) = l
    BY <1>1 DEF Parts
  <2>2. l \in Seq(Range(l)) /\ DOMAIN l = 1..3
    <3>1. l \in Seq(Range(l))
      BY <1>1, <1>4 DEF IsTag
    <3> QED
      BY <1>1, <3>1
  <2>3. \A i \in 1..3 : l[i] \in Range(Parts(pos))
    BY <2>1, <2>2 DEF Range
  <2>4. 2 \in 0..2
    OBVIOUS
  <2>5. \A i \in 1..3 : IsTag(l[i])
    <3> SUFFICES ASSUME NEW i \in 1..3 PROVE IsTag(l[i])
      OBVIOUS
    <3> DEFINE p == l[i]
    <3>1. p \in Range(Parts(pos))
      BY <2>3
    <3> HIDE DEF p
    <3>2. IsTag(p)
      BY <1>4, <2>4, <3>1, SoundBelow
    <3> QED
      BY <3>2 DEF p
  <2>6. Writable(pos, 2)
    <3>1. 2 \in 0..(MaxDepth + 1)
      BY LimitsAssumption, FormatAssumption
    <3> QED
      BY <1>4, <3>1 DEF Sound
  <2>7. \A i \in 1..3 : l[i].type = "Float"
    BY <1>1, <2>2, <2>6 DEF Writable
  <2> QED
    BY <2>5, <2>7
<1> HIDE DEF l
<1>6. "Float" \in DOMAIN Width /\ "Int" \in DOMAIN Width /\ "Long" \in DOMAIN Width
  BY TypesAre
<1>7. \A i \in 1..3 : bits[i] \in SignedRange(Width["Float"]) /\ bits[i] \in Int
  <2> SUFFICES ASSUME NEW i \in 1..3 PROVE bits[i] \in SignedRange(Width["Float"]) /\ bits[i] \in Int
    OBVIOUS
  <2>1. l[i].number \in SignedRange(Width["Float"])
    BY <1>5, <1>6, NumberOfTag
  <2>2. l[i].number \in Int
    BY <1>6, <2>1, SignedIsInt
  <2> QED
    BY <2>1, <2>2
<1>8. /\ g.seed = SeedFrom(f[RandomSeed].number)
      /\ g.spawn = <<f[SpawnX].number, f[SpawnY].number, f[SpawnZ].number>>
      /\ g.player = FromFloat(bits)
  BY DEF GameOf, f, pl, pos, l
<1> HIDE DEF g, bits
<1>9. g.seed \in U32
  <2> DEFINE n == f[RandomSeed].number
             a == Power[Width["Int"]]
  <2>1. n \in SignedRange(Width["Long"])
    BY <1>1, <1>3, <1>6, NumberOfTag
  <2>2. n \in Int
    BY <1>6, <2>1, SignedIsInt
  <2>3. a \in Nat \ {0}
    BY WidthType, <1>6, PowerType
  <2> HIDE DEF n, a
  <2>4. n % a \in 0..(a - 1)
    BY <2>2, <2>3, Division
  <2> QED
    BY <1>8, <2>4 DEF SeedFrom, U32, n, a
<1>10. g.spawn \in [1..3 -> SignedRange(Width["Int"])]
  <2>1. f[SpawnX].number \in SignedRange(Width["Int"])
    BY <1>1, <1>3, <1>6, NumberOfTag
  <2>2. f[SpawnY].number \in SignedRange(Width["Int"])
    BY <1>1, <1>3, <1>6, NumberOfTag
  <2>3. f[SpawnZ].number \in SignedRange(Width["Int"])
    BY <1>1, <1>3, <1>6, NumberOfTag
  <2> DEFINE S == SignedRange(Width["Int"])
             x == f[SpawnX].number  y == f[SpawnY].number  z == f[SpawnZ].number
  <2>4. x \in S /\ y \in S /\ z \in S /\ g.spawn = <<x, y, z>>
    BY <1>8, <2>1, <2>2, <2>3
  <2> HIDE DEF S, x, y, z
  <2>5. <<x, y, z>> \in [1..3 -> S]
    BY <2>4
  <2> QED
    BY <2>4, <2>5 DEF S
<1>11. /\ g.player \in [1..3 -> Int]
       /\ \A i \in 1..3 : g.player[i] \div 2 = bits[i]
  <2>1. g.player = [i \in 1..3 |-> bits[i] * 2]
    BY <1>8 DEF FromFloat
  <2>2. \A b \in Int : b * 2 \in Int /\ (b * 2) \div 2 = b
    OBVIOUS
  <2> QED
    BY <1>7, <2>1, <2>2
<1>12. \A i \in 1..3 : g.player[i] \div 2 \in SignedRange(Width["Float"])
  BY <1>7, <1>11
<1> QED
  BY <1>9, <1>10, <1>11, <1>12 DEF IsGame, g

LEMMA SavedIsLoaded ==
    ASSUME NEW g, IsGame(g)
    PROVE  /\ IsLevel(Root(g))
           /\ GameOf(Root(g)) = [seed |-> g.seed, spawn |-> g.spawn,
                                 player |-> FromFloat(ToFloat(g.player)), fresh |-> TRUE]
<1> DEFINE root == Root(g)
           f == RootFields(g)
           pl == PlayerTag(g)
           pos == PosTag(g)
           items == PosItems(g)
           bits == ToFloat(g.player)
<1>1. /\ root = Compound(f)
      /\ f = [name \in RootNames |-> f[name]]
      /\ f[Player] = pl
      /\ f[RandomSeed] = Number("Long", g.seed)
      /\ f[SpawnX] = Number("Int", g.spawn[1])
      /\ f[SpawnY] = Number("Int", g.spawn[2])
      /\ f[SpawnZ] = Number("Int", g.spawn[3])
      /\ f[StorageVersion] = Number("Int", FileVersion)
  BY RootIs
<1>2. root.type = "Compound" /\ root.fields = f
  BY <1>1 DEF Compound
<1>3. /\ Player \in DOMAIN f /\ RandomSeed \in DOMAIN f /\ SpawnX \in DOMAIN f
      /\ SpawnY \in DOMAIN f /\ SpawnZ \in DOMAIN f
  BY DEF RootFields, RootNames
<1>4. /\ pos.type = "List" /\ pos.of = "Float" /\ pos.list = items /\ Len(items) = 3
      /\ \A i \in 1..3 : items[i] = Number("Float", bits[i])
  BY PosIsFine
<1>5. pl.type = "Compound" /\ pl.fields = PlayerFields(g)
  BY PlayerIsFine
<1>6. Pos \in DOMAIN pl.fields /\ pl.fields[Pos] = pos
  BY <1>5 DEF PlayerFields
<1>7. g.seed \in U32 /\ g.spawn \in [1..3 -> SignedRange(Width["Int"])]
  BY DEF IsGame
<1> HIDE DEF root, f, pl, pos, items
<1>8. /\ f[RandomSeed].type = "Long" /\ f[RandomSeed].number = g.seed
      /\ f[SpawnX].type = "Int" /\ f[SpawnX].number = g.spawn[1]
      /\ f[SpawnY].type = "Int" /\ f[SpawnY].number = g.spawn[2]
      /\ f[SpawnZ].type = "Int" /\ f[SpawnZ].number = g.spawn[3]
      /\ f[StorageVersion].number = FileVersion
  BY <1>1 DEF Number
<1>9. IsLevel(root)
  <2>1. HasTag(root, RandomSeed, "Long") /\ HasTag(root, Player, "Compound")
    BY <1>1, <1>2, <1>3, <1>5, <1>8 DEF HasTag
  <2>2. HasTag(root, SpawnX, "Int") /\ HasTag(root, SpawnY, "Int") /\ HasTag(root, SpawnZ, "Int")
    BY <1>2, <1>3, <1>8 DEF HasTag
  <2>3. root.fields[StorageVersion].number = FileVersion
    BY <1>2, <1>8
  <2>4. root.fields[Player] = pl
    BY <1>1, <1>2
  <2>5. HasTag(pl, Pos, "List") /\ pl.fields[Pos].of = "Float" /\ Len(pl.fields[Pos].list) = 3
    BY <1>4, <1>6 DEF HasTag
  <2>6. SeedFits(root.fields[RandomSeed].number)
    BY <1>2, <1>7, <1>8 DEF SeedFits
  <2> QED
    BY <1>2, <2>1, <2>2, <2>3, <2>4, <2>5, <2>6 DEF IsLevel
<1>10. SeedFrom(f[RandomSeed].number) = g.seed
  <2> DEFINE a == Power[Width["Int"]]
             n == g.seed
  <2>1. a \in Nat \ {0}
    BY WidthType, TypesAre, PowerType
  <2>2. n \in 0..(a - 1)
    BY <1>7 DEF U32
  <2> HIDE DEF a, n
  <2>3. (a * 0 + n) % a = n
    BY <2>1, <2>2, DivisionIsUnique
  <2>4. a * 0 + n = n
    BY <2>1, <2>2
  <2> QED
    BY <1>8, <2>3, <2>4 DEF SeedFrom, a, n
<1>11. <<f[SpawnX].number, f[SpawnY].number, f[SpawnZ].number>> = g.spawn
  <2> DEFINE v == g.spawn
             S == SignedRange(Width["Int"])
  <2>1. v \in [1..3 -> S]
    BY <1>7
  <2> HIDE DEF v, S
  <2>2. <<v[1], v[2], v[3]>> = v
    BY <2>1
  <2> QED
    BY <1>8, <2>2 DEF v
<1>12. [i \in 1..3 |-> root.fields[Player].fields[Pos].list[i].number] = bits
  <2>1. root.fields[Player].fields[Pos].list = items
    BY <1>1, <1>2, <1>4, <1>6
  <2>2. \A i \in 1..3 : items[i].number = bits[i]
    BY <1>4 DEF Number
  <2>3. bits = [i \in 1..3 |-> bits[i]]
    BY DEF ToFloat
  <2> HIDE DEF bits
  <2> QED
    BY <2>1, <2>2, <2>3
<1> HIDE DEF bits
<1>13. GameOf(root) = [seed |-> g.seed, spawn |-> g.spawn, fresh |-> TRUE, player |-> FromFloat(bits)]
  BY <1>2, <1>10, <1>11, <1>12 DEF GameOf
<1> QED
  BY <1>9, <1>13 DEF root, bits

-----------------------------------------------------------------------------
(* The invariant.                                                          *)

\* The game is one that fits into the file; the file is made of bytes, and is
\* that of the game it was written for.
Inv ==
    /\ IsGame(game)
    /\ file \in Seq(Byte) \cup {None}
    /\ written # None => /\ IsGame(written)
                         /\ Bytes(Root(written)) # None /\ file = Bytes(Root(written))

LEMMA NewGameIsGame ==
    ASSUME NEW seed \in Seeds
    PROVE  IsGame(NewGame(seed))
<1> DEFINE g == NewGame(seed)
           v == SpawnOf[seed]
<1>1. seed \in U32
  BY SeedsAssumption
<1>2. v \in [1..3 -> SignedRange(Width["Int"])] /\ \A i \in 1..3 : 2 * v[i] \in SignedRange(Width["Float"])
  BY SeedsAssumption
<1>3. g.seed = seed /\ g.spawn = v /\ g.player = [i \in 1..3 |-> 4 * v[i]]
  BY DEF NewGame
<1> HIDE DEF g, v
<1>4. \A i \in 1..3 : v[i] \in Int
  <2> DEFINE type == "Int"
  <2>1. type \in DOMAIN Width /\ \A i \in 1..3 : v[i] \in SignedRange(Width[type])
    BY <1>2, TypesAre
  <2> HIDE DEF type
  <2> QED
    BY <2>1, SignedIsInt
<1>5. \A x \in Int : 4 * x \in Int /\ (4 * x) \div 2 = 2 * x
  OBVIOUS
<1>6. g.player \in [1..3 -> Int] /\ \A i \in 1..3 : g.player[i] \div 2 = 2 * v[i]
  BY <1>3, <1>4, <1>5
<1>7. \A i \in 1..3 : g.player[i] \div 2 \in SignedRange(Width["Float"])
  BY <1>2, <1>6
<1> QED
  BY <1>1, <1>2, <1>3, <1>6, <1>7 DEF IsGame, g

LEMMA InitInv == Init => Inv
<1> SUFFICES ASSUME Init PROVE Inv
  OBVIOUS
<1>1. IsGame(game)
  BY NewGameIsGame DEF Init
<1> QED
  BY <1>1 DEF Init, Inv

LEMMA LoadInv == Inv /\ Load => Inv'
<1> SUFFICES ASSUME Inv, Load PROVE Inv'
  OBVIOUS
<1> DEFINE read == Opened(file)
           found == read.ok /\ IsLevel(read.tag)
<1>1. UNCHANGED <<file, written>> /\ game' = IF found THEN GameOf(read.tag) ELSE game
  BY DEF Load, LoadOf
<1>2. IsGame(game')
  <2>1. CASE found
    <3>1. Sound(read.tag)
      BY <2>1, OpenedIsSound DEF Inv
    <3> HIDE DEF read
    <3>2. IsGame(GameOf(read.tag))
      BY <2>1, <3>1, LoadedIsGame
    <3> QED
      BY <1>1, <2>1, <3>2
  <2>2. CASE ~found
    BY <1>1, <2>2 DEF Inv
  <2> QED
    BY <2>1, <2>2
<1> QED
  BY <1>1, <1>2 DEF Inv

LEMMA CrashInv == Inv /\ Crash => Inv'
<1> SUFFICES ASSUME Inv, Crash PROVE Inv'
  OBVIOUS
<1> DEFINE bytes == Bytes(Root(game))
<1>1. written' = None /\ UNCHANGED game /\ bytes # None
  BY DEF Crash, Fault
<1>2. PICK n \in 0..(Len(bytes) - 1) : file' = SubSeq(bytes, 1, n)
  BY DEF Crash
<1>3. bytes \in Seq(Byte)
  <2>1. Sound(Root(game))
    BY RootIsSound DEF Inv
  <2> QED
    BY <1>1, <2>1, BytesType
<1> HIDE DEF bytes
<1>4. file' \in Seq(Byte)
  <2>1. Len(bytes) \in Nat
    BY <1>3, SeqLen
  <2>2. n \in Nat /\ n <= Len(bytes)
    BY <2>1
  <2>3. SubSeq(bytes, 1, n) \in Seq(Byte)
    BY <1>3, <2>1, <2>2
  <2> QED
    BY <1>2, <2>3
<1> QED
  BY <1>1, <1>4 DEF Inv

LEMMA DamageInv == Inv /\ Damage => Inv'
<1> SUFFICES ASSUME Inv, Damage PROVE Inv'
  OBVIOUS
<1>1. written' = None /\ UNCHANGED game /\ file # None
  BY DEF Damage, Fault
<1>2. PICK i \in DOMAIN file, change \in Changes : file' = [file EXCEPT ![i] = (@ + change) % Base]
  BY DEF Damage
<1>3. file \in Seq(Byte)
  BY <1>1 DEF Inv
<1>4. change \in Nat /\ Base \in Nat \ {0}
  BY FaultsAssumption, BaseAssumption
<1>5. file[i] \in Nat
  <2>1. file[i] \in Byte
    BY <1>3
  <2> QED
    BY <1>4, <2>1 DEF Byte
<1>6. (file[i] + change) % Base \in 0..(Base - 1)
  <2>1. file[i] + change \in Int
    BY <1>4, <1>5
  <2> QED
    BY <1>4, <2>1, Division
<1>7. (file[i] + change) % Base \in Byte
  BY <1>6 DEF Byte
<1>8. file' \in Seq(Byte)
  <2> DEFINE b == (file[i] + change) % Base
  <2>1. file' = [file EXCEPT ![i] = b] /\ b \in Byte
    BY <1>2, <1>7
  <2> HIDE DEF b
  <2> QED
    BY <1>3, <2>1
<1> QED
  BY <1>1, <1>8 DEF Inv

LEMMA ForeignIsSound ==
    ASSUME NEW i \in DOMAIN ForeignTags, NEW endian, Write(<<>>, ForeignTags[i], endian) # None
    PROVE  Sound(ForeignTags[i])
<1> DEFINE tag == ForeignTags[i]
<1>1. \A depth \in 0..(MaxDepth + 1) : \A t \in Within(tag)[depth] : IsTag(t)
  BY FaultsAssumption
<1>2. Write(<<>>, tag, endian) # None
  OBVIOUS
<1> HIDE DEF tag
<1>3. Sound(tag)
  BY <1>1, <1>2, WrittenIsSound
<1> QED
  BY <1>3 DEF tag

LEMMA ForeignInv == Inv /\ Foreign => Inv'
<1> SUFFICES ASSUME Inv, Foreign PROVE Inv'
  OBVIOUS
<1>1. written' = None /\ UNCHANGED game
  BY DEF Foreign, Fault
<1>2. PICK i \in DOMAIN ForeignTags, endian \in Endian :
          /\ Write(<<>>, ForeignTags[i], endian) # None
          /\ file' = Framed(Write(<<>>, ForeignTags[i], endian))
  BY DEF Foreign
<1> DEFINE tag == ForeignTags[i]
           p == Write(<<>>, tag, endian)
<1>3. Sound(tag)
  BY <1>2, ForeignIsSound
<1>4. file' = Framed(p)
  BY <1>2
<1> HIDE DEF tag
<1>5. p \in Seq(Byte)
  BY <1>3, WriteOfSound
<1> HIDE DEF p
<1>6. file' \in Seq(Byte)
  BY <1>4, <1>5, FramedType
<1> QED
  BY <1>1, <1>6 DEF Inv

LEMMA NextInv == Inv /\ [Next]_vars => Inv'
<1> SUFFICES ASSUME Inv, [Next]_vars PROVE Inv'
  OBVIOUS
<1>1. CASE Play
  <2>1. UNCHANGED <<file, written>>
    BY <1>1 DEF Play
  <2>2. PICK place \in Places :
            game' = [seed |-> game.seed, spawn |-> game.spawn, player |-> place, fresh |-> FALSE]
    BY <1>1 DEF Play
  <2>3. game'.seed = game.seed /\ game'.spawn = game.spawn /\ game'.player = place
    BY <2>2
  <2>4. place \in [1..3 -> Int] /\ \A i \in 1..3 : place[i] \div 2 \in SignedRange(Width["Float"])
    BY PlacesAssumption
  <2>5. IsGame(game')
    BY <2>3, <2>4 DEF Inv, IsGame
  <2> QED
    BY <2>1, <2>5 DEF Inv
<1>2. CASE NewWorld
  <2>1. UNCHANGED <<file, written>>
    BY <1>2 DEF NewWorld
  <2>2. IsGame(game')
    BY <1>2, NewGameIsGame DEF NewWorld
  <2> QED
    BY <2>1, <2>2 DEF Inv
<1>3. CASE Save
  <2>1. /\ Bytes(Root(game)) # None
        /\ file' = Bytes(Root(game)) /\ written' = game /\ UNCHANGED game
    BY <1>3 DEF Save
  <2>2. Bytes(Root(game)) \in Seq(Byte) \cup {None}
    <3>1. Sound(Root(game))
      BY RootIsSound DEF Inv
    <3> QED
      BY <3>1, BytesType
  <2> QED
    BY <2>1, <2>2 DEF Inv
<1>4. CASE Load
  BY <1>4, LoadInv
<1>5. CASE Crash
  BY <1>5, CrashInv
<1>6. CASE Damage
  BY <1>6, DamageInv
<1>7. CASE Foreign
  BY <1>7, ForeignInv
<1>8. CASE UNCHANGED vars
  BY <1>8 DEF Inv, vars
<1> QED
  BY <1>1, <1>2, <1>3, <1>4, <1>5, <1>6, <1>7, <1>8 DEF Next

-----------------------------------------------------------------------------
(* The theorems.                                                           *)

\* The invariant of PiLevelStorage: whatever is loaded is a game, with
\* numbers that fit into the tags of a file, and a file that was written as a
\* whole is the one of its game.
THEOREM InvHolds == Spec => []Inv
<1>1. Init => Inv
  BY InitInv
<1>2. Inv /\ [Next]_vars => Inv'
  BY NextInv
<1> QED
  BY <1>1, <1>2, PTL DEF Spec

LEMMA InvCodecRoundTrips == Inv => CodecRoundTrips
<1> SUFFICES ASSUME Inv PROVE CodecRoundTrips
  OBVIOUS
<1> DEFINE read == Opened(file)
           s == Write(<<>>, read.tag, "Little")
           again == Read(s, "Little")
<1>1. file \in Seq(Byte) \cup {None}
  BY DEF Inv
<1>2. ASSUME read.ok
      PROVE  /\ Elements(read.tag) <= MaxElements /\ s # None
             /\ again.ok /\ again.tag = read.tag
  <2>1. Sound(read.tag) /\ Elements(read.tag) <= MaxElements
    BY <1>1, <1>2, OpenedIsSound
  <2> DEFINE tag == read.tag
  <2> HIDE DEF read
  <2>2. s # None
    BY <2>1, WriteOfSound
  <2>3. again = Result(tag, Len(s))
    <3> DEFINE e == "Little"
    <3>1. Sound(tag) /\ s = Write(<<>>, tag, e)
      BY <2>1
    <3> HIDE DEF tag, s, e
    <3>2. Read(s, e) = Result(tag, Len(s))
      BY <3>1, WrittenIsRead
    <3> QED
      BY <3>2 DEF e
  <2> HIDE DEF s, again
  <2>4. again = ReadResult(<<>>, tag, Len(s))
    BY <2>1, <2>3 DEF Result
  <2> HIDE DEF tag
  <2>5. again.ok /\ again.tag = tag
    BY <2>4 DEF ReadResult
  <2> QED
    BY <2>1, <2>2, <2>5 DEF tag, s, again
<1>3. ASSUME NEW i \in DOMAIN ForeignTags, file # None, file = Bytes(ForeignTags[i])
      PROVE  IF Elements(ForeignTags[i]) <= MaxElements
             THEN read.ok /\ read.tag = ForeignTags[i]
             ELSE ~read.ok
  <2> DEFINE tag == ForeignTags[i]
             e == "Little"
  <2>1. Write(<<>>, tag, e) # None
    BY <1>3 DEF Bytes
  <2>2. Sound(tag)
    <3> HIDE DEF e
    <3> QED
      BY <2>1, ForeignIsSound
  <2>3. Bytes(tag) # None /\ read = Opened(Bytes(tag))
    BY <1>3
  <2> HIDE DEF tag, read
  <2>4. /\ Elements(tag) <= MaxElements => Opened(Bytes(tag)).ok /\ Opened(Bytes(tag)).tag = tag
        /\ ~(Elements(tag) <= MaxElements) => Opened(Bytes(tag)) = Failed
    BY <2>2, <2>3, BytesOpened
  <2>5. CASE Elements(tag) <= MaxElements
    BY <2>3, <2>4, <2>5 DEF tag
  <2>6. CASE ~(Elements(tag) <= MaxElements)
    <3>1. read = Failed
      BY <2>3, <2>4, <2>6
    <3>2. ~read.ok
      BY <3>1 DEF Failed
    <3> QED
      BY <2>6, <3>2 DEF tag
  <2> QED
    BY <2>5, <2>6
<1> QED
  BY <1>2, <1>3 DEF CodecRoundTrips, RoundTrips, ReadsAs

\* read_named and write_named, for every width, limit and depth: whatever bytes
\* the reader accepts make a tag that can be written and read as the same; and
\* what is written is read back just when the reader's one budget pays for it.
THEOREM CodecHolds == Spec => []CodecRoundTrips
<1>1. Inv => CodecRoundTrips
  BY InvCodecRoundTrips
<1> QED
  BY <1>1, InvHolds, PTL

LEMMA LoadOfSaved ==
    ASSUME Inv, Load, written # None
    PROVE  /\ loaded'
           /\ game' = [seed |-> written.seed, spawn |-> written.spawn,
                       player |-> FromFloat(ToFloat(written.player)), fresh |-> TRUE]
<1> DEFINE read == Opened(file)
           found == read.ok /\ IsLevel(read.tag)
           root == Root(written)
<1>1. IsGame(written) /\ Bytes(root) # None /\ file = Bytes(root)
  BY DEF Inv
<1>2. loaded' = found /\ game' = IF found THEN GameOf(read.tag) ELSE game
  BY DEF Load, LoadOf
<1>3. Sound(root) /\ Elements(root) <= MaxElements
  BY <1>1, RootIsSound
<1>4. /\ IsLevel(root)
      /\ GameOf(root) = [seed |-> written.seed, spawn |-> written.spawn,
                         player |-> FromFloat(ToFloat(written.player)), fresh |-> TRUE]
  BY <1>1, SavedIsLoaded
<1> HIDE DEF root
<1>5. read.ok /\ read.tag = root
  BY <1>1, <1>3, BytesOpened
<1> HIDE DEF read
<1>6. found
  BY <1>4, <1>5
<1> QED
  BY <1>2, <1>4, <1>5, <1>6

\* PiLevelStorage::load after PiLevelStorage::save: the game that was saved.
THEOREM SavedLoadsBackHolds == Spec => SavedLoadsBack
<1>1. Inv /\ [Next]_vars =>
         [ Load /\ written # None =>
             /\ loaded'
             /\ game' = [seed |-> written.seed, spawn |-> written.spawn,
                         player |-> FromFloat(ToFloat(written.player)), fresh |-> TRUE] ]_vars
  BY LoadOfSaved
<1> QED
  BY <1>1, InvHolds, PTL DEF Spec, SavedLoadsBack

LEMMA CutOff ==
    ASSUME Inv, Crash
    PROVE  ~Opened(file').ok
<1> DEFINE root == Root(game)
<1>1. Bytes(root) # None
  BY DEF Crash
<1>2. PICK n \in 0..(Len(Bytes(root)) - 1) : file' = SubSeq(Bytes(root), 1, n)
  BY DEF Crash
<1>3. Sound(root)
  BY RootIsSound DEF Inv
<1> HIDE DEF root
<1>4. ~Opened(SubSeq(Bytes(root), 1, n)).ok
  BY <1>1, <1>3, CutBytesRefused
<1> QED
  BY <1>2, <1>4

LEMMA LoadChanges ==
    ASSUME Load
    PROVE  IF loaded' THEN game'.fresh ELSE UNCHANGED game
<1> DEFINE read == Opened(file)
           found == read.ok /\ IsLevel(read.tag)
           g == GameOf(read.tag)
<1>1. loaded' = found /\ game' = IF found THEN g ELSE game
  BY DEF Load, LoadOf
<1>2. g.fresh = TRUE
  BY DEF GameOf
<1> HIDE DEF found, g
<1>3. CASE found
  BY <1>1, <1>2, <1>3
<1>4. CASE ~found
  BY <1>1, <1>4
<1> QED
  BY <1>3, <1>4

\* A load is all or nothing, and a file that a save was cut off in, at whatever
\* byte, is refused.
THEOREM LoadIsAllOrNothingHolds == Spec => LoadIsAllOrNothing
<1>1. Inv /\ [Next]_vars =>
         [ /\ Load => IF loaded' THEN game'.fresh ELSE UNCHANGED game
           /\ Crash => ~Opened(file').ok ]_vars
  BY LoadChanges, CutOff
<1> QED
  BY <1>1, InvHolds, PTL DEF Spec, LoadIsAllOrNothing
=============================================================================
