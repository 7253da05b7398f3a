--------------------------------- MODULE Nbt ---------------------------------
(***************************************************************************)
(* The named binary tags of storage/Nbt.cpp, as what write_named puts out  *)
(* for a tag, None when it fails, and what read_named makes of a sequence  *)
(* of bytes.                                                               *)
(*                                                                         *)
(* A byte is a digit to the base Base, which is large enough for the codes *)
(* of the types; a number has as many digits as its type has in Width.  A  *)
(* float stands for its bits.  The reader goes through the bytes by an     *)
(* offset, with what is left of its Budget of elements.                    *)
(*                                                                         *)
(* Writer and reader are recursive functions on the room below a tag: how  *)
(* many levels there may still be, MaxDepth + 1 less the depth.            *)
(***************************************************************************)
EXTENDS Integers, FiniteSets, SequencesExt

CONSTANTS
    Base,               \* 256
    Width,              \* sizeof, for every type of number
    TextWidth,          \* sizeof(std::uint16_t)
    MaxDepth,           \* Limits: 64
    MaxElements,        \*         1048576
    MaxArrayBytes,      \*         16 MiB
    None

ASSUME BaseAssumption == Base \in Nat /\ Base > 12
ASSUME WidthAssumption ==
    /\ Width \in [{"Byte", "Short", "Int", "Long", "Float", "Double"} -> Nat \ {0}]
    /\ TextWidth \in Nat \ {0}
ASSUME LimitsAssumption == {MaxDepth, MaxElements, MaxArrayBytes} \subseteq Nat
ASSUME NoneAssumption == None \notin Seq(0..(Base - 1))

Byte == 0..(Base - 1)

Endian == {"Little", "Big"}

TypeNames == <<"Byte", "Short", "Int", "Long", "Float", "Double",
               "ByteArray", "String", "List", "Compound", "IntArray", "LongArray">>
Types == Range(TypeNames)
Code(type) == IF type = "End" THEN 0 ELSE CHOOSE i \in DOMAIN TypeNames : TypeNames[i] = type
TypeOf(code) == IF code = 0 THEN "End" ELSE TypeNames[code]
ValidType(code) == code <= Len(TypeNames)

ElementOf == [ByteArray |-> "Byte", IntArray |-> "Int", LongArray |-> "Long"]

\* Tag: a value for every kind of type.
Number(type, n) == [type |-> type, number |-> n]
Array(type, numbers) == [type |-> type, array |-> numbers]
String(text) == [type |-> "String", text |-> text]
List(type, items) == [type |-> "List", of |-> type, list |-> items]
Compound(fields) == [type |-> "Compound", fields |-> fields]
End == [type |-> "End"]

Power[w \in Nat] == IF w = 0 THEN 1 ELSE Base * Power[w - 1]

\* The signed numbers of w digits.
SignedRange(w) == (Power[w] \div 2 - Power[w])..(Power[w] \div 2 - 1)

\* What a Tag can be, whatever the tags it holds are.
IsTag(tag) ==
    /\ tag.type \in Types \cup {"End"}
    /\ tag.type \in DOMAIN Width =>
           tag = Number(tag.type, tag.number) /\ tag.number \in SignedRange(Width[tag.type])
    /\ tag.type = "String" => tag = String(tag.text) /\ tag.text \in Seq(Byte)
    /\ tag.type \in DOMAIN ElementOf =>
           /\ tag = Array(tag.type, tag.array)
           /\ tag.array \in Seq(SignedRange(Width[ElementOf[tag.type]]))
    /\ tag.type = "List" =>
           /\ tag = List(tag.of, tag.list)
           /\ tag.of \in Types \cup {"End"} /\ tag.list \in Seq(Range(tag.list))
    /\ tag.type = "Compound" =>
           /\ tag = Compound(tag.fields)
           /\ tag.fields = [name \in DOMAIN tag.fields |-> tag.fields[name]]
           /\ DOMAIN tag.fields \subseteq Seq(Byte) /\ IsFiniteSet(DOMAIN tag.fields)

MaxLength == Power[Width["Int"]] \div 2 - 1

\* The limits on one array, which writer and reader share.
ArrayFits(type, n) ==
    /\ n <= MaxLength /\ n * Width[ElementOf[type]] <= MaxArrayBytes
    /\ type = "ByteArray" \/ n <= MaxElements

\* The order of std::map<std::string, Tag>, and what stands in a map in it.
Before(a, b) ==
    \E i \in 1..(Len(b)) :
        /\ Len(a) >= i - 1 /\ \A j \in 1..(i - 1) : a[j] = b[j]
        /\ Len(a) = i - 1 \/ a[i] < b[i]
InOrder(names) ==
    [i \in 1..Cardinality(names) |->
        CHOOSE a \in names : Cardinality({b \in names : Before(b, a)}) = i - 1]

\* The tags a tag holds, and those at every depth in it.
Parts(tag) ==
    CASE tag.type = "List" -> tag.list
      [] tag.type = "Compound" ->
             [i \in DOMAIN InOrder(DOMAIN tag.fields) |-> tag.fields[InOrder(DOMAIN tag.fields)[i]]]
      [] OTHER -> <<>>
Within(tag) ==
    LET within[depth \in Nat] == IF depth = 0 THEN {tag}
                                 ELSE UNION {Range(Parts(t)) : t \in within[depth - 1]}
    IN  within

-----------------------------------------------------------------------------
(* Writing.                                                                *)

\* write_unsigned, of a signed number too: % makes it its two's complement.
Digits(n, w, endian) ==
    [i \in 1..w |-> (n \div Power[IF endian = "Little" THEN i - 1 ELSE w - i]) % Base]

\* write_string.
TextFits(text) == Len(text) < Power[TextWidth]
Text(text, endian) == Digits(Len(text), TextWidth, endian) \o text

ArrayBytes(tag, endian) ==
    Digits(Len(tag.array), Width["Int"], endian)
    \o FlattenSeq([i \in DOMAIN tag.array |->
                       Digits(tag.array[i], Width[ElementOf[tag.type]], endian)])

\* What write_named_impl and write_payload refuse in a tag at some depth: a
\* list has one element type for all items, and End only for none.
Writable(tag, depth) ==
    /\ depth <= MaxDepth
    /\ tag.type # "End"
    /\ tag.type = "String" => TextFits(tag.text)
    /\ tag.type \in DOMAIN ElementOf => ArrayFits(tag.type, Len(tag.array))
    /\ tag.type = "List" =>
           /\ Len(tag.list) <= MaxElements /\ Len(tag.list) <= MaxLength
           /\ tag.list = <<>> \/ tag.of # "End"
           /\ \A i \in DOMAIN tag.list : tag.list[i].type = tag.of
    /\ tag.type = "Compound" =>
           /\ Cardinality(DOMAIN tag.fields) <= MaxElements
           /\ \A name \in DOMAIN tag.fields : TextFits(name)

\* write_named_impl, before the payload.
Header(name, type, endian) == <<Code(type)>> \o Text(name, endian)

\* write_payload of what may be written; inner is that of the tags it holds.
WritePayload(tag, endian, inner) ==
    CASE tag.type \in DOMAIN Width -> Digits(tag.number, Width[tag.type], endian)
      [] tag.type = "String" -> Text(tag.text, endian)
      [] tag.type \in DOMAIN ElementOf -> ArrayBytes(tag, endian)
      [] tag.type = "List" ->
             <<Code(tag.of)>> \o Digits(Len(tag.list), Width["Int"], endian)
             \o FlattenSeq([i \in DOMAIN tag.list |-> inner[tag.list[i]]])
      [] OTHER ->
             LET names == InOrder(DOMAIN tag.fields)
             IN  FlattenSeq([i \in DOMAIN names |->
                     Header(names[i], tag.fields[names[i]].type, endian)
                     \o inner[tag.fields[names[i]]]]) \o <<0>>

Payloads(tag, endian) ==
    LET bytes[room \in Nat] ==
            IF room = 0 THEN <<>>
            ELSE [t \in Within(tag)[MaxDepth + 1 - room] |-> WritePayload(t, endian, bytes[room - 1])]
    IN  bytes

\* write_named.
Write(name, tag, endian) ==
    IF TextFits(name) /\ \A depth \in 0..(MaxDepth + 1) : \A t \in Within(tag)[depth] : Writable(t, depth)
    THEN Header(name, tag.type, endian) \o Payloads(tag, endian)[MaxDepth + 1][tag]
    ELSE None

-----------------------------------------------------------------------------
(* Reading: bytes s from offset at, with left elements to spend.           *)

Failed == [ok |-> FALSE]

\* Whether there are n more bytes; what they are as a number.
Has(s, at, n) == at + n <= Len(s)
Unsigned(s, at, w, endian) ==
    LET number[i \in Nat] ==
            IF i = 0 THEN 0
            ELSE number[i - 1] + s[at + (IF endian = "Little" THEN i ELSE w + 1 - i)] * Power[i - 1]
    IN  number[w]
Signed(s, at, w, endian) ==
    LET n == Unsigned(s, at, w, endian)
    IN  IF n < Power[w] \div 2 THEN n ELSE n - Power[w]

\* Mutant of Affordable: the budget is never spent.
Unlimited(n, left) == TRUE

\* Budget::charge.
Affordable(n, left) == n <= left

\* The length of a list or an array.
HasLength(s, at, endian) ==
    Has(s, at, Width["Int"]) /\ Signed(s, at, Width["Int"], endian) >= 0

ReadNumber(s, at, left, type, endian) ==
    IF Has(s, at, Width[type])
    THEN [ok |-> TRUE, tag |-> Number(type, Signed(s, at, Width[type], endian)),
          at |-> at + Width[type], left |-> left]
    ELSE Failed

\* read_string.
ReadText(s, at, endian) ==
    LET n == Unsigned(s, at, TextWidth, endian)
    IN  IF Has(s, at, TextWidth) /\ Has(s, at + TextWidth, n)
        THEN [ok |-> TRUE, text |-> SubSeq(s, at + TextWidth + 1, at + TextWidth + n),
              at |-> at + TextWidth + n]
        ELSE Failed

ReadString(s, at, left, endian) ==
    LET read == ReadText(s, at, endian)
    IN  IF read.ok THEN [ok |-> TRUE, tag |-> String(read.text), at |-> read.at, left |-> left]
        ELSE Failed

ReadArray(s, at, left, type, endian) ==
    LET n     == Signed(s, at, Width["Int"], endian)
        w     == Width[ElementOf[type]]
        start == at + Width["Int"]
    IN  IF /\ HasLength(s, at, endian) /\ ArrayFits(type, n) /\ Affordable(n, left)
           /\ Has(s, start, n * w)
        THEN [ok |-> TRUE, tag |-> Array(type, [i \in 1..n |-> Signed(s, start + (i - 1) * w, w, endian)]),
              at |-> start + n * w, left |-> left - n]
        ELSE Failed

\* The items of a list, one after the other; inner reads what a tag holds.
NextItem(read, type, inner) ==
    LET one == inner[<<read.at, read.left, type>>]
    IN  IF read.ok /\ one.ok
        THEN [ok |-> TRUE, items |-> Append(read.items, one.tag), at |-> one.at, left |-> one.left]
        ELSE Failed
Items(at, left, type, inner) ==
    LET read[n \in Nat] == IF n = 0 THEN [ok |-> TRUE, items |-> <<>>, at |-> at, left |-> left]
                           ELSE NextItem(read[n - 1], type, inner)
    IN  read

ReadList(s, at, left, endian, inner) ==
    LET n    == Signed(s, at + 1, Width["Int"], endian)
        type == TypeOf(s[at + 1])
        read == Items(at + 1 + Width["Int"], left - n, type, inner)[n]
    IN  IF /\ Has(s, at, 1) /\ HasLength(s, at + 1, endian)
           /\ ValidType(s[at + 1])
           /\ n <= MaxElements /\ Affordable(n, left)
           /\ n = 0 \/ s[at + 1] # 0
           /\ read.ok
        THEN [ok |-> TRUE, tag |-> List(type, read.items), at |-> read.at, left |-> read.left]
        ELSE Failed

\* insert_or_assign.
Put(fields, name, tag) ==
    [n \in DOMAIN fields \cup {name} |-> IF n = name THEN tag ELSE fields[n]]

\* The fields of a compound, up to its End; of two with one name the later
\* tag stays.
NextField(s, read, endian, inner) ==
    LET code == s[read.at + 1]
        name == ReadText(s, read.at + 1, endian)
        one  == inner[<<name.at, read.left - 1, TypeOf(code)>>]
    IN  IF ~read.ok \/ read.done THEN read
        ELSE IF Has(s, read.at, 1) /\ code = 0
        THEN [ok |-> TRUE, done |-> TRUE, fields |-> read.fields, at |-> read.at + 1, left |-> read.left]
        ELSE IF /\ Has(s, read.at, 1) /\ ValidType(code) /\ Affordable(1, read.left)
                /\ name.ok /\ one.ok
        THEN [ok |-> TRUE, done |-> FALSE, fields |-> Put(read.fields, name.text, one.tag),
              at |-> one.at, left |-> one.left]
        ELSE Failed
Fields(s, at, left, endian, inner) ==
    LET read[n \in Nat] ==
            IF n = 0 THEN [ok |-> TRUE, done |-> FALSE, fields |-> <<>>, at |-> at, left |-> left]
            ELSE NextField(s, read[n - 1], endian, inner)
    IN  read

\* Every field is charged for, so that there are no more than MaxElements.
ReadCompound(s, at, left, endian, inner) ==
    LET read == Fields(s, at, left, endian, inner)[MaxElements + 1]
    IN  IF read.ok THEN [ok |-> TRUE, tag |-> Compound(read.fields), at |-> read.at, left |-> read.left]
        ELSE Failed

ReadPayload(s, at, left, type, endian, inner) ==
    CASE type = "End" -> Failed
      [] type \in DOMAIN Width -> ReadNumber(s, at, left, type, endian)
      [] type = "String" -> ReadString(s, at, left, endian)
      [] type \in DOMAIN ElementOf -> ReadArray(s, at, left, type, endian)
      [] type = "List" -> ReadList(s, at, left, endian, inner)
      [] OTHER -> ReadCompound(s, at, left, endian, inner)

Reads(s, endian) ==
    LET read[room \in Nat] ==
            [p \in Nat \X Int \X (Types \cup {"End"}) |->
                IF room = 0 THEN Failed
                ELSE ReadPayload(s, p[1], p[2], p[3], endian, read[room - 1])]
    IN  read

\* read_named: the tag, its name, and where the reader has got to.
Read(s, endian) ==
    LET name == ReadText(s, 1, endian)
        read == Reads(s, endian)[MaxDepth + 1][<<name.at, MaxElements, TypeOf(s[1])>>]
    IN  IF Has(s, 0, 1) /\ ValidType(s[1]) /\ s[1] # 0 /\ name.ok /\ read.ok
        THEN [ok |-> TRUE, name |-> name.text, tag |-> read.tag, at |-> read.at]
        ELSE Failed

-----------------------------------------------------------------------------
\* What the reader charges for a tag, against which it has one budget for all.
Sum(numbers) ==
    LET sum[n \in Nat] == IF n = 0 THEN 0 ELSE sum[n - 1] + numbers[n]
    IN  sum[Len(numbers)]
Cost(tag, inner) ==
    IF tag.type \in DOMAIN ElementOf THEN Len(tag.array)
    ELSE Len(Parts(tag)) + Sum([i \in DOMAIN Parts(tag) |-> inner[Parts(tag)[i]]])
Costs(tag) ==
    LET cost[room \in Nat] ==
            IF room = 0 THEN <<>>
            ELSE [t \in Within(tag)[MaxDepth + 1 - room] |-> Cost(t, cost[room - 1])]
    IN  cost
Elements(tag) == Costs(tag)[MaxDepth + 1][tag]
=============================================================================
