----------------------------- MODULE CommandText -----------------------------
(***************************************************************************)
(* The text of a command (api/Command.cpp): how a line of the protocol is  *)
(* taken apart into a name and arguments, and what the arguments stand for *)
(* (the parse functions of api/ApiDispatcher.cpp).                         *)
(*                                                                         *)
(* A line is a sequence of tokens: the four characters with a meaning      *)
(* ("(", ")", ",", " "), names, numerals, and words of free text.          *)
(***************************************************************************)
EXTENDS Integers, Sequences, FiniteSets, FiniteSetsExt, SequencesExt

CONSTANTS
    Tokens,     \* the pieces lines are made of
    MaxInt,     \* the greatest int: 2^31 - 1
    IntOf,      \* the numerals std::from_chars reads to their end, as integers
    HalvesOf,   \* the numerals std::strtod reads to their end, in halves
    None        \* an optional without a value

ASSUME NumeralsAssumption ==
    /\ MaxInt \in Nat
    /\ \A n \in DOMAIN IntOf : IntOf[n] \in Int /\ n \in DOMAIN HalvesOf
                              /\ HalvesOf[n] = 2 * IntOf[n]
    /\ \A n \in DOMAIN HalvesOf : HalvesOf[n] \in Int

\* The characters with a meaning.
Open == "("
Close == ")"
Comma == ","
Blank == " "

ASSUME TokensAssumption ==
    /\ {Open, Close, Comma, Blank, "chat.post"} \subseteq Tokens
    /\ None \notin [name : Seq(Tokens), arguments : Seq(Seq(Tokens))]

-----------------------------------------------------------------------------
\* int, and what a sum of ints comes to.  Signed overflow is undefined; with
\* the spawn a variable no compiler can do better than the machine's adder.
MinInt == -MaxInt - 1
IntRange == MinInt..MaxInt
Wrap(n) == ((n - MinInt) % (2 * (MaxInt + 1))) + MinInt

\* A double beyond int, cast to int: the smallest int on x86, the nearest on ARM.
Cast(n) == IF n \in IntRange THEN {n} ELSE {MinInt, IF n < 0 THEN MinInt ELSE MaxInt}

-----------------------------------------------------------------------------
Positions(text, token) == {i \in DOMAIN text : text[i] = token}

\* trim.
Trim(text) ==
    LET solid == DOMAIN text \ Positions(text, Blank)
    IN  IF solid = {} THEN <<>> ELSE SubSeq(text, Min(solid), Max(solid))

\* The loop over the commas.  An empty body has no argument, a body of one
\* blank has one, which is empty.
Arguments(body) ==
    LET commas == Positions(body, Comma)
        After(p)  == Min({q \in commas \cup {Len(body) + 1} : q > p})
        Cut(i)    == CHOOSE p \in commas \cup {0} : Cardinality({q \in commas : q <= p}) = i
    IN  IF body = <<>> THEN <<>>
        ELSE [i \in 1..(Cardinality(commas) + 1) |->
                 Trim(SubSeq(body, Cut(i - 1) + 1, After(Cut(i - 1)) - 1))]

\* Mutant of ArgumentsOf: chat.post has arguments like any other command.
ArgumentsAtCommas(name, body) == Arguments(body)

\* The body of chat.post is free text: one argument, commas and all.
ArgumentsOf(name, body) ==
    IF name # <<"chat.post">> THEN Arguments(body)
    ELSE IF body = <<>> THEN <<>>
    ELSE <<Trim(body)>>

\* parse_command: name "(" body ")", from the first "(" to the last ")".
Parse(line) ==
    LET cleaned == Trim(line)
        opens  == Positions(cleaned, Open)
        name   == Trim(SubSeq(cleaned, 1, Min(opens) - 1))
        body   == SubSeq(cleaned, Min(opens) + 1, Len(cleaned) - 1)
    IN  IF opens # {} /\ Last(cleaned) = Close /\ name # <<>>
        THEN [name |-> name, arguments |-> ArgumentsOf(name, body)]
        ELSE None

-----------------------------------------------------------------------------
\* parse_int and parse_double, and an argument that may be anything.
Reads(kind, argument) ==
    \/ kind = "text"
    \/ /\ kind = "int" /\ Len(argument) = 1
       /\ argument[1] \in DOMAIN IntOf /\ IntOf[argument[1]] \in IntRange
    \/ /\ kind = "double" /\ Len(argument) = 1
       /\ argument[1] \in DOMAIN HalvesOf

Fits(kinds, arguments) ==
    /\ Len(kinds) = Len(arguments)
    /\ \A i \in DOMAIN kinds : Reads(kinds[i], arguments[i])

Ints(n) == [i \in 1..n |-> "int"]
Double3 == <<"double", "double", "double">>
EntityDouble3 == <<"int", "double", "double", "double">>

\* What each command takes, in each of its forms.
Taking(kinds, names) == names \X {kinds}

Queries ==
    UNION { Taking(<<>>, {"player.getPos", "player.getTile", "events.block.hits",
                          "world.getPlayerIds"}),
            Taking(Ints(3), {"world.getBlock", "world.getBlockWithData"}),
            Taking(Ints(2), {"world.getHeight"}),
            Taking(Ints(1), {"entity.getPos", "entity.getTile"}) }

CameraModes == {"camera.mode.setNormal", "camera.mode.setThirdPerson", "camera.mode.setFollow"}

Orders ==
    UNION { Taking(Double3, {"player.setPos", "camera.setPos", "camera.mode.setPos"}),
            Taking(Ints(3), {"player.setTile"}),
            Taking(Ints(4), {"world.setBlock", "entity.setTile"}),
            Taking(Ints(5), {"world.setBlock"}),
            Taking(Ints(7), {"world.setBlocks"}),
            Taking(Ints(8), {"world.setBlocks"}),
            Taking(<<>>, {"world.checkpoint.save", "world.checkpoint.restore", "events.clear",
                          "camera.mode.setFixed"} \cup CameraModes),
            Taking(Ints(1), CameraModes),
            Taking(<<"text", "int">>, {"world.setting", "player.setting"}),
            Taking(<<"text">>, {"chat.post"}),
            Taking(EntityDouble3, {"entity.setPos"}) }

IsCall(command, name) == command.name = <<name>>
IsQuery(command) == \E form \in Queries : IsCall(command, form[1])

\* A command that dispatch does not turn down for its name or its arguments.
Accepted(command) ==
    \E form \in Queries \cup Orders :
        IsCall(command, form[1]) /\ Fits(form[2], command.arguments)

\* The arguments of an accepted command from place i on.
IntAt(command, i) == IntOf[command.arguments[i][1]]
IVec3(command, i) == [axis \in 1..3 |-> IntAt(command, i + axis - 1)]
Vec3(command, i) == [axis \in 1..3 |-> HalvesOf[command.arguments[i + axis - 1][1]]]
=============================================================================
