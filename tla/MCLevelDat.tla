----------------------------- MODULE MCLevelDat -----------------------------
(* Bytes of four bits, ints of two of them.  One seed is negative as an int. *)
(* The foreign roots have every type of tag, nest to the limit and past it,  *)
(* and stay within the limits of each container while together passing them. *)
EXTENDS LevelDat

MCWidth == [Byte |-> 1, Short |-> 1, Int |-> 2, Long |-> 3, Float |-> 2, Double |-> 3]
MCSpawnOf == [s \in U32 |-> <<3, s % 5, 2>>]
MCPlaces == {<<5, -7, 0>>}

Level(version) ==
    Compound(Player :> Compound(Pos :> List("Float", <<Number("Float", 1), Number("Float", -2), Number("Float", 3)>>))
             @@ RandomSeed :> Number("Long", -1)
             @@ SpawnX :> Number("Int", -128) @@ SpawnY :> Number("Int", 127) @@ SpawnZ :> Number("Int", 0)
             @@ version)
Less(root, name) == Compound([n \in DOMAIN root.fields \ {name} |-> root.fields[n]])
But(root, name, tag) == Compound([n \in DOMAIN root.fields |-> IF n = name THEN tag ELSE root.fields[n]])
Whole == Level(<<>>)

Nested[n \in Nat] == IF n = 0 THEN Compound(<<>>)
                     ELSE List("Compound", <<Compound(<<1>> :> Nested[n - 1])>>)

MCForeignTags ==
    << Whole,
      Level(StorageVersion :> Number("Int", 2)), Level(StorageVersion :> Number("Byte", 2)),
      Less(Whole, SpawnY), But(Whole, SpawnX, Number("Short", 1)),
      But(Whole, RandomSeed, Number("Long", -129)), But(Whole, RandomSeed, Number("Int", 5)),
      But(Whole, Player, Compound(Pos :> List("Float", <<Number("Float", 1)>>))),
      But(Whole, Player, Compound(Pos :> List("Int", <<Number("Int", 1), Number("Int", 1), Number("Int", 1)>>))),
      But(Whole, Player, List("End", <<>>)),
      Number("Byte", -3),
      Compound(<<1>> :> Number("Byte", -8) @@ <<1, 2>> :> Number("Double", -2) @@ <<2>> :> String( <<7, 0>>)
               @@ <<>> :> Number("Short", 7)),
      Compound(<<1>> :> Array("ByteArray", <<1, -1, 7>>) @@ <<2>> :> Array("IntArray", <<-5, 100>>)
               @@ <<3>> :> Array("LongArray", <<-1000>>)),
      List("IntArray", <<Array("IntArray", <<1, 2, 3, 4>>), Array("IntArray", <<1, 2, 3>>),
                         Array("IntArray", <<>>), Array("IntArray", <<5>>)>>),
      Array("ByteArray", [i \in 1..13 |-> 0]), Array("ByteArray", [i \in 1..17 |-> 0]),
      List("Long", [i \in 1..12 |-> Number("Long", i)]), List("Byte", [i \in 1..13 |-> Number("Byte", 1)]),
      List("Byte", <<Number("Short", 1)>>), List("Byte", <<>>), List("End", <<End>>),
      Nested[1], Nested[2] >>
=============================================================================
