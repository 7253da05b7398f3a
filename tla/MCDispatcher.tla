---------------------------- MODULE MCDispatcher ----------------------------
(* A world of two blocks side by side and two above each other, ints of four *)
(* bits, and a spawn inside the world, beside it, or at the end of int,      *)
(* where a sum overflows on its way into the world.                          *)
EXTENDS Dispatcher

MCTokens == STRING
MCWorldMax == <<1, 1, 0>>
MCIntOf == "0" :> 0 @@ "1" :> 1 @@ "2" :> 2 @@ "-1" :> -1 @@ "7" :> 7 @@ "-8" :> -8 @@ "9" :> 9
MCHalvesOf == [n \in DOMAIN MCIntOf |-> 2 * MCIntOf[n]] @@ "0.5" :> 1 @@ "-0.5" :> -1

Grass == [id |-> 2, data |-> 0]
Ground == [p \in Cell |-> IF p[2] = 0 THEN Grass ELSE Game!Air]
Empty == [p \in Cell |-> Game!Air]

MCWorlds ==
    { [blocks |-> Ground, spawn |-> <<1, 1, 0>>, player |-> <<2, 2, 0>>, generated |-> TRUE],
      [blocks |-> Ground, spawn |-> <<-8, 0, 0>>, player |-> <<1, 2, 0>>, generated |-> TRUE],
      [blocks |-> Empty, spawn |-> <<0, 1, 0>>, player |-> <<-1, 0, 0>>, generated |-> FALSE] }
MCPlaces == { <<3, 2, 1>> }

RECURSIVE Commas(_)
Commas(arguments) ==
    IF arguments = <<>> THEN <<>>
    ELSE IF Len(arguments) = 1 THEN arguments[1]
    ELSE arguments[1] \o <<",">> \o Commas(Tail(arguments))
Call(name, arguments) ==
    <<name, "(">> \o Commas([i \in DOMAIN arguments |-> <<arguments[i]>>]) \o <<")">>

Asking ==
    { Call(name, <<>>) : name \in {"player.getPos", "player.getTile", "events.block.hits",
                                   "world.getPlayerIds"} }
    \cup { Call(name, <<"0">>) : name \in {"entity.getPos", "entity.getTile"} }
    \cup { Call("world.getBlock", <<x, y, "0">>) : x \in {"0", "-1", "7", "-8"}, y \in {"0", "-1"} }
    \cup { Call("world.getBlockWithData", <<"0", "-1", "0">>) }
    \cup { Call("world.getHeight", <<x, "0">>) : x \in {"0", "-1", "-8"} }

Doing ==
    { Call("player.setPos", <<"-0.5", "0", "0.5">>), Call("player.setTile", <<"-1", "0", "0">>),
      Call("player.setPos", <<"7", "0.5", "0">>), Call("player.setTile", <<"-8", "0", "0">>),
      Call("entity.setPos", <<"0", "0.5", "0", "0">>), Call("entity.setTile", <<"0", "7", "0", "0">>),
      Call("world.setBlock", <<"-1", "0", "0", "1">>), Call("world.setBlock", <<"-8", "0", "0", "1">>),
      Call("world.setBlock", <<"0", "-1", "0", "2", "7">>), Call("world.setBlock", <<"7", "7", "0", "1">>),
      Call("world.setBlocks", <<"0", "0", "0", "-1", "-1", "0", "1">>),
      Call("world.setBlocks", <<"0", "0", "0", "7", "0", "0", "1", "2">>),
      Call("world.setBlocks", <<"-1", "1", "0", "-1", "7", "0", "0">>),
      Call("world.checkpoint.save", <<>>), Call("world.checkpoint.restore", <<>>),
      Call("world.setting", <<"world_immutable", "1">>), Call("world.setting", <<"world_immutable", "0">>),
      Call("player.setting", <<"autojump", "1">>),
      Call("camera.mode.setNormal", <<>>), Call("camera.mode.setFollow", <<"2">>),
      Call("camera.mode.setThirdPerson", <<>>), Call("camera.mode.setFixed", <<>>),
      Call("camera.setPos", <<"0.5", "0", "0">>), Call("camera.mode.setPos", <<"7", "0", "0">>),
      Call("events.clear", <<>>),
      Call("chat.post", <<"a">>), Call("chat.post", <<"a", "b">>),
      Call("chat.post", <<"(", "a", ")">>) }

\* Lines that are no command, and commands that are turned down.
Wrong ==
    { <<>>, <<" ">>, <<"player.getPos">>, <<"player.getPos", "(">>, <<"(", ")">>, <<")", "player.getPos", "(">>,
      Call("player.getPos", <<>>) \o <<"a">>,
      Call("player.getPos", <<" ">>), Call("player.getPos", <<"0">>), Call("player.getTile", <<"0">>),
      Call("player.setPos", <<"0", "0">>), Call("player.setPos", <<"0", "a", "0">>),
      Call("player.setTile", <<"0", "0.5", "0">>), Call("player.setTile", <<"0", "0", "9">>),
      Call("world.getBlock", <<"0", "0", "0.5">>), Call("world.getBlock", <<"0", "0">>),
      Call("world.getBlockWithData", <<"0", "0", "0", "0">>),
      Call("world.setBlock", <<"-1", "-1", "0">>), Call("world.setBlock", <<"-1", "-1", "0", "0", "a">>),
      Call("world.setBlocks", <<"0", "0", "0", "0", "0", "0">>), Call("world.getHeight", <<"0", "a">>),
      Call("world.checkpoint.save", <<"0">>), Call("world.checkpoint.restore", <<"0">>),
      Call("world.setting", <<"world_immutable", "a">>), Call("chat.post", <<>>),
      Call("camera.mode.setNormal", <<"a">>), Call("camera.mode.setFixed", <<"0">>),
      Call("camera.mode.setFollow", <<"0", "0">>), Call("camera.mode.setFollow", <<"9">>),
      Call("camera.setPos", <<"0">>),
      Call("events.block.hits", <<"0">>), Call("events.clear", <<"0">>), Call("world.getPlayerIds", <<"0">>),
      Call("entity.getPos", <<"1">>), Call("entity.getTile", <<"1">>), Call("entity.getPos", <<>>),
      Call("entity.getTile", <<"a">>), Call("entity.setPos", <<"1", "0", "0", "0">>),
      Call("entity.setPos", <<"0", "0", "0">>), Call("entity.setTile", <<"1", "0", "0", "0">>),
      Call("entity.setTile", <<"0", "0", "0", "0.5">>), Call("world.getBlocks", <<"0">>) }

Spaced == { <<" ", "player.getTile", " ", "(", ")", " ">>,
            <<"world.getHeight", "(", " ", "0", ",", " ", "0", " ", ")">> }

MCLines == Asking \cup Doing \cup Wrong \cup Spaced
=============================================================================
