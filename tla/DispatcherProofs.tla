-------------------------- MODULE DispatcherProofs --------------------------
(***************************************************************************)
(* The translation of the coordinates, and what follows from it for the    *)
(* commands that name blocks: for every width of int, every size of the    *)
(* world below it, every spawn and every line a client may send.  Then the *)
(* hits on their way to an answer, the kinds of answers, and the text that *)
(* is posted.                                                              *)
(***************************************************************************)
EXTENDS Dispatcher, SequenceTheorems, WellFoundedInduction, TLAPS

(* Sums of ints.                                                           *)

LEMMA ModOfSum ==
    ASSUME NEW h \in Nat \ {0}, NEW q \in Int, NEW r \in 0..(h - 1)
    PROVE  (h * q + r) % h = r
OBVIOUS

LEMMA ModTakesMultiples ==
    ASSUME NEW h \in Nat \ {0}, NEW n \in Int
    PROVE  \E q \in Int : n = h * q + (n % h) /\ n % h \in 0..(h - 1)
<1>1. n = h * (n \div h) + (n % h)
  OBVIOUS
<1>2. n \div h \in Int /\ n % h \in 0..(h - 1)
  OBVIOUS
<1>3. QED
  BY <1>1, <1>2

LEMMA ModForgetsMultiples ==
    ASSUME NEW h \in Nat \ {0}, NEW n \in Int, NEW m \in Int
    PROVE  ((n % h) + m) % h = (n + m) % h
<1> DEFINE sum == n + m
<1>0. sum \in Int
  OBVIOUS
<1> HIDE DEF sum
<1>1. PICK q \in Int : sum = h * q + (sum % h) /\ sum % h \in 0..(h - 1)
  BY <1>0, ModTakesMultiples
<1>2. PICK p \in Int : n = h * p + (n % h) /\ n % h \in 0..(h - 1)
  BY ModTakesMultiples
<1> DEFINE r == sum % h
           s == n % h
<1>3. r \in Int /\ s \in Int /\ n = h * p + s /\ n + m = h * q + r
  BY <1>1, <1>2 DEF sum
<1> HIDE DEF r, s
<1>4. q - p \in Int /\ h * (q - p) = h * q - h * p
  OBVIOUS
<1>5. s + m = h * (q - p) + r
  BY <1>3, <1>4
<1>6. QED
  BY <1>1, <1>4, <1>5, ModOfSum DEF r, s, sum

LEMMA WrapIsInt ==
    ASSUME NEW n \in Int
    PROVE  Wrap(n) \in IntRange /\ Wrap(n) \in Int
BY NumeralsAssumption DEF Wrap, IntRange, MinInt

LEMMA WrapKeepsInts ==
    ASSUME NEW n \in IntRange
    PROVE  Wrap(n) = n
BY NumeralsAssumption DEF Wrap, IntRange, MinInt

LEMMA WrapTwice ==
    ASSUME NEW n \in Int, NEW m \in Int
    PROVE  Wrap(Wrap(n) + m) = Wrap(n + m)
<1> DEFINE h == 2 * (MaxInt + 1)
           w == Wrap(n)
           k == n - MinInt
<1>1. h \in Nat \ {0} /\ MinInt \in Int /\ w \in Int /\ k \in Int
  BY NumeralsAssumption, WrapIsInt DEF MinInt
<1>2. w = (k % h) + MinInt
  BY DEF Wrap
<1>3. k % h \in Int
  BY <1>1
<1>4. n = k + MinInt
  BY <1>1
<1> HIDE DEF h, w, k
<1>5. (k % h) + m = w + m - MinInt /\ k + m = n + m - MinInt
  BY <1>1, <1>2, <1>3, <1>4
<1>6. ((k % h) + m) % h = (k + m) % h
  BY <1>1, ModForgetsMultiples
<1>7. (w + m - MinInt) % h = (n + m - MinInt) % h
  BY <1>5, <1>6
<1>8. Wrap(w + m) = Wrap(n + m)
  BY <1>1, <1>7, SMT DEF Wrap, h
<1>9. QED
  BY <1>8 DEF w

\* Adding and subtracting the same int undo each other, whatever wraps.
LEMMA ThereAndBack ==
    ASSUME NEW n \in IntRange, NEW s \in IntRange
    PROVE  Wrap(Wrap(n + s) - s) = n /\ Wrap(Wrap(n - s) + s) = n
<1>1. n \in Int /\ s \in Int /\ -s \in Int
  BY NumeralsAssumption DEF IntRange, MinInt
<1>2. /\ (n + s) + (-s) = n /\ Wrap(n + s) + (-s) = Wrap(n + s) - s
      /\ (n - s) + s = n /\ n + s \in Int /\ n - s \in Int
  BY <1>1, WrapIsInt
<1>3. Wrap(Wrap(n + s) + (-s)) = Wrap((n + s) + (-s)) /\ Wrap(Wrap(n - s) + s) = Wrap((n - s) + s)
  BY <1>1, <1>2, WrapTwice
<1>4. QED
  BY <1>2, <1>3, WrapKeepsInts

-----------------------------------------------------------------------------
(* The arguments of the commands that change something.                    *)

LEMMA IntsHaveLength ==
    ASSUME NEW n \in Nat
    PROVE  Len(Ints(n)) = n /\ DOMAIN Ints(n) = 1..n /\ \A i \in 1..n : Ints(n)[i] = "int"
BY DEF Ints

LEMMA IntsAreInts ==
    ASSUME NEW n \in Nat, Fits(Ints(n), command.arguments)
    PROVE  /\ Len(command.arguments) = n
           /\ \A i \in 1..n : IntAt(command, i) \in IntRange
<1>1. Len(command.arguments) = n /\ \A i \in 1..n : Reads("int", command.arguments[i])
  BY IntsHaveLength DEF Fits
<1>2. QED
  BY <1>1 DEF Reads, IntAt

LEMMA DoublesAreNumbers ==
    ASSUME NEW argument, Reads("double", argument)
    PROVE  HalvesOf[argument[1]] \in Int
BY NumeralsAssumption DEF Reads

LEMMA FormOfSetPos ==
    ASSUME Is({"player.setPos"})
    PROVE  Fits(Double3, command.arguments)
BY DEF Is, Accepted, IsCall, Queries, Orders, CameraModes, Taking

LEMMA FormOfSetTile ==
    ASSUME Is({"player.setTile"})
    PROVE  Fits(Ints(3), command.arguments)
BY DEF Is, Accepted, IsCall, Queries, Orders, CameraModes, Taking

LEMMA FormOfGetBlock ==
    ASSUME Is({"world.getBlock", "world.getBlockWithData"})
    PROVE  Fits(Ints(3), command.arguments)
BY DEF Is, Accepted, IsCall, Queries, Orders, CameraModes, Taking

LEMMA FormOfSetBlock ==
    ASSUME Is({"world.setBlock"})
    PROVE  Fits(Ints(4), command.arguments) \/ Fits(Ints(5), command.arguments)
BY DEF Is, Accepted, IsCall, Queries, Orders, CameraModes, Taking

LEMMA FormOfSetBlocks ==
    ASSUME Is({"world.setBlocks"})
    PROVE  Fits(Ints(7), command.arguments) \/ Fits(Ints(8), command.arguments)
BY DEF Is, Accepted, IsCall, Queries, Orders, CameraModes, Taking

LEMMA FormOfEntitySetPos ==
    ASSUME Is({"entity.setPos"})
    PROVE  Fits(EntityDouble3, command.arguments)
BY DEF Is, Accepted, IsCall, Queries, Orders, CameraModes, Taking

LEMMA FormOfEntitySetTile ==
    ASSUME Is({"entity.setTile"})
    PROVE  Fits(Ints(4), command.arguments)
BY DEF Is, Accepted, IsCall, Queries, Orders, CameraModes, Taking

-----------------------------------------------------------------------------
(* One branch of dispatch for each command.                                *)

LEMMA BranchOfSetBlock ==
    ASSUME Execute, Is({"world.setBlock"})
    PROVE  SetBlock
BY DEF Execute, Is, IsCall, Ignore, TurnDown, GetPos, GetTile, SetPos, SetTile, GetBlock,
       GetBlockWithData, SetBlocks, GetHeight, SaveCheckpoint, RestoreCheckpoint, Setting,
       PostChat, SetNormal, SetThirdPerson, SetFixed, SetCameraPos, BlockHits, ClearEvents,
       GetPlayerIds, EntityGetPos, EntityGetTile, EntitySetPos, EntitySetTile

LEMMA BranchOfSetBlocks ==
    ASSUME Execute, Is({"world.setBlocks"})
    PROVE  SetBlocks
BY DEF Execute, Is, IsCall, Ignore, TurnDown, GetPos, GetTile, SetPos, SetTile, GetBlock,
       GetBlockWithData, SetBlock, GetHeight, SaveCheckpoint, RestoreCheckpoint, Setting,
       PostChat, SetNormal, SetThirdPerson, SetFixed, SetCameraPos, BlockHits, ClearEvents,
       GetPlayerIds, EntityGetPos, EntityGetTile, EntitySetPos, EntitySetTile

LEMMA BranchOfGetBlock ==
    ASSUME Execute, Is({"world.getBlock", "world.getBlockWithData"})
    PROVE  GetBlock \/ GetBlockWithData
BY DEF Execute, Is, IsCall, Ignore, TurnDown, GetPos, GetTile, SetPos, SetTile,
       SetBlock, SetBlocks, GetHeight, SaveCheckpoint, RestoreCheckpoint, Setting,
       PostChat, SetNormal, SetThirdPerson, SetFixed, SetCameraPos, BlockHits, ClearEvents,
       GetPlayerIds, EntityGetPos, EntityGetTile, EntitySetPos, EntitySetTile

LEMMA BranchOfGetTile ==
    ASSUME Execute, Is({"player.getTile"})
    PROVE  GetTile
BY DEF Execute, Is, IsCall, Ignore, TurnDown, GetPos, SetPos, SetTile, GetBlock,
       GetBlockWithData, SetBlock, SetBlocks, GetHeight, SaveCheckpoint, RestoreCheckpoint, Setting,
       PostChat, SetNormal, SetThirdPerson, SetFixed, SetCameraPos, BlockHits, ClearEvents,
       GetPlayerIds, EntityGetPos, EntityGetTile, EntitySetPos, EntitySetTile

LEMMA BranchOfSetTile ==
    ASSUME Execute, Is({"player.setTile"})
    PROVE  SetTile
BY DEF Execute, Is, IsCall, Ignore, TurnDown, GetPos, GetTile, SetPos, GetBlock,
       GetBlockWithData, SetBlock, SetBlocks, GetHeight, SaveCheckpoint, RestoreCheckpoint, Setting,
       PostChat, SetNormal, SetThirdPerson, SetFixed, SetCameraPos, BlockHits, ClearEvents,
       GetPlayerIds, EntityGetPos, EntityGetTile, EntitySetPos, EntitySetTile

-----------------------------------------------------------------------------
(* The invariant: what the game and the worker are at.                     *)

GameTypeOK ==
    /\ blocks \in [Cell -> Block]
    /\ self \in [spawn : Tile, player : Place]
    /\ marked # None => marked \in [blocks : [Cell -> Block], player : Place]

DispatcherInv == GameTypeOK /\ (line = None => command = None)

LEMMA SeenIsBlock ==
    ASSUME NEW block, block.id \in Int, block.data \in Int
    PROVE  Game!Seen(block) \in Block
BY DEF Game!Seen, Game!Stored, Game!Air, Block

\* The id is argument i, the data argument i + 1 or nothing.
LEMMA BlockFromIsWritten ==
    ASSUME NEW i \in Nat \ {0},
           Fits(Ints(i), command.arguments) \/ Fits(Ints(i + 1), command.arguments)
    PROVE  Game!Seen(BlockFrom(i)) \in Block
<1>1. BlockFrom(i).id = Argument(i)
  BY DEF BlockFrom
<1>2. BlockFrom(i).data = IF HasArgument(i + 1) THEN Argument(i + 1) ELSE 0
  BY DEF BlockFrom
<1>3. IntRange \subseteq Int
  BY DEF IntRange
<1>4. CASE Fits(Ints(i), command.arguments)
  <2>1. Len(command.arguments) = i /\ IntAt(command, i) \in IntRange
    BY <1>4, IntsAreInts
  <2>2. ~HasArgument(i + 1)
    BY <2>1 DEF HasArgument
  <2>3. Argument(i) \in Int
    BY <1>3, <2>1 DEF Argument
  <2>4. BlockFrom(i).id \in Int /\ BlockFrom(i).data \in Int
    BY <1>1, <1>2, <2>2, <2>3
  <2>5. QED
    BY <2>4, SeenIsBlock
<1>5. CASE Fits(Ints(i + 1), command.arguments)
  <2>1. IntAt(command, i) \in IntRange /\ IntAt(command, i + 1) \in IntRange
    BY <1>5, IntsAreInts
  <2>2. Argument(i) \in Int /\ Argument(i + 1) \in Int
    BY <1>3, <2>1 DEF Argument
  <2>3. BlockFrom(i).id \in Int /\ BlockFrom(i).data \in Int
    BY <1>1, <1>2, <2>2
  <2>4. QED
    BY <2>3, SeenIsBlock
<1>6. QED
  BY <1>4, <1>5

LEMMA IncomingIsTile ==
    ASSUME self \in [spawn : Tile, player : Place], NEW api, \A i \in 1..3 : api[i] \in IntRange
    PROVE  Incoming(api) \in Tile
<1>1. \A i \in 1..3 : self.spawn[i] \in Int /\ api[i] \in Int
  BY DEF Tile, IntRange
<1>2. QED
  BY <1>1, WrapIsInt DEF Incoming, Tile

LEMMA ExactlyIsPlace ==
    ASSUME NEW tile \in Tile
    PROVE  Exactly(tile) \in Place
BY DEF Exactly, Tile, Place, IntRange

LEMMA IncomingExactIsPlace ==
    ASSUME self \in [spawn : Tile, player : Place], NEW api, \A i \in 1..3 : api[i] \in Int
    PROVE  IncomingExact(api) \in Place
BY DEF IncomingExact, Tile, Place, IntRange

\* The integers at three places of the arguments, as a position.
LEMMA IVec3Ints ==
    ASSUME NEW n \in Nat, Fits(Ints(n), command.arguments), NEW k \in Nat \ {0}, k + 2 <= n
    PROVE  \A i \in 1..3 : /\ IVec3(command, k)[i] = IntAt(command, k + i - 1)
                          /\ IVec3(command, k)[i] \in IntRange
<1>1. ASSUME NEW i \in 1..3 PROVE k + i - 1 \in 1..n
  OBVIOUS
<1>2. ASSUME NEW i \in 1..3 PROVE IntAt(command, k + i - 1) \in IntRange
  BY <1>1, IntsAreInts
<1>3. QED
  BY <1>2 DEF IVec3

LEMMA Doubles ==
    /\ Fits(Double3, command.arguments) => \A i \in 1..3 : Vec3(command, 1)[i] \in Int
    /\ Fits(EntityDouble3, command.arguments) => \A i \in 1..3 : Vec3(command, 2)[i] \in Int
<1>1. ASSUME Fits(Double3, command.arguments)
      PROVE  \A i \in 1..3 : Vec3(command, 1)[i] \in Int
  <2>1. \A i \in 1..3 : Reads("double", command.arguments[i])
    BY <1>1 DEF Fits, Double3
  <2>2. QED
    BY <2>1, DoublesAreNumbers DEF Vec3
<1>2. ASSUME Fits(EntityDouble3, command.arguments)
      PROVE  \A i \in 1..3 : Vec3(command, 2)[i] \in Int
  <2>1. \A i \in 2..4 : Reads("double", command.arguments[i])
    BY <1>2 DEF Fits, EntityDouble3
  <2>2. QED
    BY <2>1, DoublesAreNumbers DEF Vec3
<1>3. QED
  BY <1>1, <1>2

-----------------------------------------------------------------------------
LEMMA InvInit == Init => DispatcherInv
BY GameAssumption DEF Init, DispatcherInv, GameTypeOK

LEMMA GameStays == GameTypeOK /\ UNCHANGED world => GameTypeOK'
BY DEF GameTypeOK, world

LEMMA PlayerMoves ==
    ASSUME GameTypeOK, NEW place \in Place, SetPlayer(place)
    PROVE  GameTypeOK'
BY DEF GameTypeOK, SetPlayer, Game!Play

LEMMA BlockChanges ==
    ASSUME GameTypeOK, NEW p \in Cell, NEW block, Game!Seen(block) \in Block, Game!Edit(p, block)
    PROVE  GameTypeOK'
BY DEF GameTypeOK, Game!Edit

LEMMA RegionChanges ==
    ASSUME GameTypeOK, NEW region, NEW block, Game!Seen(block) \in Block, Game!Fill(region, block)
    PROVE  GameTypeOK'
BY DEF GameTypeOK, Game!Fill

\* The commands that change the game, one by one; the others answer or change
\* what is beside it.
LEMMA ExecuteKeepsTypes == GameTypeOK /\ Execute => GameTypeOK'
<1> SUFFICES ASSUME GameTypeOK, Execute PROVE GameTypeOK'
  OBVIOUS
<1>1. CASE SetPos
  <2>1. Is({"player.setPos"}) /\ SetPlayer(IncomingExact(Vec3(command, 1)))
    BY <1>1 DEF SetPos
  <2>2. IncomingExact(Vec3(command, 1)) \in Place
    BY <2>1, FormOfSetPos, Doubles, IncomingExactIsPlace DEF GameTypeOK
  <2>3. QED
    BY <2>1, <2>2, PlayerMoves
<1>2. CASE SetTile
  <2>1. Is({"player.setTile"}) /\ SetPlayer(Exactly(Incoming(IVec3(command, 1))))
    BY <1>2 DEF SetTile
  <2>2. \A i \in 1..3 : IVec3(command, 1)[i] \in IntRange
    BY <2>1, FormOfSetTile, IVec3Ints
  <2>3. Exactly(Incoming(IVec3(command, 1))) \in Place
    BY <2>2, IncomingIsTile, ExactlyIsPlace DEF GameTypeOK
  <2>4. QED
    BY <2>1, <2>3, PlayerMoves
<1>3. CASE SetBlock
  <2>1. Game!Seen(BlockFrom(4)) \in Block
    BY <1>3, FormOfSetBlock, BlockFromIsWritten DEF SetBlock
  <2>2. CASE Incoming(IVec3(command, 1)) \in Cell
    BY <1>3, <2>1, <2>2, BlockChanges DEF SetBlock
  <2>3. CASE Incoming(IVec3(command, 1)) \notin Cell
    BY <1>3, <2>3, GameStays DEF SetBlock
  <2>4. QED
    BY <2>2, <2>3
<1>4. CASE SetBlocks
  <2>1. Game!Seen(BlockFrom(7)) \in Block
    BY <1>4, FormOfSetBlocks, BlockFromIsWritten DEF SetBlocks
  <2>2. QED
    BY <1>4, <2>1, RegionChanges DEF SetBlocks
<1>5. CASE SaveCheckpoint
  BY <1>5 DEF SaveCheckpoint, Game!Mark, GameTypeOK
<1>6. CASE RestoreCheckpoint
  BY <1>6 DEF RestoreCheckpoint, Game!Return, GameTypeOK, world
<1>7. CASE EntitySetPos
  <2>1. Is({"entity.setPos"}) /\ EntitySet(IncomingExact(Vec3(command, 2)))
    BY <1>7 DEF EntitySetPos
  <2>2. IncomingExact(Vec3(command, 2)) \in Place
    BY <2>1, FormOfEntitySetPos, Doubles, IncomingExactIsPlace DEF GameTypeOK
  <2>3. QED
    BY <2>1, <2>2, PlayerMoves, GameStays DEF EntitySet
<1>8. CASE EntitySetTile
  <2>1. Is({"entity.setTile"}) /\ EntitySet(Exactly(Incoming(IVec3(command, 2))))
    BY <1>8 DEF EntitySetTile
  <2>2. \A i \in 1..3 : IVec3(command, 2)[i] \in IntRange
    BY <2>1, FormOfEntitySetTile, IVec3Ints
  <2>3. Exactly(Incoming(IVec3(command, 2))) \in Place
    BY <2>2, IncomingIsTile, ExactlyIsPlace DEF GameTypeOK
  <2>4. QED
    BY <2>1, <2>3, PlayerMoves, GameStays DEF EntitySet
<1>9. CASE UNCHANGED world
  BY <1>9, GameStays
<1>10. QED
  BY <1>1, <1>2, <1>3, <1>4, <1>5, <1>6, <1>7, <1>8, <1>9
     DEF Execute, Answer, Ignore, TurnDown, GetPos, GetTile, GetBlock, GetBlockWithData,
         GetHeight, Setting, PostChat, CameraMode, SetNormal, SetThirdPerson, SetFixed,
         SetCameraPos, BlockHits, ClearEvents, GetPlayerIds, EntityGetPos, EntityGetTile

LEMMA InvNext == DispatcherInv /\ [Next]_vars => DispatcherInv'
<1> SUFFICES ASSUME DispatcherInv, [Next]_vars PROVE DispatcherInv'
  OBVIOUS
<1>1. CASE Receive
  BY <1>1, GameAssumption, GameStays DEF Receive, DispatcherInv
<1>2. CASE Execute
  <2>1. GameTypeOK'
    BY <1>2, ExecuteKeepsTypes DEF DispatcherInv
  <2>2. command' = None
    BY <1>2 DEF Execute, Return, Answer, Obey, Ignore, TurnDown, GetPos, GetTile, SetPos, SetTile,
         GetBlock, GetBlockWithData, SetBlock, SetBlocks, GetHeight, SaveCheckpoint, RestoreCheckpoint,
         Setting, PostChat, CameraMode, SetNormal, SetThirdPerson, SetFixed, SetCameraPos,
         BlockHits, ClearEvents, GetPlayerIds, EntityGetPos, EntityGetTile,
         EntitySet, EntitySetPos, EntitySetTile
  <2>3. QED
    BY <2>1, <2>2 DEF DispatcherInv
<1>3. CASE Click
  <2>1. PICK p \in Cell : Game!Edit(p, Game!Air) \/ UNCHANGED world
    BY <1>3 DEF Click
  <2>2. Game!Seen(Game!Air) \in Block
    BY SeenIsBlock DEF Game!Air
  <2>3. GameTypeOK'
    BY <2>1, <2>2, BlockChanges, GameStays DEF DispatcherInv
  <2>4. QED
    BY <1>3, <2>3 DEF Click, Turn, DispatcherInv
<1>4. CASE MovePlayer
  <2>1. GameTypeOK'
    BY <1>4, GameAssumption, PlayerMoves DEF MovePlayer, DispatcherInv
  <2>2. QED
    BY <1>4, <2>1 DEF MovePlayer, Turn, DispatcherInv
<1>5. CASE ReplaceWorld
  BY <1>5, GameAssumption DEF ReplaceWorld, Turn, DispatcherInv, GameTypeOK
<1>6. CASE UNCHANGED vars
  BY <1>6 DEF vars, world, DispatcherInv, GameTypeOK
<1>7. QED
  BY <1>1, <1>2, <1>3, <1>4, <1>5, <1>6 DEF Next

LEMMA SpecInv == Spec => []DispatcherInv
BY InvInit, InvNext, PTL DEF Spec

-----------------------------------------------------------------------------
(* Blocks and their positions in the API.                                  *)

LEMMA CellsAreTiles ==
    ASSUME NEW p \in Cell
    PROVE  /\ p = [i \in 1..3 |-> p[i]]
           /\ \A i \in 1..3 : p[i] \in 0..WorldMax[i] /\ p[i] \in IntRange /\ p[i] < MaxInt
<1>1. p = [i \in 1..3 |-> p[i]]
  BY DEF Cell
<1>2. p[1] \in 0..WorldMax[1] /\ p[2] \in 0..WorldMax[2] /\ p[3] \in 0..WorldMax[3]
  BY DEF Cell
<1>3. \A i \in 1..3 : p[i] \in 0..WorldMax[i]
  BY <1>2
<1>4. QED
  BY <1>1, <1>3, NumeralsAssumption, GameAssumption DEF IntRange, MinInt

LEMMA TilesInCell ==
    ASSUME NEW tile, tile = [i \in 1..3 |-> tile[i]], \A i \in 1..3 : tile[i] \in 0..WorldMax[i]
    PROVE  tile \in Cell
BY DEF Cell

LEMMA SpawnIsInt ==
    ASSUME DispatcherInv, NEW i \in 1..3
    PROVE  self.spawn[i] \in IntRange /\ self.spawn[i] \in Int
BY DEF DispatcherInv, GameTypeOK, Tile, IntRange

\* incoming and outgoing are inverse to each other.
LEMMA PositionNamesBlock ==
    ASSUME DispatcherInv, NEW p \in Cell,
           NEW api, api = [i \in 1..3 |-> api[i]], \A i \in 1..3 : api[i] \in IntRange
    PROVE  Incoming(api) = p <=> Outgoing(p) = api
<1>1. p = [i \in 1..3 |-> p[i]] /\ \A i \in 1..3 : p[i] \in IntRange
  BY CellsAreTiles
<1>2. ASSUME Incoming(api) = p PROVE Outgoing(p) = api
  <2>1. \A i \in 1..3 : p[i] = Wrap(api[i] + self.spawn[i])
    BY <1>2 DEF Incoming
  <2>2. \A i \in 1..3 : Wrap(p[i] - self.spawn[i]) = api[i]
    BY <2>1, SpawnIsInt, ThereAndBack
  <2>3. QED
    BY <2>2 DEF Outgoing
<1>3. ASSUME Outgoing(p) = api PROVE Incoming(api) = p
  <2>1. \A i \in 1..3 : api[i] = Wrap(p[i] - self.spawn[i])
    BY <1>3 DEF Outgoing
  <2>2. \A i \in 1..3 : Wrap(api[i] + self.spawn[i]) = p[i]
    BY <1>1, <2>1, SpawnIsInt, ThereAndBack
  <2>3. QED
    BY <1>1, <2>2 DEF Incoming
<1>4. QED
  BY <1>2, <1>3

\* Two tiles have two positions.
LEMMA OutgoingIsInjective ==
    ASSUME DispatcherInv, NEW p \in Cell, NEW tile, \A i \in 1..3 : tile[i] \in IntRange
    PROVE  Outgoing(p) = Outgoing(tile) <=> \A i \in 1..3 : p[i] = tile[i]
<1>1. \A i \in 1..3 : p[i] \in IntRange
  BY CellsAreTiles
<1>2. ASSUME Outgoing(p) = Outgoing(tile), NEW i \in 1..3 PROVE p[i] = tile[i]
  <2>1. Wrap(p[i] - self.spawn[i]) = Wrap(tile[i] - self.spawn[i])
    BY <1>2 DEF Outgoing
  <2>2. Wrap(Wrap(p[i] - self.spawn[i]) + self.spawn[i]) = p[i]
    BY <1>1, SpawnIsInt, ThereAndBack
  <2>3. Wrap(Wrap(tile[i] - self.spawn[i]) + self.spawn[i]) = tile[i]
    BY SpawnIsInt, ThereAndBack
  <2>4. QED
    BY <2>1, <2>2, <2>3
<1>3. QED
  BY <1>2 DEF Outgoing

\* The casts of a position name the block it is in, and no other block,
\* whatever they make of what is beyond int.
LEMMA CastNamesBlock ==
    ASSUME DispatcherInv, NEW p \in Cell, NEW tile \in Tiles(self.player)
    PROVE  /\ \A i \in 1..3 : tile[i] \in IntRange
           /\ (\A i \in 1..3 : p[i] = tile[i]) <=> Inside(self.player, p)
<1>1. \A i \in 1..3 : self.player[i] \in Int
  BY DEF DispatcherInv, GameTypeOK, Place
<1>2. \A i \in 1..3 : tile[i] \in Cast(Below(self.player[i]))
  BY DEF Tiles
<1>3. ASSUME NEW i \in 1..3
      PROVE  /\ tile[i] \in IntRange
             /\ p[i] = tile[i] <=> 2 * p[i] <= self.player[i] /\ self.player[i] < 2 * p[i] + 2
  <2> DEFINE n == Below(self.player[i])
  <2>1. n \in Int /\ 2 * n <= self.player[i] /\ self.player[i] < 2 * n + 2
    BY <1>1 DEF Below
  <2>2. p[i] \in IntRange /\ p[i] \in Int /\ 0 <= p[i] /\ p[i] < MaxInt
    BY CellsAreTiles, GameAssumption DEF IntRange
  <2>3. tile[i] \in Cast(n)
    BY <1>2
  <2> HIDE DEF n
  <2>4. p[i] = n <=> 2 * p[i] <= self.player[i] /\ self.player[i] < 2 * p[i] + 2
    BY <1>1, <2>1, <2>2
  <2>5. CASE n \in IntRange
    BY <2>3, <2>4, <2>5 DEF Cast
  <2>6. CASE n \notin IntRange
    <3>1. tile[i] \in {MinInt, MaxInt}
      BY <2>3, <2>6 DEF Cast
    <3>2. tile[i] \in IntRange /\ p[i] # tile[i] /\ p[i] # n
      BY <2>2, <2>6, <3>1, NumeralsAssumption DEF IntRange, MinInt
    <3>3. QED
      BY <2>4, <3>2
  <2>7. QED
    BY <2>5, <2>6
<1>4. QED
  BY <1>3 DEF Inside

\* The block whose position is given is the one the tile is put into.
LEMMA ExactlyIsInside ==
    ASSUME NEW p \in Cell
    PROVE  Inside(Exactly(p), p)
BY CellsAreTiles DEF Inside, Exactly, IntRange

-----------------------------------------------------------------------------
\* Only dispatch takes a command.
LEMMA DispatchedByExecute ==
    ASSUME DispatcherInv, [Next]_vars, Dispatched
    PROVE  Execute
BY DEF Next, vars, Dispatched, DispatcherInv, Receive, Click, MovePlayer, ReplaceWorld, Turn

LEMMA WriteAnswersName ==
    ASSUME DispatcherInv, Execute, NEW p \in Cell
    PROVE  WritesWhatIsNamed(p)
<1> SUFFICES ASSUME Is({"world.setBlock"})
             PROVE  blocks'[p] = IF Outgoing(p) = IVec3(command, 1)
                                 THEN Game!Seen(BlockFrom(4)) ELSE blocks[p]
  BY DEF WritesWhatIsNamed
<1> DEFINE api == IVec3(command, 1)
<1>1. SetBlock
  BY BranchOfSetBlock
<1>2. api = [i \in 1..3 |-> api[i]]
  BY DEF IVec3
<1>3. \A i \in 1..3 : api[i] \in IntRange
  BY FormOfSetBlock, IVec3Ints
<1>4. blocks \in [Cell -> Block]
  BY DEF DispatcherInv, GameTypeOK
<1>5. IF Incoming(api) \in Cell THEN Game!Edit(Incoming(api), BlockFrom(4)) ELSE UNCHANGED world
  BY <1>1 DEF SetBlock
<1> HIDE DEF api
<1>6. Incoming(api) = p <=> Outgoing(p) = api
  BY <1>2, <1>3, PositionNamesBlock
<1>7. CASE Incoming(api) \in Cell
  BY <1>4, <1>5, <1>6, <1>7 DEF Game!Edit, api
<1>8. CASE Incoming(api) \notin Cell
  BY <1>5, <1>6, <1>8 DEF world, api
<1>9. QED
  BY <1>7, <1>8

LEMMA ReadAnswersName ==
    ASSUME DispatcherInv, Execute, NEW p \in Cell
    PROVE  ReadsWhatIsNamed(p)
<1> SUFFICES ASSUME Is({"world.getBlock", "world.getBlockWithData"}),
                    Outgoing(p) = IVec3(command, 1)
             PROVE  reply'[1] = blocks[p].id
  BY DEF ReadsWhatIsNamed
<1> DEFINE api == IVec3(command, 1)
<1>1. GetBlock \/ GetBlockWithData
  BY BranchOfGetBlock
<1>2. api = [i \in 1..3 |-> api[i]]
  BY DEF IVec3
<1>3. \A i \in 1..3 : api[i] \in IntRange
  BY FormOfGetBlock, IVec3Ints
<1>4. Incoming(IVec3(command, 1)) = p
  BY <1>2, <1>3, PositionNamesBlock
<1>5. BlockAt(Incoming(IVec3(command, 1))) = blocks[p]
  BY <1>4 DEF BlockAt
<1>6. QED
  BY <1>1, <1>5 DEF GetBlock, GetBlockWithData, Answer, Return

LEMMA TileIsTheBlockInside ==
    ASSUME DispatcherInv, Execute, NEW p \in Cell
    PROVE  FindsThePlayer(p)
<1> SUFFICES ASSUME Is({"player.getTile"})
             PROVE  Outgoing(p) = reply' <=> Inside(self.player, p)
  BY DEF FindsThePlayer
<1>1. PICK tile \in Tiles(self.player) : reply' = Outgoing(tile)
  BY BranchOfGetTile DEF GetTile, Answer, Return
<1>2. QED
  BY <1>1, CastNamesBlock, OutgoingIsInjective

LEMMA PlayerIsPutInside ==
    ASSUME DispatcherInv, Execute, NEW p \in Cell
    PROVE  PutsThePlayer(p)
<1> SUFFICES ASSUME Is({"player.setTile"}), Outgoing(p) = IVec3(command, 1)
             PROVE  Inside(self'.player, p)
  BY DEF PutsThePlayer
<1> DEFINE api == IVec3(command, 1)
<1>1. api = [i \in 1..3 |-> api[i]]
  BY DEF IVec3
<1>2. \A i \in 1..3 : api[i] \in IntRange
  BY FormOfSetTile, IVec3Ints
<1>3. Incoming(IVec3(command, 1)) = p
  BY <1>1, <1>2, PositionNamesBlock
<1>4. self'.player = Exactly(p)
  BY <1>3, BranchOfSetTile DEF SetTile, SetPlayer, DispatcherInv, GameTypeOK
<1>5. QED
  BY <1>4, ExactlyIsInside

\* One block of the world has one position in the API: OneBlockOnePosition of
\* the run, for any width of int, any world smaller than that and any spawn,
\* also one so far out that the sums of incoming and outgoing wrap.
THEOREM OneBlockHasOnePosition == Spec => OneBlockOnePosition
<1>1. DispatcherInv /\ [Next]_vars =>
          (Dispatched => \A p \in Cell : /\ WritesWhatIsNamed(p) /\ ReadsWhatIsNamed(p)
                                       /\ FindsThePlayer(p) /\ PutsThePlayer(p))
  BY DispatchedByExecute, WriteAnswersName, ReadAnswersName, TileIsTheBlockInside,
     PlayerIsPutInside
<1>2. QED
  BY <1>1, SpecInv, PTL DEF Spec, OneBlockOnePosition

-----------------------------------------------------------------------------
LEMMA EndsOfTwo ==
    ASSUME NEW x \in Int, NEW y \in Int
    PROVE  /\ Min({x, y}) = IF x <= y THEN x ELSE y
           /\ Max({x, y}) = IF x <= y THEN y ELSE x
BY DEF Min, Max

\* The region between two positions that do not wrap.
LEMMA RegionIsBetween ==
    ASSUME DispatcherInv, NEW a, NEW b, Sums(a), Sums(b),
           \A i \in 1..3 : a[i] \in Int /\ b[i] \in Int
    PROVE  Region(Incoming(a), Incoming(b)) = Between(a, b)
<1>1. ASSUME NEW i \in 1..3
      PROVE  Incoming(a)[i] = a[i] + self.spawn[i] /\ Incoming(b)[i] = b[i] + self.spawn[i]
  BY WrapKeepsInts DEF Incoming, Sums
<1>2. ASSUME NEW i \in 1..3, NEW n \in Int
      PROVE  /\ Min({Incoming(a)[i], Incoming(b)[i]}) <= n <=> Min({a[i], b[i]}) <= n - self.spawn[i]
             /\ n <= Max({Incoming(a)[i], Incoming(b)[i]}) <=> n - self.spawn[i] <= Max({a[i], b[i]})
  <2> DEFINE s == self.spawn[i]
  <2>1. s \in Int /\ a[i] \in Int /\ b[i] \in Int
    BY SpawnIsInt
  <2> HIDE DEF s
  <2>2. a[i] + s \in Int /\ b[i] + s \in Int
    BY <2>1
  <2>3. /\ Min({a[i] + s, b[i] + s}) = IF a[i] + s <= b[i] + s THEN a[i] + s ELSE b[i] + s
        /\ Max({a[i] + s, b[i] + s}) = IF a[i] + s <= b[i] + s THEN b[i] + s ELSE a[i] + s
    BY <2>2, EndsOfTwo
  <2>4. /\ Min({a[i], b[i]}) = IF a[i] <= b[i] THEN a[i] ELSE b[i]
        /\ Max({a[i], b[i]}) = IF a[i] <= b[i] THEN b[i] ELSE a[i]
    BY <2>1, EndsOfTwo
  <2>5. /\ Min({a[i] + s, b[i] + s}) <= n <=> Min({a[i], b[i]}) <= n - s
        /\ n <= Max({a[i] + s, b[i] + s}) <=> n - s <= Max({a[i], b[i]})
    BY <2>1, <2>3, <2>4
  <2>6. QED
    BY <1>1, <2>5 DEF s
<1>3. \A p \in Cell, i \in 1..3 : p[i] \in Int
  BY CellsAreTiles DEF IntRange
<1>4. QED
  BY <1>2, <1>3 DEF Region, Between

\* set_blocks fills the blocks between its two positions and no other, unless
\* one of them wraps: FillsTheNamedRegion of the run.
THEOREM FillIsTheNamedRegion == Spec => FillsTheNamedRegion
<1>1. DispatcherInv /\ [Next]_vars =>
          (Dispatched /\ Is({"world.setBlocks"}) =>
               FillsWhatIsNamed(IVec3(command, 1), IVec3(command, 4)))
  <2> SUFFICES ASSUME DispatcherInv, [Next]_vars, Dispatched, Is({"world.setBlocks"}),
                      Sums(IVec3(command, 1)), Sums(IVec3(command, 4))
               PROVE  blocks' = [p \in Cell |-> IF p \in Between(IVec3(command, 1), IVec3(command, 4))
                                                THEN Game!Seen(BlockFrom(7)) ELSE blocks[p]]
    BY DEF FillsWhatIsNamed
  <2> DEFINE a == IVec3(command, 1)
             b == IVec3(command, 4)
  <2>1. Game!Fill(Region(Incoming(a), Incoming(b)), BlockFrom(7))
    BY DispatchedByExecute, BranchOfSetBlocks DEF SetBlocks
  <2>2. \A i \in 1..3 : a[i] \in Int /\ b[i] \in Int
    BY FormOfSetBlocks, IVec3Ints DEF IntRange
  <2>3. Region(Incoming(a), Incoming(b)) = Between(a, b)
    BY <2>2, RegionIsBetween
  <2>4. QED
    BY <2>1, <2>3 DEF Game!Fill
<1>2. QED
  BY <1>1, SpecInv, PTL DEF Spec, FillsTheNamedRegion
-----------------------------------------------------------------------------
(* The queue of hits.                                                      *)

LEMMA ThreeInARow ==
    ASSUME NEW positions \in Seq([1..3 -> Int])
    PROVE  /\ InARow(positions) \in Seq(Int)
           /\ Len(InARow(positions)) = 3 * Len(positions)
           /\ \A i \in DOMAIN positions : \A axis \in 1..3 :
                 SubSeq(InARow(positions), 3 * i - 2, 3 * i)[axis] = positions[i][axis]
<1> DEFINE n == Len(positions)
           number(k) == positions[(k + 2) \div 3][((k + 2) % 3) + 1]
<1>1. n \in Nat /\ DOMAIN positions = 1..n /\ \A i \in 1..n : positions[i] \in [1..3 -> Int]
  BY LenProperties, ElementOfSeq
<1>2. InARow(positions) = [k \in 1..(3 * n) |-> number(k)]
  BY DEF InARow
<1> HIDE DEF n
<1>3. ASSUME NEW k \in 1..(3 * n) PROVE number(k) \in Int
  <2>1. (k + 2) \div 3 \in 1..n /\ ((k + 2) % 3) + 1 \in 1..3
    BY <1>1
  <2>2. QED
    BY <1>1, <2>1
<1>4. InARow(positions) \in Seq(Int) /\ Len(InARow(positions)) = 3 * n
  <2>1. InARow(positions) \in [1..(3 * n) -> Int]
    BY <1>2, <1>3
  <2> DEFINE m == 3 * n
  <2>2. m \in Nat
    BY <1>1
  <2>3. InARow(positions) \in [1..m -> Int]
    BY <2>1 DEF m
  <2> HIDE DEF m
  <2>4. InARow(positions) \in Seq(Int) /\ Len(InARow(positions)) = m
    BY <2>2, <2>3
  <2>5. QED
    BY <2>4 DEF m
<1>5. ASSUME NEW i \in 1..n, NEW axis \in 1..3
      PROVE  SubSeq(InARow(positions), 3 * i - 2, 3 * i)[axis] = positions[i][axis]
  <2> DEFINE k == 3 * i - 3 + axis
  <2>1. /\ k \in 1..(3 * n) /\ (k + 2) \div 3 = i /\ (k + 2) % 3 = axis - 1
        /\ 3 * i - 2 \in 1..(3 * n + 1) /\ 3 * i \in 0..(3 * n)
    BY <1>1
  <2>2. number(k) = positions[i][axis]
    <3>1. ((k + 2) % 3) + 1 = axis
      BY <2>1
    <3>2. QED
      BY <2>1, <3>1
  <2>3. InARow(positions)[k] = positions[i][axis]
    BY <1>2, <2>1, <2>2
  <2>4. SubSeq(InARow(positions), 3 * i - 2, 3 * i)[axis] = InARow(positions)[k]
    <3>1. 3 * i - 2 <= 3 * i /\ axis \in 1..(3 * i - (3 * i - 2) + 1)
          /\ (3 * i - 2) + axis - 1 = k
      OBVIOUS
    <3>2. QED
      BY <1>4, <2>1, <3>1, SubSeqProperties
  <2>5. QED
    BY <2>3, <2>4
<1>6. QED
  BY <1>1, <1>4, <1>5 DEF n

HitsInv == DispatcherInv /\ hits \in Seq(Cell)

\* Only two commands take hits from the queue, and no command adds one.
LEMMA CommandsKeepHits ==
    ASSUME Execute, hits' # hits
    PROVE  BlockHits \/ ClearEvents
BY DEF Execute, Answer, Ignore, TurnDown, GetPos, GetTile, SetPos, SetTile, GetBlock,
       GetBlockWithData, SetBlock, SetBlocks, GetHeight, SaveCheckpoint, RestoreCheckpoint,
       Setting, PostChat, CameraMode, SetNormal, SetThirdPerson, SetFixed, SetCameraPos,
       GetPlayerIds, EntityGetPos, EntityGetTile, EntitySet, EntitySetPos, EntitySetTile, rest

LEMMA HitsNext == HitsInv /\ [Next]_vars => HitsInv'
<1> SUFFICES ASSUME HitsInv, [Next]_vars PROVE HitsInv'
  OBVIOUS
<1>1. DispatcherInv'
  BY InvNext DEF HitsInv
<1>2. hits \in Seq(Cell) /\ <<>> \in Seq(Cell)
  BY DEF HitsInv
<1>3. CASE Receive
  BY <1>1, <1>2, <1>3 DEF Receive, rest, HitsInv
<1>4. CASE Execute
  BY <1>1, <1>2, <1>4, CommandsKeepHits DEF BlockHits, ClearEvents, HitsInv
<1>5. CASE Click
  BY <1>1, <1>2, <1>5 DEF Click, HitsInv
<1>6. CASE MovePlayer
  BY <1>1, <1>2, <1>6 DEF MovePlayer, rest, HitsInv
<1>7. CASE ReplaceWorld
  BY <1>1, <1>2, <1>7 DEF ReplaceWorld, HitsInv
<1>8. CASE UNCHANGED vars
  BY <1>1, <1>2, <1>8 DEF vars, rest, HitsInv
<1>9. QED
  BY <1>3, <1>4, <1>5, <1>6, <1>7, <1>8 DEF Next

LEMMA SpecHits == Spec => []HitsInv
<1>1. Init => HitsInv
  BY InvInit DEF Init, HitsInv
<1>2. QED
  BY <1>1, HitsNext, PTL DEF Spec

\* A poll is answered with the positions of the hits, in their order.
LEMMA PollAnswersHits ==
    ASSUME HitsInv, BlockHits
    PROVE  /\ reply' \in Seq(Int) /\ reply' \notin {Fail, Silent}
           /\ Len(reply') = 3 * Len(hits)
           /\ \A i \in DOMAIN hits : Incoming(SubSeq(reply', 3 * i - 2, 3 * i)) = hits[i]
<1> DEFINE positions == [i \in DOMAIN hits |-> Outgoing(hits[i])]
<1>1. Len(hits) \in Nat /\ DOMAIN hits = 1..Len(hits) /\ \A i \in DOMAIN hits : hits[i] \in Cell
  BY LenProperties, ElementOfSeq DEF HitsInv
<1>2. ASSUME NEW i \in DOMAIN hits
      PROVE  /\ Outgoing(hits[i]) \in [1..3 -> Int]
             /\ \A axis \in 1..3 :
                   Wrap(Outgoing(hits[i])[axis] + self.spawn[axis]) = hits[i][axis]
  <2>1. /\ hits[i] = [axis \in 1..3 |-> hits[i][axis]]
        /\ \A axis \in 1..3 : hits[i][axis] \in IntRange
    BY <1>1, CellsAreTiles
  <2>2. \A axis \in 1..3 : hits[i][axis] - self.spawn[axis] \in Int
    BY <2>1, SpawnIsInt DEF HitsInv, IntRange
  <2>3. \A axis \in 1..3 : Outgoing(hits[i])[axis] = Wrap(hits[i][axis] - self.spawn[axis])
    BY DEF Outgoing
  <2>4. \A axis \in 1..3 : Wrap(hits[i][axis] - self.spawn[axis]) \in IntRange
    BY <2>2, WrapIsInt
  <2>5. Outgoing(hits[i]) \in [1..3 -> Int]
    BY <2>4 DEF Outgoing, IntRange
  <2>6. QED
    BY <2>1, <2>3, <2>5, SpawnIsInt, ThereAndBack, ZenonT(30) DEF HitsInv
<1>3. positions \in Seq([1..3 -> Int]) /\ Len(positions) = Len(hits)
  BY <1>1, <1>2
<1>4. reply' = InARow(positions)
  BY DEF BlockHits, Return
<1>5. /\ reply' \in Seq(Int) /\ Len(reply') = 3 * Len(hits)
      /\ \A i \in DOMAIN hits : \A axis \in 1..3 :
            SubSeq(reply', 3 * i - 2, 3 * i)[axis] = Outgoing(hits[i])[axis]
  <2>1. DOMAIN positions = DOMAIN hits /\ \A i \in DOMAIN hits : positions[i] = Outgoing(hits[i])
    OBVIOUS
  <2> HIDE DEF positions
  <2> DEFINE row == InARow(positions)
  <2>2. /\ row \in Seq(Int) /\ Len(row) = 3 * Len(hits)
        /\ \A i \in DOMAIN hits : \A axis \in 1..3 :
              SubSeq(row, 3 * i - 2, 3 * i)[axis] = positions[i][axis]
    BY <1>3, <2>1, ThreeInARow
  <2> HIDE DEF row
  <2>3. reply' = row
    BY <1>4 DEF row
  <2>4. QED
    BY <2>1, <2>2, <2>3
<1>6. ASSUME NEW i \in DOMAIN hits
      PROVE  Incoming(SubSeq(reply', 3 * i - 2, 3 * i)) = hits[i]
  <2>1. hits[i] = [axis \in 1..3 |-> hits[i][axis]]
    BY <1>1, CellsAreTiles
  <2> DEFINE answer == SubSeq(reply', 3 * i - 2, 3 * i)
  <2>2. \A axis \in 1..3 : answer[axis] = Outgoing(hits[i])[axis]
    BY <1>5
  <2> HIDE DEF answer
  <2>3. \A axis \in 1..3 : Wrap(answer[axis] + self.spawn[axis]) = hits[i][axis]
    BY <1>2, <2>2
  <2>4. Incoming(answer) = hits[i]
    BY <2>1, <2>3 DEF Incoming
  <2>5. QED
    BY <2>4 DEF answer
<1>7. QED
  BY <1>5, <1>6, AnswersAssumption

\* A hit leaves the queue by a poll that answers with it, on request or with
\* its world: for every width of int, every spawn, and any number of hits.
THEOREM HitsReachAPoll == Spec => NoHitIsLost
<1>1. ASSUME HitsInv, [Next]_vars, hits' # hits
      PROVE  \/ \E p \in Cell : hits' = Append(hits, p)
             \/ /\ hits' = <<>> /\ Dispatched
                /\ \/ Is({"events.clear"})
                   \/ /\ reply' \notin {Fail, Silent} /\ Len(reply') = 3 * Len(hits)
                      /\ \A i \in DOMAIN hits :
                             Incoming(SubSeq(reply', 3 * i - 2, 3 * i)) = hits[i]
             \/ hits' = <<>> /\ chat' = <<>> /\ marked' = None /\ line' = line
  <2>1. CASE BlockHits
    BY <1>1, <2>1, PollAnswersHits DEF BlockHits, Return, Is, Dispatched
  <2>2. CASE ClearEvents
    BY <1>1, <2>2 DEF ClearEvents, Obey, Return, Is, Dispatched
  <2>3. CASE Execute
    BY <1>1, <2>1, <2>2, <2>3, CommandsKeepHits
  <2>4. CASE Click
    BY <2>4 DEF Click
  <2>5. CASE ReplaceWorld
    BY <1>1, <2>5 DEF ReplaceWorld, Turn
  <2>6. QED
    BY <1>1, <2>3, <2>4, <2>5 DEF Next, Receive, MovePlayer, rest, vars
<1>2. HitsInv /\ [Next]_vars =>
        [ hits' # hits =>
            \/ \E p \in Cell : hits' = Append(hits, p)
            \/ /\ hits' = <<>> /\ Dispatched
               /\ \/ Is({"events.clear"})
                  \/ /\ reply' \notin {Fail, Silent} /\ Len(reply') = 3 * Len(hits)
                     /\ \A i \in DOMAIN hits :
                            Incoming(SubSeq(reply', 3 * i - 2, 3 * i)) = hits[i]
            \/ hits' = <<>> /\ chat' = <<>> /\ marked' = None /\ line' = line ]_vars
  BY <1>1
<1>3. QED
  BY <1>2, SpecHits, PTL DEF Spec, NoHitIsLost
-----------------------------------------------------------------------------
(* What is answered, and what is not.                                      *)

Asking == {"player.getPos", "player.getTile", "events.block.hits", "world.getPlayerIds",
           "world.getBlock", "world.getBlockWithData", "world.getHeight",
           "entity.getPos", "entity.getTile"}

LEMMA QueriesByName == IsQuery(command) <=> \E name \in Asking : IsCall(command, name)
<1>1. ASSUME IsQuery(command) PROVE \E name \in Asking : IsCall(command, name)
  BY <1>1 DEF IsQuery, Queries, Taking, Asking
<1>2. ASSUME NEW name \in Asking PROVE \E form \in Queries : form[1] = name
  <2>1. CASE name \in {"player.getPos", "player.getTile", "events.block.hits", "world.getPlayerIds"}
    <3>1. <<name, <<>>>> \in Queries
      BY <2>1 DEF Queries, Taking
    <3>2. QED
      BY <3>1
  <2>2. CASE name \in {"world.getBlock", "world.getBlockWithData"}
    <3>1. <<name, Ints(3)>> \in Queries
      BY <2>2 DEF Queries, Taking
    <3>2. QED
      BY <3>1
  <2>3. CASE name = "world.getHeight"
    <3>1. <<name, Ints(2)>> \in Queries
      BY <2>3 DEF Queries, Taking
    <3>2. QED
      BY <3>1
  <2>4. CASE name \in {"entity.getPos", "entity.getTile"}
    <3>1. <<name, Ints(1)>> \in Queries
      BY <2>4 DEF Queries, Taking
    <3>2. QED
      BY <3>1
  <2>5. QED
    BY <2>1, <2>2, <2>3, <2>4 DEF Asking
<1>3. QED
  BY <1>1, <1>2 DEF IsQuery

LEMMA AskingIsQuery ==
    ASSUME NEW names \in SUBSET Asking, Is(names)
    PROVE  IsQuery(command)
BY QueriesByName DEF Is

LEMMA DoingIsNoQuery ==
    ASSUME NEW names, Is(names), names \cap Asking = {}
    PROVE  ~IsQuery(command)
BY QueriesByName DEF Is, IsCall

\* Three numbers are an answer.
LEMMA PositionsAreNumbers ==
    /\ [1..3 -> Int] \subseteq Seq(Int)
    /\ \A n, m \in Int : <<n>> \in Seq(Int) /\ <<n, m>> \in Seq(Int)
<1>1. ASSUME NEW position \in [1..3 -> Int] PROVE position \in Seq(Int)
  <2>1. 3 \in Nat
    OBVIOUS
  <2>2. QED
    BY <2>1, SeqDef
<1>2. \A n, m \in Int : <<n>> \in Seq(Int) /\ <<n, m>> \in Seq(Int)
  OBVIOUS
<1>3. QED
  BY <1>1, <1>2

LEMMA PlayerIsAnswered ==
    ASSUME DispatcherInv
    PROVE  /\ OutgoingExact(self.player) \in Seq(Int)
           /\ \A tile \in Tiles(self.player) : Outgoing(tile) \in Seq(Int)
<1>1. \A i \in 1..3 : self.spawn[i] \in Int /\ self.player[i] \in Int
  BY DEF DispatcherInv, GameTypeOK, Tile, Place, IntRange
<1>2. OutgoingExact(self.player) \in [1..3 -> Int]
  BY <1>1 DEF OutgoingExact
<1>3. ASSUME NEW tile \in Tiles(self.player) PROVE Outgoing(tile) \in [1..3 -> Int]
  <2>1. \A i \in 1..3 : tile[i] \in Cast(Below(self.player[i]))
    BY DEF Tiles
  <2>2. \A i \in 1..3 : Below(self.player[i]) \in Int
    BY <1>1 DEF Below
  <2>3. \A n \in Int : Cast(n) \subseteq Int
    BY NumeralsAssumption DEF Cast, IntRange, MinInt
  <2>4. \A i \in 1..3 : tile[i] - self.spawn[i] \in Int
    BY <1>1, <2>1, <2>2, <2>3
  <2>5. \A i \in 1..3 : Wrap(tile[i] - self.spawn[i]) \in Int
    BY <2>4, WrapIsInt DEF IntRange
  <2>6. QED
    BY <2>5 DEF Outgoing
<1>4. QED
  BY <1>2, <1>3, PositionsAreNumbers

LEMMA BlocksAreNumbers ==
    ASSUME DispatcherInv, NEW p
    PROVE  BlockAt(p).id \in Int /\ BlockAt(p).data \in Int
BY DEF DispatcherInv, GameTypeOK, Block, BlockAt, Game!Air

\* A set of naturals with a bound that is not empty has a maximum.
LEMMA MaxOfBounded ==
    ASSUME NEW top \in Nat, NEW T, T \subseteq 0..top, T # {}
    PROVE  Max(T) \in T
<1> DEFINE N == {n \in Nat : top - n \in T}
<1>1. N # {}
  <2>1. PICK i \in T : TRUE
    OBVIOUS
  <2>2. top - i \in Nat /\ top - (top - i) = i
    OBVIOUS
  <2>3. QED
    BY <2>2
<1>2. PICK m \in N : \A n \in N : ~ (<<n, m>> \in OpToRel(<, Nat))
  BY <1>1, NatLessThanWellFounded, WFMin
<1>3. ASSUME NEW i \in T PROVE top - m >= i
  <2>1. top - i \in Nat /\ top - (top - i) = i
    OBVIOUS
  <2>2. ~ (top - i < m)
    BY <1>2, <2>1 DEF OpToRel
  <2>3. QED
    BY <2>1, <2>2
<1>4. QED
  BY <1>2, <1>3 DEF Max

LEMMA HeightIsAnswered ==
    ASSUME DispatcherInv, NEW x, NEW z
    PROVE  Wrap(HeightAt(x, z) - self.spawn[2]) \in Int
<1> DEFINE levels == {0} \cup {p[2] + 1 : p \in {q \in Cell : /\ q[1] = x /\ q[3] = z
                                                            /\ blocks[q].id # 0}}
           top == WorldMax[2] + 1
<1>1. top \in Nat /\ levels \subseteq 0..top
  <2>1. WorldMax[2] \in Nat
    BY GameAssumption
  <2>2. \A p \in Cell : p[2] \in 0..WorldMax[2]
    BY DEF Cell
  <2>3. QED
    BY <2>1, <2>2
<1>2. levels # {}
  OBVIOUS
<1>3. HeightAt(x, z) = Max(levels)
  BY DEF HeightAt
<1> HIDE DEF levels, top
<1>4. HeightAt(x, z) \in Int
  <2>1. Max(levels) \in levels
    BY <1>1, <1>2, MaxOfBounded
  <2>2. 0..top \subseteq Int
    BY <1>1
  <2>3. QED
    BY <1>1, <1>3, <2>1, <2>2
<1>5. HeightAt(x, z) - self.spawn[2] \in Int
  BY <1>4, SpawnIsInt
<1>6. QED
  BY <1>5, WrapIsInt DEF IntRange

\* A query is answered with numbers, or with Fail when there is no such
\* entity, which changes nothing.
LEMMA QueriesAnswer ==
    ASSUME HitsInv,
           \/ GetPos \/ GetTile \/ GetBlock \/ GetBlockWithData \/ GetHeight
           \/ BlockHits \/ GetPlayerIds \/ EntityGetPos \/ EntityGetTile
    PROVE  /\ IsQuery(command)
           /\ reply' \in Seq(Int) \/ (reply' = Fail /\ UNCHANGED <<world, rest>>)
<1>1. IsQuery(command)
  BY AskingIsQuery DEF Asking, GetPos, GetTile, GetBlock, GetBlockWithData, GetHeight, BlockHits,
     GetPlayerIds, EntityGetPos, EntityGetTile
<1>2. DispatcherInv
  BY DEF HitsInv
<1>3. CASE GetPos
  BY <1>1, <1>2, <1>3, PlayerIsAnswered DEF GetPos, Answer, Return
<1>4. CASE GetTile
  BY <1>1, <1>2, <1>4, PlayerIsAnswered DEF GetTile, Answer, Return
<1>5. CASE GetBlock
  BY <1>1, <1>2, <1>5, BlocksAreNumbers, PositionsAreNumbers DEF GetBlock, Answer, Return
<1>6. CASE GetBlockWithData
  BY <1>1, <1>2, <1>6, BlocksAreNumbers, PositionsAreNumbers DEF GetBlockWithData, Answer, Return
<1>7. CASE GetHeight
  BY <1>1, <1>2, <1>7, HeightIsAnswered, PositionsAreNumbers DEF GetHeight, Answer, Return
<1>8. CASE BlockHits
  BY <1>1, <1>8, PollAnswersHits
<1>9. CASE GetPlayerIds
  BY <1>1, <1>9, PositionsAreNumbers DEF GetPlayerIds, PlayerId, Answer, Return
<1>10. CASE EntityGetPos
  BY <1>1, <1>2, <1>10, PlayerIsAnswered DEF EntityGetPos, Answer, Return
<1>11. CASE EntityGetTile
  BY <1>1, <1>2, <1>11, PlayerIsAnswered DEF EntityGetTile, Answer, Return
<1>12. QED
  BY <1>1, <1>3, <1>4, <1>5, <1>6, <1>7, <1>8, <1>9, <1>10, <1>11

LEMMA OrdersAreSilent ==
    ASSUME \/ SetPos \/ SetTile \/ SetBlock \/ SetBlocks \/ SaveCheckpoint \/ RestoreCheckpoint
           \/ Setting \/ PostChat \/ SetNormal \/ SetThirdPerson \/ SetFixed \/ SetCameraPos
           \/ ClearEvents \/ EntitySetPos \/ EntitySetTile
    PROVE  ~IsQuery(command) /\ reply' = Silent
<1>1. ~IsQuery(command)
  BY DoingIsNoQuery DEF Asking, SetPos, SetTile, SetBlock, SetBlocks, SaveCheckpoint,
     RestoreCheckpoint, Setting, PostChat, SetNormal, SetThirdPerson, SetFixed, SetCameraPos,
     ClearEvents, EntitySetPos, EntitySetTile
<1>2. reply' = Silent
  BY DEF SetPos, SetTile, SetBlock, SetBlocks, SaveCheckpoint,
     RestoreCheckpoint, Setting, PostChat, CameraMode, SetNormal, SetThirdPerson, SetFixed,
     SetCameraPos, ClearEvents, EntitySet, EntitySetPos, EntitySetTile, Obey, Return
<1>3. QED
  BY <1>1, <1>2

\* A query is always answered and nothing else ever is, whatever the line;
\* what is answered with Fail has done nothing.
THEOREM AnswersAlwaysTheirKind == Spec => AnswersItsKind
<1>1. ASSUME HitsInv, [Next]_vars, Dispatched
      PROVE  /\ reply' # Silent <=> IsQuery(command)
             /\ reply' = Fail => UNCHANGED <<world, rest>>
  <2>1. Execute /\ command # None
    BY <1>1, DispatchedByExecute DEF HitsInv, Dispatched
  <2>2. CASE TurnDown
    BY <2>2, AnswersAssumption DEF TurnDown, Answer, Return
  <2>3. CASE \/ GetPos \/ GetTile \/ GetBlock \/ GetBlockWithData \/ GetHeight
             \/ BlockHits \/ GetPlayerIds \/ EntityGetPos \/ EntityGetTile
    BY <1>1, <2>3, QueriesAnswer, AnswersAssumption
  <2>4. CASE \/ SetPos \/ SetTile \/ SetBlock \/ SetBlocks \/ SaveCheckpoint \/ RestoreCheckpoint
             \/ Setting \/ PostChat \/ SetNormal \/ SetThirdPerson \/ SetFixed \/ SetCameraPos
             \/ ClearEvents \/ EntitySetPos \/ EntitySetTile
    BY <2>4, OrdersAreSilent, AnswersAssumption
  <2>5. QED
    BY <2>1, <2>2, <2>3, <2>4 DEF Execute, Ignore
<1>2. HitsInv /\ [Next]_vars =>
        [ Dispatched =>
            /\ reply' # Silent <=> IsQuery(command)
            /\ reply' = Fail => UNCHANGED <<world, rest>> ]_vars
  BY <1>1
<1>3. QED
  BY <1>2, SpecHits, PTL DEF Spec, AnswersItsKind
-----------------------------------------------------------------------------
(* The text of chat.post.                                                  *)

LEMMA MinIs ==
    ASSUME NEW T, T \subseteq Int, NEW m \in T, \A n \in T : m <= n
    PROVE  Min(T) = m
<1> DEFINE end == Min(T)
<1>1. end \in T /\ \A n \in T : end <= n
  BY DEF Min
<1> HIDE DEF end
<1>2. end <= m /\ m <= end /\ end \in Int /\ m \in Int
  BY <1>1
<1>3. end = m
  BY <1>2
<1>4. QED
  BY <1>3 DEF end

LEMMA MaxIs ==
    ASSUME NEW T, T \subseteq Int, NEW m \in T, \A n \in T : m >= n
    PROVE  Max(T) = m
<1> DEFINE end == Max(T)
<1>1. end \in T /\ \A n \in T : end >= n
  BY DEF Max
<1> HIDE DEF end
<1>2. end >= m /\ m >= end /\ end \in Int /\ m \in Int
  BY <1>1
<1>3. end = m
  BY <1>2
<1>4. QED
  BY <1>3 DEF end

\* What neither begins nor ends with a blank is left as it is.
LEMMA TrimKeeps ==
    ASSUME NEW text \in Seq(Tokens), text # <<>>, text[1] # Blank, text[Len(text)] # Blank
    PROVE  Trim(text) = text
<1> DEFINE solid == DOMAIN text \ Positions(text, Blank)
           n == Len(text)
<1>1. n \in Nat \ {0} /\ DOMAIN text = 1..n /\ Len(text) = n
  BY EmptySeq, LenProperties
<1> HIDE DEF n
<1>2. solid \subseteq 1..n /\ 1 \in solid /\ n \in solid
  <2>1. 1 \in 1..n /\ n \in 1..n
    BY <1>1
  <2>2. solid = {i \in 1..n : text[i] # Blank}
    BY <1>1 DEF Positions
  <2>3. QED
    BY <1>1, <2>1, <2>2
<1>3. Trim(text) = IF solid = {} THEN <<>> ELSE SubSeq(text, Min(solid), Max(solid))
  BY DEF Trim
<1>4. SubSeq(text, 1, n) = text
  <2>1. \A i \in 1..n : text[i] \in Tokens
    BY <1>1, ElementOfSeq
  <2>2. /\ SubSeq(text, 1, n) \in Seq(Tokens) /\ Len(SubSeq(text, 1, n)) = n
        /\ \A i \in 1..n : SubSeq(text, 1, n)[i] = text[i]
    <3>1. \A i \in 1..n : 1 + i - 1 = i
      BY <1>1
    <3>2. 1 \in Int /\ n \in Int /\ 1 <= n /\ n - 1 + 1 = n
      BY <1>1
    <3>3. /\ SubSeq(text, 1, n) \in Seq(Tokens) /\ Len(SubSeq(text, 1, n)) = n
          /\ \A i \in 1..n : SubSeq(text, 1, n)[i] = text[1 + i - 1]
      BY <2>1, <3>2, SubSeqProperties
    <3>4. QED
      BY <3>1, <3>3
  <2>3. QED
    BY <1>1, <2>2, SeqEqual
<1> HIDE DEF solid
<1>5. Min(solid) = 1 /\ Max(solid) = n
  <2>1. solid \subseteq Int /\ \A i \in solid : 1 <= i /\ n >= i
    BY <1>1, <1>2
  <2>2. QED
    BY <1>2, <2>1, MinIs, MaxIs
<1>6. QED
  BY <1>2, <1>3, <1>4, <1>5

LEMMA TokensDiffer == "chat.post" # Open /\ "chat.post" # Blank /\ Close # Blank
BY Zenon DEF Open, Close, Blank

\* The two ends of a call, around what is between them.
LEMMA BetweenTheEnds ==
    ASSUME NEW front \in Seq(Tokens), Len(front) = 2, NEW back \in Seq(Tokens), Len(back) = 1,
           NEW text \in Seq(Tokens)
    PROVE  LET post == (front \o text) \o back
           IN  /\ post \in Seq(Tokens) /\ Len(post) = Len(text) + 3
               /\ post[1] = front[1] /\ post[2] = front[2] /\ post[Len(text) + 3] = back[1]
<1> DEFINE post == (front \o text) \o back
           most == front \o text
           n == Len(text)
<1>1. n \in Nat
  BY LenProperties
<1>2. /\ most \in Seq(Tokens) /\ Len(most) = 2 + n
      /\ \A i \in 1..(2 + n) : most[i] = IF i <= 2 THEN front[i] ELSE text[i - 2]
  <2>1. /\ most \in Seq(Tokens) /\ Len(most) = Len(front) + Len(text)
        /\ \A i \in 1..Len(front) + Len(text) :
               most[i] = IF i <= Len(front) THEN front[i] ELSE text[i - Len(front)]
    BY ConcatProperties, Zenon
  <2>2. QED
    BY <2>1
<1>3. post = most \o back
  OBVIOUS
<1> HIDE DEF post, most, n
<1>4. /\ post \in Seq(Tokens) /\ Len(post) = (2 + n) + 1
      /\ \A i \in 1..((2 + n) + 1) : post[i] = IF i <= 2 + n THEN most[i] ELSE back[i - (2 + n)]
  <2>1. /\ post \in Seq(Tokens) /\ Len(post) = Len(most) + Len(back)
        /\ \A i \in 1..Len(most) + Len(back) :
               post[i] = IF i <= Len(most) THEN most[i] ELSE back[i - Len(most)]
    <3> DEFINE whole == most \o back
    <3>1. /\ whole \in Seq(Tokens) /\ Len(whole) = Len(most) + Len(back)
          /\ \A i \in 1..Len(most) + Len(back) :
                 whole[i] = IF i <= Len(most) THEN most[i] ELSE back[i - Len(most)]
      BY <1>2, ConcatProperties, Zenon
    <3>2. post = whole
      BY <1>3
    <3> HIDE DEF whole
    <3>3. QED
      BY <3>1, <3>2
  <2>2. QED
    BY <1>2, <2>1
<1>5. Len(post) = n + 3 /\ post[1] = front[1] /\ post[2] = front[2] /\ post[n + 3] = back[1]
  <2>1. /\ (2 + n) + 1 = n + 3 /\ (n + 3) - (2 + n) = 1 /\ ~(n + 3 <= 2 + n)
        /\ 1 \in 1..(2 + n) /\ 2 \in 1..(2 + n) /\ 1 \in 1..(n + 3) /\ 2 \in 1..(n + 3)
        /\ n + 3 \in 1..(n + 3) /\ 1 <= 2 + n /\ 2 <= 2 + n
    BY <1>1
  <2>2. post[1] = most[1] /\ post[2] = most[2] /\ post[n + 3] = back[1]
    BY <1>4, <2>1
  <2>3. most[1] = front[1] /\ most[2] = front[2]
    BY <1>2, <2>1
  <2>4. QED
    BY <1>4, <2>1, <2>2, <2>3
<1>6. QED
  BY <1>4, <1>5 DEF n, post

\* A line with a text in it that is not blank at its ends is the call with
\* that text, whatever is in the text.
LEMMA PostIsParsed ==
    ASSUME NEW text \in Seq(Tokens), text # <<>>, text = Trim(text),
           NEW post, post = <<"chat.post", Open>> \o text \o <<Close>>,
           text = SubSeq(post, 3, Len(text) + 2)
    PROVE  Parse(post) = [name |-> <<"chat.post">>, arguments |-> <<text>>]
<1> DEFINE length == Len(text)
           front == <<"chat.post", Open>>
           back == <<Close>>
           opens == Positions(post, Open)
<1>1. length \in Nat \ {0} /\ DOMAIN text = 1..length /\ Len(text) = length
  BY EmptySeq, LenProperties
<1> HIDE DEF length
<1>2. /\ front \in Seq(Tokens) /\ Len(front) = 2 /\ front[1] = "chat.post" /\ front[2] = Open
      /\ back \in Seq(Tokens) /\ Len(back) = 1 /\ back[1] = Close
  <2>1. "chat.post" \in Tokens /\ Open \in Tokens /\ Close \in Tokens
    BY TokensAssumption
  <2>2. QED
    BY <2>1
<1> HIDE DEF front, back
<1>3. post = (front \o text) \o back
  BY DEF front, back
<1>4. /\ post \in Seq(Tokens) /\ Len(post) = length + 3
      /\ post[1] = "chat.post" /\ post[2] = Open /\ post[length + 3] = Close
  <2>1. /\ post \in Seq(Tokens) /\ Len(post) = Len(text) + 3
        /\ post[1] = front[1] /\ post[2] = front[2] /\ post[Len(text) + 3] = back[1]
    <3> DEFINE whole == (front \o text) \o back
    <3>1. /\ whole \in Seq(Tokens) /\ Len(whole) = Len(text) + 3
          /\ whole[1] = front[1] /\ whole[2] = front[2] /\ whole[Len(text) + 3] = back[1]
      BY <1>2, BetweenTheEnds
    <3>2. post = whole
      BY <1>3
    <3> HIDE DEF whole
    <3>3. QED
      BY <3>1, <3>2
  <2>2. QED
    BY <1>1, <1>2, <2>1
<1>5. post # <<>> /\ DOMAIN post = 1..(length + 3)
  BY <1>1, <1>4, EmptySeq, LenProperties
<1>6. Trim(post) = post
  BY <1>4, <1>5, TrimKeeps, TokensDiffer
<1>7. Min(opens) = 2
  <2>1. opens \subseteq 1..(length + 3) /\ 2 \in opens /\ 1 \notin opens
    BY <1>1, <1>4, <1>5, TokensDiffer DEF Positions
  <2>2. \A n \in 1..(length + 3) : n \in Int /\ (n = 1 \/ 2 <= n)
    BY <1>1
  <2> HIDE DEF opens
  <2>3. QED
    BY <2>1, <2>2, MinIs
<1>8. Trim(SubSeq(post, 1, 1)) = <<"chat.post">>
  <2> DEFINE word == SubSeq(post, 1, 1)
  <2>1. post[1] \in Tokens
    BY <1>4
  <2>2. word \in Seq(Tokens) /\ Len(word) = 1 /\ word[1] = "chat.post"
    BY <1>4, <2>1, SubSeqProperties
  <2>3. word = <<"chat.post">>
    <3>1. <<"chat.post">> \in Seq(Tokens) /\ Len(<<"chat.post">>) = 1
      BY TokensAssumption
    <3>2. \A i \in 1..1 : word[i] = <<"chat.post">>[i]
      BY <2>2
    <3>3. QED
      BY <2>2, <3>1, <3>2, SeqEqual
  <2> HIDE DEF word
  <2>4. word # <<>> /\ word[1] # Blank /\ word[Len(word)] # Blank
    <3>1. word[1] # Blank /\ word[Len(word)] # Blank
      BY <2>2, TokensDiffer
    <3>2. Len(word) # Len(<<>>)
      BY <2>2, EmptySeq
    <3>3. QED
      BY <3>1, <3>2
  <2>5. QED
    BY <2>2, <2>3, <2>4, TrimKeeps DEF word
<1>9. SubSeq(post, Min(opens) + 1, Len(post) - 1) = text
  <2>1. Min(opens) + 1 = 3 /\ Len(post) - 1 = length + 2
    BY <1>1, <1>4, <1>7
  <2>2. QED
    BY <2>1 DEF length
<1>10. ArgumentsOf(<<"chat.post">>, text) = <<text>>
  BY DEF ArgumentsOf
<1>11. Last(post) = Close /\ opens # {} /\ <<"chat.post">> # <<>>
  BY <1>1, <1>4, <1>5 DEF Last, Positions
<1>12. SubSeq(post, 1, Min(opens) - 1) = SubSeq(post, 1, 1)
  <2> HIDE DEF opens
  <2>1. Min(opens) - 1 = 1
    BY <1>7
  <2>2. QED
    BY <2>1
<1> HIDE DEF opens
<1>13. QED
  BY <1>6, <1>8, <1>9, <1>10, <1>11, <1>12 DEF Parse, opens

TextInv == /\ line = None => command = None
           /\ line # None => line \in Seq(Tokens) /\ command = Parse(line)

LEMMA TextNext == TextInv /\ [Next]_vars => TextInv'
<1> SUFFICES ASSUME TextInv, [Next]_vars PROVE TextInv'
  OBVIOUS
<1>1. CASE Receive
  BY <1>1, GameAssumption DEF Receive, TextInv
<1>2. CASE Execute
  <2>1. line' = None /\ command' = None
    BY <1>2 DEF Execute, Return, Answer, Obey, Ignore, TurnDown, GetPos, GetTile, SetPos, SetTile,
         GetBlock, GetBlockWithData, SetBlock, SetBlocks, GetHeight, SaveCheckpoint, RestoreCheckpoint,
         Setting, PostChat, CameraMode, SetNormal, SetThirdPerson, SetFixed, SetCameraPos,
         BlockHits, ClearEvents, GetPlayerIds, EntityGetPos, EntityGetTile,
         EntitySet, EntitySetPos, EntitySetTile
  <2>2. QED
    BY <2>1 DEF TextInv
<1>3. CASE UNCHANGED <<line, command>>
  BY <1>3 DEF TextInv
<1>4. QED
  BY <1>1, <1>2, <1>3 DEF Next, Click, MovePlayer, ReplaceWorld, Turn, vars

LEMMA SpecText == Spec => []TextInv
<1>1. Init => TextInv
  BY DEF Init, TextInv
<1>2. QED
  BY <1>1, TextNext, PTL DEF Spec

LEMMA PostIsAccepted ==
    ASSUME NEW text, command = [name |-> <<"chat.post">>, arguments |-> <<text>>]
    PROVE  Accepted(command)
<1>1. <<"chat.post", <<"text">>>> \in Orders
  BY DEF Orders, Taking
<1>2. Fits(<<"text">>, <<text>>)
  BY DEF Fits, Reads
<1>3. QED
  BY <1>1, <1>2 DEF Accepted, IsCall

LEMMA BranchOfPostChat ==
    ASSUME Execute, command # None, NEW text,
           command = [name |-> <<"chat.post">>, arguments |-> <<text>>]
    PROVE  PostChat
<1>1. Accepted(command) /\ command.name = <<"chat.post">>
  BY PostIsAccepted
<1>2. QED
  BY <1>1 DEF Execute, Is, IsCall, Ignore, TurnDown, GetPos, GetTile, SetPos, SetTile, GetBlock,
       GetBlockWithData, SetBlock, SetBlocks, GetHeight, SaveCheckpoint, RestoreCheckpoint, Setting,
       SetNormal, SetThirdPerson, SetFixed, SetCameraPos, BlockHits, ClearEvents,
       GetPlayerIds, EntityGetPos, EntityGetTile, EntitySetPos, EntitySetTile

\* What chat.post is given is posted as it is, whatever of the protocol's
\* characters is in it, and however long it is.
THEOREM TextIsPosted == Spec => TextIsVerbatim
<1> DEFINE Verbatim ==
        \A length \in 1..(IF line = None THEN 0 ELSE Len(line) - 3) :
            LET text == SubSeq(line, 3, length + 2)
            IN  (line' = None /\ text = Trim(text) /\ line = <<"chat.post", Open>> \o text \o <<Close>>)
                    => chat' = Append(chat, text)
<1>1. ASSUME TextInv, [Next]_vars PROVE Verbatim
  <2> SUFFICES ASSUME NEW length \in 1..(IF line = None THEN 0 ELSE Len(line) - 3),
                      NEW text, text = SubSeq(line, 3, length + 2), line' = None, text = Trim(text),
                      line = <<"chat.post", Open>> \o text \o <<Close>>
               PROVE  chat' = Append(chat, text)
    OBVIOUS
  <2>0. line # None /\ length \in 1..(Len(line) - 3)
    OBVIOUS
  <2>1. line \in Seq(Tokens) /\ command = Parse(line) /\ Len(line) \in Nat
    BY <1>1, <2>0, LenProperties DEF TextInv
  <2>2. text \in Seq(Tokens) /\ Len(text) = length /\ text # <<>>
    <3>1. length \in Int /\ 3 \in Int /\ length + 2 \in Int /\ 3 <= length + 2
          /\ (length + 2) - 3 + 1 = length /\ length # 0
      BY <2>0, <2>1
    <3>2. 3..(length + 2) \subseteq 1..Len(line)
      BY <2>0, <2>1
    <3>3. \A i \in 3..(length + 2) : line[i] \in Tokens
      BY <2>1, <3>2, ElementOfSeq
    <3>4. text \in Seq(Tokens) /\ Len(text) = length
      BY <3>1, <3>3, SubSeqProperties
    <3>5. QED
      BY <3>1, <3>4, EmptySeq
  <2>3. command = [name |-> <<"chat.post">>, arguments |-> <<text>>]
    BY <2>1, <2>2, PostIsParsed
  <2>4. command # None
    <3>1. <<"chat.post">> \in Seq(Tokens) /\ <<text>> \in Seq(Seq(Tokens))
      BY <2>2, TokensAssumption
    <3>2. command \in [name : Seq(Tokens), arguments : Seq(Seq(Tokens))]
      BY <2>3, <3>1
    <3>3. QED
      BY <3>2, TokensAssumption
  <2>5. Execute
    BY <1>1, <2>0 DEF Next, Receive, Click, MovePlayer, ReplaceWorld, Turn, vars
  <2>6. PostChat
    BY <2>3, <2>4, <2>5, BranchOfPostChat
  <2>7. command.arguments[1] = text
    BY <2>3
  <2>8. QED
    BY <2>6, <2>7 DEF PostChat
<1>2. TextInv /\ [Next]_vars => [Verbatim]_vars
  BY <1>1
<1>3. QED
  BY <1>2, SpecText, PTL DEF Spec, TextIsVerbatim
=============================================================================
