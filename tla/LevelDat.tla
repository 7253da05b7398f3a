------------------------------ MODULE LevelDat -------------------------------
(***************************************************************************)
(* PiLevelStorage (storage/PiLevelStorage.cpp): the level.dat of a game,   *)
(* down to its bytes.  A save may be cut off anywhere, a byte of the file  *)
(* may be damaged, and the file may be one that another program wrote.     *)
(*                                                                         *)
(* Of a game there is its seed, its spawn and its player, and whether it   *)
(* still is as new_world left it; a place is in quarters of a block, and   *)
(* the bits of a float count halves.                                       *)
(***************************************************************************)
EXTENDS Nbt

CONSTANTS
    Seeds, SpawnOf,     \* seeds, and where new_world puts the spawn
    Places,             \* where a player goes
    Changes,            \* what a damaged byte is increased by
    ForeignTags,        \* the roots other programs write, in a sequence
    FileVersion,        \* file_version: 3
    MaxPayload,         \* max_level_dat_payload: 16 MiB
    MaxFaults           \* a bound on the saves cut off, damaged bytes and foreign files

VARIABLES
    game,       \* the game
    file,       \* the bytes of the file, or None
    written,    \* the game the file was written for as a whole, or None
    loaded,     \* whether the last load succeeded
    faults

vars == <<game, file, written, loaded, faults>>

U32 == 0..(Power[Width["Int"]] - 1)

ASSUME SeedsAssumption ==
    /\ Seeds \subseteq U32
    /\ \A seed \in Seeds : /\ SpawnOf[seed] \in [1..3 -> SignedRange(Width["Int"])]
                           /\ \A i \in 1..3 : 2 * SpawnOf[seed][i] \in SignedRange(Width["Float"])
ASSUME PlacesAssumption ==
    \A place \in Places : /\ place \in [1..3 -> Int]
                          /\ \A i \in 1..3 : place[i] \div 2 \in SignedRange(Width["Float"])
ASSUME FaultsAssumption ==
    /\ Changes \subseteq Nat
    /\ \A i \in DOMAIN ForeignTags :
          \A depth \in 0..(MaxDepth + 1) : \A tag \in Within(ForeignTags[i])[depth] : IsTag(tag)
ASSUME FormatAssumption ==
    /\ FileVersion \in Nat /\ FileVersion \in SignedRange(Width["Int"])
    /\ MaxPayload \in 0..(Power[Width["Int"]] - 1)
    /\ Width["Int"] < Width["Long"]
    /\ MaxDepth >= 3 /\ MaxElements >= 10        \* what a level.dat takes

\* Names are one byte each.
Player == <<1>>
Pos == <<2>>
RandomSeed == <<3>>
SpawnX == <<4>>
SpawnY == <<5>>
SpawnZ == <<6>>
StorageVersion == <<7>>

\* static_cast<float>, and back.
ToFloat(place) == [i \in 1..3 |-> place[i] \div 2]
FromFloat(bits) == [i \in 1..3 |-> bits[i] * 2]

\* new_world.
NewGame(seed) ==
    [seed |-> seed, spawn |-> SpawnOf[seed], fresh |-> TRUE,
     player |-> [i \in 1..3 |-> 4 * SpawnOf[seed][i]]]

-----------------------------------------------------------------------------
(* The file of a game, and the game of a file.                             *)

Root(g) ==
    LET pos == List("Float", [i \in 1..3 |-> Number("Float", ToFloat(g.player)[i])])
    IN  Compound([name \in {Player, RandomSeed, SpawnX, SpawnY, SpawnZ, StorageVersion} |->
            CASE name = Player         -> Compound([n \in {Pos} |-> pos])
              [] name = RandomSeed     -> Number("Long", g.seed)
              [] name = SpawnX         -> Number("Int", g.spawn[1])
              [] name = SpawnY         -> Number("Int", g.spawn[2])
              [] name = SpawnZ         -> Number("Int", g.spawn[3])
              [] name = StorageVersion -> Number("Int", FileVersion)])

\* The header: version and size of the payload, little-endian.
Framed(payload) ==
    Digits(FileVersion, Width["Int"], "Little") \o Digits(Len(payload), Width["Int"], "Little") \o payload

\* The bytes save writes for a tag; None when it refuses to.
Bytes(tag) ==
    LET payload == Write(<<>>, tag, "Little")
    IN  IF payload = None \/ Len(payload) > MaxPayload THEN None ELSE Framed(payload)

\* find_tag, as a test.
HasTag(compound, name, type) ==
    name \in DOMAIN compound.fields /\ compound.fields[name].type = type

\* Mutant of SeedFits: the seeds that were negative as an int are refused.
SeedIsPositive(value) == value \in 0..(Power[Width["Int"]] \div 2 - 1)

\* seed_to_u32: values of u32, and those of a negative int.
SeedFits(value) == value \in U32 \/ value \in -(Power[Width["Int"]] \div 2)..-1

SeedFrom(value) == value % Power[Width["Int"]]

\* Every tag the loader needs, with its type; a version may be missing.
IsLevel(root) ==
    /\ root.type = "Compound"
    /\ HasTag(root, RandomSeed, "Long") /\ HasTag(root, Player, "Compound")
    /\ \A name \in {SpawnX, SpawnY, SpawnZ} : HasTag(root, name, "Int")
    /\ HasTag(root, StorageVersion, "Int") => root.fields[StorageVersion].number = FileVersion
    /\ LET player == root.fields[Player]
       IN  /\ HasTag(player, Pos, "List")
           /\ player.fields[Pos].of = "Float" /\ Len(player.fields[Pos].list) = 3
    /\ SeedFits(root.fields[RandomSeed].number)

\* Whether the header of a file is right about it, and what follows it.
HeaderIsRight(bytes) ==
    LET size == Unsigned(bytes, Width["Int"], Width["Int"], "Little")
    IN  /\ Len(bytes) >= 2 * Width["Int"]
        /\ Unsigned(bytes, 0, Width["Int"], "Little") = FileVersion
        /\ size # 0 /\ size <= MaxPayload
        /\ Len(bytes) = 2 * Width["Int"] + size
Payload(bytes) == SubSeq(bytes, 2 * Width["Int"] + 1, Len(bytes))

\* What is read of a file, whose root must be all that is in it.
IfWhole(bytes, read) ==
    IF /\ bytes # None /\ HeaderIsRight(bytes)
       /\ read.ok /\ read.at = Len(Payload(bytes))
    THEN read ELSE Failed
Opened(bytes) == IfWhole(bytes, Read(Payload(bytes), "Little"))

\* new_world for the seed, whose spawn and player give way to those of the file.
GameOf(root) ==
    [seed   |-> SeedFrom(root.fields[RandomSeed].number),
     spawn  |-> <<root.fields[SpawnX].number, root.fields[SpawnY].number, root.fields[SpawnZ].number>>,
     fresh  |-> TRUE,
     player |-> FromFloat([i \in 1..3 |-> root.fields[Player].fields[Pos].list[i].number])]

-----------------------------------------------------------------------------
Init ==
    /\ game \in {NewGame(s) : s \in Seeds}
    /\ file = None /\ written = None /\ loaded = FALSE /\ faults = 0

Play ==
    /\ game' \in {[seed |-> game.seed, spawn |-> game.spawn, player |-> place, fresh |-> FALSE]
                    : place \in Places}
    /\ UNCHANGED <<file, written, loaded, faults>>

NewWorld ==
    /\ game' \in {NewGame(s) : s \in Seeds}
    /\ UNCHANGED <<file, written, loaded, faults>>

\* save; a tag that cannot be written leaves the file alone.
Save ==
    /\ Bytes(Root(game)) # None
    /\ file' = Bytes(Root(game)) /\ written' = game
    /\ UNCHANGED <<game, loaded, faults>>

\* Mutant of Load: the world is replaced before all the tags are found.
LoadStepByStep ==
    LET read  == Opened(file)
        found == read.ok /\ IsLevel(read.tag)
    IN  /\ loaded' = found
        /\ game' = IF found THEN GameOf(read.tag)
                   ELSE IF read.ok /\ HasTag(read.tag, RandomSeed, "Long")
                   THEN NewGame(SeedFrom(read.tag.fields[RandomSeed].number))
                   ELSE game
        /\ UNCHANGED <<file, written, faults>>

\* load.
LoadOf(read) ==
    LET found == read.ok /\ IsLevel(read.tag)
    IN  /\ loaded' = found
        /\ game' = IF found THEN GameOf(read.tag) ELSE game
        /\ UNCHANGED <<file, written, faults>>
Load == LoadOf(Opened(file))

Fault == faults < MaxFaults /\ faults' = faults + 1 /\ UNCHANGED <<game, loaded>>

\* The process dies in save, which has truncated the file and written a part.
Crash ==
    /\ Fault /\ written' = None
    /\ LET bytes == Bytes(Root(game))
       IN  /\ bytes # None
           /\ \E n \in 0..(Len(bytes) - 1) : file' = SubSeq(bytes, 1, n)

Damage ==
    /\ Fault /\ file # None
    /\ \E i \in DOMAIN file, change \in Changes :
          file' = [file EXCEPT ![i] = (@ + change) % Base]
    /\ written' = None

\* A file of another program, framed as it should be, in either byte order.
Foreign ==
    /\ Fault
    /\ \E i \in DOMAIN ForeignTags, endian \in Endian :
          /\ Write(<<>>, ForeignTags[i], endian) # None
          /\ file' = Framed(Write(<<>>, ForeignTags[i], endian))
    /\ written' = None

Next == Play \/ NewWorld \/ Save \/ Load \/ Crash \/ Damage \/ Foreign

Spec == Init /\ [][Next]_vars

-----------------------------------------------------------------------------
\* What a game saves it gets back: its seed, were it one that is negative as
\* an int, its spawn, and the place of the player as a float holds it.  The
\* world is that of the seed, without what was built in it.
SavedLoadsBack ==
    [][ Load /\ written # None =>
        /\ loaded'
        /\ game' = [seed |-> written.seed, spawn |-> written.spawn,
                    player |-> FromFloat(ToFloat(written.player)), fresh |-> TRUE] ]_vars

\* A load that fails has changed nothing, whatever it failed at; one that
\* succeeds leaves nothing of the game before, however the file came about;
\* and a file that a save was cut off in, at whatever byte, is refused.
LoadIsAllOrNothing ==
    [][ /\ Load => IF loaded' THEN game'.fresh ELSE UNCHANGED game
        /\ Crash => ~Opened(file').ok ]_vars

ReadsAs(read, tag) == read.ok /\ read.tag = tag

RoundTrips(read) ==
    /\ read.ok =>
          /\ Elements(read.tag) <= MaxElements
          /\ Write(<<>>, read.tag, "Little") # None
          /\ ReadsAs(Read(Write(<<>>, read.tag, "Little"), "Little"), read.tag)
    /\ \A i \in DOMAIN ForeignTags :
          file # None /\ file = Bytes(ForeignTags[i]) =>
              IF Elements(ForeignTags[i]) <= MaxElements THEN ReadsAs(read, ForeignTags[i])
              ELSE ~read.ok

\* What the reader accepts, of damaged and foreign files too, is within the
\* limits and a tag the writer writes and the reader then reads as the same.
\* The other way round it is not: the writer looks at one list or array at a
\* time, the reader has one budget for all, so what is written is read back
\* just when all of its elements together are within the limit of one.
CodecRoundTrips == RoundTrips(Opened(file))
=============================================================================
