--------------------------- MODULE ProgramProofs ----------------------------
(***************************************************************************)
(* What a file holds after an orderly exit, and what a save may do to the  *)
(* file it finds: for any seeds and edits, any file that was there before  *)
(* the first launch, and any sequence of keys, signals and crashes.  Then  *)
(* what the chat on its screen keeps of the messages posted over the API:  *)
(* for any number of lines, messages, worlds and frames (module ChatHud).  *)
(***************************************************************************)
EXTENDS Program, ChatHud, SequenceTheorems, FiniteSetTheorems, WellFoundedInduction, TLAPS

\* ExitKeepsWorld speaks of a file that is written.  On the way there the
\* contents that are being written are those of the world that was left, and
\* only a process that is stopping, or has stopped, has left one.
LeftIsSaved ==
    left # None =>
        /\ phase \in {"stopping", "joining", "down"} /\ file # None
        /\ IF saving = None THEN file = Image(file.format, left)
           ELSE saving = Image(saving.format, left)

ProgramInv == TypeOK /\ LeftIsSaved

LEMMA NewIsGame ==
    /\ \A s \in Seeds : New(s) \in Game /\ New(s).generated
    /\ NoWorld \in Game
BY SeedsAssumption DEF New, NoWorld, Game

LEMMA ImageIsFile ==
    ASSUME NEW format \in {"legacy", "dat"}, NEW g \in Game
    PROVE  /\ Image(format, g) \in File /\ Image(format, g) # None
           /\ Image(format, g).game # Damaged /\ Image(format, g).format = format
<1>1. New(g.seed) \in Game
  BY NewIsGame DEF Game
<1>2. Image(format, g) = [format |-> format, game |-> IF format = "dat" THEN New(g.seed) ELSE g]
  BY DEF Image
<1>3. QED
  BY <1>1, <1>2, NoneAssumption DEF File

\* A file that is cut off has the format it was to have, or none.
LEMMA TornIsFile ==
    ASSUME NEW format \in {"legacy", "dat"}, NEW g \in Game, NEW f \in Torn(format, g)
    PROVE  f \in File /\ f # None /\ f.format \in {format, "unknown"}
<1>1. CutShort(g) \subseteq Game
  BY DEF CutShort, Game
<1>2. CASE f \in [format : {"unknown"} \cup ({format} \ {"dat"}), game : {Damaged}]
  BY <1>2, NoneAssumption DEF File
<1>3. CASE f \in [format : {format} \ {"dat"}, game : CutShort(g)]
  <2>1. f \in File /\ f.format = format
    BY <1>1, <1>3 DEF File
  <2>2. QED
    BY <2>1, NoneAssumption
<1>4. QED
  BY <1>2, <1>3 DEF Torn

\* A file that loads is whole.
LEMMA LoadedIsGame ==
    ASSUME TypeOK, Loads(file)
    PROVE  file.game \in Game
BY DEF TypeOK, Loads, File

LEMMA FormatsOfFiles ==
    ASSUME TypeOK, SaveFormat(file) # "unknown"
    PROVE  SaveFormat(file) \in {"legacy", "dat"}
BY ExtensionAssumption DEF TypeOK, SaveFormat, File

\* The first step of a save.
LEMMA SaveBegins ==
    ASSUME TypeOK, saving = None, NEW g \in Game, BeginSave(g)
    PROVE  \/ SaveFormat(file) = "unknown" /\ UNCHANGED <<file, saving>>
           \/ /\ SaveFormat(file) \in {"legacy", "dat"}
              /\ file' \in File /\ file' # None /\ file'.format \in {SaveFormat(file), "unknown"}
              /\ saving' = Image(SaveFormat(file), g)
              /\ saving' \in File /\ saving' # None
              /\ saving'.game # Damaged /\ saving'.format = SaveFormat(file)
BY FormatsOfFiles, TornIsFile, ImageIsFile DEF BeginSave

-----------------------------------------------------------------------------
LEMMA InvInit == Init => ProgramInv
BY FilesAssumption, NewIsGame DEF Init, ProgramInv, TypeOK, LeftIsSaved

LEMMA SaveAtExitKeepsInv == ProgramInv /\ SaveAtExit => ProgramInv'
<1> SUFFICES ASSUME ProgramInv, SaveAtExit PROVE ProgramInv'
  OBVIOUS
<1>1. TypeOK /\ saving = None /\ left = None /\ phase' = "stopping" /\ game \in Game
  BY DEF ProgramInv, SaveAtExit, TypeOK, LeftIsSaved
<1>2. CASE ~game.generated
  BY <1>1, <1>2 DEF SaveAtExit, ProgramInv, TypeOK, LeftIsSaved
<1>3. CASE game.generated /\ SaveFormat(file) = "unknown"
  BY <1>1, <1>3, SaveBegins DEF SaveAtExit, ProgramInv, TypeOK, LeftIsSaved
<1>4. CASE game.generated /\ SaveFormat(file) # "unknown"
  BY <1>1, <1>4, SaveBegins DEF SaveAtExit, ProgramInv, TypeOK, LeftIsSaved
<1>5. QED
  BY <1>2, <1>3, <1>4

\* The keys that save.
LEMMA SavingKeysKeepInv == ProgramInv /\ (NewGame \/ Pause \/ SaveGame) => ProgramInv'
<1> SUFFICES ASSUME ProgramInv, NewGame \/ Pause \/ SaveGame PROVE ProgramInv'
  OBVIOUS
<1>1. TypeOK /\ saving = None /\ phase = "playing" /\ left = None
  BY DEF ProgramInv, NewGame, Pause, SaveGame, Key, LeftIsSaved
<1>2. CASE NewGame
  <2>1. game' \in Game
    BY <1>2, NewIsGame DEF NewGame
  <2>2. QED
    BY <1>1, <1>2, <2>1, SaveBegins DEF NewGame, ProgramInv, TypeOK, LeftIsSaved
<1>3. CASE Pause
  <2>1. game \in Game
    BY <1>1 DEF TypeOK
  <2>2. QED
    BY <1>1, <1>3, <2>1, SaveBegins DEF Pause, ProgramInv, TypeOK, LeftIsSaved
<1>4. CASE SaveGame
  <2>1. game \in Game
    BY <1>1 DEF TypeOK
  <2>2. QED
    BY <1>1, <1>4, <2>1, SaveBegins DEF SaveGame, ProgramInv, TypeOK, LeftIsSaved
<1>5. QED
  BY <1>2, <1>3, <1>4

LEMMA InvNext == ProgramInv /\ [Next]_vars => ProgramInv'
<1> SUFFICES ASSUME ProgramInv, [Next]_vars PROVE ProgramInv'
  OBVIOUS
<1> USE DEF ProgramInv
<1>1. CASE LaunchHeadless
  BY <1>1, NewIsGame, LoadedIsGame DEF LaunchHeadless, TypeOK, LeftIsSaved
<1>2. CASE LaunchClient
  BY <1>2, NewIsGame DEF LaunchClient, TypeOK, LeftIsSaved
<1>3. CASE StartupLoad
  BY <1>3, LoadedIsGame DEF StartupLoad, TypeOK, LeftIsSaved
<1>4. CASE Edit
  <2>1. game' \in Game
    BY <1>4 DEF Edit, TypeOK, Game
  <2>2. QED
    BY <1>4, <2>1 DEF Edit, TypeOK, LeftIsSaved
<1>5. CASE Interrupt
  BY <1>5 DEF Interrupt, TypeOK, LeftIsSaved
<1>6. CASE LeaveHeadless \/ LeaveClient
  BY <1>6, SaveAtExitKeepsInv DEF LeaveHeadless, LeaveClient
<1>7. CASE StopServer \/ Stopped
  BY <1>7, NewIsGame DEF StopServer, Stopped, Down, TypeOK, LeftIsSaved
<1>8. CASE Crash
  BY <1>8, NewIsGame DEF Crash, Down, TypeOK, LeftIsSaved
<1>9. CASE FinishSave
  BY <1>9, NoneAssumption DEF FinishSave, TypeOK, LeftIsSaved
<1>10. CASE LoadGame
  BY <1>10, LoadedIsGame DEF LoadGame, Key, TypeOK, LeftIsSaved
<1>11. CASE ContinueGame \/ Quit \/ Resume
  BY <1>11 DEF ContinueGame, Quit, Resume, Key, TypeOK, LeftIsSaved
<1>12. CASE NewGame \/ Pause \/ SaveGame
  BY <1>12, SavingKeysKeepInv
<1>13. CASE UNCHANGED vars
  BY <1>13 DEF vars, TypeOK, LeftIsSaved
<1>14. CASE Worker
  BY <1>14 DEF Worker, Accept, AcceptFails, SendBlocks, SendGoesOn, HangUp, WorkerGoes,
               TypeOK, LeftIsSaved
<1>15. QED
  BY <1>1, <1>2, <1>3, <1>4, <1>5, <1>6, <1>7, <1>8, <1>9, <1>10, <1>11, <1>12, <1>13, <1>14
     DEF Next, Keys

LEMMA SpecInv == Spec => []ProgramInv
BY InvInit, InvNext, PTL DEF Spec

-----------------------------------------------------------------------------
\* Every variable keeps its type, and a save is under way only in a process
\* that runs: TypeOK of the run.
THEOREM TypeCorrect == Spec => []TypeOK
BY SpecInv, PTL DEF ProgramInv

\* What an orderly exit was to keep is in the file: ExitKeepsWorld of the run,
\* from any screen, after any keys, over any file that was there before, and
\* if the process dies or hangs before the API server has stopped.
THEOREM ExitAlwaysKeepsWorld == Spec => []ExitKeepsWorld
<1>1. ProgramInv => ExitKeepsWorld
  BY DEF ProgramInv, LeftIsSaved, ExitKeepsWorld
<1>2. QED
  BY <1>1, SpecInv, PTL

\* A save keeps to the format of the file it finds, and never touches a file
\* that is not recognised: FileKeepsFormat of the run.
THEOREM FilesKeepTheirFormat == Spec => FileKeepsFormat
<1> DEFINE Keeps == file # None /\ saving = None =>
                        /\ file.format = "unknown" => file' = file
                        /\ file' # file => saving' # None /\ saving'.format = file.format
<1>1. ProgramInv /\ [Next]_vars => Keeps
  <2> SUFFICES ASSUME ProgramInv, [Next]_vars, file # None, saving = None
               PROVE  /\ file.format = "unknown" => file' = file
                      /\ file' # file => saving' # None /\ saving'.format = file.format
    OBVIOUS
  <2>1. TypeOK /\ SaveFormat(file) = file.format /\ game \in Game
    BY DEF ProgramInv, TypeOK, SaveFormat
  <2>2. CASE UNCHANGED file
    BY <2>2
  <2>3. CASE BeginSave(game)
    BY <2>1, <2>3, SaveBegins
  <2>4. CASE NewGame
    <3>1. game' \in Game /\ BeginSave(game')
      BY <2>4, NewIsGame DEF NewGame
    <3>2. QED
      BY <2>1, <3>1, SaveBegins
  <2>5. QED
    BY <2>2, <2>3, <2>4
       DEF Next, vars, LaunchHeadless, LaunchClient, StartupLoad, Edit, Interrupt, LeaveHeadless,
           LeaveClient, SaveAtExit, StopServer, Stopped, Crash, Down, FinishSave, Keys, LoadGame,
           ContinueGame, Quit, Pause, Resume, SaveGame, Worker, Accept, AcceptFails,
           SendBlocks, SendGoesOn, HangUp, WorkerGoes
<1>2. QED
  BY <1>1, SpecInv, PTL DEF Spec, FileKeepsFormat

-----------------------------------------------------------------------------
(***************************************************************************)
(* The lines of the chat.                                                  *)
(***************************************************************************)
Lines == [message : Int, timestamp : Int]

\* Lines in order, none later than time; the last count of them are those up
\* to the message latest, and the ones before are of messages up to base.
Kept(s, count, latest, base, time) ==
    /\ s \in Seq(Lines)
    /\ \A i \in 1..Len(s) : s[i].timestamp <= time
    /\ \A i, j \in 1..Len(s) : i < j => /\ s[i].message < s[j].message
                                       /\ s[i].timestamp <= s[j].timestamp
    /\ \A i \in 1..Len(s) : IF Len(s) - i < count THEN s[i].message = latest - (Len(s) - i)
                            ELSE s[i].message <= base

LEMMA LinesAreRecords ==
    ASSUME NEW s \in Seq(Lines), NEW i \in 1..Len(s)
    PROVE  s[i].message \in Int /\ s[i].timestamp \in Int
<1>1. s[i] \in Lines
  BY ElementOfSeq
<1> QED
  BY <1>1 DEF Lines

LEMMA KeptUpToLatest ==
    ASSUME NEW s, NEW count \in Nat, NEW latest \in Int, NEW base \in Int, NEW time \in Int,
           Kept(s, count, latest, base, time), base <= latest, NEW i \in 1..Len(s)
    PROVE  s[i].message <= latest
<1>1. Len(s) \in Nat /\ s[i].message \in Int
  BY LenProperties, LinesAreRecords DEF Kept
<1>2. IF Len(s) - i < count THEN s[i].message = latest - (Len(s) - i) ELSE s[i].message <= base
  BY DEF Kept
<1> DEFINE n == Len(s)
           m == s[i].message
<1>3. n \in Nat /\ m \in Int /\ i \in 1..n /\ IF n - i < count THEN m = latest - (n - i) ELSE m <= base
  BY <1>1, <1>2
<1> HIDE DEF n, m
<1>4. m <= latest
  BY <1>3
<1> QED
  BY <1>4 DEF m

\* The lines at the end are kept like all of them.
LEMMA KeptAtTheEnd ==
    ASSUME NEW s, NEW count \in Nat, NEW latest \in Int, NEW base \in Int, NEW time \in Int,
           Kept(s, count, latest, base, time), NEW first \in 1..(Len(s) + 1)
    PROVE  /\ Kept(SubSeq(s, first, Len(s)), count, latest, base, time)
           /\ Len(SubSeq(s, first, Len(s))) = Len(s) + 1 - first
<1> DEFINE n == Len(s)
           t == SubSeq(s, first, n)
           m == n + 1 - first
<1>1. n \in Nat /\ m \in Nat /\ first \in 1..(n + 1) /\ s \in Seq(Lines)
  BY LenProperties DEF Kept
<1>2. \A i \in first..n : i \in 1..n /\ s[i] \in Lines
  BY <1>1, ElementOfSeq
<1>3. t \in Seq(Lines) /\ Len(t) = m /\ \A i \in 1..m : t[i] = s[first + i - 1]
  <2> HIDE DEF n, m
  <2>1. first \in Int /\ n \in Int /\ n - first + 1 = m /\ (first <= n \/ (m = 0 /\ ~(first <= n)))
    BY <1>1 DEF m
  <2>2. t \in Seq(Lines) /\ Len(t) = (IF first <= n THEN n - first + 1 ELSE 0)
        /\ \A i \in 1..(n - first + 1) : t[i] = s[first + i - 1]
    BY <1>2, <2>1, SubSeqProperties
  <2> QED
    BY <2>1, <2>2
<1>4. ASSUME NEW i \in 1..m PROVE first + i - 1 \in 1..n /\ m - i = n - (first + i - 1)
  BY <1>1
<1>5. \A i, j \in 1..m : i < j => first + i - 1 < first + j - 1
  BY <1>1
<1>6. /\ \A i \in 1..n : s[i].timestamp <= time
      /\ \A i, j \in 1..n : i < j => s[i].message < s[j].message /\ s[i].timestamp <= s[j].timestamp
      /\ \A i \in 1..n : IF n - i < count THEN s[i].message = latest - (n - i)
                         ELSE s[i].message <= base
  BY DEF Kept
<1> HIDE DEF n, t, m
<1>7. \A i \in 1..m : t[i].timestamp <= time
  BY <1>3, <1>4, <1>6
<1>8. ASSUME NEW i \in 1..m, NEW j \in 1..m, i < j
      PROVE  t[i].message < t[j].message /\ t[i].timestamp <= t[j].timestamp
  <2> DEFINE p == first + i - 1
             q == first + j - 1
  <2>1. p \in 1..n /\ q \in 1..n /\ p < q /\ t[i] = s[p] /\ t[j] = s[q]
    BY <1>3, <1>4, <1>5, <1>8
  <2> HIDE DEF p, q
  <2> QED
    BY <1>6, <2>1
<1>9. ASSUME NEW i \in 1..m
      PROVE  IF m - i < count THEN t[i].message = latest - (m - i) ELSE t[i].message <= base
  <2> DEFINE p == first + i - 1
  <2>1. p \in 1..n /\ m - i = n - p /\ t[i] = s[p]
    BY <1>3, <1>4
  <2> HIDE DEF p
  <2> QED
    BY <1>6, <2>1
<1>10. Kept(t, count, latest, base, time)
  BY <1>3, <1>7, <1>8, <1>9 DEF Kept
<1> QED
  BY <1>3, <1>10 DEF n, t, m

\* Lines that come after the message latest, at one time.
Follow(new, latest, time) ==
    /\ new \in Seq(Lines)
    /\ \A i \in 1..Len(new) : new[i].message = latest + i /\ new[i].timestamp = time

LEMMA AppendedLines ==
    ASSUME NEW s \in Seq(Lines), NEW new \in Seq(Lines)
    PROVE  /\ s \o new \in Seq(Lines) /\ Len(s \o new) = Len(s) + Len(new)
           /\ \A i \in 1..(Len(s) + Len(new)) :
                 (s \o new)[i] = IF i <= Len(s) THEN s[i] ELSE new[i - Len(s)]
           /\ \A i \in 1..Len(s) : (s \o new)[i] = s[i]
           /\ \A i \in 1..Len(new) : (s \o new)[Len(s) + i] = new[i]
<1> DEFINE l == Len(s)
           n == Len(new)
           t == s \o new
<1>1. l \in Nat /\ n \in Nat
  BY LenProperties
<1>2. /\ t \in Seq(Lines) /\ Len(t) = Len(s) + Len(new)
      /\ \A i \in 1..Len(s) + Len(new) : t[i] = IF i <= Len(s) THEN s[i] ELSE new[i - Len(s)]
  BY ConcatProperties, Zenon
<1>3. ASSUME NEW i \in 1..n PROVE t[l + i] = new[i]
  <2>1. l + i \in 1..(l + n) /\ ~ (l + i <= l) /\ (l + i) - l = i
    BY <1>1
  <2> QED
    BY <1>2, <2>1
<1>4. \A i \in 1..l : t[i] = s[i]
  <2>1. ASSUME NEW i \in 1..l PROVE i \in 1..(l + n) /\ i <= l
    BY <1>1
  <2> QED
    BY <1>2, <2>1
<1> QED
  BY <1>2, <1>3, <1>4

\* Lines that follow the latest one, at a later time, are put after it.
LEMMA KeptWithNew ==
    ASSUME NEW s, NEW count \in Nat, NEW latest \in Int, NEW base \in Int, NEW time \in Int,
           Kept(s, count, latest, base, time), base <= latest,
           NEW later \in Int, time <= later, NEW new, Follow(new, latest, later)
    PROVE  Kept(s \o new, count + Len(new), latest + Len(new), base, later)
<1> DEFINE l == Len(s)
           n == Len(new)
           t == s \o new
<1>1. l \in Nat /\ s \in Seq(Lines) /\ n \in Nat /\ new \in Seq(Lines)
  BY LenProperties DEF Kept, Follow
<1>2. \A i \in 1..n : new[i].message = latest + i /\ new[i].timestamp = later
  BY DEF Follow
<1>3. /\ t \in Seq(Lines) /\ Len(t) = l + n
      /\ \A i \in 1..(l + n) : t[i] = IF i <= l THEN s[i] ELSE new[i - l]
  BY <1>1, AppendedLines
<1>4. /\ \A i \in 1..l : s[i].timestamp <= time /\ s[i].message \in Int /\ s[i].timestamp \in Int
      /\ \A i \in 1..l : s[i].message <= latest
      /\ \A i, j \in 1..l : i < j => s[i].message < s[j].message /\ s[i].timestamp <= s[j].timestamp
      /\ \A i \in 1..l : IF l - i < count THEN s[i].message = latest - (l - i)
                         ELSE s[i].message <= base
  BY LinesAreRecords, KeptUpToLatest DEF Kept
<1> HIDE DEF l, n, t
<1>5. ASSUME NEW i \in 1..(l + n)
      PROVE  \/ i \in 1..l /\ t[i] = s[i]
             \/ /\ i > l /\ i - l \in 1..n /\ t[i].message = latest + (i - l) /\ t[i].timestamp = later
  <2>1. (i <= l /\ i \in 1..l) \/ (i > l /\ ~ (i <= l) /\ i - l \in 1..n)
    BY <1>1
  <2>2. t[i] = IF i <= l THEN s[i] ELSE new[i - l]
    BY <1>3
  <2>3. CASE i <= l
    BY <2>1, <2>2, <2>3
  <2>4. CASE ~ (i <= l)
    <3>1. t[i] = new[i - l] /\ i - l \in 1..n /\ i > l
      BY <2>1, <2>2, <2>4
    <3>2. new[i - l].message = latest + (i - l) /\ new[i - l].timestamp = later
      BY <1>2, <3>1
    <3> QED
      BY <3>1, <3>2
  <2> QED
    BY <2>3, <2>4
<1>6. \A i \in 1..(l + n) : t[i].timestamp <= later
  BY <1>4, <1>5
<1>7. ASSUME NEW i \in 1..(l + n), NEW j \in 1..(l + n), i < j
      PROVE  t[i].message < t[j].message /\ t[i].timestamp <= t[j].timestamp
  <2>1. CASE j \in 1..l
    <3>1. i \in 1..l /\ ~(i > l) /\ ~(j > l)
      BY <1>1, <1>7, <2>1
    <3> QED
      BY <1>4, <1>5, <1>7, <2>1, <3>1
  <2>2. CASE j > l /\ i \in 1..l
    <3>1. ~(j \in 1..l) /\ ~(i > l)
      BY <1>1, <2>2
    <3>2. t[i] = s[i] /\ t[j].message = latest + (j - l) /\ t[j].timestamp = later /\ j - l \in 1..n
      BY <1>5, <2>2, <3>1
    <3>3. s[i].message <= latest /\ s[i].timestamp <= time
          /\ s[i].message \in Int /\ s[i].timestamp \in Int
      BY <1>4, <2>2
    <3> QED
      BY <3>2, <3>3
  <2>3. CASE j > l /\ i > l
    <3>1. ~(j \in 1..l) /\ ~(i \in 1..l)
      BY <1>1, <2>3
    <3>2. t[i].message = latest + (i - l) /\ t[i].timestamp = later
          /\ t[j].message = latest + (j - l) /\ t[j].timestamp = later
      BY <1>5, <3>1
    <3>3. latest + (i - l) < latest + (j - l)
      BY <1>1, <1>7
    <3> QED
      BY <3>2, <3>3
  <2> QED
    BY <1>1, <2>1, <2>2, <2>3
<1>8. ASSUME NEW i \in 1..(l + n)
      PROVE  IF (l + n) - i < count + n THEN t[i].message = (latest + n) - ((l + n) - i)
             ELSE t[i].message <= base
  <2>1. CASE i \in 1..l
    <3>1. ~(i > l) /\ ((l + n) - i < count + n <=> l - i < count)
          /\ latest - (l - i) = (latest + n) - ((l + n) - i)
      BY <1>1, <2>1
    <3>2. t[i] = s[i]
      BY <1>5, <3>1
    <3> QED
      BY <1>4, <2>1, <3>1, <3>2
  <2>2. CASE i > l
    <3>1. ~(i \in 1..l) /\ (l + n) - i < count + n
          /\ latest + (i - l) = (latest + n) - ((l + n) - i)
      BY <1>1, <2>2
    <3>2. t[i].message = latest + (i - l)
      BY <1>5, <3>1
    <3> QED
      BY <3>1, <3>2
  <2> QED
    BY <1>1, <2>1, <2>2
<1>9. Kept(t, count + n, latest + n, base, later)
  BY <1>3, <1>6, <1>7, <1>8 DEF Kept
<1> QED
  BY <1>9 DEF n, t

\* The messages of this world follow the Base ones of the worlds before.
Base == posted - Len(messages)

\* The last lines of the chat are the messages of this world that were handed
\* over, up to the cursor; they are all of them, or the chat is full.
HudInv ==
    /\ posted \in Nat /\ known \in Nat /\ skipped \in Nat /\ now \in Nat
    /\ skipped <= known
    /\ messages \in Seq(Nat) /\ Len(messages) <= posted
    /\ \A i \in 1..Len(messages) : messages[i] = Base + i
    /\ skipped < known => known <= Len(messages)
    /\ Kept(chat, known - skipped, Base + known, Base, now)
    /\ Len(chat) <= MaxLines
    /\ known - skipped <= Len(chat) \/ Len(chat) = MaxLines

LEMMA LargerOfTwo ==
    ASSUME NEW x \in Int, NEW y \in Int
    PROVE  Max({x, y}) = IF x >= y THEN x ELSE y
BY DEF Max

\* The last lines of the chat.
LEMMA KeptAreLast ==
    ASSUME NEW s \in Seq(Lines), NEW n \in Nat \ {0}
    PROVE  LET first == IF Len(s) <= n THEN 1 ELSE Len(s) - n + 1
           IN  /\ first \in 1..(Len(s) + 1)
               /\ LastOf(s, n) = SubSeq(s, first, Len(s))
<1>1. Len(s) \in Nat
  BY LenProperties
<1>2. Max({1, Len(s) - n + 1}) = IF Len(s) <= n THEN 1 ELSE Len(s) - n + 1
  BY <1>1, LargerOfTwo
<1>3. (IF Len(s) <= n THEN 1 ELSE Len(s) - n + 1) \in 1..(Len(s) + 1)
  BY <1>1
<1> QED
  BY <1>2, <1>3 DEF LastOf

\* What a frame hands over, and the lines before the oldest are dropped.
Handed == IF Len(messages) >= known THEN Len(messages) - known ELSE 0
NewLines == [i \in 1..Handed |-> [message |-> (Base + known) + i, timestamp |-> now']]
AllLines == chat \o NewLines
FirstKept == IF Len(AllLines) <= MaxLines THEN 1 ELSE Len(AllLines) - MaxLines + 1

LEMMA HudTypes ==
    ASSUME HudInv
    PROVE  /\ posted \in Nat /\ known \in Nat /\ skipped \in Nat /\ now \in Nat
           /\ skipped <= known /\ known - skipped \in Nat
           /\ Len(messages) \in Nat /\ Len(messages) <= posted
           /\ Base \in Int /\ Base + known \in Int /\ Base <= Base + known
           /\ Handed \in Nat
           /\ chat \in Seq(Lines) /\ Len(chat) \in Nat
<1>1. /\ posted \in Nat /\ known \in Nat /\ skipped \in Nat /\ now \in Nat /\ skipped <= known
      /\ Len(messages) \in Nat /\ Len(messages) <= posted
      /\ chat \in Seq(Lines) /\ Len(chat) \in Nat
  BY LenProperties DEF HudInv, Kept
<1> QED
  BY <1>1 DEF Base, Handed

LEMMA NewFollow ==
    ASSUME Base + known \in Int, now' \in Int, Handed \in Nat
    PROVE  Follow(NewLines, Base + known, now') /\ Len(NewLines) = Handed
<1> DEFINE n == Handed
           latest == Base + known
<1> HIDE DEF n, latest
<1>1. NewLines = [i \in 1..n |-> [message |-> latest + i, timestamp |-> now']]
  BY DEF NewLines, n, latest
<1>2. n \in Nat /\ latest \in Int
  BY DEF n, latest
<1>3. ASSUME NEW i \in 1..n
      PROVE  /\ [message |-> latest + i, timestamp |-> now'] \in Lines
             /\ NewLines[i] = [message |-> latest + i, timestamp |-> now']
  BY <1>1, <1>2 DEF Lines
<1>4. NewLines \in [1..n -> Lines]
  BY <1>1, <1>3
<1>5. NewLines \in Seq(Lines)
  BY <1>2, <1>4, SeqDef
<1>6. Len(NewLines) = n
  BY <1>2, <1>4, <1>5, LenProperties
<1>7. ASSUME NEW i \in 1..n
      PROVE  NewLines[i].message = latest + i /\ NewLines[i].timestamp = now'
  <2>1. NewLines[i] = [message |-> latest + i, timestamp |-> now']
    BY <1>3
  <2> QED
    BY <2>1
<1> QED
  BY <1>5, <1>6, <1>7 DEF Follow, n, latest

LEMMA FrameAppends ==
    ASSUME MaxLines \in Nat \ {0}, HudInv, Frame
    PROVE  /\ now' \in Nat /\ now <= now'
           /\ UNCHANGED <<messages, posted, skipped>> /\ known' = known + Handed
           /\ Kept(AllLines, (known - skipped) + Handed, (Base + known) + Handed, Base, now')
           /\ Len(AllLines) = Len(chat) + Handed
           /\ \A i \in 1..Len(chat) : AllLines[i] = chat[i]
           /\ \A i \in 1..Handed : AllLines[Len(chat) + i] = NewLines[i]
           /\ FirstKept \in 1..(Len(AllLines) + 1)
           /\ chat' = SubSeq(AllLines, FirstKept, Len(AllLines))
           /\ Len(chat') = Len(AllLines) + 1 - FirstKept
           /\ Kept(chat', (known - skipped) + Handed, (Base + known) + Handed, Base, now')
<1> DEFINE new == [i \in 1..Handed |-> [message |-> messages[known + i], timestamp |-> now']]
           count == known - skipped
           latest == Base + known
           n == Handed
<1>1. /\ n \in Nat /\ count \in Nat /\ Base \in Int /\ latest \in Int /\ Base <= latest /\ now \in Int
      /\ posted \in Nat /\ known \in Nat /\ Len(messages) \in Nat /\ Len(messages) <= posted
  BY HudTypes
<1>2. now' \in Nat /\ now <= now' /\ UNCHANGED <<messages, posted, skipped>>
  BY <1>1, HudTypes DEF Frame
<1>3. Max({0, Len(messages) - known}) = n /\ Max({known, Len(messages)}) = known + n
  BY <1>1, LargerOfTwo DEF Handed
<1>4. new = NewLines
  <2>1. ASSUME NEW i \in 1..n PROVE messages[known + i] = (Base + known) + i
    <3>1. known + i \in 1..Len(messages) /\ Base + (known + i) = (Base + known) + i
      BY <1>1, <2>1 DEF Base, Handed
    <3> QED
      BY <3>1 DEF HudInv
  <2> QED
    BY <2>1 DEF NewLines
<1>5. chat' = LastOf(AllLines, MaxLines) /\ known' = known + n
  BY <1>3, <1>4 DEF Frame, PushChat, AllLines
<1>6. /\ Kept(AllLines, count + n, latest + n, Base, now') /\ Len(AllLines) = Len(chat) + n
      /\ \A i \in 1..Len(chat) : AllLines[i] = chat[i]
      /\ \A i \in 1..n : AllLines[Len(chat) + i] = NewLines[i]
  <2>1. Kept(chat, count, latest, Base, now)
    BY DEF HudInv
  <2>2. Follow(NewLines, latest, now') /\ Len(NewLines) = n
    BY <1>1, <1>2, NewFollow
  <2>3. now' \in Int /\ chat \in Seq(Lines) /\ NewLines \in Seq(Lines)
    BY <1>2, <2>1, <2>2 DEF Kept, Follow
  <2> HIDE DEF n, count, latest
  <2>4. Kept(AllLines, count + n, latest + n, Base, now')
    BY <1>1, <1>2, <2>1, <2>2, <2>3, KeptWithNew DEF AllLines
  <2> QED
    BY <2>2, <2>3, <2>4, AppendedLines DEF AllLines
<1>7. AllLines \in Seq(Lines) /\ Len(AllLines) \in Nat
  BY <1>6, LenProperties DEF Kept
<1>8. FirstKept \in 1..(Len(AllLines) + 1) /\ chat' = SubSeq(AllLines, FirstKept, Len(AllLines))
  BY <1>5, <1>7, KeptAreLast DEF FirstKept
<1>9. /\ Kept(chat', count + n, latest + n, Base, now')
      /\ Len(chat') = Len(AllLines) + 1 - FirstKept
  <2> HIDE DEF count, n, latest
  <2>1. count + n \in Nat /\ latest + n \in Int /\ Base \in Int /\ now' \in Int
    BY <1>1, <1>2
  <2> QED
    BY <1>6, <1>8, <2>1, KeptAtTheEnd
<1> QED
  BY <1>2, <1>5, <1>6, <1>8, <1>9

LEMMA FrameKeepsLines ==
    ASSUME MaxLines \in Nat \ {0}, HudInv, Frame
    PROVE  HudInv'
<1> DEFINE n == Handed
           count == known - skipped
           base == Base
           latest == Base + known
<1>1. /\ posted \in Nat /\ known \in Nat /\ skipped \in Nat /\ skipped <= known
      /\ Len(messages) \in Nat /\ Len(chat) \in Nat
      /\ n \in Nat /\ count \in Nat /\ base \in Int /\ latest \in Int
  BY HudTypes
<1>2. /\ now' \in Nat /\ known' = known + n
      /\ Len(AllLines) = Len(chat) + n
      /\ FirstKept \in 1..(Len(AllLines) + 1)
      /\ Kept(chat', count + n, latest + n, base, now') /\ Len(chat') = Len(AllLines) + 1 - FirstKept
  BY FrameAppends
<1>3. UNCHANGED <<messages, posted, skipped>>
  BY DEF Frame
<1>4. Len(chat') <= MaxLines /\ (Len(chat') = Len(AllLines) \/ Len(chat') = MaxLines)
  <2> HIDE DEF n
  <2>1. Len(AllLines) \in Nat
    BY <1>1, <1>2
  <2> DEFINE a == Len(AllLines)
             l == Len(chat')
  <2>2. a \in Nat /\ l = a + 1 - (IF a <= MaxLines THEN 1 ELSE a - MaxLines + 1)
    BY <1>2, <2>1 DEF FirstKept
  <2> HIDE DEF a, l
  <2>3. l <= MaxLines /\ (l = a \/ l = MaxLines)
    BY <2>2
  <2> QED
    BY <2>3 DEF a, l
<1>5. count + n <= Len(chat') \/ Len(chat') = MaxLines
  <2>1. count <= Len(chat) \/ Len(chat) = MaxLines
    BY DEF HudInv
  <2> DEFINE k == Len(chat)
             a == Len(AllLines)
             l == Len(chat')
  <2>2. k \in Nat /\ a = k + n /\ l <= MaxLines /\ (l = a \/ l = MaxLines) /\ (count <= k \/ k = MaxLines)
    BY <1>1, <1>2, <1>4, <2>1
  <2> HIDE DEF k, a, l, n, count
  <2>3. count + n <= l \/ l = MaxLines
    BY <1>1, <2>2
  <2> QED
    BY <2>3 DEF l
<1>6. known' - skipped' = count + n /\ (Base + known)' = latest + n /\ Base' = base
  <2>1. posted' = posted /\ Len(messages') = Len(messages) /\ skipped' = skipped
    BY <1>3
  <2>2. Base' = Base
    BY <2>1 DEF Base
  <2> HIDE DEF n
  <2>3. Base \in Int /\ n \in Int /\ known' = known + n
    BY <1>1, <1>2
  <2> QED
    BY <1>1, <2>1, <2>2, <2>3
<1>7. Kept(chat', known' - skipped', Base' + known', Base', now')
  <2> HIDE DEF count, n, latest, base
  <2> QED
    BY <1>2, <1>6
<1>8. /\ known' \in Nat /\ skipped' <= known'
      /\ skipped' < known' => known' <= Len(messages')
  <2>1. skipped < known => known <= Len(messages)
    BY DEF HudInv
  <2> QED
    BY <1>1, <1>2, <1>3, <2>1 DEF Handed
<1>9. known' - skipped' <= Len(chat') \/ Len(chat') = MaxLines
  <2> HIDE DEF count, n
  <2> QED
    BY <1>5, <1>6
<1>10. messages' \in Seq(Nat) /\ Len(messages') <= posted'
       /\ \A i \in 1..Len(messages') : messages'[i] = Base' + i
  <2> HIDE DEF base
  <2> QED
    BY <1>3 DEF HudInv, Base
<1>11. posted' \in Nat /\ skipped' \in Nat
  BY <1>1, <1>3
<1> QED
  BY <1>2, <1>4, <1>7, <1>8, <1>9, <1>10, <1>11 DEF HudInv

LEMMA PostKeepsLines ==
    ASSUME HudInv, PostChat
    PROVE  HudInv'
<1>1. /\ posted' = posted + 1 /\ messages' = Append(messages, posted + 1)
      /\ UNCHANGED <<known, chat, now, skipped>>
  BY DEF PostChat
<1>2. posted \in Nat /\ known \in Nat /\ messages \in Seq(Nat) /\ Len(messages) \in Nat
      /\ Len(messages) <= posted /\ (skipped < known => known <= Len(messages))
  BY LenProperties DEF HudInv
<1>3. /\ messages' \in Seq(Nat) /\ Len(messages') = Len(messages) + 1
      /\ \A i \in 1..Len(messages) : messages'[i] = messages[i]
      /\ messages'[Len(messages) + 1] = posted + 1
  BY <1>1, <1>2, AppendProperties
<1>4. Base' = Base
  BY <1>1, <1>2, <1>3 DEF Base
<1>5. ASSUME NEW i \in 1..Len(messages') PROVE messages'[i] = Base' + i
  <2>1. CASE i \in 1..Len(messages)
    BY <1>3, <1>4, <2>1 DEF HudInv
  <2>2. CASE i = Len(messages) + 1
    <3>1. Base + (Len(messages) + 1) = posted + 1
      BY <1>2 DEF Base
    <3> QED
      BY <1>3, <1>4, <2>2, <3>1
  <2> QED
    BY <1>2, <1>3, <2>1, <2>2
<1>6. Len(messages') <= posted' /\ posted' \in Nat
      /\ (skipped' < known' => known' <= Len(messages'))
  <2>1. skipped < known => known <= Len(messages) + 1
    BY <1>2
  <2> QED
    BY <1>1, <1>2, <1>3, <2>1
<1>7. Kept(chat', known' - skipped', Base' + known', Base', now')
  BY <1>1, <1>4 DEF HudInv
<1> QED
  BY <1>1, <1>3, <1>5, <1>6, <1>7 DEF HudInv

LEMMA ReplaceKeepsLines ==
    ASSUME HudInv, ReplaceWorld
    PROVE  HudInv'
<1>1. messages' = <<>> /\ skipped' = known /\ UNCHANGED <<known, chat, now, posted>>
  BY DEF ReplaceWorld
<1>2. /\ posted \in Nat /\ known \in Nat /\ skipped \in Nat /\ skipped <= known /\ now \in Nat
      /\ Len(messages) \in Nat /\ Len(messages) <= posted /\ (skipped < known => known <= Len(messages))
      /\ Kept(chat, known - skipped, Base + known, Base, now)
  BY LenProperties DEF HudInv
<1>3. Len(messages') = 0 /\ messages' \in Seq(Nat) /\ Base' = posted
  BY <1>1, <1>2 DEF Base
<1>4. ASSUME NEW i \in 1..Len(chat) PROVE chat[i].message <= posted
  <2>1. CASE skipped < known
    <3>1. chat[i].message <= Base + known
      <4>1. known - skipped \in Nat /\ Base + known \in Int /\ Base \in Int /\ Base <= Base + known
        BY <1>2 DEF Base
      <4> QED
        BY <1>2, <4>1, KeptUpToLatest, SMTT(30)
    <3>2. Base + known <= posted /\ Base + known \in Int
      BY <1>2, <2>1 DEF Base
    <3>3. chat[i].message \in Int
      BY <1>2, LinesAreRecords DEF Kept
    <3> QED
      BY <1>2, <3>1, <3>2, <3>3
  <2>2. CASE skipped = known
    <3>1. Len(chat) \in Nat
      BY <1>2, LenProperties DEF Kept
    <3>2. ~ (Len(chat) - i < known - skipped)
      BY <1>2, <2>2, <3>1
    <3>3. chat[i].message <= Base /\ chat[i].message \in Int
      BY <1>2, <3>2, LinesAreRecords DEF Kept
    <3>4. Base <= posted /\ Base \in Int
      BY <1>2 DEF Base
    <3> QED
      BY <1>2, <3>3, <3>4
  <2> QED
    BY <1>2, <2>1, <2>2
<1>5. Kept(chat', known' - skipped', Base' + known', Base', now')
  <2>1. Len(chat) \in Nat
    BY <1>2, LenProperties DEF Kept
  <2>2. \A i \in 1..Len(chat) : ~ (Len(chat) - i < known - known)
    BY <1>2, <2>1
  <2> QED
    BY <1>1, <1>2, <1>3, <1>4, <2>2 DEF Kept
<1>6. known' - skipped' = 0 /\ Len(chat') \in Nat
  BY <1>1, <1>2, LenProperties DEF Kept
<1>7. known' - skipped' <= Len(chat')
  BY <1>6
<1>8. ~ (skipped' < known') /\ skipped' <= known' /\ skipped' \in Nat /\ Len(messages') <= posted'
  BY <1>1, <1>2, <1>3
<1>9. \A i \in 1..Len(messages') : messages'[i] = Base' + i
  BY <1>3
<1> QED
  BY <1>1, <1>2, <1>3, <1>5, <1>7, <1>8, <1>9 DEF HudInv

\* The lines are kept by every step.
LEMMA HudSteps ==
    ASSUME MaxLines \in Nat \ {0}, HudInv, [ChatNext]_chatVars
    PROVE  HudInv'
<1>1. CASE Frame
  BY <1>1, FrameKeepsLines
<1>2. CASE OtherFrame
  <2>1. now' \in Nat /\ now \in Nat /\ now <= now'
        /\ UNCHANGED <<messages, known, chat, posted, skipped>>
    BY <1>2 DEF OtherFrame, HudInv
  <2>2. Kept(chat, known - skipped, Base + known, Base, now')
    <3>1. Kept(chat, known - skipped, Base + known, Base, now)
      BY DEF HudInv
    <3>2. \A i \in 1..Len(chat) : chat[i].timestamp \in Int /\ chat[i].timestamp <= now
      BY <3>1, LinesAreRecords DEF Kept
    <3>3. \A i \in 1..Len(chat) : chat[i].timestamp <= now'
      BY <2>1, <3>2
    <3> QED
      BY <3>1, <3>3 DEF Kept
  <2> QED
    BY <2>1, <2>2 DEF HudInv, Base
<1>3. CASE PostChat
  BY <1>3, PostKeepsLines
<1>4. CASE ReplaceWorld
  BY <1>4, ReplaceKeepsLines
<1>5. CASE KeyPressed \/ UNCHANGED chatVars
  <2>1. UNCHANGED <<messages, known, chat, now, posted, skipped>>
    BY <1>5 DEF KeyPressed, chatVars
  <2> QED
    BY <2>1 DEF HudInv, Base
<1> QED
  BY <1>1, <1>2, <1>3, <1>4, <1>5 DEF ChatNext

\* Lines that are kept are the latest.
LEMMA KeptAreLatest ==
    ASSUME MaxLines \in Nat \ {0}, HudInv
    PROVE  LinesAreTheLatest
<1> DEFINE here == {i \in 1..Len(messages) : skipped < i /\ i <= known}
           kept == {chat[i].message : i \in DOMAIN chat}
           l == Len(chat)
           b == Base
<1>1. /\ posted \in Nat /\ known \in Nat /\ skipped \in Nat /\ skipped <= known
      /\ Len(messages) \in Nat /\ b \in Int
      /\ \A i \in 1..Len(messages) : messages[i] = b + i
      /\ skipped < known => known <= Len(messages)
      /\ Kept(chat, known - skipped, b + known, b, now)
      /\ l <= MaxLines
      /\ known - skipped <= l \/ l = MaxLines
  BY LenProperties DEF HudInv, Base
<1>2. l \in Nat /\ DOMAIN chat = 1..l /\ DOMAIN messages = 1..Len(messages)
  BY <1>1, LenProperties DEF Kept, HudInv
<1>3. /\ \A i \in 1..l : chat[i].message \in Int
      /\ \A i, j \in 1..l : i < j => chat[i].message < chat[j].message
                                  /\ chat[i].timestamp <= chat[j].timestamp
      /\ \A i \in 1..l : IF l - i < known - skipped THEN chat[i].message = (b + known) - (l - i)
                         ELSE chat[i].message <= b
  BY <1>1, LinesAreRecords DEF Kept
<1> HIDE DEF l, b
<1>4. ASSUME NEW i \in here, i > known - MaxLines PROVE messages[i] \in kept
  <2>1. i \in 1..Len(messages) /\ skipped < i /\ i <= known
    OBVIOUS
  <2> DEFINE j == l - (known - i)
  <2>2. j \in 1..l /\ l - j = known - i /\ l - j < known - skipped /\ (b + known) - (l - j) = b + i
    BY <1>1, <1>2, <1>4, <2>1
  <2> HIDE DEF j
  <2>3. chat[j].message = b + i /\ messages[i] = b + i
    BY <1>1, <1>3, <2>1, <2>2
  <2> QED
    BY <1>2, <2>2, <2>3
<1>5. ASSUME NEW i \in DOMAIN messages, messages[i] \in kept PROVE i \in here
  <2>1. PICK j \in 1..l : messages[i] = chat[j].message
    BY <1>2, <1>5
  <2>2. i \in 1..Len(messages) /\ chat[j].message = b + i /\ b + i > b
    BY <1>1, <1>2, <2>1
  <2>3. l - j < known - skipped /\ b + i = (b + known) - (l - j)
    BY <1>1, <1>3, <2>2
  <2>4. i = known - (l - j) /\ skipped < i /\ i <= known
    <3>1. i \in Int /\ j \in 1..l /\ l \in Nat /\ b \in Int /\ known \in Nat /\ skipped \in Nat
      BY <1>1, <1>2, <2>2
    <3> QED
      BY <2>3, <3>1
  <2> QED
    BY <2>2, <2>4
<1>6. Len(chat) <= MaxLines
  BY <1>1 DEF l
<1> QED
  BY <1>2, <1>3, <1>4, <1>5, <1>6 DEF LinesAreTheLatest

LEMMA HudStarts ==
    ASSUME MaxLines \in Nat \ {0}, ChatInit
    PROVE  HudInv
<1>1. messages = <<>> /\ chat = <<>> /\ known = 0 /\ now = 0 /\ posted = 0 /\ skipped = 0
  BY DEF ChatInit
<1>2. messages \in Seq(Nat) /\ chat \in Seq(Lines) /\ Len(messages) = 0 /\ Len(chat) = 0
  BY <1>1
<1>3. Kept(chat, known - skipped, Base + known, Base, now)
  BY <1>2 DEF Kept
<1> QED
  BY <1>1, <1>2, <1>3 DEF HudInv

\* The lines the game screen keeps are the last messages handed over, in
\* order, and of this world all but those the cursor had counted before
\* (HudRenderer::push_chat, ClientApp's known_chat_messages).
THEOREM ChatShowsTheLatest == ChatSpec => []LinesAreTheLatest
<1>1. ChatInit => HudInv
  BY BoundsAssumption, HudStarts
<1>2. HudInv /\ [ChatNext]_chatVars => HudInv'
  BY BoundsAssumption, HudSteps
<1>3. HudInv => LinesAreTheLatest
  BY BoundsAssumption, KeptAreLatest
<1> QED
  BY <1>1, <1>2, <1>3, PTL DEF ChatSpec

-----------------------------------------------------------------------------
\* A set of naturals that is not empty has a least element.
LEMMA LeastNatural ==
    ASSUME NEW T, T \subseteq Nat, T # {}
    PROVE  \E m \in T : \A n \in T : m <= n
<1>1. PICK m \in T : \A n \in T : ~ (<<n, m>> \in OpToRel(<, Nat))
  BY NatLessThanWellFounded, WFMin
<1>2. ASSUME NEW n \in T PROVE m <= n
  <2>1. m \in Nat /\ n \in Nat
    OBVIOUS
  <2>2. ~ (n < m)
    BY <1>1, <2>1 DEF OpToRel
  <2> QED
    BY <2>1, <2>2
<1> QED
  BY <1>2

\* Lines in the order of their times, none of them later than time.
Timely(s, time) ==
    /\ s \in Seq(Lines) /\ time \in Int
    /\ \A i \in 1..Len(s) : s[i].timestamp <= time
    /\ \A i, j \in 1..Len(s) : i < j => s[i].timestamp <= s[j].timestamp

IsYoung(line, time) == time - line.timestamp <= Lifetime

\* The young ones are those from a on.
YoungFrom(a, s, time) ==
    /\ \A i \in 1..Len(s) : IsYoung(s[i], time) <=> i >= a
    /\ Young(s, time) = [k \in 1..(Len(s) + 1 - a) |-> s[a + k - 1]]

\* The young ones of such lines are the last ones.
LEMMA YoungAreLast ==
    ASSUME NEW s, NEW time, Timely(s, time), Lifetime \in Nat
    PROVE  \E a \in 1..(Len(s) + 1) : YoungFrom(a, s, time)
<1> DEFINE n == Len(s)
           Y == {i \in DOMAIN s : /\ s[i].timestamp <= time
                                  /\ time - s[i].timestamp <= Lifetime}
<1>1. /\ n \in Nat /\ DOMAIN s = 1..n /\ s \in Seq(Lines) /\ time \in Int
      /\ \A i \in 1..n : s[i].timestamp <= time /\ s[i].timestamp \in Int
      /\ \A i, j \in 1..n : i < j => s[i].timestamp <= s[j].timestamp
  BY LenProperties, LinesAreRecords DEF Timely
<1> HIDE DEF n
<1>2. Y \subseteq 1..n /\ \A i \in 1..n : i \in Y <=> IsYoung(s[i], time)
  BY <1>1 DEF IsYoung
<1>3. Young(s, time)
         = [k \in 1..Cardinality(Y) |->
              s[CHOOSE i \in Y : Cardinality({j \in Y : j <= i}) = k]]
  BY DEF Young
<1> HIDE DEF Y
<1>4. PICK a \in 1..(n + 1) : \A i \in 1..n : i \in Y <=> i >= a
  <2>1. CASE Y = {}
    <3>1. n + 1 \in 1..(n + 1) /\ \A i \in 1..n : ~ (i >= n + 1)
      BY <1>1
    <3> QED
      BY <2>1, <3>1
  <2>2. CASE Y # {}
    <3>1. Y \subseteq Nat
      BY <1>1, <1>2
    <3>2. PICK a \in Y : \A i \in Y : a <= i
      BY <2>2, <3>1, LeastNatural
    <3>3. ASSUME NEW i \in 1..n, i >= a PROVE i \in Y
      <4>1. a \in 1..n /\ IsYoung(s[a], time)
        BY <1>2
      <4>2. CASE i = a
        BY <4>1, <4>2
      <4>3. CASE i # a
        <5>1. a < i
          BY <1>1, <3>3, <4>1, <4>3
        <5>2. s[a].timestamp <= s[i].timestamp /\ s[a].timestamp \in Int /\ s[i].timestamp \in Int
          BY <1>1, <4>1, <5>1
        <5>3. time - s[i].timestamp <= Lifetime
          BY <1>1, <4>1, <5>2 DEF IsYoung
        <5> QED
          BY <1>2, <5>3 DEF IsYoung
      <4> QED
        BY <4>2, <4>3
    <3>4. a \in 1..(n + 1) /\ \A i \in Y : i >= a
      BY <1>1, <1>2, <3>2
    <3> QED
      BY <3>3, <3>4
  <2> QED
    BY <2>1, <2>2
<1>5. Y = a..n
  <2>1. a..n \subseteq 1..n /\ \A i \in a..n : i >= a
    BY <1>1, <1>4
  <2>2. \A i \in 1..n : i >= a => i \in a..n
    BY <1>1, <1>4
  <2> QED
    BY <1>2, <1>4, <2>1, <2>2
<1>6. Cardinality(Y) = n + 1 - a
  <2>1. Cardinality(a..n) = IF a > n THEN 0 ELSE n - a + 1
    BY <1>1, FS_Interval
  <2>2. Cardinality(Y) = Cardinality(a..n)
    BY <1>5
  <2>3. (IF a > n THEN 0 ELSE n - a + 1) = n + 1 - a
    BY <1>1
  <2> QED
    BY <2>1, <2>2, <2>3
<1>7. ASSUME NEW i \in Y PROVE Cardinality({j \in Y : j <= i}) = i - a + 1
  <2>1. i \in a..n /\ a \in Int /\ i \in Int /\ ~ (a > i)
    BY <1>1, <1>5
  <2>2. {j \in Y : j <= i} = a..i
    BY <1>1, <1>5, <2>1
  <2>3. Cardinality(a..i) = i - a + 1
    BY <2>1, FS_Interval
  <2> QED
    BY <2>2, <2>3
<1>8. ASSUME NEW k \in 1..(n + 1 - a)
      PROVE  (CHOOSE i \in Y : Cardinality({j \in Y : j <= i}) = k) = a + k - 1
  <2>1. a + k - 1 \in Y /\ (a + k - 1) - a + 1 = k
    BY <1>1, <1>5
  <2>2. \A i \in Y : Cardinality({j \in Y : j <= i}) = k <=> i = a + k - 1
    <3>1. \A i \in Y : i - a + 1 = k <=> i = a + k - 1
      BY <1>1, <1>5
    <3> QED
      BY <1>7, <3>1
  <2> QED
    BY <2>1, <2>2
<1>9. Young(s, time) = [k \in 1..(n + 1 - a) |-> s[a + k - 1]]
  BY <1>3, <1>6, <1>8
<1>10. \A i \in 1..n : IsYoung(s[i], time) <=> i >= a
  BY <1>2, <1>4
<1> QED
  BY <1>9, <1>10 DEF n, YoungFrom

\* The last v of the places from a to n, and the steps from the first of them.
LEMMA LastPlaces ==
    ASSUME NEW n \in Nat, NEW a \in 1..(n + 1), NEW v \in Nat \ {0},
           NEW m \in Nat, m = n + 1 - a,
           NEW first \in Int, first = IF m <= v THEN 1 ELSE m - v + 1
    PROVE  /\ \A k \in 1..(m - first + 1) :
                 /\ first + k - 1 \in 1..m
                 /\ a + (first + k - 1) - 1 \in 1..n
                 /\ a + (first + k - 1) - 1 >= a
                 /\ a + (first + k - 1) - 1 > n - v
           /\ \A i \in 1..n : i > n - v /\ i >= a =>
                 /\ i - a + 1 - first + 1 \in 1..(m - first + 1)
                 /\ first + (i - a + 1 - first + 1) - 1 \in 1..m
                 /\ a + (first + (i - a + 1 - first + 1) - 1) - 1 = i
<1>1. CASE m <= v
  <2>1. first = 1
    BY <1>1
  <2> QED
    BY <1>1, <2>1
<1>2. CASE ~ (m <= v)
  <2>1. first = m - v + 1
    BY <1>2
  <2> QED
    BY <1>2, <2>1
<1> QED
  BY <1>1, <1>2

\* Shown are those of the last MaxVisible lines that are young.
LEMMA ShownAreLast ==
    ASSUME NEW s, NEW time, Timely(s, time), Lifetime \in Nat, MaxVisible \in Nat \ {0}
    PROVE  ToSet(VisibleChat(s, time))
             = {s[i].message : i \in {j \in 1..Len(s) : j > Len(s) - MaxVisible /\ IsYoung(s[j], time)}}
<1> DEFINE n == Len(s)
<1>1. n \in Nat /\ s \in Seq(Lines)
  BY LenProperties DEF Timely
<1>2. PICK a \in 1..(n + 1) :
              /\ \A i \in 1..n : IsYoung(s[i], time) <=> i >= a
              /\ Young(s, time) = [k \in 1..(n + 1 - a) |-> s[a + k - 1]]
  <2>1. \E a \in 1..(Len(s) + 1) : YoungFrom(a, s, time)
    BY YoungAreLast
  <2> QED
    BY <2>1, Zenon DEF YoungFrom
<1> DEFINE m == n + 1 - a
           young == Young(s, time)
           texts == [i \in DOMAIN young |-> young[i].message]
           first == IF m <= MaxVisible THEN 1 ELSE m - MaxVisible + 1
           shown == VisibleChat(s, time)
<1>3. m \in Nat /\ \A k \in 1..m : a + k - 1 \in 1..n
  BY <1>1, <1>2
<1>4. /\ DOMAIN texts = 1..m
      /\ \A k \in 1..m : texts[k] = s[a + k - 1].message /\ texts[k] \in Int
  <2>1. texts = [k \in 1..m |-> s[a + k - 1].message]
    BY <1>2
  <2>2. \A k \in 1..m : s[a + k - 1].message \in Int
    BY <1>1, <1>3, LinesAreRecords DEF n
  <2> HIDE DEF texts, m
  <2> QED
    BY <2>1, <2>2
<1> HIDE DEF n, young, texts, m
<1>5. texts \in Seq(Int) /\ Len(texts) = m
  <2>1. texts \in [1..m -> Int]
    <3>1. texts = [k \in 1..m |-> texts[k]]
      BY <1>4 DEF texts
    <3> QED
      BY <1>4, <3>1
  <2>2. texts \in Seq(Int)
    BY <1>3, <2>1, SeqDef
  <2> QED
    BY <1>3, <2>1, <2>2, LenProperties
<1>6. shown = SubSeq(texts, first, m) /\ first \in 1..(m + 1)
  <2>1. Max({1, m - MaxVisible + 1}) = first
    BY <1>3, LargerOfTwo
  <2>2. shown = LastOf(texts, MaxVisible)
    BY DEF VisibleChat, texts, young
  <2>3. first \in 1..(m + 1)
    BY <1>3
  <2> HIDE DEF first, shown
  <2> QED
    BY <1>5, <2>1, <2>2, <2>3 DEF LastOf
<1>7. first \in Int /\ m \in Int /\ (first <= m \/ (first = m + 1 /\ m - first + 1 = 0))
  BY <1>3, <1>6
<1> HIDE DEF first, shown
<1>8. /\ DOMAIN shown = 1..(m - first + 1)
      /\ \A k \in 1..(m - first + 1) : shown[k] = texts[first + k - 1]
  <2>1. \A i \in first..m : texts[i] \in Int
    BY <1>3, <1>4, <1>6
  <2>2. /\ SubSeq(texts, first, m) \in Seq(Int)
        /\ Len(SubSeq(texts, first, m)) = (IF first <= m THEN m - first + 1 ELSE 0)
        /\ \A i \in 1..(m - first + 1) : SubSeq(texts, first, m)[i] = texts[first + i - 1]
    BY <1>7, <2>1, SubSeqProperties
  <2>3. shown \in Seq(Int) /\ Len(shown) = m - first + 1
    BY <1>6, <1>7, <2>2
  <2> QED
    BY <1>6, <2>2, <2>3, LenProperties
<1>9. first = IF m <= MaxVisible THEN 1 ELSE m - MaxVisible + 1
  BY DEF first
<1> DEFINE last == {i \in 1..n : i > n - MaxVisible /\ IsYoung(s[i], time)}
<1>10. ASSUME NEW k \in 1..(m - first + 1)
       PROVE  \E i \in last : shown[k] = s[i].message
  <2> DEFINE i == a + (first + k - 1) - 1
  <2>1. first + k - 1 \in 1..m /\ i \in 1..n /\ i >= a /\ i > n - MaxVisible
    <3>1. n \in Nat /\ m \in Nat /\ m = n + 1 - a /\ first \in Int
      BY <1>1, <1>3, <1>7 DEF m
    <3> QED
      BY <1>9, <3>1, LastPlaces
  <2>2. shown[k] = s[i].message
    BY <1>4, <1>8, <2>1
  <2> HIDE DEF i
  <2>3. i \in last
    BY <1>2, <2>1
  <2> QED
    BY <2>2, <2>3
<1>11. ASSUME NEW i \in last
       PROVE  \E k \in 1..(m - first + 1) : shown[k] = s[i].message
  <2> DEFINE k == i - a + 1 - first + 1
  <2>1. i \in 1..n /\ i > n - MaxVisible /\ i >= a
    BY <1>2
  <2>2. k \in 1..(m - first + 1) /\ first + k - 1 \in 1..m /\ a + (first + k - 1) - 1 = i
    <3>1. n \in Nat /\ m \in Nat /\ m = n + 1 - a /\ first \in Int
      BY <1>1, <1>3, <1>7 DEF m
    <3> QED
      BY <1>9, <2>1, <3>1, LastPlaces
  <2> HIDE DEF k
  <2>3. shown[k] = s[i].message
    BY <1>4, <1>8, <2>2
  <2> QED
    BY <2>2, <2>3
<1>12. ToSet(shown) = {shown[k] : k \in 1..(m - first + 1)}
  BY <1>8 DEF ToSet
<1>13. {shown[k] : k \in 1..(m - first + 1)} = {s[i].message : i \in last}
  <2> HIDE DEF last
  <2> QED
    BY <1>10, <1>11
<1> QED
  BY <1>12, <1>13 DEF shown, n

LEMMA SameLine ==
    ASSUME NEW s, NEW count \in Nat, NEW latest \in Int, NEW base \in Int, NEW time \in Int,
           Kept(s, count, latest, base, time),
           NEW i \in 1..Len(s), NEW j \in 1..Len(s), s[i].message = s[j].message
    PROVE  i = j
<1>1. Len(s) \in Nat /\ s[i].message \in Int /\ s[j].message \in Int
  BY LenProperties, LinesAreRecords DEF Kept
<1>2. /\ i < j => s[i].message < s[j].message
      /\ j < i => s[j].message < s[i].message
  BY DEF Kept
<1> DEFINE m == s[i].message
           n == s[j].message
<1>3. m \in Int /\ n \in Int /\ m = n /\ (i < j => m < n) /\ (j < i => n < m)
  BY <1>1, <1>2
<1> HIDE DEF m, n
<1>4. ~ (i < j) /\ ~ (j < i)
  BY <1>3
<1> QED
  BY <1>1, <1>4

\* What a frame shows, in terms of the lines before it was drawn.
LEMMA FrameShows ==
    ASSUME MaxLines \in Nat \ {0}, MaxVisible \in 1..MaxLines, Lifetime \in Nat,
           HudInv, Frame
    PROVE  /\ \A i \in known + 1 .. Len(messages) :
                 i > Len(messages) - MaxVisible => messages[i] \in ToSet(visible')
           /\ \A i \in DOMAIN chat :
                 chat[i].message \in ToSet(visible') => now' - chat[i].timestamp <= Lifetime
<1> DEFINE all == AllLines
           l == Len(chat)
           n == Handed
           first == FirstKept
           last == Len(chat')
           count == (known - skipped) + n
           latest == (Base + known) + n
           base == Base
<1>1. /\ posted \in Nat /\ known \in Nat /\ Len(messages) \in Nat /\ l \in Nat /\ n \in Nat
      /\ count \in Nat /\ latest \in Int /\ base \in Int /\ now' \in Nat
      /\ chat \in Seq(Lines) /\ DOMAIN chat = 1..l
  <2> HIDE DEF n
  <2>1. n \in Nat /\ known - skipped \in Nat /\ Base + known \in Int /\ Base \in Int
    BY HudTypes DEF n
  <2>2. count \in Nat /\ latest \in Int
    BY <2>1
  <2>3. now' \in Nat
    BY FrameAppends
  <2> QED
    BY <2>1, <2>2, <2>3, HudTypes, LenProperties
<1>2. /\ Kept(all, count, latest, base, now') /\ Len(all) = l + n
      /\ \A i \in 1..l : all[i] = chat[i]
      /\ \A i \in 1..n : all[l + i] = NewLines[i]
      /\ first \in 1..(Len(all) + 1)
      /\ chat' = SubSeq(all, first, Len(all)) /\ last = Len(all) + 1 - first
      /\ Kept(chat', count, latest, base, now')
  BY FrameAppends
<1>3. visible' = VisibleChat(chat', now')
  BY DEF Frame
<1>4. first = IF l + n <= MaxLines THEN 1 ELSE l + n - MaxLines + 1
  <2>1. Len(AllLines) = l + n
    BY <1>2
  <2> DEFINE t == Len(AllLines)
  <2>2. first = IF t <= MaxLines THEN 1 ELSE t - MaxLines + 1
    BY DEF FirstKept
  <2> HIDE DEF l, n, t, first
  <2>3. t = l + n /\ l \in Nat /\ n \in Nat
    BY <1>1, <2>1 DEF t
  <2> QED
    BY <2>2, <2>3
<1>5. ASSUME NEW i \in 1..n
      PROVE  NewLines[i] = [message |-> messages[known + i], timestamp |-> now']
  <2>1. known + i \in 1..Len(messages) /\ Base + (known + i) = (Base + known) + i
    BY <1>1 DEF Handed, Base
  <2>2. messages[known + i] = (Base + known) + i
    BY <2>1 DEF HudInv
  <2> QED
    BY <2>2 DEF NewLines
<1>6. n = IF Len(messages) >= known THEN Len(messages) - known ELSE 0
  BY DEF Handed
<1> HIDE DEF all, l, n, first, last, count, latest, base
<1>7. \A p \in 1..last : chat'[p] = all[first + p - 1] /\ first + p - 1 \in 1..(l + n)
  <2>1. all \in Seq(Lines) /\ Len(all) = l + n /\ last = (l + n) + 1 - first /\ first \in 1..(l + n + 1)
    BY <1>2 DEF Kept
  <2>2. /\ \A p \in 1..last : first + p - 1 \in 1..(l + n)
        /\ first \in Int /\ l + n \in Int /\ (l + n) - first + 1 = last
        /\ \A i \in first..(l + n) : i \in 1..(l + n)
    BY <1>1, <2>1
  <2>3. \A i \in first..(l + n) : all[i] \in Lines
    BY <2>1, <2>2, ElementOfSeq
  <2>4. \A p \in 1..((l + n) - first + 1) : SubSeq(all, first, l + n)[p] = all[first + p - 1]
    BY <2>2, <2>3, SubSeqProperties
  <2> QED
    BY <1>2, <2>1, <2>2, <2>4
<1>8. Timely(chat', now')
  <2>1. /\ chat' \in Seq(Lines)
        /\ \A i \in 1..Len(chat') : chat'[i].timestamp <= now'
        /\ \A i, j \in 1..Len(chat') : i < j => chat'[i].timestamp <= chat'[j].timestamp
    BY <1>2 DEF Kept
  <2>2. now' \in Int
    BY <1>1
  <2> QED
    BY <2>1, <2>2 DEF Timely
<1>9. ToSet(visible')
        = {chat'[p].message : p \in {q \in 1..last : q > last - MaxVisible /\ IsYoung(chat'[q], now')}}
  <2>1. MaxVisible \in Nat \ {0}
    OBVIOUS
  <2> QED
    BY <1>3, <1>8, <2>1, ShownAreLast, Zenon DEF last
<1>10. ASSUME NEW i \in known + 1 .. Len(messages), i > Len(messages) - MaxVisible
       PROVE  messages[i] \in ToSet(visible')
  <2> DEFINE p == last - (Len(messages) - i)
             k == i - known
  <2>1. /\ k \in 1..n /\ known + k = i /\ n = Len(messages) - known
        /\ p \in 1..last /\ p > last - MaxVisible /\ first + p - 1 = l + k
    <3>1. last = (l + n) + 1 - first
      BY <1>2
    <3>2. i \in Int /\ known < i /\ i <= Len(messages) /\ n = Len(messages) - known
      BY <1>1, <1>6
    <3>3. i > Len(messages) - MaxVisible /\ MaxVisible \in Nat /\ MaxLines \in Nat
          /\ MaxVisible <= MaxLines /\ Len(messages) \in Nat /\ known \in Nat /\ l \in Nat
      BY <1>1, <1>10
    <3>4. k \in 1..n /\ known + k = i
      BY <3>2, <3>3
    <3>5. p > last - MaxVisible /\ first + p - 1 = l + k
      <4>1. first \in Int /\ n \in Int
        BY <1>1, <1>4, <3>3
      <4> QED
        BY <3>1, <3>2, <3>3, <4>1
    <3>6. p \in 1..last
      <4>1. first \in Int /\ n \in Nat /\ last \in Int
        BY <1>1, <1>4, <3>1, <3>3
      <4>2. Len(messages) - i < MaxVisible /\ Len(messages) - i < n /\ Len(messages) - i \in Nat
        BY <3>2, <3>3
      <4>3. last >= MaxLines \/ last >= n
        BY <1>4, <3>1, <3>3, <4>1
      <4> QED
        BY <3>3, <4>1, <4>2, <4>3
    <3> QED
      BY <3>2, <3>4, <3>5, <3>6
  <2> HIDE DEF p, k
  <2>2. chat'[p] = [message |-> messages[i], timestamp |-> now']
    <3>1. chat'[p] = all[l + k]
      BY <1>7, <2>1
    <3>2. all[l + k] = NewLines[k]
      BY <1>2, <2>1
    <3>3. NewLines[k] = [message |-> messages[known + k], timestamp |-> now']
      BY <1>5, <2>1
    <3> QED
      BY <2>1, <3>1, <3>2, <3>3
  <2>3. IsYoung(chat'[p], now')
    <3>1. chat'[p].timestamp = now'
      BY <2>2
    <3>2. \A t \in Nat : t - t <= Lifetime
      <4>1. \A t \in Nat : t - t = 0
        OBVIOUS
      <4>2. Lifetime >= 0
        OBVIOUS
      <4> QED
        BY <4>1, <4>2
    <3>3. now' - now' <= Lifetime
      BY <1>1, <3>2
    <3> QED
      BY <3>1, <3>3 DEF IsYoung
  <2>4. chat'[p].message = messages[i]
    BY <2>2
  <2> QED
    BY <1>9, <2>1, <2>3, <2>4
<1>11. ASSUME NEW i \in DOMAIN chat, chat[i].message \in ToSet(visible')
       PROVE  now' - chat[i].timestamp <= Lifetime
  <2>1. PICK p \in 1..last : IsYoung(chat'[p], now') /\ chat[i].message = chat'[p].message
    BY <1>9, <1>11
  <2> DEFINE q == first + p - 1
  <2>2. q \in 1..(l + n) /\ chat'[p] = all[q]
    BY <1>7
  <2>3. i \in 1..l /\ i \in 1..(l + n) /\ all[i] = chat[i]
    BY <1>1, <1>2
  <2> HIDE DEF q
  <2>4. i = q
    <3>1. all[i].message = all[q].message /\ i \in 1..Len(all) /\ q \in 1..Len(all) /\ now' \in Int
      BY <1>1, <1>2, <2>1, <2>2, <2>3
    <3> QED
      BY <1>1, <1>2, <3>1, SameLine
  <2>5. chat[i] = chat'[p]
    BY <2>2, <2>3, <2>4
  <2> QED
    BY <2>1, <2>5 DEF IsYoung
<1> QED
  BY <1>10, <1>11

\* A frame of the game shows every message that came since the frame before,
\* up to the number it has room for, and none that was there for longer than
\* its lifetime (HudRenderer::visible_chat, the cursor of ClientApp).
THEOREM FramesShowTheNew == ChatSpec => FramesShowWhatIsNew
<1>1. ChatInit => HudInv
  BY BoundsAssumption, HudStarts
<1>2. HudInv /\ [ChatNext]_chatVars => HudInv'
  BY BoundsAssumption, HudSteps
<1>3. HudInv /\ [ChatNext]_chatVars =>
        [ Frame =>
            /\ \A i \in known + 1 .. Len(messages) :
                  i > Len(messages) - MaxVisible => messages[i] \in ToSet(visible')
            /\ \A i \in DOMAIN chat :
                  chat[i].message \in ToSet(visible')
                     => now' - chat[i].timestamp <= Lifetime ]_chatVars
  BY BoundsAssumption, FrameShows
<1> QED
  BY <1>1, <1>2, <1>3, PTL DEF ChatSpec, FramesShowWhatIsNew
=============================================================================
