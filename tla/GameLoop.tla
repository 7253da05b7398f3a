------------------------------ MODULE GameLoop -------------------------------
(***************************************************************************)
(* GameLoop (game/GameLoop.cpp): the time that has passed becomes ticks of *)
(* the simulation, each of which moves the player and delivers the block   *)
(* updates that wait.  Whoever calls advance says how much time has        *)
(* passed; a call with no time, or with a time that is no number, returns  *)
(* at once, and so does one while the loop is paused.                      *)
(*                                                                         *)
(* Time is in whole units, TickLength of them to a tick: the tolerance of  *)
(* the code, which makes up for what a double rounds, has no part here.    *)
(***************************************************************************)
EXTENDS Physics

CONSTANTS
    TickLength,         \* provisional_tick_seconds
    MaxCatchUp,         \* max_catch_up_ticks: 20
    Elapsed,            \* what advance is called with
    MaxScheduled        \* max_scheduled_ticks: 4096

ASSUME TickAssumption == TickLength \in Nat \ {0} /\ MaxCatchUp \in Nat \ {0}
ASSUME ElapsedAssumption == Elapsed \subseteq Nat \ {0}
ASSUME ScheduledAssumption == MaxScheduled \in Nat

VARIABLES
    accumulator,    \* the time not yet simulated
    paused,
    advancing,      \* whether a call of advance goes on
    elapsed,        \* its argument
    executed,       \* the ticks it has run
    scheduled       \* the number of block updates that wait

loopVars == <<accumulator, paused, advancing, elapsed, executed>>
allVars == <<vars, loopVars, scheduled>>

Cap == MaxCatchUp * TickLength
Least(a, b) == IF a <= b THEN a ELSE b

LoopInit ==
    /\ Init
    /\ accumulator = 0 /\ paused = FALSE
    /\ advancing = FALSE /\ elapsed = 0 /\ executed = 0 /\ scheduled = 0

\* Mutant of Added: a long stall is caught up as a whole.
AddedWhole(time) == accumulator + time

Added(time) == accumulator + Least(time, Cap)

\* advance, up to its loop.
Advance ==
    /\ ~advancing /\ ~paused
    /\ \E time \in Elapsed : elapsed' = time /\ accumulator' = Added(time)
    /\ advancing' = TRUE /\ executed' = 0
    /\ UNCHANGED <<vars, paused, scheduled>>

Due == accumulator >= TickLength /\ executed < MaxCatchUp

\* tick: physics first, then every update that waits.
LoopTick ==
    /\ advancing /\ Due
    /\ Tick
    /\ scheduled' = 0
    /\ accumulator' = accumulator - TickLength /\ executed' = executed + 1
    /\ UNCHANGED <<paused, advancing, elapsed>>

Return ==
    /\ advancing /\ ~Due
    /\ advancing' = FALSE
    /\ UNCHANGED <<vars, accumulator, paused, elapsed, executed, scheduled>>

\* set_paused: what was left of a tick is dropped.
SetPaused ==
    /\ ~advancing
    /\ paused' \in BOOLEAN
    /\ accumulator' = IF paused' THEN 0 ELSE accumulator
    /\ UNCHANGED <<vars, advancing, elapsed, executed, scheduled>>

\* What happens to the game between two calls.
PlayerJumps == ~advancing /\ Jump /\ UNCHANGED <<loopVars, scheduled>>

ScheduleTick ==
    /\ ~advancing /\ scheduled < MaxScheduled
    /\ scheduled' = scheduled + 1
    /\ UNCHANGED <<vars, loopVars>>

LoopNext == Advance \/ LoopTick \/ Return \/ SetPaused \/ PlayerJumps \/ ScheduleTick

SafeSpec == LoopInit /\ [][LoopNext]_allVars

\* A call goes on to its end, and advance is called again.
LoopSpec ==
    /\ SafeSpec
    /\ WF_allVars(LoopTick \/ Return)
    /\ WF_allVars(Advance)

-----------------------------------------------------------------------------
\* A call runs the ticks that have come due and no more: however long the
\* stall before it, at most MaxCatchUp of them, and what it leaves to the next
\* call is less than one, so that a stall is never caught up later, nor is the
\* time of a pause.
CatchUpIsBounded ==
    /\ executed <= MaxCatchUp
    /\ ~advancing =>
          /\ accumulator \in 0 .. TickLength - 1
          /\ executed * TickLength < elapsed + TickLength
          /\ (executed + 1) * TickLength > Least(elapsed, Cap)
    /\ paused => accumulator = 0

\* Unless the loop is paused time and again, or for good, the player comes to
\* the ground again and again, wherever the API put the player, in a block or
\* outside of the world, and however often the player jumps; and the updates
\* that wait are delivered.
SimulationGoesOn ==
    <>[]~paused => []<>onGround /\ []<>(scheduled = 0)
=============================================================================
