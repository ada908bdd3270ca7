-------------------------------- MODULE Gpt --------------------------------
(***************************************************************************)
(* The two general purpose timers of the USB core (src/gpt.rs): what a     *)
(* caller programs and the counter that runs beside it.  That the          *)
(* interrupt handler shares the flags is the subject of IrqWake.           *)
(***************************************************************************)
EXTENDS Naturals

CONSTANTS
    Instances,      \* Gpt0 and Gpt1
    MaxCount,       \* 0xFF_FFFF
    Delays          \* bound: the microseconds callers ask for

VARIABLES
    load,       \* GPTLD
    mode,       \* GPTMODE: "oneShot" or "repeat"
    running,    \* GPTRUN
    count,      \* GPTCNT
    over,       \* a one-shot counter has counted down and not been reset
    flag,       \* USBSTS.TI0 and TI1
    wanted,     \* the delay set_load was asked for, as documented; not read by the code
    asked,      \* the same, as of the counter's last loading
    age         \* microseconds the counter has run since then

ctrlVars == <<load, mode, running, wanted>>
vars == <<ctrlVars, count, over, flag, asked, age>>

TypeOK ==
    /\ load \in [Instances -> 0 .. MaxCount - 1]
    /\ mode \in [Instances -> {"oneShot", "repeat"}]
    /\ running \in [Instances -> BOOLEAN] /\ over \in [Instances -> BOOLEAN]
    /\ flag \in [Instances -> BOOLEAN]
    /\ count \in [Instances -> 0 .. MaxCount - 1]
    /\ wanted \in [Instances -> 1 .. MaxCount] /\ asked \in [Instances -> 1 .. MaxCount]
    /\ age \in [Instances -> 0 .. MaxCount]

Init ==
    /\ load = [g \in Instances |-> 0] /\ count = load /\ age = load
    /\ mode = [g \in Instances |-> "oneShot"]
    /\ running = [g \in Instances |-> FALSE] /\ flag = running /\ over = running
    /\ wanted = [g \in Instances |-> 1] /\ asked = wanted

Clamp(us) == IF us < 1 THEN 1 ELSE IF us > MaxCount THEN MaxCount ELSE us

\* Mutant: the counter is given the delay itself.
CountOfDelay(us) == IF us < MaxCount THEN us ELSE MaxCount - 1

\* Mutant: the delay is not kept below the width of the counter.
CountUnbounded(us) == IF us < 1 THEN 0 ELSE us - 1

\* The counter runs one microsecond longer than its value.
CountOf(us) == Clamp(us) - 1

SetLoad(g, us) ==
    /\ load' = [load EXCEPT ![g] = CountOf(us)]
    /\ wanted' = [wanted EXCEPT ![g] = Clamp(us)]
    /\ UNCHANGED <<mode, running, count, over, flag, asked, age>>

SetMode(g, m) ==
    /\ mode' = [mode EXCEPT ![g] = m]
    /\ UNCHANGED <<load, running, wanted, count, over, flag, asked, age>>

Run(g) ==
    /\ running' = [running EXCEPT ![g] = TRUE]
    /\ UNCHANGED <<load, mode, wanted, count, over, flag, asked, age>>

Stop(g) ==
    /\ running' = [running EXCEPT ![g] = FALSE]
    /\ UNCHANGED <<load, mode, wanted, count, over, flag, asked, age>>

\* The load value takes effect, by a reset or by a repeating counter itself.
Loaded(g) ==
    /\ count' = [count EXCEPT ![g] = load[g]]
    /\ asked' = [asked EXCEPT ![g] = wanted[g]]
    /\ age' = [age EXCEPT ![g] = 0]

Reset(g) ==
    /\ Loaded(g)
    /\ over' = [over EXCEPT ![g] = FALSE]
    /\ UNCHANGED <<ctrlVars, flag>>

\* A one is written to this timer's flag and to no other.
ClearElapsed(g) ==
    /\ flag' = [flag EXCEPT ![g] = FALSE]
    /\ UNCHANGED <<ctrlVars, count, over, asked, age>>

\* A microsecond passes for a counter that runs.
Count(g) ==
    /\ running[g] /\ ~over[g] /\ count[g] > 0
    /\ count' = [count EXCEPT ![g] = @ - 1]
    /\ age' = [age EXCEPT ![g] = @ + 1]
    /\ UNCHANGED <<ctrlVars, over, flag, asked>>

\* It passes for one that stood at zero: the timer elapses, and stops or starts anew.
Elapse(g) ==
    /\ running[g] /\ ~over[g] /\ count[g] = 0
    /\ flag' = [flag EXCEPT ![g] = TRUE]
    /\ IF mode[g] = "repeat"
       THEN Loaded(g) /\ UNCHANGED over
       ELSE /\ over' = [over EXCEPT ![g] = TRUE]
            /\ age' = [age EXCEPT ![g] = @ + 1]
            /\ UNCHANGED <<count, asked>>
    /\ UNCHANGED ctrlVars

Next ==
    \E g \in Instances :
        \/ \E us \in Delays : SetLoad(g, us)
        \/ \E m \in {"oneShot", "repeat"} : SetMode(g, m)
        \/ Run(g) \/ Stop(g) \/ Reset(g) \/ ClearElapsed(g)
        \/ Count(g) \/ Elapse(g)

Spec == Init /\ [][Next]_vars

-----------------------------------------------------------------------------
(* Properties *)

\* A timer elapses when it has run, since it was reset or repeated, for the delay that
\* set_load was asked for before that, 0 counting as 1 and what does not fit as the
\* most that does, however often it was stopped and whatever is set meanwhile: what a
\* counter has run and what it has still to run always make up that delay
\* (gpt.rs:157-164).
OnTime ==
    \A g \in Instances :
        age[g] + (IF over[g] THEN 0 ELSE count[g] + 1) = asked[g]
=============================================================================
