------------------------------- MODULE Timing -------------------------------
(***************************************************************************)
(* The K-best measurement of src/lab6_malloc: fsecs.c calls fcyc.c, which  *)
(* reads the cycle counter with clock.c and takes away what timer          *)
(* interrupts cost.  A run of f takes cycles of its own, and TickCycles    *)
(* more for every interrupt that comes meanwhile.                          *)
(***************************************************************************)
EXTENDS Integers, Sequences, SequencesExt

CONSTANTS
    HalfWord,           \* 2^32: the cycle counter has two halves
    TickCycles,         \* what an interrupt costs
    Durations,          \* cycles a run of f may take
    Overheads,          \* cycles between two reads of the counter in callibrate
    MaxTicks,           \* bound: interrupts during one run
    MaxWait,            \* bound: cycles callibrate waits for its interrupts
    MaxTime,            \* bound: ticks after which nothing more is measured
    NEVENT, THRESHOLD, RECORDTHRESH,    \* 100, 1000 and 3000 in clock.c
    K, MAXSAMPLES                       \* 3 and 20

ASSUME TimingAssumption ==
    /\ HalfWord \in Nat \ {0, 1} /\ K \in Nat \ {0} /\ MAXSAMPLES \in Nat \ {0}
    /\ Durations \subseteq Nat /\ Overheads \subseteq Nat
    /\ {TickCycles, MaxTicks, MaxWait, MaxTime, RECORDTHRESH} \subseteq Nat
    /\ {NEVENT, THRESHOLD} \subseteq Nat \ {0}
    /\ THRESHOLD <= TickCycles /\ RECORDTHRESH < TickCycles

VARIABLES
    tsc,            \* the cycle counter, <<hi, lo>>
    utime,          \* t.tms_utime, in ticks
    cyc,            \* <<cyc_hi, cyc_lo>>: the counter when it was started
    start_tick,
    cyc_per_tick,
    cal,            \* callibrate's oldt, oldc and e
    timing,         \* where fcyc is: "idle", "start", "callibrate", "ready", "run", "stop", "done"
    param,          \* kbest, maxsamples, epsilon in percent, compensate
    values,         \* the best samples so far, of kbest
    samplecount,
    fastest         \* history: the shortest run of f, without interrupts

tvars == <<tsc, utime, cyc, start_tick, cyc_per_tick, cal, timing, param, values,
           samplecount, fastest>>

-----------------------------------------------------------------------------
(* clock.c *)

\* The counter n cycles later, and what rdtsc reads.
Later(c, n) == LET lo == c[2] + n
               IN  << (c[1] + lo \div HalfWord) % HalfWord, lo % HalfWord >>

\* VARIANT of get_counter: the lower halves are subtracted without a borrow.
get_counterNoBorrow(now) == ((now[1] - cyc[1]) % HalfWord) * HalfWord + ((now[2] - cyc[2]) % HalfWord)

\* The cycles since start_counter: unsigned subtraction in halves.
get_counter(now) ==
    LET lo     == (now[2] - cyc[2]) % HalfWord
        borrow == IF lo > now[2] THEN 1 ELSE 0
        hi     == (now[1] - cyc[1] - borrow) % HalfWord
    IN  hi * HalfWord + lo

\* The time since start_comp_counter but for the interrupts: times is read after the
\* counter, and late interrupts may come in between.
get_comp_counter(late) == get_counter(tsc) - (utime + late - start_tick) * cyc_per_tick

\* An iteration of callibrate: the least cost per tick of NEVENT events is kept.  n
\* interrupts come before the counter is read, late after it and before times.  Bounds:
\* interrupts are two iterations apart, and the last event is not late.
callibrate(cycles, n, late) ==
    LET now  == Later(tsc, cycles + n * TickCycles)
        newt == get_counter(now)
        newc == utime + n + late
        cpt  == (newt - cal.oldt) \div (newc - cal.oldc)
        long == newt - cal.oldt >= THRESHOLD
        seen == long /\ newc > cal.oldc
        owed == get_counter(tsc) - cal.oldt >= TickCycles
    IN  /\ timing = "callibrate" /\ newt <= MaxWait
        /\ n = 1 => late = 0 /\ ~owed
        /\ late = 1 => long /\ ~owed /\ cal.e + 1 < NEVENT
        /\ tsc' = Later(now, late * TickCycles) /\ utime' = newc
        /\ cyc_per_tick' = IF seen /\ (cyc_per_tick = 0 \/ cyc_per_tick > cpt) /\ cpt > RECORDTHRESH
                           THEN cpt ELSE cyc_per_tick
        /\ cal' = CASE seen  -> [oldt |-> newt, oldc |-> newc, e |-> cal.e + 1]
                    [] ~seen -> [cal EXCEPT !.oldt = IF long THEN newt ELSE @]
        /\ timing' = IF seen /\ cal.e + 1 = NEVENT THEN "ready" ELSE timing
    /\ UNCHANGED <<cyc, start_tick, param, values, samplecount, fastest>>

-----------------------------------------------------------------------------
(* fcyc.c and fsecs.c *)

Defaults == [kbest |-> K, maxsamples |-> MAXSAMPLES, epsilon |-> 1, compensate |-> FALSE]

\* The counter may be about to wrap in either half when the program starts.
TimingInit ==
    /\ tsc \in {<<0, 0>>, <<0, HalfWord - 2>>, <<HalfWord - 1, HalfWord - 2>>}
    /\ utime = 0 /\ cyc = <<0, 0>> /\ start_tick = 0 /\ cyc_per_tick = 0
    /\ cal = [oldt |-> 0, oldc |-> 0, e |-> 0]
    /\ timing = "idle" /\ param = Defaults
    /\ values = <<>> /\ samplecount = 0 /\ fastest = -1

\* set_fcyc_compensate and the others set the parameters before the first measurement.
init_fsecs ==
    /\ timing = "idle" /\ ~param.compensate
    /\ param' = [Defaults EXCEPT !.compensate = TRUE]
    /\ UNCHANGED <<tsc, utime, cyc, start_tick, cyc_per_tick, cal, timing, values, samplecount, fastest>>

\* fsecs calls fcyc: init_sampler
init_sampler ==
    /\ timing \in {"idle", "done"} /\ utime <= MaxTime
    /\ timing' = "start" /\ values' = <<>> /\ samplecount' = 0 /\ fastest' = -1
    /\ UNCHANGED <<tsc, utime, cyc, start_tick, cyc_per_tick, cal, param>>

\* The counter is started.  start_comp_counter callibrates first if it never has, and
\* reads times before it starts the counter: late interrupts may come in between.
Start(late) ==
    LET first == timing = "start" /\ param.compensate /\ cyc_per_tick = 0
    IN  /\ timing \in {"start", "ready"} /\ (first => late = 0)
        /\ tsc' = Later(tsc, late * TickCycles) /\ utime' = utime + late
        /\ cyc' = tsc'
        /\ IF first
           THEN /\ timing' = "callibrate" /\ cal' = [oldt |-> 0, oldc |-> utime, e |-> 0]
                /\ UNCHANGED start_tick
           ELSE timing' = "run" /\ start_tick' = utime /\ UNCHANGED cal
    /\ UNCHANGED <<cyc_per_tick, param, values, samplecount, fastest>>

\* f(argp)
Run(d, n) ==
    /\ timing = "run" /\ timing' = "stop"
    /\ tsc' = Later(tsc, d + n * TickCycles) /\ utime' = utime + n
    /\ fastest' = IF fastest = -1 \/ d < fastest THEN d ELSE fastest
    /\ UNCHANGED <<cyc, start_tick, cyc_per_tick, cal, param, values, samplecount>>

\* Where the insertion sort takes a new value to: behind the last one that is not greater.
Place(kept, val) ==
    CHOOSE pos \in 1 .. Len(kept) + 1 :
       /\ pos > 1 => kept[pos - 1] <= val
       /\ \A j \in pos .. Len(kept) : kept[j] > val

\* A sample is added, or takes the place of the worst of kbest if it is better.
add_sample(val) ==
    LET room == samplecount < param.kbest
        kept == IF room THEN values ELSE Front(values)
    IN  /\ values' = IF room \/ val < Last(values) THEN InsertAt(kept, Place(kept, val), val)
                     ELSE values
        /\ samplecount' = samplecount + 1

\* The kbest least samples agree within epsilon.
has_converged(v, count) ==
    count >= param.kbest /\ (100 + param.epsilon) * v[1] >= 100 * v[param.kbest]

\* The end of the loop of fcyc; fcyc returns values[0].
Stop(late) ==
    /\ timing = "stop"
    /\ add_sample(IF param.compensate THEN get_comp_counter(late) ELSE get_counter(tsc))
    /\ tsc' = Later(tsc, late * TickCycles) /\ utime' = utime + late
    /\ timing' = IF has_converged(values', samplecount') \/ samplecount' >= param.maxsamples
                 THEN "done" ELSE "start"
    /\ UNCHANGED <<cyc, start_tick, cyc_per_tick, cal, param, fastest>>

TimingNext ==
    \/ init_fsecs \/ init_sampler
    \/ \E late \in 0 .. 1 : Start(late) \/ Stop(late)
    \/ \E d \in Durations, n \in 0 .. MaxTicks : Run(d, n)
    \/ \E o \in Overheads, n, late \in 0 .. 1 : callibrate(o, n, late)

-----------------------------------------------------------------------------
\* fcyc returns the time of the fastest run, however the counter wraps and whatever
\* the other runs took; without compensation it is too high by at most the ticks of that
\* run.  Compensated, it is never too high, but too low by what callibrate overestimated
\* for every tick, which is less than THRESHOLD and a read of the counter, and by whole
\* ticks that came between times and the counter.
ReportsTheFastest ==
    timing = "done" =>
        LET result == values[1]
            per    == cyc_per_tick - TickCycles
        IN  IF param.compensate
            THEN /\ 0 <= per /\ \E o \in Overheads : per < THRESHOLD + o
                 /\ fastest - MaxTicks * per - 2 * cyc_per_tick <= result /\ result <= fastest
            ELSE fastest <= result /\ result <= fastest + MaxTicks * TickCycles
=============================================================================
