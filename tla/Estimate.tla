------------------------------ MODULE Estimate ------------------------------
(***************************************************************************)
(* What a submission costs (client/src/chain/estimate.ts, median.ts and    *)
(* the plans of calldata.ts), for a proof whose FRI walk costs `walk` when *)
(* it is sent as one transaction.  A plan is the number of FRI             *)
(* transactions; step 0 stands for begin, merkle and answers, the last     *)
(* step is the consumer's.  Gas is in units of the cap's size.             *)
(***************************************************************************)
EXTENDS Naturals, Sequences, FiniteSetsExt, SequencesExt

CONSTANTS
    InvokeCap,      \* INVOKE_L2_GAS_CAP
    HeadGas, ConsumerGas,
    Collapse,       \* a minute
    Window,         \* WINDOW_SECONDS
    MinSamples, MaxSamples

ASSUME EstimateAssumption ==
    /\ {InvokeCap, HeadGas, ConsumerGas, Collapse, Window} \subseteq Nat \ {0}
    /\ MinSamples \in Nat \ {0} /\ MaxSamples \in Nat \ {0}

-----------------------------------------------------------------------------
(* The ordered array. *)

Consumer(plan) == plan + 1
Share(amount, parts) == (amount + parts - 1) \div parts
Gas(walk, plan, i) ==
    IF i = 0 THEN HeadGas ELSE IF i <= plan THEN Share(walk, plan) ELSE ConsumerGas

Padded(amount, percent) == Share(amount * percent, 100)     \* Math.ceil(x * margin)

\* What is simulated: the steps from `from` on, each with its gas.
simulateSequence(walk, plan, from, verifierOnly) ==
    LET last == IF verifierOnly THEN plan ELSE Consumer(plan)
    IN  [n \in 1..(last + 1 - from) |-> [index |-> from + n - 1, gas |-> Gas(walk, plan, from + n - 1)]]

\* The bound a step is sent with, and whether the sequencer would refuse it.
boundsFor(step) ==
    LET l2 == Padded(step.gas, 115)
    IN  [index |-> step.index, l2 |-> l2, overCap |-> l2 > InvokeCap,
         over90 |-> 100 * l2 > 90 * InvokeCap, price |-> 0]

withPrices(bounds, price) == [n \in DOMAIN bounds |-> [bounds[n] EXCEPT !.price = 2 * price]]

OverCap(bounds) == \E n \in DOMAIN bounds : bounds[n].overCap

\* bounds[i] is for step i of the whole sequence; a resumed estimate starts at `from`.
padBounds(bounds, from) ==
    [n \in 1..(from + Len(bounds)) |-> IF n <= from THEN bounds[1] ELSE bounds[n - from]]

-----------------------------------------------------------------------------
(* The 24 h window of gas prices: a set of samples [t, price]. *)

Apart(a, b) == IF a < b THEN b - a ELSE a - b
samples(kept, now) == {s \in kept : s.t + Window >= now}

\* One observation; whatever lies within a minute of it is replaced.
record(kept, price, t, now) ==
    LET all == {s \in samples(kept, now) : Apart(s.t, t) >= Collapse} \cup {[t |-> t, price |-> price]}
    IN  {s \in all : Cardinality({o \in all : o.t > s.t}) < MaxSamples}

median(kept, now) ==
    LET sorted == SetToSortSeq(samples(kept, now),
                    LAMBDA a, b : a.price < b.price \/ (a.price = b.price /\ a.t < b.t))
        mid == Len(sorted) \div 2
    IN  IF Len(sorted) % 2 = 1 THEN sorted[mid + 1].price
        ELSE (sorted[mid].price + sorted[mid + 1].price) \div 2

verdict(kept, price, now) ==
    IF Cardinality(samples(kept, now)) < MinSamples THEN "unknown"
    ELSE IF median(kept, now) = 0 THEN "unknown"
    ELSE IF price > 2 * median(kept, now) THEN "high" ELSE "normal"

\* A store whose samples are a minute apart cannot be drowned by a screen that polls.
IsSpread(kept) == \A a, b \in kept : a # b => Apart(a.t, b.t) >= Collapse
=============================================================================
