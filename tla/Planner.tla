------------------------------ MODULE Planner ------------------------------
(***************************************************************************)
(* The segment planner (client/src/prove/planner.ts) and the probing loop  *)
(* of the pipeline that drives it: how many tics go into the next proof.   *)
(* Fractions are exact rationals where the code has doubles, and a program *)
(* is what resources() measures of it: the rows of its AIR components, its *)
(* steps and its memory_id_to_big components, as functions of the tics.    *)
(***************************************************************************)
EXTENDS Integers, Sequences, FiniteSets, SequencesExt, FiniteSetsExt

CONSTANTS Programs,          \* the cost functions a program may have
          RowCeiling,        \* 2^maxComponentLogSize
          StepsThreaded, StepsSingle, MaxBig,
          MinTics, MaxTics, InitialTics, MaxProbes, MaxGrowth, HistoryLength,
          Machine,           \* the threads of a multi-threaded prover
          Game, Bursts,      \* the tics of the game, and how many are played at a time
          NoProgram

\* A quantity that is affine in the tics.
Costs == [base : Nat, slope : Nat]

ASSUME PlannerAssumption ==
    /\ {RowCeiling, MinTics, MaxTics, InitialTics, MaxProbes, MaxGrowth, HistoryLength}
         \subseteq Nat \ {0}
    /\ {StepsThreaded, StepsSingle, MaxBig, Machine, Game} \subseteq Nat
    /\ Machine > 1 /\ Bursts \subseteq 1..Game /\ NoProgram \notin Programs

\* Whatever runs takes steps and fills rows.
ASSUME ProgramsAssumption ==
    \A p \in Programs :
        /\ IsFiniteSet(DOMAIN p.rows) /\ p.rows \in [DOMAIN p.rows -> Costs]
        /\ {p.steps, p.big} \subseteq Costs /\ p.complete \in BOOLEAN
        /\ p.steps.base + p.steps.slope > 0
        /\ \E c \in DOMAIN p.rows : p.rows[c].base + p.rows[c].slope > 0

VARIABLES program, observations, lastAccepted,   \* the program measured; history, lastAccepted
          threads,                               \* of the loaded prover
          played, planned, flushing,             \* what of the journal is cut
          probing,                               \* planNext's candidate and probes; none
          accepted                               \* history: the last cut and its threads

plannerVars == <<program, observations, lastAccepted, threads, played, planned, flushing,
                 probing, accepted>>

NotProbing == [on |-> FALSE, tics |-> 0, probes |-> 0, threads |-> 1, broken |-> FALSE]

-----------------------------------------------------------------------------
(* What the prover measures *)

At(line, k) == line.base + line.slope * k

nextPow2[n \in Nat] == IF n <= 1 THEN 1 ELSE 2 * nextPow2[(n + 1) \div 2]
Pow2(n) == nextPow2[n]

ASSUME CeilingAssumption == Pow2(RowCeiling) = RowCeiling

\* ResourceSummary: the counters by component (one of the largest may be missing from an
\* old artifact's answer), the largest component by raw count and its padded rows.
Summarised(k, count, largest, rows) ==
    [counts |-> [c \in DOMAIN count \ program.unnamed |-> count[c]],
     max_component |-> largest, max_component_rows |-> rows, fits_leaf_registry |-> rows <= RowCeiling,
     n_steps |-> At(program.steps, k), big |-> At(program.big, k), complete |-> program.complete]
Counted(k, count, largest) == Summarised(k, count, largest, Pow2(Max({16, count[largest]})))
Largest(count) == CHOOSE c \in DOMAIN count : \A d \in DOMAIN count : count[c] >= count[d]
Measured(k, count) == Counted(k, count, Largest(count))
Summary(k) == Measured(k, [c \in DOMAIN program.rows |-> At(program.rows[c], k)])

\* Mutant of rawMaxComponentRows: any counter that pads to the same height will do.
rawMaxComponentRows_anyOf(summary) ==
    LET same == {c \in DOMAIN summary.counts :
                   Pow2(Max({16, summary.counts[c]})) = summary.max_component_rows}
    IN  IF same # {}
          THEN [rows |-> Max({summary.counts[c] : c \in same}), exact |-> TRUE]
          ELSE [rows |-> summary.max_component_rows, exact |-> FALSE]

\* Only the counter of the named maximum is exact; else the padded height stands for it.
rawMaxComponentRows(summary) ==
    LET named == summary.max_component
    IN  IF /\ named \in DOMAIN summary.counts
           /\ Pow2(Max({16, summary.counts[named]})) = summary.max_component_rows
          THEN [rows |-> summary.counts[named], exact |-> TRUE]
          ELSE [rows |-> summary.max_component_rows, exact |-> FALSE]

stepCeiling(n) == IF n > 1 THEN StepsThreaded ELSE StepsSingle

-----------------------------------------------------------------------------
(* The fit *)

Total(values) == FoldLeft(+, 0, values)
Values(key) == [i \in DOMAIN observations |-> observations[i][key]]
NoFit == [slope |-> 0, den |-> 1, base |-> 0, over |-> 1]

\* A line through the origin and the last observation.
ThroughOrigin(key) ==
    LET o == Last(observations)
    IN  IF o.tics <= 0 \/ o[key] <= 0 THEN NoFit
        ELSE [slope |-> o[key], den |-> o.tics, base |-> 0, over |-> 1]

\* Least squares: the slope is slope / den, the intercept base / over. One observation, or
\* several that do not increase, are read through the origin.
Line(key, n, x, y, num, den) ==
    IF n = 0 THEN NoFit
    ELSE IF n = 1 \/ den = 0 \/ num <= 0 THEN ThroughOrigin(key)
    ELSE [slope |-> num, den |-> den, base |-> y * den - num * x, over |-> n * den]
Sums(key, n, x, y) ==
    Line(key, n, x, y, n * Total([i \in 1..n |-> observations[i].tics * observations[i][key]]) - x * y,
         n * Total([i \in 1..n |-> observations[i].tics * observations[i].tics]) - x * x)
fit(key) == Sums(key, Len(observations), Total(Values("tics")), Total(Values(key)))

\* safety = 19/20 of the tics at which a line reaches `limit / of'.
Reaches(line, limit, of) ==
    (19 * line.den * (limit * line.over - of * line.base)) \div (20 * of * line.over * line.slope)

\* The length at which the model reaches 4/5 of the rows or the ceiling of the steps.
Modelled(rows, steps, n) ==
    IF rows = NoFit \/ steps = NoFit THEN InitialTics
    ELSE Min({Reaches(rows, 4 * RowCeiling, 5), Reaches(steps, stepCeiling(n), 1)})
modelled(n) == Modelled(fit("rows"), fit("steps"), n)

\* Mutant of propose: a model that says "less than one tic" is believed.
propose_unclamped(available, n) ==
    Min({modelled(n), MaxTics, available}
          \cup (IF lastAccepted > 0 THEN {lastAccepted * MaxGrowth} ELSE {}))

\* The next length: at most MaxGrowth times the last one, and never under MinTics.
propose(available, n) ==
    LET k == Max({MinTics, modelled(n)})
        caps == {k, MaxTics, available}
                  \cup (IF lastAccepted > 0 THEN {lastAccepted * MaxGrowth} ELSE {})
    IN  IF available <= 0 THEN 0 ELSE Max({Min({MinTics, available}), Min(caps)})

remember(observation) ==
    LET all == Append(observations, observation)
    IN  SubSeq(all, Max({1, Len(all) - HistoryLength + 1}), Len(all))

-----------------------------------------------------------------------------
(* The verdict on a probe *)

\* What each violated limit leaves of the candidate, safety included.
Factors(tics, summary, rows, n) ==
    LET steps == summary.n_steps
        cut(p, q) == (tics * p * 19) \div (q * 20)
    IN  (IF summary.fits_leaf_registry THEN {} ELSE {cut(4 * RowCeiling, 5 * Max({rows, RowCeiling}))})
        \cup (IF 5 * rows <= 4 * RowCeiling THEN {} ELSE {cut(4 * RowCeiling, 5 * rows)})
        \cup (IF steps <= stepCeiling(n) THEN {} ELSE {cut(stepCeiling(n), steps)})
        \cup (IF summary.big <= MaxBig THEN {} ELSE {cut(MaxBig, summary.big)})

Verdict(kind, tics) == [verdict |-> kind, tics |-> tics]

\* Accept it, shrink it, or give up at MinTics; an incomplete summary decides nothing.
Judged(tics, summary, cuts) ==
    IF ~summary.complete THEN Verdict("impossible", 0)
    ELSE IF cuts = {} THEN Verdict("accept", tics)
    ELSE IF tics <= MinTics THEN Verdict("impossible", 0)
    ELSE Verdict("shrink", Max({MinTics, Min(cuts \cup {tics - 1})}))
judge(tics, summary, n) ==
    Judged(tics, summary, Factors(tics, summary, rawMaxComponentRows(summary).rows, n))

-----------------------------------------------------------------------------
(* The probing loop *)

PlannerInit ==
    /\ program = NoProgram /\ observations = <<>> /\ lastAccepted = 0 /\ threads = 1
    /\ played = 0 /\ planned = 0 /\ flushing = FALSE
    /\ probing = NotProbing /\ accepted = [tics |-> 0, threads |-> 1]

\* A new planner for a program, and a prover for it.
NewPlanner ==
    /\ program = NoProgram
    /\ program' \in Programs /\ threads' \in {1, Machine}
    /\ UNCHANGED <<observations, lastAccepted, played, planned, flushing, probing, accepted>>

PlayTics ==
    /\ program # NoProgram /\ ~flushing
    /\ \E n \in Bursts : played' = Min({played + n, Game})
    /\ flushing' \in {FALSE, played' = Game}
    /\ UNCHANGED <<program, observations, lastAccepted, threads, planned, probing, accepted>>

\* planNext: propose for the threads known so far, then load the prover, which may run on
\* one thread after a retry.
ProposeNext ==
    /\ program # NoProgram /\ ~probing.on /\ ~probing.broken /\ played > planned
    /\ LET wanted == propose(MaxTics, threads)
           candidate == Min({wanted, played - planned})
       IN  /\ candidate > 0 /\ (flushing \/ candidate = wanted)
           /\ probing' = [NotProbing EXCEPT !.on = TRUE, !.tics = candidate, !.threads = threads]
    /\ threads' \in {1, Machine}
    /\ UNCHANGED <<program, observations, lastAccepted, played, planned, flushing, accepted>>

\* After MaxProbes probes every further candidate is halved as well.
Halved(tics, probes) ==
    IF probes >= MaxProbes THEN Max({MinTics, tics \div 2}) ELSE tics

\* execute(), resources() and judge() on the candidate.
Observed(summary, raw) ==
    observations' = IF summary.complete
                      THEN remember([tics |-> probing.tics, rows |-> raw.rows,
                                     steps |-> summary.n_steps, exact |-> raw.exact])
                      ELSE observations
Concluded(verdict) ==
    \/ /\ verdict.verdict = "accept"
       /\ planned' = planned + probing.tics /\ lastAccepted' = probing.tics
       /\ accepted' = [tics |-> probing.tics, threads |-> threads]
       /\ probing' = NotProbing
    \/ /\ verdict.verdict = "shrink"
       /\ probing' = [probing EXCEPT !.tics = Halved(verdict.tics, probing.probes + 1), !.probes = @ + 1]
       /\ UNCHANGED <<planned, lastAccepted, accepted>>
    \/ /\ verdict.verdict = "impossible"
       /\ probing' = [NotProbing EXCEPT !.broken = TRUE]
       /\ UNCHANGED <<planned, lastAccepted, accepted>>
Probed(summary) ==
    Observed(summary, rawMaxComponentRows(summary)) /\ Concluded(judge(probing.tics, summary, threads))
ProbeCandidate ==
    /\ probing.on
    /\ Probed(Summary(probing.tics))
    /\ UNCHANGED <<program, threads, played, flushing>>

PlannerNext == NewPlanner \/ PlayTics \/ ProposeNext \/ ProbeCandidate

-----------------------------------------------------------------------------
(* Properties *)

\* What a segment really costs, whatever the prover's answer names: D1's margin of a fifth.
Admissible(k, n) ==
    /\ \A c \in DOMAIN program.rows : 5 * At(program.rows[c], k) <= 4 * RowCeiling
    /\ At(program.steps, k) <= stepCeiling(n) /\ At(program.big, k) <= MaxBig

\* Nothing is cut beyond the margin of the row ceiling, the step ceiling of the prover at
\* hand or the leaf parameters: a counter the artifact leaves out, a smaller one that pads
\* to the same height and a change of threads after the proposal let nothing longer through.
AcceptedFits == accepted.tics > 0 => Admissible(accepted.tics, accepted.threads)

\* A program whose largest component is one affine count the prover names (the fit knows
\* nothing of memory_id_to_big), and that fits at MinTics.
Affine ==
    /\ program # NoProgram /\ program.unnamed = {} /\ program.complete /\ program.big.slope = 0
    /\ \E c \in DOMAIN program.rows : \A d \in DOMAIN program.rows :
          /\ program.rows[d].base <= program.rows[c].base
          /\ program.rows[d].slope <= program.rows[c].slope
    /\ \A n \in {1, Machine} : judge(MinTics, Summary(MinTics), n).verdict = "accept"

\* The comment of planner.ts:37-42: once measured, the model of an affine program errs
\* on the short side, so its proposal is accepted at the first probe on the same threads.
FirstGuessIsShort ==
    (probing.on /\ probing.probes = 0 /\ observations # <<>> /\ threads = probing.threads
     /\ Affine /\ MinTics \in 1..probing.tics)
        => judge(probing.tics, Summary(probing.tics), threads).verdict = "accept"

\* A finished game is planned to its last tic when its program fits at MinTics: shrinking,
\* halving and the growth limit neither give up nor cut an empty segment for ever.
PlansTheWholeGame ==
    (flushing /\ \A n \in {1, Machine} : judge(MinTics, Summary(MinTics), n).verdict = "accept")
        ~> planned = Game

\* What is cut fits, and what is proposed is likely to.
PlansFit == AcceptedFits /\ FirstGuessIsShort
=============================================================================
