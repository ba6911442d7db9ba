------------------------------ MODULE ProofPlan ------------------------------
(***************************************************************************)
(* From a root proof to the router's transactions (chain/proof.ts,         *)
(* chain/calldata.ts): the felt stream is split into the sections the      *)
(* resumable verifier reads, each section is packed, and a plan puts them  *)
(* into transactions whose size is known before any echo is.               *)
(*                                                                         *)
(* A felt is a small number: a limb holds LimbBits bits (32 in the code),  *)
(* a slot Limbs of them (7), and the two proof-of-work nonces two limbs.   *)
(* QM31, HashFelts, ClaimFelts, ConfFelts and the two echo sizes stand for *)
(* 4, 8, 44, 5, 228 and 576.                                               *)
(***************************************************************************)
EXTENDS Integers, Sequences, SequencesExt, FiniteSetsExt

CONSTANTS
    LimbBits, Limbs, QM31, HashFelts, ClaimFelts, ConfFelts, MerkleState, FriState,
    Proofs,             \* the shapes of a root proof: counts, and the two nonces
    Splits,             \* the friSplit asked for: a sequence of cuts, or none
    Caps,               \* maxCalldata
    Automatic, Unplanned

ASSUME ProofPlanAssumption == {LimbBits, Limbs, QM31, HashFelts} \subseteq Nat \ {0}

VARIABLES
    root,               \* external: the shape of the proof fetched
    plan                \* prepareSubmission's phases, under which split and cap

planVars == <<root, plan>>

ESCAPE == 2^LimbBits - 1
Trees == 4

PlanInit == root = Unplanned /\ plan = Unplanned

-----------------------------------------------------------------------------
(* The felt stream of a proof (external: Cairo's serde), and parseProof *)

\* Felts that are told apart by their place: a tag for the section and the place in it.
Felts_(tag, n) == [i \in 1..n |-> (5 * tag + 3 * i) % ESCAPE]
Span(tag, n, felts) == <<n>> \o Felts_(tag, n * felts)
Layer(tag, l) ==
    Span(tag, l.witness, QM31) \o Span(tag + 1, l.decommitment, HashFelts) \o Felts_(tag + 2, HashFelts)
Tree(tag, columns) ==
    <<Len(columns)>> \o FlattenSeq([c \in DOMAIN columns |-> Span(tag + c, columns[c], QM31)])

Sections(p) ==
    [claim |-> Span(1, p.claim, QM31), interactionPow |-> <<p.nonce>>,
     rest |-> Felts_(2, ClaimFelts) \o Felts_(3, ConfFelts), commitments |-> Span(4, Trees, HashFelts),
     sampled |-> <<Trees>> \o FlattenSeq([t \in 1..Trees |-> Tree(5 + t, p.sampled[t])]),
     decommitments |-> [t \in 1..Trees |-> Span(9 + t, p.decommitments[t], HashFelts)],
     queried |-> [t \in 1..Trees |-> Span(14 + t, p.queried[t], 1)],
     pow |-> <<p.pow>>, layers |-> [l \in DOMAIN p.layers |-> Layer(19 + l, p.layers[l])],
     poly |-> Span(28, p.poly, QM31) \o Felts_(29, 1), salt |-> Felts_(30, 1)]

Stream(s) ==
    s.claim \o s.interactionPow \o s.rest \o s.commitments \o s.sampled
      \o <<Trees>> \o FlattenSeq(s.decommitments) \o <<Trees>> \o FlattenSeq(s.queried)
      \o s.pow \o s.layers[1] \o <<Len(s.layers) - 1>> \o FlattenSeq(Tail(s.layers)) \o s.poly \o s.salt

\* The reader: what it reads, how far it is, and the sections taken so far.
Opened(values) == [v |-> values, at |-> 0, taken |-> <<>>]
take(r, n) == [r EXCEPT !.at = @ + n, !.taken = Append(@, SubSeq(r.v, r.at + 1, r.at + n))]
Count(r, ahead) == r.v[r.at + ahead + 1]
array(r, felts) == take(r, 1 + Count(r, 0) * felts)
Layer_(r, witness) == take(r, witness + 1 + Count(r, witness) * HashFelts + HashFelts)
layer(r) == Layer_(r, 1 + Count(r, 0) * QM31)

\* A count, and as many arrays of the width given, or layers; taken one by one or as one raw slice.
LAYER == 0
Many(r, width) ==
    FoldLeft(LAMBDA s, k : IF width = LAYER THEN layer(s) ELSE array(s, width), take(r, 1),
             [k \in 1..Count(r, 0) |-> k])
Separate(r, read) == [read EXCEPT !.taken = Append(r.taken, SubSeq(@, Len(r.taken) + 2, Len(@)))]
Raw(r, read) == [read EXCEPT !.taken = Append(r.taken, SubSeq(r.v, r.at + 1, read.at))]
spans(r, felts) == Separate(r, Many(r, felts))
layerSpans(r) == Separate(r, Many(r, LAYER))
treeSpans(r) == Raw(r, FoldLeft(LAMBDA s, t : Many(s, QM31), take(r, 1), [t \in 1..Count(r, 0) |-> t]))
lastLayer(r) == Raw(r, take(array(r, QM31), 1))

CommitmentOf(l) == SubSeq(l, Len(l) - HashFelts + 1, Len(l))

\* The sections in the order of the stream.
Read(values) ==
    LET claim == array(Opened(values), QM31)
        interactionPow == take(claim, 1)
        commitments == array(take(interactionPow, ClaimFelts + ConfFelts), HashFelts)
        sampled == treeSpans(commitments)
        queried == spans(spans(sampled, HashFelts), 1)
        inner == layerSpans(layer(take(queried, 1)))
    IN  take(lastLayer(inner), 1)

\* The head is what the transcript binds: of the layers, their commitments and how many they are.
Sectioned(read, s) ==
    [ok |-> read.at = Len(read.v) /\ Len(s[6]) = Trees /\ Len(s[7]) = Trees,
     sampled |-> s[5], decommitments |-> s[6], queried |-> s[7], layers |-> <<s[9]>> \o s[10],
     head |-> FlattenSeq(SubSeq(s, 1, 5)) \o s[8] \o CommitmentOf(s[9]) \o <<Len(s[10])>>
                \o FlattenSeq([l \in DOMAIN s[10] |-> CommitmentOf(s[10][l])]) \o s[11] \o s[12]]
SectionsOf(read) == Sectioned(read, read.taken)
parseProof(values) == SectionsOf(Read(values))

-----------------------------------------------------------------------------
(* Packing *)

slotsOf(n) == (n + Limbs - 1) \div Limbs
Limb(limbs, i) == IF i \in DOMAIN limbs THEN limbs[i] ELSE 0
packLimbs(limbs) ==
    [s \in 1..slotsOf(Len(limbs)) |->
        FoldLeft(LAMBDA acc, j : acc + Limb(limbs, (s - 1) * Limbs + j) * 2^(LimbBits * (j - 1)), 0,
                 [j \in 1..Limbs |-> j])]

\* A nonce of a full limb that is not escaped reads as one limb.
EscapedPlain(v) == IF v <= ESCAPE THEN <<v>> ELSE <<ESCAPE, v % 2^LimbBits, v \div 2^LimbBits>>
pack_plain(values) == packLimbs(FlattenSeq([i \in DOMAIN values |-> EscapedPlain(values[i])]))

Escaped(v) == IF v < ESCAPE THEN <<v>> ELSE <<ESCAPE, v % 2^LimbBits, v \div 2^LimbBits>>
pack(values) == packLimbs(FlattenSeq([i \in DOMAIN values |-> Escaped(values[i])]))

packU32(values) == packLimbs(values)
packSections(sections) == FlattenSeq([k \in DOMAIN sections |-> packU32(sections[k])])

LimbsOf(slots) ==
    [i \in 1..(Len(slots) * Limbs) |-> (slots[(i - 1) \div Limbs + 1] \div 2^(LimbBits * ((i - 1) % Limbs))) % 2^LimbBits]
unpack(slots, n) ==
    LET limbs == LimbsOf(slots)
        Next_(acc, k) ==
          IF Limb(limbs, acc.at) = ESCAPE
          THEN [at |-> acc.at + 3,
                values |-> Append(acc.values, Limb(limbs, acc.at + 1) + Limb(limbs, acc.at + 2) * 2^LimbBits)]
          ELSE [at |-> acc.at + 1, values |-> Append(acc.values, Limb(limbs, acc.at))]
    IN  FoldLeft(Next_, [at |-> 1, values |-> <<>>], [k \in 1..n |-> k]).values

-----------------------------------------------------------------------------
(* The transactions *)

Pairs(sec, trees) == FlattenSeq([i \in DOMAIN trees |-> <<sec.queried[trees[i]], sec.decommitments[trees[i]]>>])
Lens(sections) == [k \in DOMAIN sections |-> Len(sections[k])]

txBegin(sec, trees) ==
    LET head == pack(sec.head)
        payload == packSections(Pairs(sec, trees))
    IN  [entrypoint |-> "begin", echo |-> 0, head |-> head, headN |-> Len(sec.head), payload |-> payload,
         lens |-> Lens(Pairs(sec, trees)), trees |-> trees, layers |-> 0,
         felts |-> 2 + Len(head) + 2 + Len(payload) + 1 + 2 * Len(trees) + 1 + Len(trees)]

txMerkle(sec, trees) ==
    LET payload == packSections(Pairs(sec, trees))
    IN  [entrypoint |-> "merkle", echo |-> MerkleState, head |-> <<>>, headN |-> 0, payload |-> payload,
         lens |-> Lens(Pairs(sec, trees)), trees |-> trees, layers |-> 0,
         felts |-> 2 + MerkleState + 1 + Len(payload) + 1 + 2 * Len(trees) + 1 + Len(trees)]

txAnswers(sec) ==
    LET sections == <<sec.sampled>> \o sec.queried
        payload == packSections(sections)
    IN  [entrypoint |-> "answers", echo |-> MerkleState, head |-> <<>>, headN |-> 0, payload |-> payload,
         lens |-> Lens(sections), trees |-> <<>>, layers |-> 0,
         felts |-> 2 + MerkleState + 1 + Len(payload) + 1 + Len(sections)]

txFri(sec, first, last) ==
    LET flat == <<last - first>> \o FlattenSeq(SubSeq(sec.layers, first + 1, last))
    IN  [entrypoint |-> "fri", echo |-> FriState, head |-> <<>>, headN |-> Len(flat), payload |-> packU32(flat),
         lens |-> <<>>, trees |-> <<>>, layers |-> last - first,
         felts |-> 2 + FriState + 1 + slotsOf(Len(flat)) + 1]

friBounds(layers, split) ==
    <<0>> \o SetToSortSeq({c \in Range(split) : c > 0 /\ c < layers}, <) \o <<layers>>

Between(sec, bounds) == [k \in 1..(Len(bounds) - 1) |-> txFri(sec, bounds[k], bounds[k + 1])]
planPhases(sec, split) ==
    <<txBegin(sec, <<1, 2>>), txMerkle(sec, <<3, 4>>), txAnswers(sec)>>
      \o Between(sec, friBounds(Len(sec.layers), split))
Fits(phases, cap) == \A k \in DOMAIN phases : phases[k].felts <= cap

\* An explicit cut is authoritative; otherwise the first candidate that fits.
Candidates_(split) == IF split # Automatic THEN <<split>> ELSE <<<<2>>, <<1, 3>>, <<1, 2, 4>>>>
FirstOf(plans) == IF plans = <<>> THEN <<>> ELSE plans[1]
planPhasesAuto(sec, split, cap) ==
    FirstOf(SelectSeq([k \in DOMAIN Candidates_(split) |-> planPhases(sec, Candidates_(split)[k])],
                      LAMBDA phases : Fits(phases, cap)))

SpanOf(values) == <<Len(values)>> \o values
phaseCalldata(phase, echo) ==
    <<0>> \o (IF phase.entrypoint = "begin" THEN SpanOf(phase.head) \o <<phase.headN>> ELSE SpanOf(echo))
      \o SpanOf(phase.payload)
      \o (IF phase.entrypoint = "fri" THEN <<phase.headN>> ELSE SpanOf(phase.lens))
      \o (IF phase.entrypoint \in {"begin", "merkle"} THEN SpanOf(phase.trees) ELSE <<>>)

-----------------------------------------------------------------------------
(* Fetching and planning *)

FetchProof ==
    /\ root = Unplanned
    /\ root' \in Proofs
    /\ UNCHANGED plan

prepareSubmission(sec, split, cap) ==
    [ok |-> sec.ok, cap |-> cap, split |-> split,
     phases |-> IF sec.ok THEN planPhasesAuto(sec, split, cap) ELSE <<>>]
parsedProof == parseProof(Stream(Sections(root)))

PlanPhases ==
    /\ root # Unplanned /\ plan = Unplanned
    /\ \E split \in Splits \cup {Automatic}, cap \in Caps : plan' = prepareSubmission(parsedProof, split, cap)
    /\ UNCHANGED root

PlanNext == FetchProof \/ PlanPhases

-----------------------------------------------------------------------------
(* Properties *)

\* What the router reads back of a transaction's payload, section by section.
SectionsIn(phase) ==
    LET from == FoldLeft(LAMBDA ends, n : Append(ends, Last(ends) + slotsOf(n)), <<0>>, phase.lens)
    IN  [k \in DOMAIN phase.lens |->
            SubSeq(LimbsOf(SubSeq(phase.payload, from[k] + 1, from[k + 1])), 1, phase.lens[k])]
LayersIn(phase) == Tail(SubSeq(LimbsOf(phase.payload), 1, phase.headN))
FriPhases == SelectSeq(plan.phases, LAMBDA phase : phase.entrypoint = "fri")

\* Every plan carries the whole proof, once: the head with both nonces as they were, every
\* tree's queried values beside their witnesses, the sampled values, and each layer in one
\* transaction, in order, wherever the walk is cut (proof.ts:70-160, calldata.ts:65-160).
CarriedBy(phases, s) ==
    /\ unpack(phases[1].head, phases[1].headN)
         = s.claim \o s.interactionPow \o s.rest \o s.commitments \o s.sampled \o s.pow
             \o CommitmentOf(s.layers[1]) \o <<Len(s.layers) - 1>>
             \o FlattenSeq([l \in DOMAIN Tail(s.layers) |-> CommitmentOf(s.layers[l + 1])]) \o s.poly \o s.salt
    /\ SectionsIn(phases[1]) \o SectionsIn(phases[2])
         = FlattenSeq([t \in 1..Trees |-> <<s.queried[t], s.decommitments[t]>>])
    /\ SectionsIn(phases[3]) = <<s.sampled>> \o s.queried
    /\ FlattenSeq([k \in DOMAIN FriPhases |-> LayersIn(FriPhases[k])]) = FlattenSeq(s.layers)
    /\ \A k \in DOMAIN FriPhases : FriPhases[k].layers > 0
PlanCarriesTheProof ==
    plan # Unplanned => plan.ok /\ (plan.phases # <<>> => CarriedBy(plan.phases, Sections(root)))

\* The size a plan is admitted by is the size of the transaction once its echo is known, and
\* no transaction is over the cap; an automatic plan is refused only when no candidate fits.
SizesAreKnown ==
    plan # Unplanned /\ plan.ok =>
    /\ \A k \in DOMAIN plan.phases :
         LET phase == plan.phases[k]
         IN  Len(phaseCalldata(phase, Felts_(0, phase.echo))) = phase.felts /\ phase.felts <= plan.cap
    /\ plan.phases = <<>> =>
         \A k \in DOMAIN Candidates_(plan.split) :
            ~Fits(planPhases(parsedProof, Candidates_(plan.split)[k]), plan.cap)

\* What is planned is the proof, and fits its transactions.
PlansAreWhole == PlanCarriesTheProof /\ SizesAreKnown
=============================================================================
