------------------------------- MODULE SixVecLm -------------------------------
(***************************************************************************)
(* 6VecLM (tga/src/ml/sixveclm): an address is a sentence of one token for *)
(* each nibble and position; a transformer writes the second half after    *)
(* the first half of each seed, one token at a time.  The network is       *)
(* external: it may choose any token seen at the position.                 *)
(***************************************************************************)
EXTENDS Address
LOCAL INSTANCE SequencesExt
LOCAL INSTANCE FiniteSetsExt

CONSTANTS
  Batch,       \* INFERENCE_BATCH_SIZE
  Chosen(_, _, _)  \* which of n tokens the network chooses for a sample at a position

PrefixLen == Dims \div 2
FirstSampled == PrefixLen + 1
Radix == 2^NibbleBits

-----------------------------------------------------------------------------
(* Tokens: 0 is padding, then each position has one for each digit.        *)

VocabSize == 1 + Dims * Radix
TokenForPosition(position, digit) == 1 + Radix * position + digit

Pad == [position |-> -1, digit |-> 0]
TokenKind(t) == IF t \in 1..(VocabSize - 1) THEN [position |-> (t - 1) \div Radix, digit |-> (t - 1) % Radix] ELSE Pad

EncodeNybbles(a) == [i \in 1..Dims |-> TokenForPosition(i - 1, a[i - 1])]

\* No address if a token is of another position.
DetokenizeHexStream(tokens) ==
  IF Len(tokens) = Dims /\ \A d \in Dim : TokenKind(tokens[d + 1]).position = d
  THEN {[d \in Dim |-> TokenKind(tokens[d + 1]).digit]} ELSE {}

-----------------------------------------------------------------------------
(* Training: the vocabulary is what occurs in the seeds.                   *)

\* The tokens of each position, by their digits.
BuildPositionCandidates(rows) ==
  LET used == UNION {Range(rows[i]) : i \in DOMAIN rows}
  IN  [p \in 0..(Dims - 1) |->
         IF p < FirstSampled THEN <<>> ELSE Ascending({t \in used : TokenKind(t).position = p})]

\* The model; none without seeds.
Train(seeds) ==
  {[seeds |-> s, candidates |-> BuildPositionCandidates([i \in DOMAIN s |-> EncodeNybbles(s[i])]),
    next |-> 0, seen |-> {}] : s \in {x \in {seeds} : x # <<>>}}

Valid(m) ==
  /\ m.seeds # <<>> /\ DOMAIN m.candidates = 0..(Dims - 1)
  /\ \A p \in FirstSampled..(Dims - 1) :
        /\ m.candidates[p] # <<>>
        /\ \A i \in DOMAIN m.candidates[p] :
              m.candidates[p][i] < VocabSize /\ TokenKind(m.candidates[p][i]).position = p

-----------------------------------------------------------------------------
(* Generation.                                                             *)

\* The first half of the seed and the first token of the second are given.
Prompt(m, sample) == SubSeq(EncodeNybbles(m.seeds[sample + 1]), 1, FirstSampled)

SampleToken(m, sample, p) ==
  m.candidates[p][1 + (Chosen(sample, p, Len(m.candidates[p])) % Len(m.candidates[p]))]

\* The address written for a sample.
Written(m, sample) ==
  DetokenizeHexStream(Prompt(m, sample)
                      \o [i \in 1..(Dims - FirstSampled) |-> SampleToken(m, sample, FirstSampled + i - 1)])

\* As many samples as fit in what is left of the output, once each seed; an
\* address written before is left out and another batch taken.
RECURSIVE Generate(_, _)
Generate(m, n) ==
  LET count == Min({Len(m.seeds) - m.next, n, Batch})
      batch == FlattenSeq([i \in 1..count |-> SetToSeq(Written(m, m.next + i - 1))])
      fresh == SelectSeq([i \in DOMAIN batch |-> <<i, batch[i]>>],
                         LAMBDA x : /\ x[2] \notin m.seen
                                    /\ \A j \in 1..(x[1] - 1) : batch[j] # x[2])
      out == [i \in DOMAIN fresh |-> fresh[i][2]]
      rest == Generate([m EXCEPT !.next = @ + count, !.seen = @ \cup Range(out)], n - Len(out))
  IN  IF count = 0 THEN [m |-> m, written |-> <<>>]
      ELSE [m |-> rest.m, written |-> out \o rest.written]

State(m) == IF m.next = Len(m.seeds) THEN "exhausted" ELSE "ready"

\* Neither a new temperature nor a saved model keeps what was given out.
Afresh(m) == [m EXCEPT !.next = 0, !.seen = {}]

-----------------------------------------------------------------------------
(* Use.                                                                    *)

Start(m) == [m |-> m, given |-> <<>>]

Steps(w, most) ==
  {LET g == Generate(w.m, n) IN [w EXCEPT !.m = g.m, !.given = @ \o g.written] :
     n \in {k \in 1..most : State(w.m) = "ready"}}
  \cup {[m |-> Afresh(w.m), given |-> <<>>]}
=============================================================================
