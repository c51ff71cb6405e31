----------------------------- MODULE Generation -----------------------------
(***************************************************************************)
(* Generation of targets without a scan (core/src/generation.rs): a        *)
(* composition of models, and generate(), which filters what it yields.    *)
(*                                                                         *)
(* Each part of a composition fills a range of the bits of an address.  A  *)
(* part is asked for a batch when all it has yielded is used; parts answer *)
(* with batches of any length, and with the state of their generation.     *)
(* generate() asks for batches until "count" addresses have been emitted,  *)
(* the attempts are used up, or the composition has ended.                 *)
(*                                                                         *)
(* Stream[p] is what part p yields, in this order, if it is asked for as   *)
(* much: its bits only.  What is composed is kept as the positions in the  *)
(* streams, a function from parts to Nat.  A model without a bit range is  *)
(* not composed; one part behaves as it does.  A model that returns an     *)
(* error stops generate() as one that returns an invalid batch does.       *)
(* Budgets are left out.                                                   *)
(***************************************************************************)
EXTENDS Integers, Sequences, FiniteSets, FiniteSetsExt

CONSTANTS
  Stream,        \* Stream[p]: the bits part p yields, p \in 1..number of parts
  Options,       \* the options a caller may give
  Buffer,        \* length of the output buffer (4096)
  MayFail         \* whether models, and the output, may fail

Part == DOMAIN Stream   \* Composed.parts

ASSUME GenerationAssumption ==
  /\ Stream \in Seq(Seq(Nat)) /\ Stream # <<>>
  /\ \A o \in Options : /\ {o.count, o.max_attempts} \subseteq Nat
                         /\ o.unique \in BOOLEAN
  /\ Buffer \in Nat \ {0}
  /\ MayFail \in BOOLEAN

VARIABLES
  options,       \* CandidateFilter.options
  pc,            \* "top", "ask", "compose", "filter", "ok" or "failed"
  asking,        \* the part that is asked next
  yielded,       \* yielded[p]: addresses part p has yielded
  pending,       \* pending[p]: the positions of those not yet composed
  ended,         \* ended[p]: the state part p returned last
  batch,         \* candidates that are yet to be filtered
  state,         \* state of the composition
  attempts,      \* CandidateFilter
  seen, emitted, \* addresses seen, and emitted
  failure        \* why generate() failed, or "none"

gvars == <<options, pc, asking, yielded, pending, ended, batch, state, attempts, seen, emitted, failure>>

States    == {"Ready", "AwaitingFeedback", "Exhausted"}
Remaining == options.count - Len(emitted)
Capacity  == Min({Remaining, Buffer})
Bits(x)   == [p \in Part |-> Stream[p][x[p]]]

GenerationInit ==
  /\ options \in Options
  /\ pc = "top" /\ asking = 1
  /\ yielded = [p \in Part |-> 0] /\ pending = [p \in Part |-> <<>>]
  /\ ended = [p \in Part |-> "Ready"]
  /\ batch = <<>> /\ state = "Ready"
  /\ attempts = 0 /\ seen = {} /\ emitted = <<>> /\ failure = "none"

\* An error is returned with "?".
Fail(why) == pc' = "failed" /\ failure' = why

-----------------------------------------------------------------------------
(* generate(): the loop.                                                    *)

\* The loop ends with the count, or when the composition has ended before.
Again ==
  /\ pc = "top" /\ Remaining > 0 /\ state = "Ready"
  /\ pc' = "ask" /\ asking' = 1
  /\ UNCHANGED <<options, yielded, pending, ended, batch, state, attempts, seen, emitted, failure>>

Succeed ==
  /\ pc = "top" /\ Remaining = 0
  /\ pc' = "ok"
  /\ UNCHANGED <<options, asking, yielded, pending, ended, batch, state, attempts, seen, emitted, failure>>

GiveUp ==
  /\ pc = "top" /\ Remaining > 0 /\ state # "Ready"
  /\ Fail("ended")
  /\ UNCHANGED <<options, asking, yielded, pending, ended, batch, state, attempts, seen, emitted>>

-----------------------------------------------------------------------------
(* Composed::generate().                                                    *)

\* validate_generated() refuses nothing from a model that is ready for more.
Valid_Any(written, s) == written <= Capacity
Valid(written, s)     == written <= Capacity /\ ~(written = 0 /\ s = "Ready")

NextPart ==
  IF asking + 1 \in Part THEN pc' = "ask" /\ asking' = asking + 1
                         ELSE pc' = "compose" /\ asking' = asking

NeedsMore_Always(p) == ended[p] = "Ready"
NeedsMore(p)        == pending[p] = <<>> /\ ended[p] = "Ready"

\* The part answers with any number of addresses and any state.
AskPart ==
  /\ pc = "ask" /\ NeedsMore(asking)
  /\ \E w \in 0..Min({Capacity, Len(Stream[asking]) - yielded[asking]}), s \in States :
       IF Valid(w, s)
         THEN /\ yielded' = [yielded EXCEPT ![asking] = @ + w]
              /\ pending' = [pending EXCEPT ![asking] = [i \in 1..w |-> yielded[asking] + i]]
              /\ ended' = [ended EXCEPT ![asking] = s]
              /\ NextPart
              /\ UNCHANGED failure
         ELSE /\ MayFail
              /\ Fail("model")
              /\ UNCHANGED <<options, asking, yielded, pending, ended>>
  /\ UNCHANGED <<options, batch, state, attempts, seen, emitted>>

SkipPart ==
  /\ pc = "ask" /\ ~NeedsMore(asking)
  /\ NextPart
  /\ UNCHANGED <<options, yielded, pending, ended, batch, state, attempts, seen, emitted, failure>>

\* The state of the first part that has ended and whose addresses are used.
EndedParts(rest) == {p \in Part : rest[p] = <<>> /\ ended[p] # "Ready"}

\* As many addresses as every part has pending are composed.
Compose ==
  /\ pc = "compose"
  /\ LET n    == Min({Len(pending[p]) : p \in Part} \cup {Capacity})
         rest == [p \in Part |-> SubSeq(pending[p], n + 1, Len(pending[p]))]
         over == EndedParts(rest)
         s    == IF over = {} THEN "Ready" ELSE ended[Min(over)]
     IN  /\ pending' = rest
         /\ batch' = [i \in 1..n |-> [p \in Part |-> pending[p][i]]]
         /\ state' = s
         /\ IF Valid(n, s) THEN pc' = "filter" /\ UNCHANGED failure ELSE Fail("composition")
  /\ UNCHANGED <<options, asking, yielded, ended, attempts, seen, emitted>>

-----------------------------------------------------------------------------
(* CandidateFilter::accept().                                                *)

Attempt ==
  /\ pc = "filter" /\ batch # <<>>
  /\ attempts < options.max_attempts
  /\ attempts' = attempts + 1
  /\ batch' = Tail(batch)

\* Neither excluded nor, if addresses are to be unique, seen before.
Kept(a) == a \notin options.exclude /\ (options.unique => a \notin seen)

Accept ==
  /\ Attempt
  /\ LET a == Bits(Head(batch))
     IN  /\ Kept(a)
         /\ seen' = IF options.unique THEN seen \cup {a} ELSE seen
         /\ \/ pc' = pc /\ emitted' = Append(emitted, Head(batch)) /\ UNCHANGED failure
            \/ MayFail /\ Fail("output") /\ UNCHANGED emitted
  /\ UNCHANGED <<options, asking, yielded, pending, ended, state>>

Reject ==
  /\ Attempt
  /\ ~Kept(Bits(Head(batch)))
  /\ UNCHANGED <<options, pc, asking, yielded, pending, ended, state, seen, emitted, failure>>

OutOfAttempts ==
  /\ pc = "filter" /\ batch # <<>> /\ attempts >= options.max_attempts
  /\ Fail("attempts")
  /\ UNCHANGED <<options, asking, yielded, pending, ended, batch, state, attempts, seen, emitted>>

Filtered ==
  /\ pc = "filter" /\ batch = <<>>
  /\ pc' = "top"
  /\ UNCHANGED <<options, asking, yielded, pending, ended, batch, state, attempts, seen, emitted, failure>>

Returned == pc \in {"ok", "failed"} /\ UNCHANGED gvars

-----------------------------------------------------------------------------
Step == Again \/ Succeed \/ GiveUp \/ AskPart \/ SkipPart \/ Compose
          \/ Accept \/ Reject \/ OutOfAttempts \/ Filtered

GenerationNext == Step \/ Returned

GenerationFairness == WF_gvars(Step)

GenerationSpec == GenerationInit /\ [][GenerationNext]_gvars /\ GenerationFairness

-----------------------------------------------------------------------------
(* Properties.                                                              *)

Composed == attempts + Len(batch)   \* addresses composed so far

\* The k-th composed address takes from every part the bits of the k-th address
\* it has yielded, though parts yield them in batches of different lengths: none
\* is lost, used twice or shifted against the other parts.  So generate() gives
\* up on a composition only when one of its parts has ended and every address
\* that part yielded has been tried; and it never refuses what valid parts have
\* been composed to.
InOrder ==
  /\ \A p \in Part : /\ yielded[p] = Composed + Len(pending[p])
                      /\ \A i \in DOMAIN pending[p] : pending[p][i] = Composed + i
  /\ \A i \in DOMAIN batch : \A p \in Part : batch[i][p] = attempts + i
  /\ \A i \in DOMAIN emitted : \A p, q \in Part : emitted[i][p] = emitted[i][q]
  /\ \A i, j \in DOMAIN emitted : i < j => \A p \in Part : emitted[i][p] < emitted[j][p]
  /\ failure = "ended" => \E p \in Part : ended[p] # "Ready" /\ attempts = yielded[p]
  /\ failure # "composition"

\* Generation ends, also when all a model yields is excluded or a duplicate.
GenerationEnds == <>(pc \in {"ok", "failed"})
=============================================================================
