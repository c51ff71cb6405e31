------------------------------- MODULE MCParts -------------------------------
(***************************************************************************)
(* The small parts a scan is built on, one of them in each behaviour: the  *)
(* prefix set, generation from a composition, and a packet link.           *)
(***************************************************************************)
EXTENDS PrefixSet, Generation, Link

CONSTANT Width

\* Addresses of Width bits: a prefix is an aligned block of 2^n addresses.
MCTop    == 2^Width - 1
MCPrefix == UNION {{[first |-> i * 2^n, last |-> (i + 1) * 2^n - 1] : i \in 0..(2^(Width - n) - 1)}
                     : n \in 0..Width}

\* Three parts of a composition: one that repeats itself, one with few
\* addresses, and one that yields the same bits always.
MCStream  == <<<<0, 1, 0, 1, 0, 1>>, <<2, 3, 2, 2, 3>>, <<4, 4, 4, 4, 4, 4>>>>
MCOptions == [count : {2, 3}, unique : BOOLEAN, max_attempts : {4, 6},
              exclude : {{<<1, 3, 4>>}}]

VARIABLE part

NoGeneration ==
  /\ options = [count |-> 0, unique |-> FALSE, max_attempts |-> 0, exclude |-> {}]
  /\ pc = "ok" /\ asking = 1
  /\ yielded = [p \in Part |-> 0] /\ pending = [p \in Part |-> <<>>]
  /\ ended = [p \in Part |-> "Ready"]
  /\ batch = <<>> /\ state = "Ready"
  /\ attempts = 0 /\ seen = {} /\ emitted = <<>> /\ failure = "none"

NoLink ==
  /\ backend = "none" /\ tx = 0 /\ rx = 0
  /\ call = [NoCall EXCEPT !.at = "closed"]
  /\ frames = 0 /\ last = 0

MCInit ==
  \/ part = "prefixes" /\ Init /\ NoGeneration /\ NoLink
  \/ part = "generation" /\ GenerationInit /\ NoLink
     /\ ranges = [s \in {} |-> s] /\ entering = Idle /\ given = {}
  \/ part = "link" /\ LinkInit /\ NoGeneration
     /\ ranges = [s \in {} |-> s] /\ entering = Idle /\ given = {}

MCNext ==
  /\ \/ part = "prefixes" /\ Next /\ UNCHANGED <<gvars, linkVars>>
     \/ part = "generation" /\ GenerationNext /\ UNCHANGED <<pvars, linkVars>>
     \/ part = "link" /\ LinkNext /\ UNCHANGED <<pvars, gvars>>
  /\ UNCHANGED part

MCSpec ==
  /\ MCInit /\ [][MCNext]_<<part, pvars, gvars, linkVars>>
  /\ GenerationFairness /\ LinkFairness
=============================================================================
