------------------------------ MODULE Feedback ------------------------------
(***************************************************************************)
(* What a probing session promises the model that generates targets: each  *)
(* target it is asked about gets one verdict, and never a second.  The     *)
(* prefixes announced as aliased only grow; a target is skipped only if    *)
(* such a prefix covers it, and an active target is never covered later.   *)
(***************************************************************************)
CONSTANTS Addr, InitAliases

VARIABLES
  verdict,   \* the verdict on each target, or how far it is
  covered    \* targets covered by the announced aliases

fvars == <<verdict, covered>>

Judged == {"Active", "Inactive", "Skipped"}

\* The verdicts that fit what has been announced.
Fits(a, v) == v \in Judged /\ (v = "Skipped" <=> a \in covered)

Init ==
  /\ verdict = [a \in Addr |-> "none"]
  /\ covered = InitAliases

\* Targets are probed, or considered; the covered ones may be skipped at once.
Request(A) ==
  /\ \A a \in A : verdict[a] = "none"
  /\ \E v \in [A -> {"asked", "Skipped"}] :
        /\ \A a \in A : v[a] = "Skipped" => a \in covered
        /\ verdict' = [a \in Addr |-> IF a \in A THEN v[a] ELSE verdict[a]]
  /\ UNCHANGED covered

\* Verdicts are given, once.
Judge(A) ==
  /\ \A a \in A : verdict[a] = "asked"
  /\ \A a \in A : Fits(a, verdict'[a])
  /\ verdict' \in [Addr -> {"none", "asked"} \cup Judged]
  /\ \A a \in Addr \ A : verdict'[a] = verdict[a]
  /\ UNCHANGED covered

\* More addresses are covered, none of which was declared active.
Announce(C) ==
  /\ \A a \in C : verdict[a] # "Active"
  /\ covered' = covered \cup C
  /\ UNCHANGED verdict

Next == \E A \in SUBSET Addr : Request(A) \/ Judge(A) \/ Announce(A)

Spec == Init /\ [][Next]_fvars
=============================================================================
