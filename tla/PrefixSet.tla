------------------------------ MODULE PrefixSet ------------------------------
(***************************************************************************)
(* The set of addresses covered by prefixes (core/src/prefixes.rs): known  *)
(* and detected aliases, excluded prefixes and prefix files are kept in    *)
(* it.                                                                     *)
(*                                                                         *)
(* The set is a map "ranges" from the first to the last address of each of *)
(* its ranges.  All queries look at one range only, the last one that      *)
(* starts at or before an address, so they are right only as long as       *)
(* insert() leaves no two ranges that overlap or touch.  insert() is taken *)
(* apart into its steps: it returns early when the prefix is covered,      *)
(* joins the range to the left, absorbs one range after the other on the   *)
(* right, and stores the result.                                           *)
(*                                                                         *)
(* Addresses are numbers up to Top, u128::MAX in the code, where one more  *)
(* saturates.  A prefix is the pair of its first and its last address.     *)
(***************************************************************************)
EXTENDS Integers

CONSTANTS
  Top,           \* the last address
  Prefix         \* the prefixes of the address space

Addr == 0..Top

ASSUME PrefixesAssumption ==
  /\ Top \in Nat
  /\ Prefix \subseteq [first : Addr, last : Addr]
  /\ \A p \in Prefix : p.first <= p.last

\* Every address is a prefix by itself, and two prefixes nest or are apart.
ASSUME NestingAssumption ==
  /\ \A a \in Addr : [first |-> a, last |-> a] \in Prefix
  /\ \A p, q \in Prefix :
       \/ p.last < q.first \/ q.last < p.first
       \/ p.first <= q.first /\ q.last <= p.last
       \/ q.first <= p.first /\ p.last <= q.last

VARIABLES
  ranges,        \* ranges[s]: the end of the range that starts at s
  entering,      \* the range insert() is building, if "on"
  given          \* history: the addresses of all prefixes inserted so far

pvars == <<ranges, entering, given>>

Idle      == [on |-> FALSE, start |-> 0, end |-> 0]
SatAdd(a) == IF a = Top THEN Top ELSE a + 1

\* The last range that starts at or before a, if there is one.
Floor(a)     == {s \in DOMAIN ranges : s <= a /\ \A r \in DOMAIN ranges : r <= a => r <= s}
Contains(a)  == \E s \in Floor(a) : a <= ranges[s]
Covers(p)    == \E s \in Floor(p.first) : p.last <= ranges[s]

-----------------------------------------------------------------------------
(* insert()                                                                 *)

Without(s)  == [r \in DOMAIN ranges \ {s} |-> ranges[r]]

Touching_Overlapping(a) == {s \in Floor(a) : ranges[s] >= a}
Touching(a) == {s \in Floor(a) : SatAdd(ranges[s]) >= a}

InsertCovered(p) ==
  /\ ~entering.on
  /\ Covers(p)
  /\ given' = given \cup (p.first..p.last)
  /\ UNCHANGED <<ranges, entering>>

InsertApart(p) ==
  /\ ~entering.on
  /\ ~Covers(p)
  /\ Touching(p.first) = {}
  /\ entering' = [on |-> TRUE, start |-> p.first, end |-> p.last]
  /\ given' = given \cup (p.first..p.last)
  /\ UNCHANGED ranges

InsertJoining(p) ==
  /\ ~entering.on
  /\ ~Covers(p)
  /\ \E s \in Touching(p.first) :
       /\ entering' = [on |-> TRUE, start |-> s,
                       end |-> IF ranges[s] > p.last THEN ranges[s] ELSE p.last]
       /\ ranges' = Without(s)
  /\ given' = given \cup (p.first..p.last)

\* The ranges to the right that overlap or touch the new one.
ToAbsorb == {s \in DOMAIN ranges : s >= entering.start /\ s <= SatAdd(entering.end)}

Absorb ==
  /\ entering.on
  /\ \E s \in ToAbsorb :
       /\ \A r \in ToAbsorb : s <= r
       /\ entering' = [entering EXCEPT !.end = IF ranges[s] > @ THEN ranges[s] ELSE @]
       /\ ranges' = Without(s)
  /\ UNCHANGED given

Store ==
  /\ entering.on
  /\ ToAbsorb = {}
  /\ ranges' = [r \in DOMAIN ranges \cup {entering.start} |->
                  IF r = entering.start THEN entering.end ELSE ranges[r]]
  /\ entering' = Idle
  /\ UNCHANGED given

Init == /\ ranges = [s \in {} |-> s]
        /\ entering = Idle
        /\ given = {}

Next == \/ \E p \in Prefix : InsertCovered(p) \/ InsertApart(p) \/ InsertJoining(p)
        \/ Absorb
        \/ Store

Spec == Init /\ [][Next]_pvars

-----------------------------------------------------------------------------
(* prefixes(): each range is cut, from its start, into the longest blocks   *)
(* that are a prefix and end within the range.                              *)

LongestTo_Shrunk(start, end) ==
  {p \in Prefix : p.first = start /\ (p.last < end \/ p.first = p.last)}
LongestTo(start, end) == {p \in Prefix : p.first = start /\ p.last <= end}

Longest(start, end) == CHOOSE p \in LongestTo(start, end) :
                          \A q \in LongestTo(start, end) : q.last <= p.last

Blocks(first, end) ==
  LET cut[s \in first..end] ==
        LET p == Longest(s, end)
        IN  {p} \cup (IF p.last = end THEN {} ELSE cut[p.last + 1])
  IN  cut[first]

Listed == UNION {Blocks(s, ranges[s]) : s \in DOMAIN ranges}

-----------------------------------------------------------------------------
(* Properties                                                               *)

\* Whenever insert() has returned, contains() is true of exactly the addresses
\* of the prefixes inserted so far, and covers() of exactly the prefixes all
\* of whose addresses they cover between them, though each looks at one range.
QueriesAgree ==
  ~entering.on =>
    /\ \A a \in Addr : Contains(a) <=> a \in given
    /\ \A p \in Prefix : Covers(p) <=> p.first..p.last \subseteq given

\* prefixes() lists exactly the largest prefixes within the coverage, so the
\* alias file that is written has every alias, no other address, and no prefix
\* that a shorter one makes redundant.
ListingIsMinimal ==
  ~entering.on =>
    Listed = {p \in Prefix :
                /\ p.first..p.last \subseteq given
                /\ \A q \in Prefix :
                      q.first <= p.first /\ p.last <= q.last /\ q.first..q.last \subseteq given
                        => q = p}
==============================================================================
