----------------------------- MODULE SearchSpec -----------------------------
(***************************************************************************)
(* What a search over a snapshot promises, whichever way it is run         *)
(* (multi_search.rs): matches are reported once per path, from the newest  *)
(* segment that has one, up to the limit; a search that ends without an    *)
(* error has reported every path or has reached the limit.                 *)
(***************************************************************************)
EXTENDS Naturals, FiniteSets

VARIABLES
  hits,      \* the live matches of the snapshot, as [path, seg] records
  cap,       \* how many files may be reported
  exact,     \* whether the search promises the newest copies and all of them
  answer,    \* the matches reported
  outcome    \* "running", "ok" or "error"

specVars == <<hits, cap, exact, answer, outcome>>

Newest(h) == \A k \in hits : k.path = h.path => k.seg <= h.seg

Complete(ans) ==
  \/ Cardinality(ans) = cap
  \/ \A h \in hits : \E k \in ans : k.path = h.path

SpecInit == answer = {} /\ outcome = "running"

Report(new, end) ==
  /\ outcome = "running"
  /\ new \subseteq hits
  /\ answer' = answer \cup new
  /\ \A h, k \in answer' : h.path = k.path => h = k
  /\ Cardinality(answer') <= cap
  /\ exact => \A h \in new : Newest(h)
  /\ outcome' = end
  /\ end = "ok" /\ exact => Complete(answer')
  /\ UNCHANGED <<hits, cap, exact>>

SpecNext == \E new \in SUBSET hits : \E end \in {"running", "ok", "error"} : Report(new, end)

SearchPromise == SpecInit /\ [][SpecNext]_specVars
=============================================================================
