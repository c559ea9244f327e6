----------------------------- MODULE MCLfBcast ------------------------------
EXTENDS LfBcast, TLC

\* Publishers are interchangeable, and so are subscribers: sound for invariants
\* and action properties, not used with the liveness property.
ProcSymmetry == Permutations(Pubs) \cup Permutations(Subs)

\* Keeps the run with two publishers small: what happens after a crash, and the
\* fourth message (the first for which two publishers can be rolling off the same
\* head), are followed up only while nobody has subscribed, and not both at once.
\* A subscriber that goes on after a crash is in the runs without the constraint.
OneAtATime ==
  /\ crashes > 0 \/ sent > 3 => \A s \in Subs : spc[s] = "off"
  /\ sent > 3 => crashes = 0
=============================================================================
