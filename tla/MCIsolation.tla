----------------------------- MODULE MCIsolation -----------------------------
(* Small instances of Isolation for TLC. *)
EXTENDS Isolation, TLC

CONSTANTS c1, c2, t1, t2

\* One container on either thread or on none: every reallocation moves it.
OneContainerLayouts ==
    {[t \in Threads |-> IF t \in ts THEN {c1} ELSE {}] : ts \in {{}, {t1}, {t2}}}

\* Two containers: apart, either way round, or alone.
TwoContainerLayouts ==
    {(t1 :> a @@ t2 :> b) : a \in {{}, {c1}, {c2}}, b \in {{}, {c1}, {c2}}}

Symmetry == Permutations({c1, c2})

=============================================================================
