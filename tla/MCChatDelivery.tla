--------------------------- MODULE MCChatDelivery ---------------------------
EXTENDS ChatDelivery, TLC

CONSTANTS u1, u2, u3

\* One conversation, written to from both ends.
TalkPair == {<<u1, u2>>, <<u2, u1>>}

\* Two conversations with the same addressee.
TalkFork == {<<u1, u3>>, <<u2, u3>>}

NoFaults == {{}}

\* The failures the handlers allow for; those that only put a message off; those after
\* which it may be skipped; and the one that breaks the numbers.
ByHarm == {Handled, (Deferring \ Handled) \cup {"save_fail"},
           {"overtake", "early_drop", "save_fail"}, {"incr_fail", "save_fail"}}

Symmetry == Permutations(Msg) \cup Permutations(Server)

\* Exchanging the two users maps TalkPair to itself.
SymmetryPair == Symmetry \cup Permutations({u1, u2})
=============================================================================
