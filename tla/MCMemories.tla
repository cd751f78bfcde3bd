----------------------------- MODULE MCMemories -----------------------------
EXTENDS Memories, TLC

OneKey == [c \in Contents |-> CHOOSE p \in ProfileKeys : TRUE]

Symmetry == Permutations(MemoryIds) \cup Permutations(Contents) \cup Permutations(Workers)
=============================================================================
