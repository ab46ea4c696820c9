------------------------- MODULE MC_WorkingMemory -------------------------
(* Small instances of WorkingMemory: bounds on time, log lines and faults.    *)
EXTENDS WorkingMemory, TLC

CONSTANTS Crashes, Tears, IoFailures, Rots

Symmetric == Permutations(Episodes)
SymmetricCallers == Permutations(Clients) \cup Permutations(Episodes)

MCBudget == ("crash" :> Crashes) @@ ("torn" :> Tears) @@ ("io" :> IoFailures)
            @@ ("rot" :> Rots)
============================================================================
