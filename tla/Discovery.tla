------------------------------ MODULE Discovery ------------------------------
(***************************************************************************)
(* config.DiscoverInstructionFiles (src/config/discovery.go): from a       *)
(* directory up to the root, three candidate files in each, until the      *)
(* budget of characters is used up.                                        *)
(*                                                                         *)
(* Each file is read once, at its turn, so that a file is its length at    *)
(* that moment; 0: it cannot be read (an empty file changes nothing).      *)
(***************************************************************************)
EXTENDS Naturals, FiniteSetsExt

CONSTANTS
    Depth,      \* directories from the first one to the root
    Candidates, \* candidates in a directory: 3
    Lengths,    \* lengths of files
    MaxFile,    \* MaxInstructionFileChars
    MaxTotal,   \* MaxTotalInstructionChars
    Suffix      \* length of "\n[truncated]"

ASSUME DiscoveryBounds ==
    /\ Candidates > 0 /\ {Depth, Candidates, MaxFile, MaxTotal, Suffix} \subseteq Nat
    /\ Lengths \subseteq Nat

VARIABLES
    dir, candidate, \* where the loops are; dir > Depth: at the end
    total,          \* totalChars
    found,          \* files: place and length of what was taken
    tooLong         \* what was read and did not fit (history)

discoveryVars == <<dir, candidate, total, found, tooLong>>

DiscoveryInit ==
    /\ dir = 1 /\ candidate = 1
    /\ total = 0
    /\ found = {} /\ tooLong = {}

-----------------------------------------------------------------------------
Content(n) == IF n > MaxFile THEN MaxFile + Suffix ELSE n

CountedBare(n) == IF n > MaxFile THEN MaxFile ELSE n    \* variant for NearestFilesFirst
Counted(n) == Content(n)

(* After the candidates of a directory: its parent, unless the budget is   *)
(* used up.                                                                *)
NextDirectory(sum) ==
    /\ candidate' = 1
    /\ dir' = IF sum >= MaxTotal THEN Depth + 1 ELSE dir + 1

NextCandidate(sum) ==
    \/ candidate < Candidates /\ candidate' = candidate + 1 /\ UNCHANGED dir
    \/ candidate = Candidates /\ NextDirectory(sum)

Unreadable ==
    /\ dir <= Depth
    /\ NextCandidate(total)
    /\ UNCHANGED <<total, found, tooLong>>

Place == dir * Candidates + candidate

Fits(n) ==
    /\ dir <= Depth
    /\ total + Counted(n) <= MaxTotal
    /\ total' = total + Counted(n)
    /\ found' = found \cup {[place |-> Place, length |-> Content(n)]}
    /\ NextCandidate(total')
    /\ UNCHANGED tooLong

(* The break ends the loop over the candidates, not the one over the       *)
(* directories.                                                            *)
DoesNotFit(n) ==
    /\ dir <= Depth
    /\ total + Counted(n) > MaxTotal
    /\ tooLong' = tooLong \cup {[place |-> Place, length |-> Content(n)]}
    /\ NextDirectory(total)
    /\ UNCHANGED <<total, found>>

Discover == Unreadable \/ \E n \in Lengths : Fits(n) \/ DoesNotFit(n)

-----------------------------------------------------------------------------
(* What is taken fits the budget as it is, truncation marks included; and  *)
(* a file that was read and left out is longer than every file that is     *)
(* taken after it: none gives way to one that is farther away, unless that *)
(* one is shorter.                                                         *)
NearestFilesFirst ==
    /\ MapThenSumSet(LAMBDA f : f.length, found) <= MaxTotal
    /\ \A f \in tooLong, g \in found : f.place < g.place => f.length > g.length
=============================================================================
