---------------------------- MODULE BuildFileSet ----------------------------
(***************************************************************************)
(* What loading build files promises: starting with the files named on the *)
(* command line, files are loaded one at a time, a file only because it    *)
(* was named or because a loaded file depends on it, and none twice.  The  *)
(* load is over when nothing that is named is missing; it may fail only    *)
(* because one of the files it has to read cannot be read.                 *)
(***************************************************************************)
CONSTANTS Roots,        \* the files named on the command line
          AllFiles

VARIABLES needs,        \* the files each file depends on
          unreadable,   \* the files that are bad or include a bad file
          loaded, status

setVars == <<needs, unreadable, loaded, status>>

Wanted == (Roots \cup UNION {needs[f] : f \in loaded}) \ loaded

SetInit ==
    /\ needs \in [AllFiles -> SUBSET AllFiles]
    /\ unreadable \in SUBSET AllFiles
    /\ loaded = {} /\ status = "loading"

LoadFile(f) ==
    /\ status = "loading"
    /\ f \in Wanted
    /\ loaded' = loaded \cup {f}
    /\ UNCHANGED <<needs, unreadable, status>>

Complete ==
    /\ status = "loading"
    /\ Wanted = {}
    /\ status' = "done"
    /\ UNCHANGED <<needs, unreadable, loaded>>

Fail ==
    /\ status = "loading"
    /\ (loaded \cup Wanted) \cap unreadable # {}
    /\ status' = "failed"
    /\ UNCHANGED <<needs, unreadable, loaded>>

SetNext == (\E f \in Wanted : LoadFile(f)) \/ Complete \/ Fail

SetSpec == SetInit /\ [][SetNext]_setVars
=============================================================================
