---------------------------- MODULE MC_DirSlots ----------------------------
(* DirSlots with three files: a and c have names of up to 13 characters   *)
(* (one long-name slot), b a longer one (two); their short names start    *)
(* 'A', 'B' and 'C'.                                                       *)
EXTENDS DirSlots, FatName

CONSTANTS a, b, c

MCNames == {a, b, c}

MCLfn == (a :> 1) @@ (b :> 2) @@ (c :> 1)

MCShortOrd == (a :> 1) @@ (b :> 2) @@ (c :> 3)

(* ealloc resets the dirent of the file it creates, and nothing reads the *)
(* dirent of a file not in created, so states that differ only there have *)
(* the same futures; the view identifies them.                            *)
LiveView ==
    <<slots, created, eoff, wild, panicked,
      [nm \in Names |-> IF nm \in created THEN dent[nm] ELSE 0]>>

(***************************************************************************)
(* The name tokens stand for the names FatName computes.  A file in       *)
(* created got there by create(): lookup_path(path, 1, name) split the    *)
(* path with skipelem, whose memmove copied the last component into name; *)
(* ealloc passed it through formatname, and emake wrote generate_shortname *)
(* and the long-name slots that enext decodes for dirlookup.  Each       *)
(* property below states, for every file the directory holds, a fact of   *)
(* that pipeline over all of FatName's bounded components and paths.      *)
(***************************************************************************)

(* Every file created from a component c is listed under formatname(c),  *)
(* decoded by enext from emake's slots for every length up to 255, and a  *)
(* later lookup of c (strncmp over 255 bytes) finds it exactly when       *)
(* formatname left c unchanged: ".a", " a" and "a " are never found.     *)
LookupFindsCreated == \A nm \in created : FindsCreatedFacts

(* Every created file's short entry holds the 8.3 basis name of spec      *)
(* section 4.7, as generate_shortname's pointer loop computes it.         *)
ShortNameBasis == \A nm \in created : ShortBasisFacts

(* Every created file's name is the last non-empty component of the path  *)
(* create() walked, cut to 255 bytes, and lookup_path's parent mode        *)
(* looked up exactly the components before it.                            *)
PathSplit == \A nm \in created : PathSplitFacts

(* skipelem's memmove into name copies as if through a buffer, for every  *)
(* overlap of source and destination.                                     *)
MemmoveRef == \A nm \in created : MemmoveFacts
====
