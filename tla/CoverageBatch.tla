--------------------------- MODULE CoverageBatch ---------------------------
(***************************************************************************)
(* Coverity::CoverageBatch: one call of create, which walks the folder of  *)
(* .gcda files and writes, for every file it finds, the commands that      *)
(* import it together with the .gcno file of the same object.              *)
(*                                                                         *)
(* A path is a sequence of tokens.  Tokens are the pieces of a path the    *)
(* code looks for ("/", "Application", ".gcda") and the text between them, *)
(* so that the file "Application/bid/bidLEDMgr.gcda" is                     *)
(*     <<"Application", "/", "bid", "/", "bidLEDMgr", ".gcda">>.           *)
(* The length prefixes and the fixed text of the batch file are left out.  *)
(***************************************************************************)
EXTENDS Integers, Sequences, SequencesExt

CONSTANTS
  GcdaFolder,  \* the folder create is called for
  GcnoFolder,  \* the folder that holds the .gcno files
  Trees        \* the file trees below GcdaFolder to look at

\* tree.sub[d] is what readdir returns for folder d, apart from "." and "..",
\* each with d in front; tree.refused are the folders opendir cannot open.
ASSUME TreesAssumption ==
  \A t \in Trees :
    /\ t.refused \subseteq DOMAIN t.sub
    /\ \A d, e \in DOMAIN t.sub : d # e => t.sub[d] \cap t.sub[e] = {}
    /\ \A d \in DOMAIN t.sub : GcdaFolder \notin t.sub[d]

\* The callee's path is the folder's own path, a slash and the name of the entry.
ASSUME PathsAssumption ==
  /\ {GcdaFolder, GcnoFolder} \subseteq Seq(STRING)
  /\ \A t \in Trees : \A d \in DOMAIN t.sub : \A path \in t.sub[d] :
       /\ d \in Seq(STRING) /\ path \in Seq(STRING)
       /\ Len(path) > Len(d) + 1 /\ path[Len(d) + 1] = "/"
       /\ \A i \in 1 .. Len(d) : path[i] = d[i]

\* get_relative_path looks for a folder of this name.
ASSUME FolderAssumption ==
  \E i \in DOMAIN GcdaFolder : GcdaFolder[i] = "Application"

VARIABLES
  tree,    \* the files below GcdaFolder
  stack,   \* the calls of traverse_gcda that read a folder, innermost first
  batch,   \* the entries written to the output file
  status   \* "new", "running", "done" or "died"

vars == <<tree, stack, batch, status>>

-----------------------------------------------------------------------------
(* Names and paths.                                                         *)

FirstOf(token, path) == SelectInSeq(path, LAMBDA t : t = token)
LastOf(token, path) == SelectLastInSeq(path, LAMBDA t : t = token)

\* is_gcda_file looks at the name alone: a folder may pass as well.
IsGcdaFile(path) == path # <<>> /\ path[Len(path)] = ".gcda"

\* Seeded bug: the search is for the first `Application', not the last.
RelativePathFirst(path) ==
  SubSeq(path, FirstOf("Application", path) + 1, Len(path))

\* get_relative_path: what follows the last `Application' of the path.
RelativePath(path) ==
  SubSeq(path, LastOf("Application", path) + 1, Len(path))

\* get_gcno_path: the first ".gcda" of the relative path becomes ".gcno".
GcnoPath(gcda) ==
  LET rel == RelativePath(gcda)
  IN  GcnoFolder \o
      [i \in DOMAIN rel |-> IF i = FirstOf(".gcda", rel) THEN ".gcno" ELSE rel[i]]

\* prepare_batch
Entry(path) == [gcda |-> path, gcno |-> GcnoPath(path)]

-----------------------------------------------------------------------------
IsFolder(path) == path \in DOMAIN tree.sub

\* The call of traverse_gcda for path, up to the first readdir, made by the
\* calls on the stack `callers'.
Traverse(path, callers) ==
  /\ batch' = IF IsGcdaFile(path) THEN Append(batch, Entry(path)) ELSE batch
  /\ IF ~IsFolder(path)
     THEN stack' = callers /\ UNCHANGED status
     ELSE IF path \in tree.refused
     THEN status' = "died" /\ stack' = <<>>
     ELSE stack' = <<[folder |-> path, left |-> tree.sub[path]]>> \o callers /\ UNCHANGED status
  /\ UNCHANGED tree

Init ==
  /\ tree \in Trees
  /\ stack = <<>>
  /\ batch = <<>>
  /\ status = "new"

\* create opens the output file and writes the header.
Create ==
  /\ status = "new"
  /\ status' \in {"running", "died"}
  /\ stack' = IF status' = "running"
              THEN <<[folder |-> <<>>, left |-> {GcdaFolder}]>> ELSE <<>>
  /\ UNCHANGED <<tree, batch>>

\* Seeded bug: a name that ends in .gcda is taken for a file and never opened.
ReadFolderFilesOnly ==
  /\ status = "running" /\ stack # <<>>
  /\ \E path \in Head(stack).left :
       LET callers == <<[Head(stack) EXCEPT !.left = @ \ {path}]>> \o Tail(stack)
       IN  IF IsGcdaFile(path)
           THEN /\ batch' = Append(batch, Entry(path))
                /\ stack' = callers
                /\ UNCHANGED <<tree, status>>
           ELSE Traverse(path, callers)

\* The innermost call reads its next entry and traverses it.  readdir returns
\* the entries of a folder in any order.  The outermost frame, whose only entry
\* is GcdaFolder, stands for create itself.
ReadFolder ==
  /\ status = "running" /\ stack # <<>>
  /\ \E path \in Head(stack).left :
       Traverse(path, <<[Head(stack) EXCEPT !.left = @ \ {path}]>> \o Tail(stack))

\* readdir is at its end: the innermost call returns, create with the last.
Return ==
  /\ status = "running" /\ stack # <<>>
  /\ Head(stack).left = {}
  /\ stack' = Tail(stack)
  /\ status' = IF Len(stack) = 1 THEN "done" ELSE status
  /\ UNCHANGED <<tree, batch>>

Next == Create \/ ReadFolder \/ Return

Spec == Init /\ [][Next]_vars

-----------------------------------------------------------------------------
(* Properties.                                                              *)

Nodes == {GcdaFolder} \cup UNION {tree.sub[d] : d \in DOMAIN tree.sub}

\* Everything below GcdaFolder: what lies in each set of paths that holds the
\* folder itself and, with a folder, its entries.
Below ==
  {n \in Nodes : \A S \in SUBSET Nodes :
     GcdaFolder \in S /\ (\A d \in S \cap DOMAIN tree.sub : tree.sub[d] \subseteq S) => n \in S}

Listed == {batch[i].gcda : i \in DOMAIN batch}

Files == Below \ DOMAIN tree.sub

\* A batch that create finishes lists every .gcda file below the folder, at any
\* depth and below folders that are themselves called *.gcda, and nothing is in it
\* twice: no coverage is lost and none is imported double (traverse_gcda).  That
\* such a folder has an entry itself is neither asked for nor ruled out.
EachListedOnce ==
  /\ \A i, j \in DOMAIN batch : batch[i].gcda = batch[j].gcda => i = j
  /\ status = "done" => {n \in Files : IsGcdaFile(n)} \subseteq Listed

\* Where the .gcno of a file lies: at the place below GcnoFolder that the
\* .gcda has below GcdaFolder.
SamePlace(e) ==
  e.gcno = GcnoFolder \o [SubSeq(e.gcda, Len(GcdaFolder) + 1, Len(e.gcda))
                            EXCEPT ![Len(e.gcda) - Len(GcdaFolder)] = ".gcno"]

\* Names below the folder that do not look like its own name or like a suffix.
PlainNames(path) ==
  \A i \in Len(GcdaFolder) + 1 .. Len(path) - 1 : path[i] \notin {"Application", ".gcda"}

\* A file is paired with the .gcno of its own object, even when folders above
\* GcdaFolder have the name `Application' too.
GcnoOfSameObject ==
  \A i \in DOMAIN batch : PlainNames(batch[i].gcda) => SamePlace(batch[i])
=============================================================================
