-------------------------- MODULE MCCoverageBatch --------------------------
(* Instance of CoverageBatch for TLC: all trees of two levels over a few    *)
(* names, with or without one folder that cannot be opened.                 *)
EXTENDS CoverageBatch, FiniteSets

\* A checkout that lies itself below a folder called `Application'.
Root == <<"Application", "/", "gcda", "/", "Application">>
Objects == <<"gcno", "/", "Application">>

\* Names of entries of the folder; those in FolderNames are folders.
FileNames   == {<<"Application", "Mgr", ".gcda">>, <<"bid", ".gcda">>, <<"bid", ".gcno">>}
FolderNames == {<<"core">>, <<"Application">>, <<"old", ".gcda">>}
InnerNames  == {<<"dcd", ".gcda">>, <<"dcd", ".d">>}

Path(d, name) == d \o <<"/">> \o name
Paths(d, names) == {Path(d, n) : n \in names}

TreesOver(folderNames, fileNames, innerNames) ==
  LET Tree(folders, files, inner, refused) ==
        [sub |-> [d \in {Root} \cup Paths(Root, folders) |->
                    IF d = Root THEN Paths(Root, folders \cup files)
                    ELSE Paths(d, inner[CHOOSE n \in folders : d = Path(Root, n)])],
         refused |-> Paths(Root, refused)]
  IN  UNION { {Tree(folders, files, inner, refused) :
                 inner \in [folders -> SUBSET innerNames],
                 refused \in {{}} \cup {{f} : f \in folders}} :
               folders \in SUBSET folderNames, files \in SUBSET fileNames }

\* Also a folder that does not exist, and one that cannot be opened.
AllTrees ==
  TreesOver(FolderNames, FileNames, InnerNames)
    \cup {[sub |-> [d \in {} |-> {}], refused |-> {}],
          [sub |-> [d \in {Root} |-> {}], refused |-> {Root}]}
=============================================================================
