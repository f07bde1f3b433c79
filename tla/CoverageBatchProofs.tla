------------------------ MODULE CoverageBatchProofs ------------------------
(***************************************************************************)
(* Theorems about CoverageBatch, for trees of any shape and size: a batch  *)
(* that create finishes lists every .gcda file exactly once, and pairs it  *)
(* with the .gcno of its own object.                                       *)
(***************************************************************************)
EXTENDS CoverageBatch, SequenceTheorems, TLAPS

-----------------------------------------------------------------------------
(* The stack of calls.                                                      *)

Frames == [folder : Nodes \cup {<<>>}, left : SUBSET Nodes]

\* The paths that the calls on a stack have still to traverse.
LeftOn(calls) == UNION {calls[k].left : k \in DOMAIN calls}

\* No path is left to two calls.
Apart(calls) ==
  \A j, k \in DOMAIN calls : j # k => calls[j].left \cap calls[k].left = {}

LEMMA ConsProperties ==
  ASSUME NEW S, NEW x \in S, NEW s \in Seq(S)
  PROVE  /\ <<x>> \o s \in Seq(S) /\ DOMAIN (<<x>> \o s) = 1 .. Len(s) + 1
         /\ (<<x>> \o s)[1] = x
         /\ \A k \in 1 .. Len(s) : (<<x>> \o s)[k + 1] = s[k]
<1>1. <<x>> \in Seq(S) /\ Len(<<x>>) = 1 /\ <<x>>[1] = x /\ Len(s) \in Nat
  BY LenProperties
<1>2. /\ <<x>> \o s \in Seq(S) /\ Len(<<x>> \o s) = 1 + Len(s)
      /\ \A k \in 1 .. 1 + Len(s) : (<<x>> \o s)[k] = IF k <= 1 THEN <<x>>[k] ELSE s[k - 1]
  BY <1>1, ConcatProperties
<1> QED
  BY <1>1, <1>2, LenProperties

\* The innermost call has taken a path from its folder.
LEMMA CallersLeft ==
  ASSUME stack \in Seq(Frames), stack # <<>>, Apart(stack), NEW path \in Head(stack).left,
         NEW callers, callers = <<[Head(stack) EXCEPT !.left = @ \ {path}]>> \o Tail(stack)
  PROVE  /\ callers \in Seq(Frames) /\ Apart(callers)
         /\ path \in LeftOn(stack) /\ LeftOn(callers) = LeftOn(stack) \ {path}
<1> DEFINE first == [Head(stack) EXCEPT !.left = @ \ {path}]
<1>1. /\ Len(stack) \in Nat /\ Len(stack) >= 1 /\ DOMAIN stack = 1 .. Len(stack)
      /\ Head(stack) = stack[1] /\ Head(stack) \in Frames
  BY HeadTailProperties, LenProperties, EmptySeq
<1>2. /\ Tail(stack) \in Seq(Frames) /\ Len(Tail(stack)) = Len(stack) - 1
      /\ \A k \in 1 .. Len(Tail(stack)) : Tail(stack)[k] = stack[k + 1]
  BY HeadTailProperties
<1>3. first \in Frames /\ callers = <<first>> \o Tail(stack)
  BY <1>1 DEF Frames
<1> HIDE DEF first
<1>4. /\ callers \in Seq(Frames) /\ DOMAIN callers = 1 .. Len(Tail(stack)) + 1
      /\ callers[1] = first
      /\ \A k \in 1 .. Len(Tail(stack)) : callers[k + 1] = Tail(stack)[k]
  <2> DEFINE rest == Tail(stack)
  <2>1. rest \in Seq(Frames) /\ first \in Frames
    BY <1>2, <1>3
  <2> HIDE DEF rest
  <2>2. /\ <<first>> \o rest \in Seq(Frames) /\ DOMAIN (<<first>> \o rest) = 1 .. Len(rest) + 1
        /\ (<<first>> \o rest)[1] = first
        /\ \A k \in 1 .. Len(rest) : (<<first>> \o rest)[k + 1] = rest[k]
    BY ONLY <2>1, ConsProperties
  <2>3. callers = <<first>> \o rest
    BY <1>3 DEF rest
  <2> HIDE DEF first
  <2> QED
    BY ONLY <2>2, <2>3 DEF rest
<1>7. DOMAIN callers = DOMAIN stack
  BY <1>1, <1>2, <1>4
<1>8. ASSUME NEW k \in DOMAIN stack, k # 1 PROVE callers[k] = stack[k]
  <2>1. k - 1 \in 1 .. Len(Tail(stack)) /\ (k - 1) + 1 = k
    BY <1>1, <1>2, <1>8
  <2> QED
    BY <1>2, <1>4, <2>1
<1>9. callers[1] = first
  BY <1>4
<1>10. 1 \in DOMAIN stack /\ stack[1] \in Frames /\ path \in stack[1].left
  BY <1>1
<1>11. callers[1].left = stack[1].left \ {path}
  BY <1>1, <1>9, <1>10 DEF first, Frames
<1>12. \A k \in DOMAIN stack : callers[k].left = stack[k].left \ {path}
  BY <1>8, <1>10, <1>11 DEF Apart
<1>13. Apart(callers)
  BY <1>7, <1>12 DEF Apart
<1>14. path \in LeftOn(stack)
  BY <1>10 DEF LeftOn
<1>15. LeftOn(callers) = LeftOn(stack) \ {path}
  <2>1. ASSUME NEW n \in LeftOn(callers) PROVE n \in LeftOn(stack) \ {path}
    <3>1. PICK k \in DOMAIN stack : n \in callers[k].left
      BY <1>7 DEF LeftOn
    <3> QED
      BY <1>12, <3>1 DEF LeftOn
  <2>2. ASSUME NEW n \in LeftOn(stack) \ {path} PROVE n \in LeftOn(callers)
    BY <1>7, <1>12 DEF LeftOn
  <2> QED
    BY <2>1, <2>2
<1> QED
  BY <1>4, <1>13, <1>14, <1>15

\* One more call, for a folder whose entries no other call has.
LEMMA PushLeft ==
  ASSUME NEW callers \in Seq(Frames), Apart(callers), NEW frame \in Frames,
         frame.left \cap LeftOn(callers) = {}
  PROVE  /\ <<frame>> \o callers \in Seq(Frames) /\ Apart(<<frame>> \o callers)
         /\ LeftOn(<<frame>> \o callers) = frame.left \cup LeftOn(callers)
<1> DEFINE calls == <<frame>> \o callers
<1>2. Len(callers) \in Nat /\ DOMAIN callers = 1 .. Len(callers)
  BY LenProperties
<1>3. /\ calls \in Seq(Frames) /\ DOMAIN calls = 1 .. Len(callers) + 1
      /\ calls[1] = frame
      /\ \A k \in 1 .. Len(callers) : calls[k + 1] = callers[k]
  BY ConsProperties
<1> HIDE DEF calls
<1>6. ASSUME NEW k \in DOMAIN calls, k # 1
      PROVE  k - 1 \in DOMAIN callers /\ calls[k] = callers[k - 1]
  <2>1. k - 1 \in 1 .. Len(callers) /\ (k - 1) + 1 = k
    BY <1>2, <1>3, <1>6
  <2> QED
    BY <1>2, <1>3, <2>1
<1>7. \A k \in DOMAIN callers : k + 1 \in DOMAIN calls /\ calls[k + 1] = callers[k]
  BY <1>2, <1>3
<1>8. 1 \in DOMAIN calls /\ DOMAIN calls \subseteq Int
  BY <1>2, <1>3
<1>9. \A k \in DOMAIN callers : frame.left \cap callers[k].left = {}
  BY DEF LeftOn
<1>10. Apart(calls)
  <2> SUFFICES ASSUME NEW j \in DOMAIN calls, NEW k \in DOMAIN calls, j # k
               PROVE  calls[j].left \cap calls[k].left = {}
    BY DEF Apart
  <2>1. CASE j = 1
    BY <1>3, <1>6, <1>9, <2>1
  <2>2. CASE k = 1
    BY <1>3, <1>6, <1>9, <2>2
  <2>3. CASE j # 1 /\ k # 1
    <3>1. j - 1 # k - 1
      BY <1>8
    <3> QED
      BY <1>6, <2>3, <3>1 DEF Apart
  <2> QED
    BY <2>1, <2>2, <2>3
<1>11. LeftOn(calls) = frame.left \cup LeftOn(callers)
  <2>1. ASSUME NEW n \in LeftOn(calls) PROVE n \in frame.left \cup LeftOn(callers)
    BY <1>3, <1>6 DEF LeftOn
  <2>2. ASSUME NEW n \in frame.left PROVE n \in LeftOn(calls)
    BY <1>3, <1>8 DEF LeftOn
  <2>3. ASSUME NEW n \in LeftOn(callers) PROVE n \in LeftOn(calls)
    BY <1>7 DEF LeftOn
  <2> QED
    BY <2>1, <2>2, <2>3
<1> QED
  BY <1>3, <1>10, <1>11 DEF calls

-----------------------------------------------------------------------------
(* The inductive invariant.                                                 *)

Pending == LeftOn(stack)

\* V is what has been traversed.  It and what is pending make up a part of the
\* tree below the folder that is closed but for what is pending; every path in it
\* but GcdaFolder has been reached from its folder.
Covers(V) ==
  /\ V \cup Pending \subseteq Below /\ V \cap Pending = {}
  /\ GcdaFolder \in V \cup Pending
  /\ \A d \in V \cap DOMAIN tree.sub : tree.sub[d] \subseteq V \cup Pending
  /\ \A n \in V \cup Pending :
       n = GcdaFolder \/ \E d \in V \cap DOMAIN tree.sub : n \in tree.sub[d]
  /\ Listed = {n \in V : IsGcdaFile(n)}

NoneTwice == \A i, j \in DOMAIN batch : batch[i].gcda = batch[j].gcda => i = j

\* What a finished batch lists.
Found == {n \in Below : IsGcdaFile(n)}

StackInv == stack \in Seq(Frames) /\ Apart(stack)

BatchInv == batch \in Seq({Entry(n) : n \in Found}) /\ NoneTwice

WalkInv ==
  /\ tree \in Trees
  /\ StackInv /\ BatchInv
  /\ status = "new" => batch = <<>>
  /\ status \in {"running", "done"} => \E V \in SUBSET Nodes : Covers(V)
  /\ status = "done" => stack = <<>>

-----------------------------------------------------------------------------
(* The tree.                                                                *)

LEMMA BelowClosed ==
  ASSUME NEW d \in Below, d \in DOMAIN tree.sub
  PROVE  tree.sub[d] \subseteq Below
<1> SUFFICES ASSUME NEW n \in tree.sub[d], NEW S \in SUBSET Nodes, GcdaFolder \in S,
                    \A e \in S \cap DOMAIN tree.sub : tree.sub[e] \subseteq S
             PROVE  n \in Nodes /\ n \in S
  BY DEF Below, Nodes
<1>1. d \in S
  BY DEF Below
<1> QED
  BY <1>1

LEMMA RootBelow == GcdaFolder \in Below
BY DEF Below, Nodes

\* The entries of a folder that is traversed for the first time have not been met.
LEMMA EntriesAreNew ==
  ASSUME tree \in Trees, NEW V, Covers(V), NEW d \in DOMAIN tree.sub, d \notin V
  PROVE  tree.sub[d] \cap (V \cup Pending) = {}
<1> SUFFICES ASSUME NEW n \in tree.sub[d], n \in V \cup Pending
             PROVE  FALSE
  OBVIOUS
<1>1. n # GcdaFolder
  BY TreesAssumption
<1>2. PICK e \in V \cap DOMAIN tree.sub : n \in tree.sub[e]
  BY <1>1 DEF Covers
<1>3. d # e
  BY <1>2
<1> QED
  BY <1>2, <1>3, TreesAssumption

\* Traversing a pending path: its entries are pending from then on.
LEMMA VisitCovers ==
  ASSUME tree \in Trees, UNCHANGED tree,
         NEW V \in SUBSET Nodes, Covers(V), NEW path \in Pending,
         NEW entries, entries = IF IsFolder(path) THEN tree.sub[path] ELSE {},
         Pending' = (Pending \ {path}) \cup entries,
         Listed' = IF IsGcdaFile(path) THEN Listed \cup {path} ELSE Listed
  PROVE  \E W \in SUBSET Nodes' : Covers(W)'
<1> DEFINE W == V \cup {path}
<1>1. path \in Below /\ path \notin V
  BY DEF Covers
<1>2. Nodes' = Nodes /\ Below' = Below
  BY DEF Nodes, Below
<1>3. entries \subseteq Below
  BY <1>1, BelowClosed DEF IsFolder
<1>4. W \in SUBSET Nodes
  BY <1>1 DEF Below
<1>5. entries \cap (V \cup Pending) = {}
  BY <1>1, EntriesAreNew DEF IsFolder
<1>6. W \cup Pending' \subseteq Below' /\ W \cap Pending' = {} /\ GcdaFolder \in W \cup Pending'
  BY <1>1, <1>2, <1>3, <1>5 DEF Covers
<1>7. \A d \in W \cap DOMAIN tree.sub : tree.sub[d] \subseteq W \cup Pending'
  BY DEF Covers, IsFolder
<1>8. \A n \in W \cup Pending' :
        n = GcdaFolder \/ \E d \in W \cap DOMAIN tree.sub : n \in tree.sub[d]
  <2> SUFFICES ASSUME NEW n \in W \cup Pending', n # GcdaFolder
               PROVE  \E d \in W \cap DOMAIN tree.sub : n \in tree.sub[d]
    OBVIOUS
  <2>1. CASE n \in entries
    BY <2>1 DEF IsFolder
  <2>2. CASE n \in V \cup Pending
    BY <2>2 DEF Covers
  <2> QED
    BY <2>1, <2>2
<1>9. Listed' = {n \in W : IsGcdaFile(n)}
  BY DEF Covers
<1> HIDE DEF W
<1>10. Covers(W)'
  BY <1>6, <1>7, <1>8, <1>9 DEF Covers
<1> QED
  BY <1>2, <1>4, <1>10

-----------------------------------------------------------------------------
(* The steps.                                                               *)

LEMMA NodesKept == UNCHANGED tree => Nodes' = Nodes /\ Below' = Below /\ Frames' = Frames /\ Found' = Found
BY DEF Nodes, Below, Frames, Found

LEMMA EntryOfNode ==
  ASSUME NEW n
  PROVE  Entry(n).gcda = n /\ Entry(n).gcno = GcnoPath(n)
BY DEF Entry

\* One more entry in the batch, for a path that has none yet.
LEMMA AppendEntry ==
  ASSUME BatchInv, NEW path \in Found, path \notin Listed, UNCHANGED tree,
         batch' = Append(batch, Entry(path))
  PROVE  BatchInv' /\ Listed' = Listed \cup {path}
<1> DEFINE Entries == {Entry(n) : n \in Found}
           entry == Entry(path)
<1>1. entry \in Entries /\ batch \in Seq(Entries)
  BY DEF BatchInv
<1>2. entry.gcda = path
  BY EntryOfNode
<1> HIDE DEF Entries, entry
<1>3. batch' = Append(batch, entry)
  BY DEF entry
<1>4. /\ Len(batch) \in Nat /\ DOMAIN batch = 1 .. Len(batch)
      /\ batch' \in Seq(Entries) /\ Len(batch') = Len(batch) + 1
      /\ \A k \in 1 .. Len(batch) : batch'[k] = batch[k]
      /\ batch'[Len(batch) + 1] = entry
  BY ONLY <1>1, <1>3, AppendProperties, LenProperties
<1>5. DOMAIN batch' = 1 .. Len(batch) + 1
  BY <1>4, LenProperties
<1>6. \A k \in 1 .. Len(batch) : batch[k].gcda \in Listed
  BY <1>4 DEF Listed
<1>7. NoneTwice'
  <2> SUFFICES ASSUME NEW i \in DOMAIN batch', NEW j \in DOMAIN batch',
                      batch'[i].gcda = batch'[j].gcda
               PROVE  i = j
    BY DEF NoneTwice
  <2>1. CASE i \in 1 .. Len(batch) /\ j \in 1 .. Len(batch)
    BY <1>4, <2>1 DEF BatchInv, NoneTwice
  <2>2. CASE i \in 1 .. Len(batch) /\ j = Len(batch) + 1
    BY <1>2, <1>4, <1>6, <2>2
  <2>3. CASE i = Len(batch) + 1 /\ j \in 1 .. Len(batch)
    BY <1>2, <1>4, <1>6, <2>3
  <2> QED
    BY <1>4, <1>5, <2>1, <2>2, <2>3
<1>8. Listed' = Listed \cup {path}
  <2>1. ASSUME NEW n \in Listed' PROVE n \in Listed \cup {path}
    <3>1. PICK k \in DOMAIN batch' : n = batch'[k].gcda
      BY DEF Listed
    <3>2. k \in 1 .. Len(batch) \/ k = Len(batch) + 1
      BY <1>4, <1>5
    <3> QED
      BY <1>2, <1>4, <1>6, <3>1, <3>2
  <2>2. ASSUME NEW n \in Listed PROVE n \in Listed'
    <3>1. PICK k \in 1 .. Len(batch) : n = batch[k].gcda
      BY <1>4 DEF Listed
    <3>2. k \in DOMAIN batch' /\ batch'[k].gcda = n
      BY <1>4, <1>5, <3>1
    <3> QED
      BY <3>2 DEF Listed
  <2>3. path \in Listed'
    <3>1. Len(batch) + 1 \in DOMAIN batch' /\ batch'[Len(batch) + 1].gcda = path
      BY <1>2, <1>4, <1>5
    <3> QED
      BY <3>1 DEF Listed
  <2> QED
    BY <2>1, <2>2, <2>3
<1>9. {Entry(n) : n \in Found}' = Entries
  BY NodesKept DEF Entries
<1> QED
  BY <1>4, <1>7, <1>8, <1>9 DEF BatchInv

\* What Traverse does to the batch, for a path that has not been traversed.
LEMMA ListStep ==
  ASSUME BatchInv, NEW path \in Below, path \notin Listed, UNCHANGED tree,
         batch' = IF IsGcdaFile(path) THEN Append(batch, Entry(path)) ELSE batch
  PROVE  /\ BatchInv'
         /\ Listed' = IF IsGcdaFile(path) THEN Listed \cup {path} ELSE Listed
<1>1. CASE IsGcdaFile(path)
  BY <1>1, AppendEntry DEF Found
<1>2. CASE ~IsGcdaFile(path)
  <2>1. UNCHANGED batch
    BY <1>2
  <2>2. Listed' = Listed /\ NoneTwice'
    BY <2>1 DEF Listed, NoneTwice, BatchInv
  <2>3. {Entry(n) : n \in Found}' = {Entry(n) : n \in Found}
    BY NodesKept
  <2> QED
    BY <1>2, <2>1, <2>2, <2>3 DEF BatchInv
<1> QED
  BY <1>1, <1>2

LEMMA ReadFolderStep == WalkInv /\ ReadFolder => WalkInv'
<1> SUFFICES ASSUME WalkInv, ReadFolder PROVE WalkInv'
  OBVIOUS
<1>1. status = "running" /\ stack # <<>>
  BY DEF ReadFolder
<1>2. PICK path \in Head(stack).left :
        Traverse(path, <<[Head(stack) EXCEPT !.left = @ \ {path}]>> \o Tail(stack))
  BY DEF ReadFolder
<1>3. PICK callers : callers = <<[Head(stack) EXCEPT !.left = @ \ {path}]>> \o Tail(stack)
  OBVIOUS
<1>4. Traverse(path, callers)
  BY <1>2, <1>3
<1>5. /\ callers \in Seq(Frames) /\ Apart(callers)
      /\ path \in Pending /\ LeftOn(callers) = Pending \ {path}
  BY <1>1, <1>3, CallersLeft DEF WalkInv, StackInv, Pending
<1> HIDE <1>2, <1>3
<1>6. PICK V \in SUBSET Nodes : Covers(V)
  BY <1>1 DEF WalkInv
<1>7. path \in Below /\ path \in Nodes /\ path \notin V /\ path \notin Listed
  BY <1>5, <1>6 DEF Covers, Below
<1>8. UNCHANGED tree /\ tree \in Trees
  BY <1>4 DEF Traverse, WalkInv
<1>9. /\ BatchInv'
      /\ Listed' = IF IsGcdaFile(path) THEN Listed \cup {path} ELSE Listed
  <2>1. batch' = IF IsGcdaFile(path) THEN Append(batch, Entry(path)) ELSE batch
    BY <1>4 DEF Traverse
  <2> QED
    BY <1>7, <1>8, <2>1, ListStep DEF WalkInv
<1>10. Frames' = Frames
  BY <1>8, NodesKept
<1>11. CASE ~IsFolder(path)
  <2>1. stack' = callers /\ status' = status
    BY <1>4, <1>11 DEF Traverse
  <2>2. StackInv'
    BY <1>5, <1>10, <2>1 DEF StackInv
  <2>3. Pending' = (Pending \ {path}) \cup {}
    BY <1>5, <2>1 DEF Pending
  <2>4. \E W \in SUBSET Nodes' : Covers(W)'
    BY <1>5, <1>6, <1>8, <1>9, <1>11, <2>3, VisitCovers
  <2> QED
    BY <1>1, <1>8, <1>9, <2>1, <2>2, <2>4 DEF WalkInv
<1>12. CASE IsFolder(path) /\ path \in tree.refused
  <2>1. stack' = <<>> /\ status' = "died"
    BY <1>4, <1>12 DEF Traverse
  <2>2. StackInv'
    BY <2>1 DEF StackInv, Apart
  <2> QED
    BY <1>8, <1>9, <2>1, <2>2 DEF WalkInv
<1>13. CASE IsFolder(path) /\ path \notin tree.refused
  <2> DEFINE frame == [folder |-> path, left |-> tree.sub[path]]
  <2>1. stack' = <<frame>> \o callers /\ status' = status
    BY <1>4, <1>13 DEF Traverse
  <2>2. frame \in Frames /\ frame.left = tree.sub[path]
    <3>1. tree.sub[path] \subseteq Nodes
      BY <1>13 DEF Nodes, IsFolder
    <3> QED
      BY <1>7, <3>1 DEF Frames
  <2>3. tree.sub[path] \cap Pending = {}
    BY <1>6, <1>7, <1>8, <1>13, EntriesAreNew DEF IsFolder
  <2> HIDE DEF frame
  <2>4. frame.left \cap LeftOn(callers) = {}
    BY <1>5, <2>2, <2>3
  <2>5. /\ <<frame>> \o callers \in Seq(Frames) /\ Apart(<<frame>> \o callers)
        /\ LeftOn(<<frame>> \o callers) = frame.left \cup LeftOn(callers)
    BY <1>5, <2>2, <2>4, PushLeft
  <2>6. StackInv'
    BY <1>10, <2>1, <2>5 DEF StackInv
  <2>7. Pending' = (Pending \ {path}) \cup tree.sub[path]
    BY <1>5, <2>1, <2>2, <2>5 DEF Pending
  <2>8. \E W \in SUBSET Nodes' : Covers(W)'
    BY <1>5, <1>6, <1>8, <1>9, <1>13, <2>7, VisitCovers
  <2> QED
    BY <1>1, <1>8, <1>9, <2>1, <2>6, <2>8 DEF WalkInv
<1> QED
  BY <1>11, <1>12, <1>13

LEMMA CoversKept ==
  ASSUME UNCHANGED <<tree, batch>>, Pending' = Pending, \E V \in SUBSET Nodes : Covers(V)
  PROVE  \E V \in SUBSET Nodes' : Covers(V)'
<1>1. PICK V \in SUBSET Nodes : Covers(V)
  OBVIOUS
<1>2. Nodes' = Nodes /\ Below' = Below /\ Listed' = Listed
  BY NodesKept DEF Listed
<1>3. Covers(V)'
  BY <1>1, <1>2 DEF Covers
<1> QED
  BY <1>2, <1>3

LEMMA BatchKept ==
  ASSUME BatchInv, UNCHANGED <<tree, batch>>
  PROVE  BatchInv'
<1>1. {Entry(n) : n \in Found}' = {Entry(n) : n \in Found}
  BY NodesKept
<1>2. NoneTwice'
  BY DEF BatchInv, NoneTwice
<1> QED
  BY <1>1, <1>2 DEF BatchInv

LEMMA ReturnStep == WalkInv /\ Return => WalkInv'
<1> SUFFICES ASSUME WalkInv, Return PROVE WalkInv'
  OBVIOUS
<1>1. /\ status = "running" /\ stack # <<>> /\ Head(stack).left = {}
      /\ stack' = Tail(stack) /\ UNCHANGED <<tree, batch>>
      /\ status' = IF Len(stack) = 1 THEN "done" ELSE status
  BY DEF Return
<1>2. /\ Len(stack) \in Nat /\ Len(stack) >= 1 /\ DOMAIN stack = 1 .. Len(stack)
      /\ Head(stack) = stack[1]
      /\ stack' \in Seq(Frames) /\ Len(stack') = Len(stack) - 1
      /\ \A k \in 1 .. Len(stack') : stack'[k] = stack[k + 1]
  BY <1>1, HeadTailProperties, LenProperties, EmptySeq DEF WalkInv, StackInv
<1>3. DOMAIN stack' = 1 .. Len(stack) - 1
  BY <1>2, LenProperties
<1>4. \A k \in DOMAIN stack' : k + 1 \in DOMAIN stack /\ stack'[k] = stack[k + 1]
  BY <1>2, <1>3
<1>5. Apart(stack)'
  <2> SUFFICES ASSUME NEW j \in DOMAIN stack', NEW k \in DOMAIN stack', j # k
               PROVE  stack'[j].left \cap stack'[k].left = {}
    BY DEF Apart
  <2>1. j + 1 # k + 1
    BY <1>2, <1>3
  <2> QED
    BY <1>4, <2>1 DEF WalkInv, StackInv, Apart
<1>6. Pending' = Pending
  <2>1. ASSUME NEW n \in Pending PROVE n \in Pending'
    <3>1. PICK k \in DOMAIN stack : n \in stack[k].left
      BY DEF Pending, LeftOn
    <3>2. k # 1
      BY <1>1, <1>2, <3>1
    <3>3. k - 1 \in DOMAIN stack' /\ (k - 1) + 1 = k
      BY <1>2, <1>3, <3>2
    <3>4. stack'[k - 1] = stack[k]
      BY <1>4, <3>3
    <3> QED
      BY <3>1, <3>3, <3>4 DEF Pending, LeftOn
  <2>2. ASSUME NEW n \in Pending' PROVE n \in Pending
    <3>1. PICK k \in DOMAIN stack' : n \in stack'[k].left
      BY DEF Pending, LeftOn
    <3> QED
      BY <1>4, <3>1 DEF Pending, LeftOn
  <2> QED
    BY <2>1, <2>2
<1>7. \E V \in SUBSET Nodes' : Covers(V)'
  BY <1>1, <1>6, CoversKept DEF WalkInv
<1>8. StackInv' /\ BatchInv' /\ tree' \in Trees
  BY <1>1, <1>2, <1>5, NodesKept, BatchKept DEF WalkInv, StackInv
<1>9. status' = "done" => stack' = <<>>
  <2>1. Len(stack) = 1 => stack' = <<>>
    BY <1>2, EmptySeq
  <2> QED
    BY <1>1, <2>1
<1>10. status' # "new"
  BY <1>1
<1> QED
  BY <1>7, <1>8, <1>9, <1>10 DEF WalkInv

LEMMA CreateStep == WalkInv /\ Create => WalkInv'
<1> SUFFICES ASSUME WalkInv, Create PROVE WalkInv'
  OBVIOUS
<1>1. /\ status = "new" /\ status' \in {"running", "died"} /\ UNCHANGED <<tree, batch>>
      /\ batch = <<>>
  BY DEF Create, WalkInv
<1>2. BatchInv' /\ tree' \in Trees /\ Listed' = {}
  BY <1>1, BatchKept DEF WalkInv, Listed
<1>3. CASE status' = "died"
  <2>1. stack' = <<>>
    BY <1>3 DEF Create
  <2> QED
    BY <1>2, <1>3, <2>1 DEF WalkInv, StackInv, Apart
<1>4. CASE status' = "running"
  <2> DEFINE frame == [folder |-> <<>>, left |-> {GcdaFolder}]
  <2>1. stack' = <<frame>>
    BY <1>4 DEF Create
  <2>2. frame \in Frames' /\ frame.left = {GcdaFolder}
    BY DEF Frames, Nodes
  <2> HIDE DEF frame
  <2>3. DOMAIN stack' = {1} /\ stack'[1] = frame /\ stack' \in Seq(Frames')
    BY <2>1, <2>2
  <2>4. StackInv' /\ Pending' = {GcdaFolder}
    BY <2>2, <2>3 DEF StackInv, Apart, Pending, LeftOn
  <2>5. GcdaFolder \in Below'
    BY <1>1, NodesKept, RootBelow
  <2>6. Covers({})'
    BY <1>2, <2>4, <2>5 DEF Covers
  <2> QED
    BY <1>2, <1>4, <2>4, <2>6 DEF WalkInv
<1> QED
  BY <1>1, <1>3, <1>4

LEMMA WalkInit == Init => WalkInv
BY DEF Init, WalkInv, StackInv, BatchInv, Apart, NoneTwice

LEMMA WalkStep == WalkInv /\ [Next]_vars => WalkInv'
<1> SUFFICES ASSUME WalkInv, [Next]_vars PROVE WalkInv'
  OBVIOUS
<1>1. CASE Next
  BY <1>1, CreateStep, ReadFolderStep, ReturnStep DEF Next
<1>2. CASE UNCHANGED vars
  <2>1. UNCHANGED <<tree, stack, batch, status>>
    BY <1>2 DEF vars
  <2>2. StackInv' /\ BatchInv'
    BY <2>1, NodesKept, BatchKept DEF WalkInv, StackInv, Apart
  <2>3. Pending' = Pending
    BY <2>1 DEF Pending
  <2> QED
    BY <2>1, <2>2, <2>3, CoversKept DEF WalkInv
<1> QED
  BY <1>1, <1>2

\* What Below says directly: it lies in each closed set that holds the folder.
LEMMA CoverIsAll ==
  ASSUME NEW V \in SUBSET Nodes, Covers(V), Pending = {}
  PROVE  V = Below
<1>1. V \subseteq Below /\ GcdaFolder \in V
  BY DEF Covers
<1>2. \A d \in V \cap DOMAIN tree.sub : tree.sub[d] \subseteq V
  BY DEF Covers
<1>3. Below \subseteq V
  BY <1>1, <1>2 DEF Below
<1> QED
  BY <1>1, <1>3

\* A batch that create finishes lists every .gcda file below the folder once,
\* for trees of any shape and depth and whatever order readdir returns.
THEOREM AllListedOnce == Spec => []EachListedOnce
<1>1. WalkInv => EachListedOnce
  <2> SUFFICES ASSUME WalkInv PROVE EachListedOnce
    OBVIOUS
  <2>1. \A i, j \in DOMAIN batch : batch[i].gcda = batch[j].gcda => i = j
    BY DEF WalkInv, BatchInv, NoneTwice
  <2>2. ASSUME status = "done" PROVE {n \in Files : IsGcdaFile(n)} \subseteq Listed
    <3>1. PICK V \in SUBSET Nodes : Covers(V)
      BY <2>2 DEF WalkInv
    <3>2. Pending = {}
      BY <2>2 DEF WalkInv, Pending, LeftOn
    <3> QED
      BY <3>1, <3>2, CoverIsAll DEF Covers, Files
  <2> QED
    BY <2>1, <2>2 DEF EachListedOnce
<1> QED
  BY <1>1, WalkInit, WalkStep, PTL DEF Spec

-----------------------------------------------------------------------------
(* Names.                                                                   *)

\* A path that begins with the folder's own.
FromFolder(path) ==
  /\ path \in Seq(STRING) /\ Len(path) >= Len(GcdaFolder)
  /\ \A i \in 1 .. Len(GcdaFolder) : path[i] = GcdaFolder[i]

LEMMA BelowFromFolder ==
  ASSUME tree \in Trees, NEW n \in Below
  PROVE  FromFolder(n)
<1> DEFINE S == {m \in Nodes : FromFolder(m)}
<1>1. GcdaFolder \in Seq(STRING) /\ Len(GcdaFolder) \in Nat
  BY PathsAssumption, LenProperties
<1>2. GcdaFolder \in S
  BY <1>1 DEF FromFolder, Nodes
<1>3. ASSUME NEW d \in S \cap DOMAIN tree.sub, NEW e \in tree.sub[d]
      PROVE  e \in S
  <2>1. /\ d \in Seq(STRING) /\ e \in Seq(STRING) /\ Len(e) > Len(d) + 1
        /\ \A i \in 1 .. Len(d) : e[i] = d[i]
    BY PathsAssumption
  <2>2. FromFolder(d) /\ Len(d) \in Nat /\ Len(e) \in Nat
    BY <2>1, LenProperties
  <2>3. \A i \in 1 .. Len(GcdaFolder) : i \in 1 .. Len(d)
    BY <1>1, <2>2 DEF FromFolder
  <2>4. FromFolder(e)
    BY <1>1, <2>1, <2>2, <2>3 DEF FromFolder
  <2> QED
    BY <2>4 DEF Nodes
<1>4. n \in S
  BY <1>2, <1>3 DEF Below
<1> QED
  BY <1>4

\* The greatest and the least of a set of numbers, where one is known to be it.
LEMMA MaxIs ==
  ASSUME NEW S \in SUBSET Int, NEW m \in S, \A i \in S : i <= m
  PROVE  Max(S) = m
<1>1. \E x \in S : \A y \in S : x >= y
  OBVIOUS
<1>2. PICK x \in S : x = Max(S) /\ \A y \in S : x >= y
  BY <1>1, Zenon DEF Max
<1>3. x \in Int /\ m \in Int /\ x >= m /\ x <= m
  BY <1>2
<1>4. x = m
  BY <1>3
<1> QED
  BY <1>2, <1>4

LEMMA MinIs ==
  ASSUME NEW S \in SUBSET Int, NEW m \in S, \A i \in S : m <= i
  PROVE  Min(S) = m
<1>1. \E x \in S : \A y \in S : x <= y
  OBVIOUS
<1>2. PICK x \in S : x = Min(S) /\ \A y \in S : x <= y
  BY <1>1, Zenon DEF Min
<1>3. x \in Int /\ m \in Int /\ x <= m /\ x >= m
  BY <1>2
<1>4. x = m
  BY <1>3
<1> QED
  BY <1>2, <1>4

\* Below a folder whose path ends in `Application', nothing that looks like it or
\* like the suffix comes after it but the suffix itself.
LEMMA SamePlaceOfPlain ==
  ASSUME GcdaFolder[Len(GcdaFolder)] = "Application",
         NEW path, FromFolder(path), IsGcdaFile(path), PlainNames(path)
  PROVE  SamePlace(Entry(path))
<1> DEFINE l == Len(GcdaFolder)
           n == Len(path)
           rel == SubSeq(path, l + 1, n)
<1>1. GcdaFolder \in Seq(STRING) /\ l \in Nat /\ path \in Seq(STRING) /\ n \in Nat /\ l <= n
  BY PathsAssumption, LenProperties DEF FromFolder
<1>2. l >= 1
  <2>1. PICK i \in DOMAIN GcdaFolder : GcdaFolder[i] = "Application"
    BY FolderAssumption
  <2>2. DOMAIN GcdaFolder = 1 .. l
    BY <1>1, LenProperties
  <2> QED
    BY <1>1, <2>1, <2>2
<1>3. path[l] = "Application" /\ path[n] = ".gcda"
  BY <1>1, <1>2 DEF FromFolder, IsGcdaFile
<1>4. l < n
  BY <1>1, <1>3
<1>5. \A i \in l + 1 .. n - 1 : path[i] # "Application" /\ path[i] # ".gcda"
  BY DEF PlainNames
<1> HIDE DEF l, n
<1>6. LastOf("Application", path) = l
  <2> DEFINE I == {i \in 1 .. n : path[i] = "Application"}
  <2>1. l \in I /\ I \in SUBSET Int
    BY <1>1, <1>2, <1>3
  <2>2. \A i \in I : i <= l
    BY <1>1, <1>3, <1>4, <1>5
  <2> HIDE DEF I
  <2>3. Max(I) = l /\ I # {}
    BY <2>1, <2>2, MaxIs
  <2> QED
    BY <2>3 DEF LastOf, SelectLastInSeq, I, n
<1>7. /\ rel \in Seq(STRING) /\ Len(rel) = n - l
      /\ \A i \in 1 .. n - l : rel[i] = path[l + i]
  BY <1>1, <1>4, SubSeqProperties DEF n
<1>8. RelativePath(path) = rel
  BY <1>6 DEF RelativePath, n
<1> HIDE DEF rel
<1>9. FirstOf(".gcda", rel) = n - l
  <2> DEFINE I == {i \in 1 .. Len(rel) : rel[i] = ".gcda"}
  <2>1. n - l \in I /\ I \in SUBSET Int
    BY <1>1, <1>3, <1>4, <1>7
  <2>2. \A i \in I : n - l <= i
    BY <1>1, <1>4, <1>5, <1>7
  <2> HIDE DEF I
  <2>3. Min(I) = n - l /\ I # {}
    BY <2>1, <2>2, MinIs
  <2> QED
    BY <2>3 DEF FirstOf, SelectInSeq, I
<1>10. GcnoPath(path) = GcnoFolder \o [rel EXCEPT ![n - l] = ".gcno"]
  <2>1. [i \in DOMAIN rel |-> IF i = n - l THEN ".gcno" ELSE rel[i]]
          = [rel EXCEPT ![n - l] = ".gcno"]
    BY <1>7
  <2> QED
    BY <1>8, <1>9, <2>1 DEF GcnoPath
<1> QED
  BY <1>10, EntryOfNode DEF SamePlace, rel, n, l

\* The case of a folder whose path ends in `Application', which is how create is
\* called: each plain .gcda is paired with the .gcno at its own place.
THEOREM ObjectsStayPaired ==
  ASSUME GcdaFolder[Len(GcdaFolder)] = "Application"
  PROVE  Spec => []GcnoOfSameObject
<1>1. WalkInv => GcnoOfSameObject
  <2> SUFFICES ASSUME WalkInv, NEW i \in DOMAIN batch, PlainNames(batch[i].gcda)
               PROVE  SamePlace(batch[i])
    BY DEF GcnoOfSameObject
  <2>1. batch[i] \in {Entry(n) : n \in Found}
    BY ElementOfSeq, LenProperties DEF WalkInv, BatchInv
  <2>2. PICK n \in Found : batch[i] = Entry(n)
    BY <2>1
  <2>3. batch[i].gcda = n
    BY <2>2, EntryOfNode
  <2>4. FromFolder(n) /\ IsGcdaFile(n)
    BY BelowFromFolder DEF WalkInv, Found
  <2> QED
    BY <2>2, <2>3, <2>4, SamePlaceOfPlain
<1> QED
  BY <1>1, WalkInit, WalkStep, PTL DEF Spec
=============================================================================
